----------------------------- MODULE MCSipStack -----------------------------
(* Two sessions alone, two threads of the application that start and stop  *)
(* one stack, one such thread beside a session, one beside a signaller.     *)
EXTENDS SipStack, TLC

CONSTANTS a1, a2, s1, s2

MCApps == {a1, a2}
MCSessions == {s1, s2}

Cast(a, b, s, t, m) == [calls |-> a1 :> a @@ a2 :> b @@ s1 :> s @@ s2 :> t, messages |-> m]

MCCasts ==
  {Cast(0, 0, 2, 2, 0), Cast(2, 1, 0, 0, 0), Cast(2, 0, 1, 0, 0), Cast(2, 0, 0, 0, 2)}
=============================================================================
