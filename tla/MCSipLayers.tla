----------------------------- MODULE MCSipLayers -----------------------------
(* Which threads play, over which dialogs.                                 *)
EXTENDS SipLayers

CONSTANTS d1, d2

MCDialogs == {d1, d2}

Kinds(a, b) == (d1 :> a @@ d2 :> b)
Calling(net, timer, user, main) ==
  ("net" :> net @@ "timer" :> timer @@ "user" :> user @@ "main" :> main)

MCCasts ==
  {[calls |-> Calling(1, 1, 1, 0), kind |-> Kinds("other", "incoming")],
   [calls |-> Calling(2, 0, 0, 1), kind |-> Kinds("other", "incoming")],
   [calls |-> Calling(1, 0, 0, 1), kind |-> Kinds("other", "register")],
   [calls |-> Calling(0, 1, 0, 1), kind |-> Kinds("silent", "register")],
   [calls |-> Calling(0, 1, 1, 1), kind |-> Kinds("other", "incoming")],
   [calls |-> Calling(0, 0, 2, 1), kind |-> Kinds("other", "silent")]}
=============================================================================
