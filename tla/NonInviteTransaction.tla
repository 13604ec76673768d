------------------------ MODULE NonInviteTransaction ------------------------
(***************************************************************************)
(* A non-INVITE client transaction and a non-INVITE server transaction     *)
(* over an unreliable network, as InviteTransaction composes the INVITE    *)
(* ones: each message in flight is delivered as often as the network likes,*)
(* in any order, or never.                                                 *)
(***************************************************************************)
EXTENDS Integers, Sequences

CONSTANTS
  Faults, T1, T2, TimeoutF, TimeoutK, TimeoutJ,     \* as in the transactions
  MaxTu                                             \* bounds both exchanges

VARIABLES
  cState, cExec, cEnding, cLife, cPeriod, cPending, cRaised, cStoring, cActing,
  cMishaps, cTu, cOut,
  sState, sExec, sEnding, sLife, sPeriod, sPending, sRaised, sStoring, sActing,
  sMishaps, sTu, sOut, sLastResponse,
  reliable    \* FALSE: the network is unreliable

cVars == <<cState, cExec, cEnding, cLife, cPeriod, cPending, cRaised, cStoring,
           cActing, cMishaps, cTu, cOut>>
sVars == <<sState, sExec, sEnding, sLife, sPeriod, sPending, sRaised, sStoring,
           sActing, sMishaps, sTu, sOut, sLastResponse>>

C == INSTANCE NonInviteClientTransac WITH
  Kinds <- {"E", "F", "K"}, Reliables <- {FALSE}, Responses <- {"1xx", "final"},
  state <- cState, exec <- cExec, ending <- cEnding, life <- cLife,
  period <- cPeriod, pending <- cPending, raised <- cRaised,
  storing <- cStoring, acting <- cActing, mishaps <- cMishaps, tu <- cTu,
  out <- cOut

S == INSTANCE NonInviteServerTransac WITH
  Kinds <- {"J"}, Reliables <- {FALSE},
  state <- sState, exec <- sExec, ending <- sEnding, life <- sLife,
  period <- sPeriod, pending <- sPending, raised <- sRaised,
  storing <- sStoring, acting <- sActing, mishaps <- sMishaps, tu <- sTu,
  out <- sOut, lastResponse <- sLastResponse

Init == C!Init /\ S!Init

ClientReceives ==
  /\ cLife = "listed"
  /\ \E msg \in sOut : C!Receive(msg)
  /\ UNCHANGED sVars

ServerReceives ==
  /\ sLife = "listed" /\ "request" \in cOut
  /\ S!ReceiveRequest
  /\ UNCHANGED cVars

ClientAlone ==
  /\ \/ C!Started_2_Trying_send \/ C!ScheduleK \/ C!OnTimer \/ C!Fault \/ C!Dtor
     \/ C!Return \/ C!Finish \/ C!RaiseTimer \/ C!MatchTimer
  /\ UNCHANGED sVars

ServerAlone ==
  /\ \/ S!Answer \/ S!OnTimer \/ S!Fault \/ S!Dtor
     \/ (S!Return \/ S!Finish \/ S!RaiseTimer \/ S!MatchTimer) /\ S!Own
  /\ UNCHANGED cVars

(* Time passes for both, for the one that has timers.                      *)
Tick ==
  /\ cExec = "no" /\ sExec = "no"
  /\ \/ C!Tick /\ S!Tick /\ S!Own
     \/ C!Tick /\ sPending = {} /\ UNCHANGED sVars
     \/ S!Tick /\ S!Own /\ cPending = {} /\ UNCHANGED cVars

-----------------------------------------------------------------------------
(* What the two users know. *)

Told(user, event) == \E i \in 1..Len(user) : user[i] = event

(* What the client's user heard last; one that cancels after the answer    *)
(* still has it.                                                           *)
Heard == {i \in 1..Len(cTu) : cTu[i] \in C!Verdicts \union {"1xx"}}
LastHeard ==
  IF Heard = {} THEN "nothing"
  ELSE cTu[CHOOSE i \in Heard : \A j \in Heard : j <= i]

RequesterView ==
  IF LastHeard = "final" THEN "answered"
  ELSE IF LastHeard \in C!Verdicts \/ Told(cTu, "canceled") THEN "failed"
  ELSE IF LastHeard = "1xx" THEN "progress"
  ELSE "waiting"

ResponderView ==
  IF Told(sTu, "final") THEN "answered"
  ELSE IF Told(sTu, "request") THEN "asked"
  ELSE "idle"
=============================================================================
