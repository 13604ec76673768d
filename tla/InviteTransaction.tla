------------------------- MODULE InviteTransaction -------------------------
(***************************************************************************)
(* An INVITE client transaction and an INVITE server transaction over an   *)
(* unreliable network that loses, duplicates and reorders their messages.  *)
(* The messages in flight are the sets `out` of the two transactions: the  *)
(* network delivers each as often as it likes, in any order, or never.     *)
(* The two hosts' clocks run at the same rate.  The calling dialog         *)
(* acknowledges every 2xx it is given (send_ACK, tsip_dialog_invite.c).    *)
(***************************************************************************)
EXTENDS Integers, Sequences

CONSTANTS
  Faults, T1, T2, Timeout64T1, TimeoutD, TimeoutI,  \* as in the transactions
  MaxCallerTu, MaxCalleeTu      \* bounds of the exchanges with the two users

VARIABLES
  cState, cExec, cEnding, cLife, cPeriod, cPending, cRaised, cStoring, cActing,
  cMishaps, cTu, cOut,
  sState, sExec, sEnding, sLife, sPeriod, sPending, sRaised, sStoring, sActing,
  sMishaps, sTu, sOut, sLastResponse, sAcked, sLateX,
  reliable,   \* FALSE: the network is unreliable
  userAck     \* an ACK of the calling dialog is in flight

cVars == <<cState, cExec, cEnding, cLife, cPeriod, cPending, cRaised, cStoring,
           cActing, cMishaps, cTu>>
sVars == <<sState, sExec, sEnding, sLife, sPeriod, sPending, sRaised, sStoring,
           sActing, sMishaps, sTu, sLastResponse, sAcked, sLateX>>

C == INSTANCE InviteClientTransac WITH
  Kinds <- {"A", "B", "D", "M"}, Reliables <- {FALSE},
  TimeoutB <- Timeout64T1, TimeoutM <- Timeout64T1,
  Responses <- {"1xx", "2xx", "3xx"}, MaxTu <- MaxCallerTu,
  state <- cState, exec <- cExec, ending <- cEnding, life <- cLife,
  period <- cPeriod, pending <- cPending, raised <- cRaised,
  storing <- cStoring, acting <- cActing, mishaps <- cMishaps, tu <- cTu,
  out <- cOut

S == INSTANCE InviteServerTransac WITH
  Kinds <- {"G", "H", "I", "L", "X"}, Reliables <- {FALSE},
  TimeoutH <- Timeout64T1, TimeoutL <- Timeout64T1, MaxTu <- MaxCalleeTu,
  state <- sState, exec <- sExec, ending <- sEnding, life <- sLife,
  period <- sPeriod, pending <- sPending, raised <- sRaised,
  storing <- sStoring, acting <- sActing, mishaps <- sMishaps, tu <- sTu,
  out <- sOut, lastResponse <- sLastResponse, acked <- sAcked, lateX <- sLateX

Init == C!Init /\ S!Init /\ userAck = FALSE

-----------------------------------------------------------------------------

(* The class a response has for the client.                                *)
Class(msg) == IF msg = "100" THEN "1xx" ELSE msg

(* tsip_transac_layer_handle_incoming_msg finds the client transaction as  *)
(* long as it is in the layer's list; its dialog acknowledges a 2xx.       *)
ClientReceives ==
  /\ cLife = "listed"
  /\ \E msg \in sOut :
        /\ C!Receive(Class(msg))
        /\ userAck' = (userAck \/ (Class(msg) = "2xx"))
  /\ UNCHANGED <<sVars, sOut>>

ServerReceivesINVITE ==
  /\ sLife = "listed" /\ "INVITE" \in cOut
  /\ S!ReceiveINVITE
  /\ UNCHANGED <<cVars, cOut, userAck>>

(* An ACK of the client transaction or of its dialog: they carry the same  *)
(* Call-ID and CSeq number, which is all the server looks at.              *)
ServerReceivesACK ==
  /\ sLife = "listed"
  /\ S!ReceiveACK
  /\ "ACK" \in cOut \/ userAck
  /\ UNCHANGED <<cVars, cOut, userAck>>

(* The steps of each side that take no message.                            *)
ClientAlone ==
  /\ \/ C!Started_2_Calling_send \/ C!OnTimer \/ C!Dtor
     \/ C!Return \/ C!Finish \/ C!RaiseTimer \/ C!MatchTimer
  /\ UNCHANGED <<sVars, sOut, userAck>>

ServerAlone ==
  /\ \/ S!Answer \/ S!OnTimer \/ S!Dtor
     \/ (S!Return \/ S!Finish \/ S!RaiseTimer \/ S!MatchTimer) /\ S!Own
  /\ UNCHANGED <<cVars, cOut, userAck>>

(* Time passes for both, for the one that has timers.                      *)
Tick ==
  /\ cExec = "no" /\ sExec = "no"
  /\ \/ C!Tick /\ S!Tick /\ S!Own
     \/ C!Tick /\ sPending = {} /\ UNCHANGED <<sVars, sOut>>
     \/ S!Tick /\ S!Own /\ cPending = {} /\ UNCHANGED <<cVars, cOut>>
  /\ UNCHANGED userAck

(* Each side runs as its own specification assumes; no message need ever   *)
(* arrive.                                                                 *)
ClientRuns == (C!Return \/ C!Finish) /\ UNCHANGED <<sVars, sOut, userAck>>
ClientTimerRaised == C!RaiseTimer /\ UNCHANGED <<sVars, sOut, userAck>>
ServerAction(step) == step /\ S!Own /\ UNCHANGED <<cVars, cOut, userAck>>
ServerRuns == ServerAction(S!Return \/ S!Finish)
ServerTimerRaised == ServerAction(S!RaiseTimer)
ServerTimerMatched == ServerAction(S!MatchTimer)
ServerTimerHandled == S!OnTimer /\ UNCHANGED <<cVars, cOut, userAck>>

-----------------------------------------------------------------------------
(* What the two users know. *)

Told(user, event) == \E i \in 1..Len(user) : user[i] = event

(* What the caller heard last.                                             *)
Meaning(event) ==
  CASE event = "2xx"      -> "accepted"
    [] event = "3xx"      -> "rejected"
    [] event = "timedout" -> "failed"
    [] event = "1xx"      -> "ringing"

CallerView == IF cTu = <<>> THEN "waiting" ELSE Meaning(cTu[Len(cTu)])

CalleeView ==
  IF Told(sTu, "transport_error") THEN "failed"
  ELSE IF sAcked             THEN "established"
  ELSE IF Told(sTu, "2xx")    THEN "accepted"
  ELSE IF Told(sTu, "3xx")    THEN "rejected"
  ELSE IF Told(sTu, "INVITE") THEN "asked"
  ELSE "idle"
=============================================================================
