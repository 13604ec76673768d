--------------------------- MODULE TransactionPairs ---------------------------
(***************************************************************************)
(* A client transaction and its server transaction over an unreliable      *)
(* network: a pair of INVITE transactions, composed by InviteTransaction,  *)
(* or of non-INVITE ones, by NonInviteTransaction; `method` tells which.   *)
(* What either pair promises to its two users is InviteCall and            *)
(* RequestReply.                                                           *)
(***************************************************************************)
EXTENDS Integers, Sequences

CONSTANTS
  Methods,                              \* of the pairs that are looked at
  InviteFaults, NonInviteFaults,        \* besides the network's, as in Transac
  T1, T2, Timeout64T1, TimeoutD, TimeoutI,
  TimeoutF, TimeoutK, TimeoutJ,         \* as in the transactions
  MaxCallerTu, MaxCalleeTu, MaxTu       \* bounds of the exchanges with users

(* A transport that refuses a 100 or an ACK keeps the INVITE or the        *)
(* rejection from its user, InviteCall has no word for a user that refuses *)
(* what it is given, and an error reported from below may follow an answer:*)
(* the promises are made without them.  All that the network loses, repeats*)
(* or reorders is left.                                                    *)
ASSUME PairsAssumption ==
  /\ InviteFaults \cap {"send", "refuse"} = {}
  /\ NonInviteFaults \cap {"transport_error", "error"} = {}

VARIABLES
  method,
  cState, cExec, cEnding, cLife, cPeriod, cPending, cRaised, cStoring, cActing,
  cMishaps, cTu, cOut,
  sState, sExec, sEnding, sLife, sPeriod, sPending, sRaised, sStoring, sActing,
  sMishaps, sTu, sOut, sLastResponse, sAcked, sLateX,
  reliable, userAck

inviteVars == <<sAcked, sLateX, userAck>>
vars == <<method, reliable, inviteVars,
  cState, cExec, cEnding, cLife, cPeriod, cPending, cRaised, cStoring, cActing,
  cMishaps, cTu, cOut,
  sState, sExec, sEnding, sLife, sPeriod, sPending, sRaised, sStoring, sActing,
  sMishaps, sTu, sOut, sLastResponse>>

Invite == INSTANCE InviteTransaction WITH Faults <- InviteFaults
NonInvite == INSTANCE NonInviteTransaction WITH Faults <- NonInviteFaults

Inviting(step) == method = "INVITE" /\ step /\ UNCHANGED method
Requesting(step) == method # "INVITE" /\ step /\ UNCHANGED <<method, inviteVars>>

Init ==
  /\ method \in Methods
  /\ IF method = "INVITE" THEN Invite!Init
     ELSE NonInvite!Init /\ sAcked = FALSE /\ sLateX = FALSE /\ userAck = FALSE

Next ==
  \/ Inviting(Invite!ClientAlone) \/ Inviting(Invite!ClientReceives)
  \/ Inviting(Invite!ServerAlone) \/ Inviting(Invite!ServerReceivesINVITE)
  \/ Inviting(Invite!ServerReceivesACK) \/ Inviting(Invite!Tick)
  \/ Requesting(NonInvite!ClientAlone) \/ Requesting(NonInvite!ClientReceives)
  \/ Requesting(NonInvite!ServerAlone) \/ Requesting(NonInvite!ServerReceives)
  \/ Requesting(NonInvite!Tick)

Spec == Init /\ [][Next]_vars

(* The threads of the two hosts run, a raised timer is dispatched; no      *)
(* message need ever arrive.                                               *)
Fairness ==
  /\ WF_vars(Inviting(Invite!ClientRuns)) /\ WF_vars(Inviting(Invite!ClientTimerRaised))
  /\ WF_vars(Inviting(Invite!ServerRuns)) /\ WF_vars(Inviting(Invite!ServerTimerRaised))
  /\ WF_vars(Inviting(Invite!ServerTimerMatched))
  /\ SF_vars(Inviting(Invite!ServerTimerHandled)) /\ SF_vars(Inviting(Invite!Tick))

FairSpec == Spec /\ Fairness

-----------------------------------------------------------------------------
(* Properties *)

Caller == IF method = "INVITE" THEN Invite!CallerView ELSE "waiting"
Callee == IF method = "INVITE" THEN Invite!CalleeView ELSE "idle"
Requester == IF method = "INVITE" THEN "waiting" ELSE NonInvite!RequesterView
Responder == IF method = "INVITE" THEN "idle" ELSE NonInvite!ResponderView

Call == INSTANCE InviteCall WITH caller <- Caller, callee <- Callee
Pair == INSTANCE RequestReply WITH requester <- Requester, responder <- Responder

(* Two INVITE transactions keep the promise of InviteCall: the callee is   *)
(* asked once however often the INVITE is retransmitted or duplicated, the *)
(* caller hears only the answer that was given, and the call is            *)
(* established for the callee only if the caller heard it accepted.        *)
ImplementsCall == Call!CallSpec

(* Two non-INVITE transactions, their timers and the network keep the      *)
(* promise of RequestReply, whatever the users cancel or refuse.           *)
ImplementsRequestReply == Pair!RRSpec

(* A rejection that the INVITE server transaction takes as confirmed was   *)
(* heard by the caller.                                                    *)
ConfirmedWasHeard ==
  method = "INVITE" /\ sState = "Confirmed" => Invite!Told(cTu, "3xx")

(* Whatever the network loses and however late a timer is dispatched, an   *)
(* answered call does not leave its callee in doubt: an acceptance is      *)
(* acknowledged or reported as failed, and a rejection that is not reported*)
(* as failed has been heard.                                               *)
AnswerSettles ==
  (Callee \in {"accepted", "rejected"}) ~>
     (Callee \in {"established", "failed"} \/ Caller = "rejected")
=============================================================================
