---------------------------- MODULE RequestReply ----------------------------
(***************************************************************************)
(* What a pair of non-INVITE transactions promises to its two users,       *)
(* whatever the network does: the request is handled at most once, and the *)
(* requester hears the answer that was given or that something failed.     *)
(***************************************************************************)
VARIABLES requester, responder

RequesterView == {"waiting", "progress", "answered", "failed"}
ResponderView == {"idle", "asked", "answered"}

RRInit == requester = "waiting" /\ responder = "idle"

Ask == responder = "idle" /\ responder' = "asked" /\ UNCHANGED requester

AnswerRequest ==
  responder = "asked" /\ responder' = "answered" /\ UNCHANGED requester

HearProgress ==
  /\ requester = "waiting" /\ responder # "idle"
  /\ requester' = "progress" /\ UNCHANGED responder

HearAnswer ==
  /\ requester \in {"waiting", "progress"} /\ responder = "answered"
  /\ requester' = "answered" /\ UNCHANGED responder

(* Nothing is heard after a failure, which may come although an answer was *)
(* given.                                                                  *)
GiveUp ==
  /\ requester \in {"waiting", "progress"}
  /\ requester' = "failed" /\ UNCHANGED responder

RRNext == Ask \/ AnswerRequest \/ HearProgress \/ HearAnswer \/ GiveUp

RRSpec == RRInit /\ [][RRNext]_<<requester, responder>>
=============================================================================
