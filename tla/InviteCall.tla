----------------------------- MODULE InviteCall -----------------------------
(***************************************************************************)
(* What a pair of INVITE transactions promises to the two users of a call, *)
(* whatever the network does: the callee is asked at most once, the caller *)
(* hears the answer the callee gave or that there was none, and the callee *)
(* takes the call as established only when the caller has heard it accept. *)
(***************************************************************************)
VARIABLES caller, callee

CallerView == {"waiting", "ringing", "accepted", "rejected", "failed"}
CalleeView == {"idle", "asked", "accepted", "rejected", "established", "failed"}

CallInit == caller = "waiting" /\ callee = "idle"

Ask == callee = "idle" /\ callee' = "asked" /\ UNCHANGED caller

(* The callee answers once and for all.                                    *)
AnswerCall ==
  /\ callee = "asked" /\ callee' \in {"accepted", "rejected"}
  /\ UNCHANGED caller

(* A provisional answer is heard before any other.                         *)
HearRinging ==
  /\ caller = "waiting" /\ callee # "idle"
  /\ caller' = "ringing" /\ UNCHANGED callee

(* A final answer is heard only after it was given; the callee may have    *)
(* given up since.                                                         *)
HearAccepted ==
  /\ caller \in {"waiting", "ringing"} /\ callee \in {"accepted", "failed"}
  /\ caller' = "accepted" /\ UNCHANGED callee

HearRejected ==
  /\ caller \in {"waiting", "ringing"} /\ callee \in {"rejected", "failed"}
  /\ caller' = "rejected" /\ UNCHANGED callee

(* The caller gives up only if it has heard nothing at all.                *)
CallerGivesUp ==
  caller = "waiting" /\ caller' = "failed" /\ UNCHANGED callee

Establish ==
  /\ callee = "accepted" /\ caller = "accepted"
  /\ callee' = "established" /\ UNCHANGED caller

CalleeGivesUp ==
  /\ callee \in {"accepted", "rejected"}
  /\ callee' = "failed" /\ UNCHANGED caller

CallNext ==
  \/ Ask \/ AnswerCall \/ HearRinging \/ HearAccepted \/ HearRejected
  \/ CallerGivesUp \/ Establish \/ CalleeGivesUp

CallSpec == CallInit /\ [][CallNext]_<<caller, callee>>
=============================================================================
