----------------------- MODULE NonInviteServerTransac -----------------------
(***************************************************************************)
(* The server transaction of every request but INVITE,                     *)
(* tsip_transac_nist.c: one action per entry of its state machine, on the  *)
(* base class of Transac.  Requests arrive from the environment; the user  *)
(* answers from a thread of its own or from inside a delivery.             *)
(***************************************************************************)
EXTENDS Transac

CONSTANTS
  TimeoutJ,                          \* in units of T1
  MaxTu                              \* bounds the exchange with the user

VARIABLES lastResponse               \* what a retransmitted request is answered

vars == <<transacVars, lastResponse>>

NISTAssumption ==
  /\ Kinds = {"J"}
  /\ TimeoutJ \in Nat \ {0}
  /\ Reliables \subseteq BOOLEAN

States == {"Started", "Trying", "Proceeding", "Completed", "Terminated"}
Answers == {"1xx", "final"}
Exchange == {"request", "transport_error", "error", "refused", "canceled"}
            \union Answers

TypeOK ==
  /\ TransacTypeOK
  /\ state \in States
  /\ out \subseteq Answers
  /\ tu \in Seq(Exchange)
  /\ lastResponse \in {"none"} \union Answers

(* There is no retransmission timer; the period is not used.               *)
Init == TransacInit(0) /\ lastResponse = "none"

JTimeout == IF reliable THEN 0 ELSE TimeoutJ
Response(sent, msg) == IF sent THEN {msg} ELSE {}
Own == UNCHANGED lastResponse

(* Seeded fault: the response is not remembered.                           *)
RespondForgetful(to, answer, new, checked) ==
  /\ Len(tu) < MaxTu
  /\ Handle(to, {}, new, {answer}, <<answer>>, "ok")
  /\ UNCHANGED <<period, acting, lastResponse>>

(* A response of the user, sent first, then remembered; `checked`: is the  *)
(* result of the send returned?                                            *)
Respond(to, answer, new, checked) ==
  /\ Len(tu) < MaxTu
  /\ \E sent \in Sent :
        LET ok == sent \/ ~checked
        IN  \/ Handle(to, {}, new, Response(sent, answer), <<answer>>,
                      IF ok THEN "ok" ELSE "fail")
            \/ HandleNested(to, {}, new, Response(sent, answer), <<answer>>, ok)
  /\ lastResponse' = answer
  /\ UNCHANGED <<period, acting>>

(* A retransmission of the request is answered without looking at the      *)
(* result of the send.                                                     *)
Resend(to) ==
  /\ \E sent \in Sent :
        Handle(to, {}, {}, Response(sent, lastResponse), <<>>, "ok")
  /\ UNCHANGED <<period, acting, lastResponse>>

(* ----- the transitions, under the names of their functions ------------- *)

Started_2_Trying_request ==
  /\ state = "Started"
  /\ Handle("Trying", {}, {}, {}, <<"request">>, "user")
  /\ UNCHANGED <<period, acting, lastResponse>>

(* The entry without a function: a retransmission is swallowed.            *)
Trying_2_Trying_request ==
  /\ state = "Trying"
  /\ Handle("Trying", {}, {}, {}, <<>>, "ok")
  /\ UNCHANGED <<period, acting, lastResponse>>

Trying_2_Proceeding_send_1xx ==
  state = "Trying" /\ Len(tu) < MaxTu - 1 /\ Respond("Proceeding", "1xx", {}, TRUE)

Proceeding_2_Proceeding_send_1xx ==
  state = "Proceeding" /\ Len(tu) < MaxTu - 1
    /\ Respond("Proceeding", "1xx", {}, FALSE)

Proceeding_2_Proceeding_request == state = "Proceeding" /\ Resend("Proceeding")

(* Seeded fault: timer J is not scheduled.                                 *)
Any_2_Completed_noTimerJ(from) ==
  state = from /\ Respond("Completed", "final", {}, TRUE)

Any_2_Completed_send_200_to_699(from) ==
  state = from /\ Respond("Completed", "final", {Armed("J", JTimeout)}, TRUE)

Trying_2_Completed_send_200_to_699 == Any_2_Completed_send_200_to_699("Trying")
Proceeding_2_Completed_send_200_to_699 ==
  Any_2_Completed_send_200_to_699("Proceeding")

Completed_2_Completed_request == state = "Completed" /\ Resend("Completed")

Completed_2_Terminated_tirmerJ ==
  /\ acting = "J" /\ state = "Completed"
  /\ Handle("Terminated", {}, {}, {}, <<>>, "ok")
  /\ acting' = "running"
  /\ UNCHANGED <<period, lastResponse>>

Alive == state \notin {"Started", "Terminated"}

Any_2_Terminated_transportError ==
  /\ "transport_error" \in Faults /\ Alive
  /\ Handle("Terminated", {}, {}, {}, <<"transport_error">>, "user")
  /\ UNCHANGED <<period, acting, lastResponse>>

Any_2_Terminated_Error ==
  /\ "error" \in Faults /\ Alive
  /\ Handle("Terminated", {}, {}, {}, <<"error">>, "user")
  /\ UNCHANGED <<period, acting, lastResponse>>

Any_2_Terminated_cancel ==
  /\ "cancel" \in Faults /\ Alive /\ life = "listed"
  /\ Handle("Terminated", {}, {}, {}, <<"canceled">>, "ok")
  /\ UNCHANGED <<period, acting, lastResponse>>

(* tsip_transac_nist_event_callback, from the transport and from the user. *)
ReceiveRequest ==
  \/ Started_2_Trying_request \/ Trying_2_Trying_request
  \/ Proceeding_2_Proceeding_request \/ Completed_2_Completed_request

Answer ==
  \/ Trying_2_Proceeding_send_1xx \/ Proceeding_2_Proceeding_send_1xx
  \/ Trying_2_Completed_send_200_to_699 \/ Proceeding_2_Completed_send_200_to_699

Expected == IF state = "Completed" THEN {"J"} ELSE {}

OnTimer == Completed_2_Terminated_tirmerJ \/ (IgnoreTimer(Expected) /\ Own)

(* tsip_transac_nist_dtor.                                                 *)
Dtor == Destroy({"J"}) /\ Own

Fault == Any_2_Terminated_transportError \/ Any_2_Terminated_Error
         \/ Any_2_Terminated_cancel

Next ==
  \/ ReceiveRequest \/ Answer
  \/ OnTimer \/ Fault \/ Dtor \/ (Plumbing /\ Own)

Spec == Init /\ [][Next]_vars

-----------------------------------------------------------------------------
(* Properties *)

(* An answered transaction has its timer J on the way.                     *)
NeverStuck ==
  (state = "Completed" /\ life = "listed" /\ ~ending) =>
     Waiting("J") \/ "unmatched" \in mishaps

(* The user is given the request once, however often it is retransmitted   *)
(* and whoever answers it; it gets one final answer in, and from then on   *)
(* a retransmission is answered with that one.                             *)
OneFinalAnswer ==
  /\ AtMostOnce({"request"}) /\ AtMostOnce({"final"})
  /\ Told({"final"}) => lastResponse = "final"

(* A transaction that leaves the layer was answered, or one of the two     *)
(* sides gave it up, or the transport refused the answer.                  *)
NoSilentEnd ==
  life # "listed" =>
     \/ Told({"final", "transport_error", "error", "refused", "canceled"})
     \/ "unsent" \in mishaps
=============================================================================
