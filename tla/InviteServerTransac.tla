------------------------ MODULE InviteServerTransac ------------------------
(***************************************************************************)
(* The INVITE server transaction, tsip_transac_ist.c: one action per entry *)
(* of its state machine, on the base class of Transac.  The requests come  *)
(* from the environment; `out` collects the responses sent, and `tu` holds *)
(* both what the user was told and the classes it answered with.           *)
(***************************************************************************)
EXTENDS Transac

CONSTANTS
  T1, T2, TimeoutH, TimeoutI, TimeoutL,   \* in units of T1
  MaxTu                                   \* bounds the exchange with the user

ISTAssumption ==
  /\ Kinds = {"G", "H", "I", "L", "X"}
  /\ T1 \in Nat \ {0} /\ T2 \in Nat \ {0} /\ TimeoutH \in Nat \ {0}
  /\ TimeoutI \in Nat \ {0} /\ TimeoutL \in Nat \ {0}
  /\ Reliables \subseteq BOOLEAN

VARIABLES
  lastResponse,  \* what a retransmission sends
  acked,         \* an ACK for the 2xx was processed
  lateX          \* history: timer X was already raised when the ACK came

vars == <<transacVars, lastResponse, acked, lateX>>

States == {"Started", "Proceeding", "Completed", "Accepted", "Confirmed",
           "Terminated"}
Answers == {"1xx", "2xx", "3xx"}
Exchange == {"INVITE", "ACK", "transport_error", "error", "refused", "canceled"}
            \union Answers

TypeOK ==
  /\ TransacTypeOK
  /\ state \in States
  /\ out \subseteq {"100"} \union Answers
  /\ tu \in Seq(Exchange)
  /\ lastResponse \in {"none", "100"} \union Answers
  /\ acked \in BOOLEAN /\ lateX \in BOOLEAN

Init ==
  /\ TransacInit(T1)
  /\ lastResponse = "none" /\ acked = FALSE /\ lateX = FALSE

ITimeout == IF reliable THEN 0 ELSE TimeoutI
Response(sent, msg) == IF sent THEN {msg} ELSE {}
SendResult(sent) == IF sent THEN "ok" ELSE "fail"
Smaller(a, b) == IF a < b THEN a ELSE b

(* The retransmissions of the last response, whose failure is returned.    *)
Resend(to, new) ==
  \E sent \in Sent :
     Handle(to, {}, new, Response(sent, lastResponse), <<>>, SendResult(sent))

(* Seeded fault: the response is not remembered.                           *)
RespondForgetful(to, answer, new) ==
  /\ Len(tu) < MaxTu
  /\ Handle(to, {}, new, {answer}, <<answer>>, "ok")
  /\ UNCHANGED <<acting, lastResponse, acked, lateX>>

(* A response of the user, from a thread of its own or from inside the     *)
(* delivery of a message: sent first, then remembered.  The bound leaves   *)
(* room for a final answer, or an ACK, after whatever may be repeated.     *)
Respond(to, answer, new) ==
  /\ Len(tu) < MaxTu
  /\ \E sent \in Sent :
        \/ Handle(to, {}, new, Response(sent, answer), <<answer>>, SendResult(sent))
        \/ HandleNested(to, {}, new, Response(sent, answer), <<answer>>, sent)
  /\ lastResponse' = answer
  /\ UNCHANGED <<acting, acked, lateX>>

(* ----- the transitions, under the names of their functions ------------- *)

(* The INVITE reaches the user only if the 100 (Trying) was sent.          *)
Started_2_Proceeding_INVITE ==
  /\ state = "Started"
  /\ \E sent \in Sent :
        Handle("Proceeding", {}, {}, Response(sent, "100"),
               IF sent THEN <<"INVITE">> ELSE <<>>,
               IF sent THEN "user" ELSE "fail")
  /\ lastResponse' = "100"
  /\ UNCHANGED <<period, acting, acked, lateX>>

Proceeding_2_Proceeding_INVITE ==
  /\ state = "Proceeding" /\ Resend("Proceeding", {})
  /\ UNCHANGED <<period, acting, lastResponse, acked, lateX>>

Proceeding_2_Proceeding_1xx ==
  /\ state = "Proceeding" /\ Len(tu) < MaxTu - 1 /\ Respond("Proceeding", "1xx", {})
  /\ UNCHANGED period

(* Seeded fault: timer H is not scheduled.                                 *)
Proceeding_2_Completed_noTimerH ==
  /\ state = "Proceeding"
  /\ Respond("Completed", "3xx", {Armed("G", period)})
  /\ UNCHANGED period

Proceeding_2_Completed_300_to_699 ==
  /\ state = "Proceeding"
  /\ Respond("Completed", "3xx",
             {Armed("H", TimeoutH)}
               \union IF reliable THEN {} ELSE {Armed("G", period)})
  /\ UNCHANGED period

(* Seeded fault: timer L is not scheduled.                                 *)
Proceeding_2_Accepted_noTimerL ==
  /\ state = "Proceeding"
  /\ Respond("Accepted", "2xx", {Armed("X", period)})
  /\ period' = 2 * period

(* Timer X retransmits the 2xx whatever the transport.                     *)
Proceeding_2_Accepted_2xx ==
  /\ state = "Proceeding"
  /\ Respond("Accepted", "2xx", {Armed("X", period), Armed("L", TimeoutL)})
  /\ period' = 2 * period

Completed_2_Completed_INVITE ==
  /\ state = "Completed" /\ Resend("Completed", {})
  /\ UNCHANGED <<period, acting, lastResponse, acked, lateX>>

Completed_2_Completed_timerG ==
  /\ acting = "G" /\ state = "Completed"
  /\ period' = Smaller(2 * period, T2)
  /\ Resend("Completed", {Armed("G", Smaller(2 * period, T2))})
  /\ acting' = "running"
  /\ UNCHANGED <<lastResponse, acked, lateX>>

Completed_2_Terminated_timerH ==
  /\ acting = "H" /\ state = "Completed"
  /\ Handle("Terminated", {}, {}, {}, <<"transport_error">>, "user")
  /\ acting' = "running"
  /\ UNCHANGED <<period, lastResponse, acked, lateX>>

(* Seeded fault: timer I is not scheduled.                                 *)
Completed_2_Confirmed_noTimerI ==
  /\ state = "Completed"
  /\ Handle("Confirmed", {"G"}, {}, {}, <<>>, "ok")
  /\ UNCHANGED <<period, acting, lastResponse, acked, lateX>>

Completed_2_Confirmed_ACK ==
  /\ state = "Completed"
  /\ Handle("Confirmed", {"G"}, {Armed("I", ITimeout)}, {}, <<>>, "ok")
  /\ UNCHANGED <<period, acting, lastResponse, acked, lateX>>

Accepted_2_Accepted_INVITE ==
  /\ state = "Accepted" /\ Resend("Accepted", {})
  /\ UNCHANGED <<period, acting, lastResponse, acked, lateX>>

Accepted_2_Accepted_2xx ==
  /\ state = "Accepted" /\ Len(tu) < MaxTu - 1 /\ Respond("Accepted", "2xx", {})
  /\ UNCHANGED period

(* Neither the result of the send nor `acked` is looked at.                *)
Accepted_2_Accepted_timerX ==
  /\ acting = "X" /\ state = "Accepted"
  /\ period' = 2 * period
  /\ \E sent \in Sent :
        Handle("Accepted", {}, {Armed("X", 2 * period)},
               Response(sent, lastResponse), <<>>, "ok")
  /\ acting' = "running"
  /\ UNCHANGED <<lastResponse, acked, lateX>>

(* Seeded fault: timer X is not canceled.                                  *)
Accepted_2_Accepted_iACK_noCancel ==
  /\ state = "Accepted" /\ Len(tu) < MaxTu
  /\ Handle("Accepted", {}, {}, {}, <<"ACK">>, "user")
  /\ acked' = TRUE
  /\ UNCHANGED <<period, acting, lastResponse, lateX>>

Accepted_2_Accepted_iACK ==
  /\ state = "Accepted" /\ Len(tu) < MaxTu
  /\ Handle("Accepted", {"X"}, {}, {}, <<"ACK">>, "user")
  /\ acked' = TRUE
  /\ lateX' = (lateX \/ acting = "X" \/ \E i \in DOMAIN raised : raised[i].kind = "X")
  /\ UNCHANGED <<period, acting, lastResponse>>

(* Seeded faults: the failure is reported whether or not the ACK came, or  *)
(* never.                                                                  *)
Accepted_2_Terminated_alarm ==
  /\ acting = "L" /\ state = "Accepted"
  /\ Handle("Terminated", {}, {}, {}, <<"transport_error">>, "user")
  /\ acting' = "running"
  /\ UNCHANGED <<period, lastResponse, acked, lateX>>

Accepted_2_Terminated_quietly ==
  /\ acting = "L" /\ state = "Accepted"
  /\ Handle("Terminated", {}, {}, {}, <<>>, "ok")
  /\ acting' = "running"
  /\ UNCHANGED <<period, lastResponse, acked, lateX>>

Accepted_2_Terminated_timerL ==
  /\ acting = "L" /\ state = "Accepted"
  /\ IF acked THEN Handle("Terminated", {}, {}, {}, <<>>, "ok")
     ELSE Handle("Terminated", {}, {}, {}, <<"transport_error">>, "user")
  /\ acting' = "running"
  /\ UNCHANGED <<period, lastResponse, acked, lateX>>

Confirmed_2_Terminated_timerI ==
  /\ acting = "I" /\ state = "Confirmed"
  /\ Handle("Terminated", {}, {}, {}, <<>>, "ok")
  /\ acting' = "running"
  /\ UNCHANGED <<period, lastResponse, acked, lateX>>

Alive == state \notin {"Started", "Terminated"}

Any_2_Terminated_transportError ==
  /\ "transport_error" \in Faults /\ Alive
  /\ Handle("Terminated", {}, {}, {}, <<"transport_error">>, "user")
  /\ UNCHANGED <<period, acting, lastResponse, acked, lateX>>

Any_2_Terminated_Error ==
  /\ "error" \in Faults /\ Alive
  /\ Handle("Terminated", {}, {}, {}, <<"error">>, "user")
  /\ UNCHANGED <<period, acting, lastResponse, acked, lateX>>

Any_2_Terminated_cancel ==
  /\ "cancel" \in Faults /\ Alive /\ life = "listed"
  /\ Handle("Terminated", {}, {}, {}, <<"canceled">>, "ok")
  /\ UNCHANGED <<period, acting, lastResponse, acked, lateX>>

(* tsip_transac_ist_event_callback, from the transport and from the user.  *)
ReceiveINVITE ==
  \/ Started_2_Proceeding_INVITE \/ Proceeding_2_Proceeding_INVITE
  \/ Completed_2_Completed_INVITE \/ Accepted_2_Accepted_INVITE

ReceiveACK == Completed_2_Confirmed_ACK \/ Accepted_2_Accepted_iACK

Answer ==
  \/ Proceeding_2_Proceeding_1xx \/ Proceeding_2_Completed_300_to_699
  \/ Proceeding_2_Accepted_2xx \/ Accepted_2_Accepted_2xx

TimerFires ==
  \/ Completed_2_Completed_timerG \/ Completed_2_Terminated_timerH
  \/ Accepted_2_Accepted_timerX \/ Accepted_2_Terminated_timerL
  \/ Confirmed_2_Terminated_timerI

Expected ==
  CASE state = "Completed" -> {"G", "H"}
    [] state = "Accepted"  -> {"X", "L"}
    [] state = "Confirmed" -> {"I"}
    [] OTHER               -> {}

Own == UNCHANGED <<lastResponse, acked, lateX>>

OnTimer == TimerFires \/ (IgnoreTimer(Expected) /\ Own)

(* tsip_transac_ist_dtor.                                                  *)
Dtor == Destroy({"G", "H", "I", "L", "X"}) /\ Own

Fault == Any_2_Terminated_transportError \/ Any_2_Terminated_Error
         \/ Any_2_Terminated_cancel

Next ==
  \/ ReceiveINVITE \/ ReceiveACK \/ Answer
  \/ OnTimer \/ Fault \/ Dtor \/ (Plumbing /\ Own)

Spec == Init /\ [][Next]_vars

-----------------------------------------------------------------------------
(* Properties *)

BackedOut == Told({"refused", "canceled"})

(* Each state that only a timer can end has its timer on the way to the    *)
(* state machine, unless the callback overtook the storing of its id.      *)
TimerOf == [Completed |-> "H", Accepted |-> "L", Confirmed |-> "I"]

NeverStuck ==
  (state \in DOMAIN TimerOf /\ life = "listed" /\ ~ending) =>
     Waiting(TimerOf[state]) \/ "unmatched" \in mishaps

(* The user is given the INVITE once, however often it is retransmitted.   *)
(* The peer is never sent both a success and a rejection, and once the     *)
(* user has given its final answer a retransmission sends that answer.     *)
OneFinalAnswer ==
  /\ AtMostOnce({"INVITE"})
  /\ ~({"2xx", "3xx"} \subseteq out)
  /\ Told({"2xx"}) => lastResponse = "2xx"
  /\ Told({"3xx"}) => lastResponse = "3xx"

(* "it implies that the ACK was never received. [...] the server           *)
(* transaction [...] MUST indicate to the TU that a transaction failure has*)
(* occurred": an answered call that leaves the layer without an ACK, and   *)
(* neither by the will of its user nor because the transport refused a     *)
(* message, was reported as failed.                                        *)
NoSilentEnd ==
  (life # "listed" /\ Told({"2xx"}) /\ ~acked /\ ~BackedOut) =>
     Told({"transport_error", "error"}) \/ "unsent" \in mishaps

(* An ACK stops the retransmission of the 2xx, unless timer X had already  *)
(* left the timer manager's list: its callback then arms it again, and     *)
(* goes on until timer L.                                                  *)
AckStopsTimerX ==
  (acked /\ ~lateX) => ~Waiting("X")
=============================================================================
