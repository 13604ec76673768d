------------------------ MODULE InviteClientTransac ------------------------
(***************************************************************************)
(* The INVITE client transaction, tsip_transac_ict.c: one action per entry *)
(* of its state machine, on the base class of Transac.  Responses arrive   *)
(* from the environment; `out` collects the requests sent.                 *)
(***************************************************************************)
EXTENDS Transac

CONSTANTS
  T1, TimeoutB, TimeoutD, TimeoutM,  \* in units of T1
  Responses,                         \* classes the peer may answer with
  MaxTu                              \* bounds the exchange with the user

ICTAssumption ==
  /\ Kinds = {"A", "B", "D", "M"}
  /\ T1 \in Nat \ {0} /\ TimeoutB \in Nat \ {0}
  /\ TimeoutD \in Nat \ {0} /\ TimeoutM \in Nat \ {0}
  /\ Reliables \subseteq BOOLEAN
  /\ Responses \subseteq {"1xx", "2xx", "3xx"}

States == {"Started", "Calling", "Proceeding", "Completed", "Accepted",
           "Terminated"}
Requests == {"INVITE", "ACK"}
Verdicts == {"2xx", "3xx", "timedout", "transport_error", "error"}
Exchange == {"1xx", "refused", "canceled"} \union Verdicts

TypeOK ==
  /\ TransacTypeOK
  /\ state \in States
  /\ out \subseteq Requests
  /\ tu \in Seq(Exchange)

Init == TransacInit(T1)

(* timerD.timeout, set when the transport is known.                        *)
DTimeout == IF reliable THEN 0 ELSE TimeoutD
TimerA(timeout) == IF reliable THEN {} ELSE {Armed("A", timeout)}
Request(sent, msg) == IF sent THEN {msg} ELSE {}

(* ----- the transitions, under the names of their functions ------------- *)

(* tsip_transac_ict_start: the result of the send is not looked at.        *)
Started_2_Calling_send ==
  /\ state = "Started"
  /\ \E sent \in Sent :
        Handle("Calling", {}, TimerA(period) \union {Armed("B", TimeoutB)},
               Request(sent, "INVITE"), <<>>, "ok")
  /\ UNCHANGED <<period, acting>>

Calling_2_Calling_timerA ==
  /\ acting = "A" /\ state = "Calling"
  /\ period' = 2 * period
  /\ \E sent \in Sent :
        Handle("Calling", {}, {Armed("A", 2 * period)},
               Request(sent, "INVITE"), <<>>, "ok")
  /\ acting' = "running"

(* Seeded fault: the user is not told.                                     *)
Calling_2_Terminated_timerBQuietly ==
  /\ acting = "B" /\ state = "Calling"
  /\ Handle("Terminated", {}, {}, {}, <<>>, "ok")
  /\ acting' = "running"
  /\ UNCHANGED period

Calling_2_Terminated_timerB ==
  /\ acting = "B" /\ state = "Calling"
  /\ Handle("Terminated", {}, {}, {}, <<"timedout">>, "userAny")
  /\ acting' = "running"
  /\ UNCHANGED period

(* Seeded faults: timer D is not scheduled, A and B are not canceled, the  *)
(* response is not passed up.                                              *)
CompletedWithout(from, cancel, new, events) ==
  /\ state = from
  /\ Handle("Completed", cancel, new, {"ACK"}, events, "user")
  /\ UNCHANGED <<period, acting>>

Any_2_Completed_noTimerD(from) ==
  CompletedWithout(from, {"A", "B"}, {}, <<"3xx">>)
Any_2_Completed_noCancel(from) ==
  CompletedWithout(from, {}, {Armed("D", DTimeout)}, <<"3xx">>)
Any_2_Completed_noDeliver(from) ==
  CompletedWithout(from, {"A", "B"}, {Armed("D", DTimeout)}, <<>>)

(* The same body in Calling and in Proceeding: an ACK the transport        *)
(* refuses ends the handler before the response reaches the user.          *)
Any_2_Completed_300_to_699(from) ==
  /\ state = from
  /\ \E sent \in Sent :
        Handle("Completed", {"A", "B"}, {Armed("D", DTimeout)},
               Request(sent, "ACK"),
               IF sent THEN <<"3xx">> ELSE <<>>,
               IF sent THEN "user" ELSE "fail")
  /\ UNCHANGED <<period, acting>>

Calling_2_Completed_300_to_699 == Any_2_Completed_300_to_699("Calling")
Proceeding_2_Completed_300_to_699 == Any_2_Completed_300_to_699("Proceeding")

Calling_2_Proceeding_1xx ==
  /\ state = "Calling"
  /\ Handle("Proceeding", {"A", "B"}, {}, {}, <<"1xx">>, "userAny")
  /\ UNCHANGED <<period, acting>>

(* Seeded fault: timer M is not scheduled.                                 *)
Any_2_Accepted_noTimerM(from) ==
  /\ state = from
  /\ Handle("Accepted", {}, {}, {}, <<"2xx">>, "user")
  /\ UNCHANGED <<period, acting>>

(* Under the comment "Cancel timers A and B" both are scheduled.           *)
Any_2_Accepted_2xx(from) ==
  /\ state = from
  /\ Handle("Accepted", {},
            {Armed("M", TimeoutM), Armed("B", TimeoutB)} \union TimerA(period),
            {}, <<"2xx">>, "user")
  /\ UNCHANGED <<period, acting>>

Calling_2_Accepted_2xx == Any_2_Accepted_2xx("Calling")
Proceeding_2_Accepted_2xx == Any_2_Accepted_2xx("Proceeding")

Proceeding_2_Proceeding_1xx ==
  /\ state = "Proceeding"
  /\ Handle("Proceeding", {}, {}, {}, <<"1xx">>, "user")
  /\ UNCHANGED <<period, acting>>

(* Seeded fault: a retransmitted rejection is passed up again.             *)
Completed_2_Completed_deliver ==
  /\ state = "Completed"
  /\ Handle("Completed", {}, {}, {"ACK"}, <<"3xx">>, "user")
  /\ UNCHANGED <<period, acting>>

Completed_2_Completed_300_to_699 ==
  /\ state = "Completed"
  /\ \E sent \in Sent :
        Handle("Completed", {}, {}, Request(sent, "ACK"), <<>>,
               IF sent THEN "ok" ELSE "fail")
  /\ UNCHANGED <<period, acting>>

Completed_2_Terminated_timerD ==
  /\ acting = "D" /\ state = "Completed"
  /\ Handle("Terminated", {}, {}, {}, <<>>, "ok")
  /\ acting' = "running"
  /\ UNCHANGED period

Accepted_2_Accepted_2xx ==
  /\ state = "Accepted"
  /\ Handle("Accepted", {}, {}, {}, <<"2xx">>, "userAny")
  /\ UNCHANGED <<period, acting>>

Accepted_2_Terminated_timerM ==
  /\ acting = "M" /\ state = "Accepted"
  /\ Handle("Terminated", {}, {}, {}, <<>>, "ok")
  /\ acting' = "running"
  /\ UNCHANGED period

(* The entries from any state come after the catch-all of Started, so they *)
(* apply once the transaction is started.                                  *)
Alive == state \notin {"Started", "Terminated"}

Any_2_Terminated_transportError ==
  /\ "transport_error" \in Faults /\ Alive
  /\ Handle("Terminated", {}, {}, {}, <<"transport_error">>, "user")
  /\ UNCHANGED <<period, acting>>

Any_2_Terminated_Error ==
  /\ "error" \in Faults /\ Alive
  /\ Handle("Terminated", {}, {}, {}, <<"error">>, "user")
  /\ UNCHANGED <<period, acting>>

Any_2_Terminated_cancel ==
  /\ "cancel" \in Faults /\ Alive /\ life = "listed"
  /\ Handle("Terminated", {}, {}, {}, <<"canceled">>, "ok")
  /\ UNCHANGED <<period, acting>>

(* tsip_transac_ict_event_callback: one of the entries for a response, or  *)
(* none if the state has no entry for its class.  The bound leaves room for*)
(* a verdict after any provisional responses.                              *)
Receive(response) ==
  /\ Len(tu) < IF response = "1xx" THEN MaxTu - 1 ELSE MaxTu
  /\ \/ response = "1xx" /\ (Calling_2_Proceeding_1xx \/ Proceeding_2_Proceeding_1xx)
     \/ response = "2xx" /\ (Calling_2_Accepted_2xx \/ Proceeding_2_Accepted_2xx
                             \/ Accepted_2_Accepted_2xx)
     \/ response = "3xx" /\ (Calling_2_Completed_300_to_699
                             \/ Proceeding_2_Completed_300_to_699
                             \/ Completed_2_Completed_300_to_699)

TimerFires ==
  \/ Calling_2_Calling_timerA \/ Calling_2_Terminated_timerB
  \/ Completed_2_Terminated_timerD \/ Accepted_2_Terminated_timerM

(* The kinds the state machine has an entry for in the current state.      *)
Expected ==
  CASE state = "Calling"   -> {"A", "B"}
    [] state = "Completed" -> {"D"}
    [] state = "Accepted"  -> {"M"}
    [] OTHER               -> {}

OnTimer == TimerFires \/ IgnoreTimer(Expected)

(* tsip_transac_ict_dtor.                                                  *)
Dtor == Destroy({"A", "B", "D", "M"})

Fault == Any_2_Terminated_transportError \/ Any_2_Terminated_Error
         \/ Any_2_Terminated_cancel

Next ==
  \/ Started_2_Calling_send
  \/ \E response \in Responses : Receive(response)
  \/ OnTimer \/ Fault \/ Dtor \/ Plumbing

Spec == Init /\ [][Next]_transacVars

-----------------------------------------------------------------------------
(* Properties *)

(* A state that only a timer can end has that timer on its way to the      *)
(* state machine, whatever was canceled, rescheduled or raised before: else*)
(* the transaction stays in the layer's list for ever.  The one exception  *)
(* is a callback that ran before the handler had stored the timer's id.    *)
TimerOf == [Calling |-> "B", Completed |-> "D", Accepted |-> "M"]

NeverStuck ==
  (state \in DOMAIN TimerOf /\ life = "listed" /\ ~ending) =>
     Waiting(TimerOf[state]) \/ "unmatched" \in mishaps

(* The user gets one verdict: never both a success and a rejection, a      *)
(* rejection or a timeout at most once, a timeout only if the peer has     *)
(* said nothing, and no provisional response once there is a verdict.      *)
OneVerdict ==
  /\ ~(Told({"2xx"}) /\ Told({"3xx"}))
  /\ AtMostOnce({"3xx"}) /\ AtMostOnce({"timedout"})
  /\ ~(Told({"timedout"}) /\ Told({"1xx", "2xx", "3xx"}))
  /\ \A i, j \in 1..Len(tu) : i < j /\ tu[j] = "1xx" => tu[i] \notin Verdicts

(* A transaction does not end in silence: once it is out of the layer, its *)
(* user was given a verdict or has itself backed out.  The one exception is*)
(* an ACK the transport refused, whose error the transitions to Completed  *)
(* return before they pass the rejection up.                               *)
NoSilentEnd ==
  life # "listed" =>
     Told(Verdicts \union {"refused", "canceled"}) \/ "unsent" \in mishaps

(* A call that is rejected and left to its timer D is never called back    *)
(* once destroyed: A and B, canceled or already dispatched, do not outlive *)
(* it.  (OnTerminated cancels no timer, so a call that ends otherwise may  *)
(* be.)                                                                    *)
QuietAfterRejection ==
  (/\ Told({"3xx"}) /\ \A i \in 1..Len(tu) : tu[i] \in {"1xx", "3xx"}
   /\ "unsent" \notin mishaps) => "dangling" \notin mishaps
=============================================================================
