----------------------- MODULE NonInviteClientTransac -----------------------
(***************************************************************************)
(* The client transaction of every request but INVITE,                     *)
(* tsip_transac_nict.c: one action per entry of its state machine, on the  *)
(* base class of Transac.  Unlike the INVITE transactions it arms its last *)
(* timer, K, only after its user has been given the final response.        *)
(***************************************************************************)
EXTENDS Transac

CONSTANTS
  T1, T2, TimeoutF, TimeoutK,        \* in units of T1
  Responses,                         \* classes the peer may answer with
  MaxTu                              \* bounds the exchange with the user

NICTAssumption ==
  /\ Kinds = {"E", "F", "K"}
  /\ T1 \in Nat \ {0} /\ T2 \in Nat \ {0}
  /\ TimeoutF \in Nat \ {0} /\ TimeoutK \in Nat \ {0}
  /\ Reliables \subseteq BOOLEAN
  /\ Responses \subseteq {"1xx", "final"}

States == {"Started", "Trying", "Proceeding", "Completed", "Terminated"}
Verdicts == {"final", "timedout", "transport_error", "error"}
Exchange == {"1xx", "refused", "canceled"} \union Verdicts

TypeOK ==
  /\ TransacTypeOK
  /\ state \in States
  /\ out \subseteq {"request"}
  /\ tu \in Seq(Exchange)

Init == TransacInit(T1)

KTimeout == IF reliable THEN 0 ELSE TimeoutK
TimerE(timeout) == IF reliable THEN {} ELSE {Armed("E", timeout)}
Request(sent) == IF sent THEN {"request"} ELSE {}
Smaller(a, b) == IF a < b THEN a ELSE b

(* ----- the transitions, under the names of their functions ------------- *)

(* tsip_transac_nict_start: the result of the send is not looked at.       *)
Started_2_Trying_send ==
  /\ state = "Started"
  /\ \E sent \in Sent :
        Handle("Trying", {}, TimerE(period) \union {Armed("F", TimeoutF)},
               Request(sent), <<>>, "ok")
  /\ UNCHANGED <<period, acting>>

(* The same in Trying and in Proceeding: the request is sent again and     *)
(* timer E doubled up to T2.                                               *)
Any_2_Any_timerE(from) ==
  /\ acting = "E" /\ state = from
  /\ period' = Smaller(2 * period, T2)
  /\ \E sent \in Sent :
        Handle(from, {}, {Armed("E", Smaller(2 * period, T2))}, Request(sent),
               <<>>, "ok")
  /\ acting' = "running"

Trying_2_Trying_timerE == Any_2_Any_timerE("Trying")
Proceeding_2_Proceeding_timerE == Any_2_Any_timerE("Proceeding")

(* Seeded fault: the timeout is not reported.                              *)
Trying_2_Terminated_timerFQuietly ==
  /\ acting = "F" /\ state = "Trying"
  /\ Handle("Terminated", {}, {}, {}, <<>>, "ok")
  /\ acting' = "running"
  /\ UNCHANGED period

Trying_2_Terminated_timerF ==
  /\ acting = "F" /\ state = "Trying"
  /\ Handle("Terminated", {}, {}, {}, <<"timedout">>, "userAny")
  /\ acting' = "running"
  /\ UNCHANGED period

(* Reported as an error of the transport.                                  *)
Proceeding_2_Terminated_timerF ==
  /\ acting = "F" /\ state = "Proceeding"
  /\ Handle("Terminated", {}, {}, {}, <<"transport_error">>, "userAny")
  /\ acting' = "running"
  /\ UNCHANGED period

(* "Now it's up to the UAS to update the FSM": no timer is left.           *)
Trying_2_Proceedding_1xx ==
  /\ state = "Trying"
  /\ Handle("Proceeding", {"E", "F"}, {}, {}, <<"1xx">>, "userAny")
  /\ UNCHANGED <<period, acting>>

Proceeding_2_Proceeding_1xx ==
  /\ state = "Proceeding"
  /\ Handle("Proceeding", {"E"}, {}, {}, <<"1xx">>, "userAny")
  /\ UNCHANGED <<period, acting>>

(* Seeded fault: timers E and F go on.                                     *)
Any_2_Completed_noCancel(from, cancel) ==
  /\ state = from
  /\ Handle("Completed", {}, {}, {}, <<"final">>, "userThen")
  /\ UNCHANGED <<period, acting>>

(* Seeded fault: the entry names the state it leaves as its target.        *)
Any_2_Completed_stays(from, cancel) ==
  /\ state = from
  /\ Handle(from, cancel, {}, {}, <<"final">>, "userThen")
  /\ UNCHANGED <<period, acting>>

Any_2_Completed_200_to_699(from, cancel) ==
  /\ state = from
  /\ Handle("Completed", cancel, {}, {}, <<"final">>, "userThen")
  /\ UNCHANGED <<period, acting>>

Trying_2_Completed_200_to_699 == Any_2_Completed_200_to_699("Trying", {"E", "F"})
Proceeding_2_Completed_200_to_699 == Any_2_Completed_200_to_699("Proceeding", {"E"})

(* Seeded fault: timer K is not scheduled.                                 *)
SkipK ==
  /\ exec = "userThen" /\ exec' = "ok"
  /\ UNCHANGED <<reliable, state, ending, life, period, pending, raised, storing,
                 acting, mishaps, tu, out>>

(* The end of both transitions to Completed.                               *)
ScheduleK == ThenSchedule("K", KTimeout)

Completed_2_Terminated_timerK ==
  /\ acting = "K" /\ state = "Completed"
  /\ Handle("Terminated", {}, {}, {}, <<>>, "ok")
  /\ acting' = "running"
  /\ UNCHANGED period

Alive == state \notin {"Started", "Terminated"}

(* In Trying and Proceeding the result of the delivery is dropped; the     *)
(* entry from any state, which is the one of Completed, returns it.        *)
Any_2_Terminated_transportError ==
  /\ "transport_error" \in Faults /\ Alive
  /\ Handle("Terminated", {}, {}, {}, <<"transport_error">>,
            IF state = "Completed" THEN "user" ELSE "userAny")
  /\ UNCHANGED <<period, acting>>

Any_2_Terminated_Error ==
  /\ "error" \in Faults /\ Alive
  /\ Handle("Terminated", {}, {}, {}, <<"error">>, "user")
  /\ UNCHANGED <<period, acting>>

Any_2_Terminated_cancel ==
  /\ "cancel" \in Faults /\ Alive /\ life = "listed"
  /\ Handle("Terminated", {}, {}, {}, <<"canceled">>, "ok")
  /\ UNCHANGED <<period, acting>>

(* tsip_transac_nict_event_callback; the bound leaves room for a verdict.  *)
Receive(response) ==
  /\ Len(tu) < IF response = "1xx" THEN MaxTu - 1 ELSE MaxTu
  /\ \/ response = "1xx" /\ (Trying_2_Proceedding_1xx \/ Proceeding_2_Proceeding_1xx)
     \/ response = "final" /\ (Trying_2_Completed_200_to_699
                               \/ Proceeding_2_Completed_200_to_699)

TimerFires ==
  \/ Trying_2_Trying_timerE \/ Proceeding_2_Proceeding_timerE
  \/ Trying_2_Terminated_timerF \/ Proceeding_2_Terminated_timerF
  \/ Completed_2_Terminated_timerK

Expected ==
  CASE state \in {"Trying", "Proceeding"} -> {"E", "F"}
    [] state = "Completed"                -> {"K"}
    [] OTHER                              -> {}

OnTimer == TimerFires \/ IgnoreTimer(Expected)

(* tsip_transac_nict_dtor.                                                 *)
Dtor == Destroy({"E", "F", "K"})

Fault == Any_2_Terminated_transportError \/ Any_2_Terminated_Error
         \/ Any_2_Terminated_cancel

Next ==
  \/ Started_2_Trying_send
  \/ \E response \in Responses : Receive(response)
  \/ ScheduleK \/ OnTimer \/ Fault \/ Dtor \/ Plumbing

Spec == Init /\ [][Next]_transacVars

-----------------------------------------------------------------------------
(* Properties *)

(* Trying and Completed, which only a timer can end, have that timer on its*)
(* way or about to be scheduled, whatever was canceled, rescheduled or     *)
(* raised before, unless its callback overtook the storing of its id.      *)
TimerOf == [Trying |-> "F", Completed |-> "K"]

NeverStuck ==
  (state \in DOMAIN TimerOf /\ life = "listed" /\ ~ending) =>
     Waiting(TimerOf[state]) \/ exec = "userThen" \/ "unmatched" \in mishaps

(* The user gets at most one final response and at most one failure, never *)
(* a failure of the timers after the final response, and nothing           *)
(* provisional after either.                                               *)
OneVerdict ==
  /\ AtMostOnce({"final"})
  /\ AtMostOnce({"timedout", "transport_error", "error"})
  /\ ~(Told({"final"}) /\ Told({"timedout"}))
  /\ \A i, j \in 1..Len(tu) : i < j /\ tu[j] = "1xx" => tu[i] \notin Verdicts

(* A transaction that leaves the layer gave its user a verdict, or the user*)
(* backed out, whatever the transport did with the request.                *)
NoSilentEnd ==
  life # "listed" =>
     Told(Verdicts \union {"refused", "canceled"})

(* A transaction that is answered and left to timer K is never called back *)
(* once destroyed: E and F, canceled or dispatched earlier, do not outlive *)
(* it.                                                                     *)
QuietAfterAnswer ==
  (Told({"final"}) /\ \A i \in 1..Len(tu) : tu[i] \in {"1xx", "final"}) =>
     "dangling" \notin mishaps
=============================================================================
