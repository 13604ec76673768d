------------------------- MODULE TransactionsProofs -------------------------
(***************************************************************************)
(* The four transactions, for every value of the constants: each keeps to  *)
(* its types, never loses the timer it depends on, gives its user one      *)
(* outcome, and does not leave the layer without a word; a client that is  *)
(* answered is not called back once it is gone.                            *)
(*                                                                         *)
(* For each role, the lemmas of TransacProofs say what a step of the base  *)
(* class does to the timers; <role>Inv adds what the user has been told in *)
(* each state, <role>Handle says which handlers keep it, and <role>Step    *)
(* that the role's handlers are of that kind.  For the clients,            *)
(* <role>Quiet says which timers are left in each state and in which order.*)
(***************************************************************************)
EXTENDS Transactions, TLAPS

-----------------------------------------------------------------------------
(* The non-INVITE client transaction. *)

NICTB == INSTANCE TransacProofs WITH Kinds <- {"E", "F", "K"}, Reliables <- BOOLEAN

(* The base class of the role is that of the lemmas.                       *)
LEMMA NICTBridge ==
  /\ \A to, cancel, new, msgs, events, how :
       NICT!Handle(to, cancel, new, msgs, events, how)
         => NICTB!Handle(to, cancel, new, msgs, events, how)
  /\ \A kind, timeout :
       NICT!ThenSchedule(kind, timeout) => NICTB!ThenSchedule(kind, timeout)
  /\ \A expected : NICT!IgnoreTimer(expected) => NICTB!IgnoreTimer(expected)
  /\ \A kinds : NICT!Destroy(kinds) => NICTB!Destroy(kinds)
  /\ NICT!Plumbing => NICTB!Plumbing
  /\ NICT!TransacTypeOK <=> NICTB!TransacTypeOK
  /\ NICT!TransacTypeOK' <=> NICTB!TransacTypeOK'
<1>1. \A to, cancel, new, msgs, events, how :
         NICT!Handle(to, cancel, new, msgs, events, how)
           => NICTB!Handle(to, cancel, new, msgs, events, how)
  BY DEF NICT!Handle, NICTB!Handle, NICT!Effects, NICTB!Effects, NICT!Canceled,
         NICTB!Canceled
<1>2. \A kind, timeout :
         NICT!ThenSchedule(kind, timeout) => NICTB!ThenSchedule(kind, timeout)
  BY DEF NICT!ThenSchedule, NICTB!ThenSchedule, NICT!Armed, NICTB!Armed
<1>3. \A expected : NICT!IgnoreTimer(expected) => NICTB!IgnoreTimer(expected)
  BY DEF NICT!IgnoreTimer, NICTB!IgnoreTimer
<1>4. \A kinds : NICT!Destroy(kinds) => NICTB!Destroy(kinds)
  BY DEF NICT!Destroy, NICTB!Destroy, NICT!Canceled, NICTB!Canceled
<1>5. NICT!Plumbing => NICTB!Plumbing
  <2>1. NICT!Return => NICTB!Return
    BY DEF NICT!Return, NICTB!Return, NICT!Stored, NICTB!Stored
  <2>2. NICT!Finish => NICTB!Finish
    BY DEF NICT!Finish, NICTB!Finish
  <2>3. NICT!NestedCancel => NICTB!NestedCancel
    BY DEF NICT!NestedCancel, NICTB!NestedCancel, NICT!InUser, NICTB!InUser
  <2>4. NICT!RaiseTimer => NICTB!RaiseTimer
    BY DEF NICT!RaiseTimer, NICTB!RaiseTimer
  <2>5. NICT!MatchTimer => NICTB!MatchTimer
    BY DEF NICT!MatchTimer, NICTB!MatchTimer
  <2>6. NICT!Tick => NICTB!Tick
    BY DEF NICT!Tick, NICTB!Tick
  <2> QED BY <2>1, <2>2, <2>3, <2>4, <2>5, <2>6 DEF NICT!Plumbing, NICTB!Plumbing
<1>6. NICT!TransacTypeOK <=> NICTB!TransacTypeOK
  BY DEF NICT!TransacTypeOK, NICTB!TransacTypeOK, NICT!Timer, NICTB!Timer,
         NICT!Raised, NICTB!Raised, NICT!Ownership, NICTB!Ownership,
         NICT!Endings, NICTB!Endings, NICT!InUser, NICTB!InUser
<1>7. NICT!TransacTypeOK' <=> NICTB!TransacTypeOK'
  BY DEF NICT!TransacTypeOK, NICTB!TransacTypeOK, NICT!Timer, NICTB!Timer,
         NICT!Raised, NICTB!Raised, NICT!Ownership, NICTB!Ownership,
         NICT!Endings, NICTB!Endings, NICT!InUser, NICTB!InUser
<1> QED BY <1>1, <1>2, <1>3, <1>4, <1>5, <1>6, <1>7

NICTFailures == {"timedout", "transport_error", "error"}
NICTVerdicts == {"final"} \union NICTFailures
NICTWords    == {"final", "refused", "canceled"} \union NICTFailures

(* What the user has been told in each state.                              *)
NICTOutcome ==
  /\ state \in {"Started", "Trying", "Proceeding"} => ~NICTB!Told(NICTVerdicts)
  /\ state = "Completed" => ~NICTB!Told(NICTFailures)
  /\ NICTB!AtMostOnce({"final"}) /\ NICTB!AtMostOnce(NICTFailures)
  /\ ~(NICTB!Told({"final"}) /\ NICTB!Told({"timedout"}))
  /\ NICTB!NeverAfter(NICTVerdicts, {"1xx"})

(* Who is on the way out has heard the end, or said it.                    *)
NICTWord ==
  /\ exec # "fail"
  /\ (\/ state \in {"Completed", "Terminated"} \/ ending \/ life # "listed")
       => NICTB!Told(NICTWords)

NICTTimer ==
  (life = "listed" /\ ~ending) =>
    /\ state = "Trying" => NICTB!Comes("F")
    /\ state = "Completed" => NICTB!Comes("K") \/ exec = "userThen"

NICTInv == NICT!TypeOK /\ NICTB!StoringInv /\ NICTOutcome /\ NICTWord /\ NICTTimer

(* The states in which an event may pass, and the one it leads to.         *)
NICTEvent(e, to) ==
  \/ e = "1xx" /\ state \in {"Trying", "Proceeding"} /\ to = "Proceeding"
  \/ e = "final" /\ state \in {"Trying", "Proceeding"} /\ to = "Completed"
  \/ e = "timedout" /\ state = "Trying" /\ to = "Terminated"
  \/ /\ e \in {"transport_error", "error"} /\ to = "Terminated"
     /\ state \notin {"Started", "Terminated"}
  \/ e \in {"refused", "canceled"} /\ to \in {state, "Terminated"}

NICTSilent(to) ==
  \/ to = state
  \/ state = "Started" /\ to = "Trying"
  \/ state = "Completed" /\ to = "Terminated"
  \/ ending /\ to = "Terminated"

(* An event that may pass in this state keeps the outcome.                 *)
LEMMA NICTTold ==
  ASSUME tu \in Seq(NICT!Exchange), NEW e, tu' = tu \o <<e>>,
         NICTOutcome, state \in NICT!States, NICTEvent(e, state')
  PROVE  /\ NICTOutcome'
         /\ NICTB!Told(NICTWords)' <=> NICTB!Told(NICTWords) \/ e # "1xx"
<1>1. /\ NICTB!Told(NICTVerdicts) <=> NICTB!Told({"final"}) \/ NICTB!Told(NICTFailures)
      /\ NICTB!Told({"timedout"}) => NICTB!Told(NICTFailures)
  BY DEF NICTB!Told, NICTFailures, NICTVerdicts
<1>2. /\ e \in NICTFailures <=> e \in {"timedout", "transport_error", "error"}
      /\ e \in NICTVerdicts <=> e = "final" \/ e \in NICTFailures
      /\ e \in NICTWords <=> e # "1xx"
  BY DEF NICTFailures, NICTVerdicts, NICTWords, NICTEvent
<1>3. /\ NICTB!Told({"final"})' <=> NICTB!Told({"final"}) \/ e = "final"
      /\ NICTB!Told({"timedout"})' <=> NICTB!Told({"timedout"}) \/ e = "timedout"
      /\ NICTB!Told(NICTFailures)' <=> NICTB!Told(NICTFailures) \/ e \in NICTFailures
      /\ NICTB!Told(NICTVerdicts)' <=> NICTB!Told(NICTVerdicts) \/ e \in NICTVerdicts
      /\ NICTB!Told(NICTWords)' <=> NICTB!Told(NICTWords) \/ e \in NICTWords
  BY NICTB!OneMoreEvent
<1>4. /\ NICTB!AtMostOnce({"final"}) /\ (e = "final" => ~NICTB!Told({"final"}))
             => NICTB!AtMostOnce({"final"})'
      /\ NICTB!AtMostOnce(NICTFailures) /\ (e \in NICTFailures => ~NICTB!Told(NICTFailures))
             => NICTB!AtMostOnce(NICTFailures)'
  BY NICTB!OneMoreEvent
<1>5. NICTB!NeverAfter(NICTVerdicts, {"1xx"}) /\ (e = "1xx" => ~NICTB!Told(NICTVerdicts))
             => NICTB!NeverAfter(NICTVerdicts, {"1xx"})'
  BY NICTB!OneMoreAfter
<1> QED BY <1>1, <1>2, <1>3, <1>4, <1>5 DEF NICTOutcome, NICT!States, NICTEvent

(* A step that says nothing keeps it as well.                              *)
LEMMA NICTSaid ==
  ASSUME UNCHANGED tu, NICTOutcome, NICTSilent(state')
  PROVE  NICTOutcome' /\ (NICTB!Told(NICTWords)' <=> NICTB!Told(NICTWords))
BY DEF NICTOutcome, NICTSilent, NICTB!Told, NICTB!AtMostOnce, NICTB!NeverAfter

(* A step that tells one event or none.                                    *)
LEMMA NICTEvents ==
  ASSUME NICTInv, NEW events, tu' = tu \o events,
         \/ events = <<>> /\ NICTSilent(state')
         \/ \E e \in NICT!Exchange : events = <<e>> /\ NICTEvent(e, state')
  PROVE  /\ NICTOutcome' /\ tu' \in Seq(NICT!Exchange)
         /\ NICTB!Told(NICTWords) => NICTB!Told(NICTWords)'
         /\ state' \in {"Completed", "Terminated"} => NICTB!Told(NICTWords)'
         /\ events \in {<<"refused">>, <<"canceled">>} => NICTB!Told(NICTWords)'
<1>1. tu \in Seq(NICT!Exchange) /\ state \in NICT!States
  BY DEF NICTInv, NICT!TypeOK
<1>2. CASE events = <<>> /\ NICTSilent(state')
  <2>1. UNCHANGED tu
    BY <1>1, <1>2
  <2> QED BY <2>1, <1>1, <1>2, NICTSaid DEF NICTInv, NICTWord, NICTSilent
<1>3. ASSUME NEW e \in NICT!Exchange, events = <<e>>, NICTEvent(e, state')
      PROVE  /\ NICTOutcome' /\ tu' \in Seq(NICT!Exchange)
             /\ NICTB!Told(NICTWords) => NICTB!Told(NICTWords)'
             /\ state' \in {"Completed", "Terminated"} => NICTB!Told(NICTWords)'
             /\ events \in {<<"refused">>, <<"canceled">>} => NICTB!Told(NICTWords)'
  <2>1. tu' = tu \o <<e>> /\ tu' \in Seq(NICT!Exchange)
    BY <1>1, <1>3
  <2>2. /\ NICTOutcome'
        /\ NICTB!Told(NICTWords)' <=> NICTB!Told(NICTWords) \/ e # "1xx"
    BY <2>1, <1>1, <1>3, NICTTold DEF NICTInv
  <2> QED BY <2>1, <2>2, <1>3 DEF NICTEvent
<1> QED BY <1>2, <1>3

(* The handlers that keep the invariant.                                   *)
LEMMA NICTHandle ==
  ASSUME NICTInv, NEW to \in NICT!States \ {"Started"}, NEW cancel, NEW new,
         NEW msgs \in SUBSET {"request"}, NEW events,
         NEW how \in NICTB!Endings \ {"fail"}, NICTB!Unset(new),
         NICT!Handle(to, cancel, new, msgs, events, how),
         acting' \in {acting, "running"}, period' \in Nat,
         \/ events = <<>> /\ NICTSilent(to)
         \/ \E e \in NICT!Exchange : events = <<e>> /\ NICTEvent(e, to),
         to = "Trying" => \/ \E t \in new : t.kind = "F"
                          \/ /\ state = to /\ "F" \notin cancel
                             /\ acting' = acting \/ acting # "F",
         to = "Completed" => how = "userThen"
  PROVE  NICTInv'
<1>1. NICTB!Handle(to, cancel, new, msgs, events, how)
  BY NICTBridge
<1>2. /\ state' = to /\ exec' = how /\ ending' = ending /\ life' = life
      /\ out' = out \union msgs /\ tu' = tu \o events
  BY <1>1 DEF NICTB!Handle, NICTB!Effects
<1>3. NICTB!BaseInv /\ out \subseteq {"request"}
  BY NICTBridge DEF NICTInv, NICT!TypeOK, NICTB!BaseInv
<1>4. NICTB!BaseInv' /\ NICTB!Carries(cancel, new)
  BY <1>1, <1>3, NICTB!HandleKeeps
<1>5. /\ NICTOutcome' /\ tu' \in Seq(NICT!Exchange)
      /\ NICTB!Told(NICTWords) => NICTB!Told(NICTWords)'
      /\ to \in {"Completed", "Terminated"} => NICTB!Told(NICTWords)'
  BY <1>2, NICTEvents
<1>6. NICT!TypeOK'
  BY <1>2, <1>3, <1>4, <1>5, NICTBridge DEF NICT!TypeOK, NICTB!BaseInv
<1> QED
  BY <1>2, <1>4, <1>5, <1>6
     DEF NICTInv, NICTWord, NICTTimer, NICTB!Carries, NICTB!BaseInv

(* The steps between the handlers.                                         *)
LEMMA NICTPlumbing ==
  ASSUME NICTInv, NICT!Plumbing
  PROVE  NICTInv'
<1>1. NICTB!Plumbing /\ NICTB!BaseInv /\ state \in NICT!States /\ tu \in Seq(NICT!Exchange)
  BY NICTBridge DEF NICTInv, NICT!TypeOK, NICTB!BaseInv
<1>2. NICTB!BaseInv' /\ NICTB!CarriesOn
  BY <1>1, NICTB!PlumbingKeeps
<1>3. /\ UNCHANGED out /\ exec' \in {exec, "no"}
      /\ exec = "userThen" => exec' = exec
      /\ life' = "listed" => life = "listed" /\ state' = state
      /\ life' = "listed" /\ ~ending' => ~ending
      /\ \/ /\ UNCHANGED <<tu, state, life>>
            /\ ending' => ending \/ exec = "fail" \/ state = "Terminated"
         \/ UNCHANGED tu /\ ending /\ state' = "Terminated"
         \/ tu' = tu \o <<"refused">> /\ UNCHANGED <<state, life>>
         \/ tu' = tu \o <<"canceled">> /\ state' = "Terminated"
  BY <1>1, NICTB!PlumbingTells DEF NICTB!BaseInv
<1>4. state' \in NICT!States
  BY <1>1, <1>3 DEF NICT!States
<1>5. /\ NICTOutcome' /\ tu' \in Seq(NICT!Exchange)
      /\ NICTWord'
  <2>1. CASE UNCHANGED tu
    <3>1. tu' = tu \o <<>> /\ NICTSilent(state')
      BY <2>1, <1>1, <1>3 DEF NICTSilent
    <3>2. /\ NICTOutcome' /\ tu' \in Seq(NICT!Exchange)
          /\ NICTB!Told(NICTWords) => NICTB!Told(NICTWords)'
          /\ state' \in {"Completed", "Terminated"} => NICTB!Told(NICTWords)'
      BY <3>1, NICTEvents
    <3> QED BY <2>1, <1>3, <3>2 DEF NICTInv, NICTWord
  <2>2. ASSUME NEW e \in {"refused", "canceled"}, tu' = tu \o <<e>>,
               state' \in {state, "Terminated"}
        PROVE  /\ NICTOutcome' /\ tu' \in Seq(NICT!Exchange)
               /\ NICTWord'
    <3>1. e \in NICT!Exchange /\ NICTEvent(e, state')
      BY <2>2 DEF NICT!Exchange, NICTEvent
    <3>2. /\ NICTOutcome' /\ tu' \in Seq(NICT!Exchange)
          /\ NICTB!Told(NICTWords)'
      BY <2>2, <3>1, NICTEvents
    <3> QED BY <1>3, <3>2 DEF NICTInv, NICTWord
  <2> QED BY <1>3, <2>1, <2>2
<1>6. NICT!TypeOK'
  BY <1>2, <1>3, <1>4, <1>5, NICTBridge DEF NICT!TypeOK, NICTB!BaseInv, NICTInv
<1>7. NICTTimer'
  BY <1>2, <1>3 DEF NICTInv, NICTTimer, NICTB!CarriesOn
<1> QED BY <1>2, <1>5, <1>6, <1>7 DEF NICTInv, NICTB!BaseInv

(* A timer the state machine does not expect, and the destructor.          *)
LEMMA NICTOther ==
  ASSUME NICTInv, NICT!ScheduleK \/ NICT!IgnoreTimer(NICT!Expected) \/ NICT!Dtor
  PROVE  NICTInv'
<1>1. NICTB!BaseInv /\ tu \in Seq(NICT!Exchange)
  BY NICTBridge DEF NICTInv, NICT!TypeOK, NICTB!BaseInv
<1>2. CASE NICT!ScheduleK
  <2>1. NICTB!ThenSchedule("K", NICT!KTimeout) /\ NICT!KTimeout \in Nat
    BY <1>2, NICTBridge, TransactionsAssumption
       DEF NICT!ScheduleK, NICT!KTimeout, NICT!NICTAssumption
  <2>2. NICTB!BaseInv' /\ NICTB!Carries({}, {NICTB!Armed("K", NICT!KTimeout)})
    BY <1>1, <2>1, NICTB!ThenScheduleKeeps
  <2>3. NICTB!Armed("K", NICT!KTimeout).kind = "K"
    BY DEF NICTB!Armed
  <2>4. NICTB!Comes("K")' /\ (NICTB!Comes("F") => NICTB!Comes("F")' \/ acting' # acting)
    BY <2>2, <2>3 DEF NICTB!Carries
  <2>5. UNCHANGED <<state, ending, life, acting, out, tu>> /\ exec' = "ok"
    BY <2>1 DEF NICTB!ThenSchedule
  <2> QED
    BY <2>2, <2>4, <2>5, NICTBridge, NICTSaid
       DEF NICTInv, NICT!TypeOK, NICTB!BaseInv, NICTWord, NICTTimer, NICTSilent
<1>3. CASE NICT!IgnoreTimer(NICT!Expected)
  <2>1. NICTB!IgnoreTimer(NICT!Expected)
    BY <1>3, NICTBridge
  <2>2. NICTB!BaseInv' /\ \A kind \in NICT!Expected : NICTB!Comes(kind) => NICTB!Comes(kind)'
    BY <1>1, <2>1, NICTB!IgnoreKeeps
  <2>3. UNCHANGED <<state, exec, ending, life, out, tu>>
    BY <2>1 DEF NICTB!IgnoreTimer
  <2>4. /\ state = "Trying" => "F" \in NICT!Expected
        /\ state = "Completed" => "K" \in NICT!Expected
    BY DEF NICT!Expected
  <2> QED
    BY <2>2, <2>3, <2>4, NICTBridge, NICTSaid
       DEF NICTInv, NICT!TypeOK, NICTB!BaseInv, NICTWord, NICTTimer, NICTSilent
<1>4. CASE NICT!Dtor
  <2>1. NICTB!Destroy({"E", "F", "K"})
    BY <1>4, NICTBridge DEF NICT!Dtor
  <2>2. NICTB!BaseInv'
    BY <1>1, <2>1, NICTB!DestroyKeeps
  <2>3. UNCHANGED <<state, exec, ending, out, tu>> /\ life = "removed" /\ life' = "destroyed"
    BY <2>1 DEF NICTB!Destroy
  <2> QED
    BY <2>2, <2>3, NICTBridge, NICTSaid
       DEF NICTInv, NICT!TypeOK, NICTB!BaseInv, NICTWord, NICTTimer, NICTSilent
<1> QED BY <1>2, <1>3, <1>4

(* Every step of the role keeps its invariant.                             *)
LEMMA NICTStep ==
  ASSUME NICTInv, NICT!Next
  PROVE  NICTInv'
<1> USE DEF NICTB!Unset, NICTB!Endings, NICTB!InUser, NICT!States, NICTSilent, NICTEvent
<1>1. /\ NICT!NICTAssumption /\ period \in Nat /\ acting \in {acting, "running"}
      /\ \A t \in Nat : /\ NICT!Armed("E", t) \in NICTB!Timer /\ NICT!Armed("E", t).own = "unset"
                        /\ NICT!Armed("F", t) \in NICTB!Timer /\ NICT!Armed("F", t).own = "unset"
                        /\ NICT!Armed("F", t).kind = "F"
  BY TransactionsAssumption, NICTBridge
     DEF NICTInv, NICT!TypeOK, NICTB!TransacTypeOK, NICT!Armed, NICTB!Timer, NICTB!Ownership
<1>2. \A sent : NICT!Request(sent) \in SUBSET {"request"}
  BY DEF NICT!Request
<1>3. CASE NICT!Started_2_Trying_send
  <2> DEFINE new == NICT!TimerE(period) \union {NICT!Armed("F", Timeout64T1)}
  <2>1. PICK sent \in NICT!Sent :
          NICT!Handle("Trying", {}, new, NICT!Request(sent), <<>>, "ok")
    BY <1>3 DEF NICT!Started_2_Trying_send
  <2>2. NICTB!Unset(new) /\ \E t \in new : t.kind = "F"
    BY <1>1 DEF NICT!TimerE, NICT!NICTAssumption
  <2>3. state = "Started" /\ UNCHANGED <<period, acting>>
    BY <1>3 DEF NICT!Started_2_Trying_send
  <2> HIDE DEF new
  <2> QED BY <1>1, <1>2, <2>1, <2>2, <2>3, NICTHandle
<1>4. ASSUME NEW from \in {"Trying", "Proceeding"}, NICT!Any_2_Any_timerE(from)
      PROVE  NICTInv'
  <2> DEFINE new == {NICT!Armed("E", NICT!Smaller(2 * period, T2))}
  <2>1. PICK sent \in NICT!Sent :
          NICT!Handle(from, {}, new, NICT!Request(sent), <<>>, "ok")
    BY <1>4 DEF NICT!Any_2_Any_timerE
  <2>2. /\ acting = "E" /\ state = from /\ acting' = "running"
        /\ period' = NICT!Smaller(2 * period, T2) /\ NICT!Smaller(2 * period, T2) \in Nat
    BY <1>4, <1>1 DEF NICT!Any_2_Any_timerE, NICT!Smaller, NICT!NICTAssumption
  <2>3. NICTB!Unset(new)
    BY <1>1, <2>2
  <2> HIDE DEF new
  <2> QED BY <1>1, <1>2, <2>1, <2>2, <2>3, NICTHandle
<1>5. CASE NICT!Trying_2_Terminated_timerF
  BY <1>1, <1>5, NICTHandle DEF NICT!Trying_2_Terminated_timerF, NICT!Exchange, NICT!Verdicts
<1>6. CASE NICT!Proceeding_2_Terminated_timerF
  BY <1>1, <1>6, NICTHandle DEF NICT!Proceeding_2_Terminated_timerF, NICT!Exchange, NICT!Verdicts
<1>7. CASE NICT!Trying_2_Proceedding_1xx
  BY <1>1, <1>7, NICTHandle DEF NICT!Trying_2_Proceedding_1xx, NICT!Exchange
<1>8. CASE NICT!Proceeding_2_Proceeding_1xx
  BY <1>1, <1>8, NICTHandle DEF NICT!Proceeding_2_Proceeding_1xx, NICT!Exchange
<1>9. ASSUME NEW from \in {"Trying", "Proceeding"}, NEW cancel,
             NICT!Any_2_Completed_200_to_699(from, cancel)
      PROVE  NICTInv'
  BY <1>1, <1>9, NICTHandle DEF NICT!Any_2_Completed_200_to_699, NICT!Exchange, NICT!Verdicts
<1>10. CASE NICT!Completed_2_Terminated_timerK
  BY <1>1, <1>10, NICTHandle DEF NICT!Completed_2_Terminated_timerK
<1>11. CASE NICT!Any_2_Terminated_transportError
  <2>1. (IF state = "Completed" THEN "user" ELSE "userAny") \in NICTB!Endings \ {"fail"}
    OBVIOUS
  <2> QED
    BY <1>1, <1>11, <2>1, NICTHandle
       DEF NICT!Any_2_Terminated_transportError, NICT!Alive, NICT!Exchange, NICT!Verdicts
<1>12. CASE NICT!Any_2_Terminated_Error
  BY <1>1, <1>12, NICTHandle
     DEF NICT!Any_2_Terminated_Error, NICT!Alive, NICT!Exchange, NICT!Verdicts
<1>13. CASE NICT!Any_2_Terminated_cancel
  BY <1>1, <1>13, NICTHandle DEF NICT!Any_2_Terminated_cancel, NICT!Alive, NICT!Exchange
<1> HIDE DEF NICTB!Unset, NICTB!Endings, NICTB!InUser, NICT!States, NICTSilent, NICTEvent
<1> QED
  BY <1>3, <1>4, <1>5, <1>6, <1>7, <1>8, <1>9, <1>10, <1>11, <1>12, <1>13,
     NICTOther, NICTPlumbing
     DEF NICT!Next, NICT!Receive, NICT!OnTimer, NICT!TimerFires, NICT!Fault,
         NICT!Trying_2_Trying_timerE, NICT!Proceeding_2_Proceeding_timerE,
         NICT!Trying_2_Completed_200_to_699, NICT!Proceeding_2_Completed_200_to_699

(* It holds in the initial states of the role.                             *)
LEMMA NICTStart ==
  ASSUME NICT!Init
  PROVE  NICTInv
<1> USE DEF NICT!Init, NICT!TransacInit
<1>1. NICT!TypeOK
  <2>1. NICT!TransacTypeOK
    <3>1. reliable \in BOOLEAN /\ ending \in BOOLEAN
      BY Zenon
    <3>2. /\ exec \in {"no"} /\ life = "listed" /\ period \in Nat /\ pending = {}
          /\ raised \in Seq(NICT!Raised) /\ storing = {} /\ acting = "idle" /\ mishaps = {}
      BY TransactionsAssumption DEF NICT!NICTAssumption
    <3> QED BY <3>1, <3>2 DEF NICT!TransacTypeOK
  <2> QED BY <2>1 DEF NICT!TypeOK, NICT!States
<1>2. NICTB!StoringInv
  BY DEF NICTB!StoringInv
<1>3. NICTOutcome /\ NICTWord /\ NICTTimer
  BY DEF NICTOutcome, NICTWord, NICTTimer, NICTB!Told, NICTB!AtMostOnce, NICTB!NeverAfter
<1> QED BY <1>1, <1>2, <1>3 DEF NICTInv

(* What the invariant says of the role's properties.                       *)
LEMMA NICTShows ==
  ASSUME NICTInv
  PROVE  NICT!NeverStuck /\ NICT!OneVerdict /\ NICT!NoSilentEnd
<1>1. NICT!NeverStuck
  BY DEF NICTInv, NICTTimer, NICT!NeverStuck, NICT!TimerOf, NICTB!Comes, NICTB!Waiting,
         NICT!Waiting
<1>2. NICT!OneVerdict
  BY DEF NICTInv, NICTOutcome, NICT!OneVerdict, NICTB!Told, NICTB!AtMostOnce,
         NICTB!NeverAfter, NICT!Told, NICT!AtMostOnce, NICT!Verdicts, NICTVerdicts, NICTFailures
<1>3. NICT!NoSilentEnd
  BY DEF NICTInv, NICTWord, NICT!NoSilentEnd, NICTB!Told, NICT!Told, NICT!Verdicts,
         NICTWords, NICTFailures
<1> QED BY <1>1, <1>2, <1>3

(* What spoils a quiet end: any word but of an answer.                     *)
NICTSpoils == {"timedout", "transport_error", "error", "refused", "canceled"}
NICTCalm   == ~NICTB!Told(NICTSpoils)

(* As long as nothing does, the timers go with the states: E and F in      *)
(* Trying, E alone, if it was dispatched before the 1xx, in Proceeding, K  *)
(* behind all others in Completed, and none once it has acted.             *)
NICTStill ==
  /\ NICTB!Orderly /\ "dangling" \notin mishaps
  /\ exec # "fail" /\ (ending \/ life # "listed" => state = "Terminated")
  /\ exec = "userThen" => state = "Completed"
  /\ state \in {"Started", "Terminated"} => NICTB!Only({}, {})
  /\ state = "Trying" => NICTB!Only({"E", "F"}, {"E", "F"})
  /\ state = "Proceeding" => NICTB!Only({"E"}, {"E", "F"})
  /\ state = "Completed" =>
       IF exec = "userThen" THEN NICTB!Only({}, {"E", "F"}) ELSE NICTB!Last("K")

NICTQuiet == NICTCalm => NICTStill

(* What a handler entered in such a state does to the timers.              *)
LEMMA NICTCalmHandle ==
  ASSUME NICTInv, NICTQuiet, NICTCalm', NEW to, NEW cancel, NEW new, NEW msgs, NEW events,
         NEW how \in {"ok", "user", "userAny", "userThen"},
         NICT!Handle(to, cancel, new, msgs, events, how),
         acting' \in {acting, "running"}, NICTB!Unset(new),
         \/ events = <<>>
         \/ \E e : events = <<e>>
  PROVE  /\ NICTStill /\ exec = "no"
         /\ state' = to /\ exec' = how /\ UNCHANGED <<raised, ending, life, mishaps>>
         /\ (/\ \A t, u \in new : t.kind = u.kind => t = u
             /\ \A t \in new : /\ \A u \in pending : u.kind = t.kind => u.kind \in cancel
                               /\ \A i \in DOMAIN raised : raised[i].kind # t.kind
                               /\ acting' # t.kind)
              => /\ NICTB!Orderly'
                 /\ \A t \in pending' : t \in new \/ (t \in pending /\ t.kind \notin cancel)
<1>1. /\ NICTB!Handle(to, cancel, new, msgs, events, how)
      /\ NICTB!BaseInv /\ tu \in Seq(NICT!Exchange)
  BY NICTBridge DEF NICTInv, NICT!TypeOK, NICTB!BaseInv
<1>2. /\ state' = to /\ exec = "no" /\ exec' = how /\ UNCHANGED <<raised, ending, life>>
      /\ tu' = tu \o events /\ NICTB!Effects(cancel, new, msgs, events)
      /\ UNCHANGED mishaps
  BY <1>1 DEF NICTB!Handle, NICTB!Effects
<1>3. ~NICTB!Told(NICTSpoils)
  BY <1>1, <1>2, NICTB!StillUnsaid DEF NICTCalm
<1>4. NICTStill /\ NICTB!Orderly
  BY <1>3 DEF NICTQuiet, NICTCalm, NICTStill
<1>5. {"E", "F", "K"} \intersect {"idle", "running"} = {}
  OBVIOUS
<1>6. ASSUME \A t, u \in new : t.kind = u.kind => t = u,
             \A t \in new : /\ \A u \in pending : u.kind = t.kind => u.kind \in cancel
                            /\ \A i \in DOMAIN raised : raised[i].kind # t.kind
                            /\ acting' # t.kind
      PROVE  /\ NICTB!Orderly'
             /\ \A t \in pending' : t \in new \/ (t \in pending /\ t.kind \notin cancel)
  BY <1>1, <1>2, <1>4, <1>5, <1>6, NICTB!HandleInOrder
<1> QED BY <1>2, <1>4, <1>6

(* The steps that are not handlers, and the rest of one.                   *)
LEMMA NICTQuietOther ==
  ASSUME NICTInv, NICTQuiet,
         \/ NICT!ScheduleK \/ NICT!Plumbing
         \/ NICT!IgnoreTimer(NICT!Expected) \/ NICT!Dtor
  PROVE  NICTQuiet'
<1> SUFFICES ASSUME NICTCalm'
             PROVE  NICTStill'
  BY DEF NICTQuiet
<1>1. /\ NICTB!TransacTypeOK /\ tu \in Seq(NICT!Exchange)
      /\ {"E", "F", "K"} \intersect {"idle", "running"} = {}
  BY NICTBridge DEF NICTInv, NICT!TypeOK
<1>2. CASE NICT!ScheduleK
  <2>1. NICTB!ThenSchedule("K", NICT!KTimeout)
    BY <1>2, NICTBridge DEF NICT!ScheduleK
  <2>2. /\ exec = "userThen" /\ exec' = "ok"
        /\ UNCHANGED <<state, ending, life, mishaps, tu>>
    BY <2>1 DEF NICTB!ThenSchedule
  <2>3. NICTCalm /\ NICTStill /\ state = "Completed" /\ NICTB!Only({}, {"E", "F"})
    BY <2>2 DEF NICTCalm, NICTB!Told, NICTQuiet, NICTStill
  <2>4. NICTB!Orderly' /\ NICTB!Last("K")'
    BY <1>1, <2>1, <2>3, NICTB!ThenScheduleInOrder DEF NICTStill
  <2> QED BY <2>2, <2>3, <2>4 DEF NICTStill
<1>3. CASE NICT!IgnoreTimer(NICT!Expected) \/ NICT!Dtor
  <2>1. (\E expected : NICTB!IgnoreTimer(expected)) \/ \E ks : NICTB!Destroy(ks)
    BY <1>3, NICTBridge DEF NICT!Dtor
  <2>2. /\ UNCHANGED <<state, exec, ending, mishaps, tu>>
        /\ life' = life \/ life = "removed"
    BY <2>1 DEF NICTB!IgnoreTimer, NICTB!Destroy
  <2>3. NICTCalm /\ NICTStill
    BY <2>2 DEF NICTCalm, NICTB!Told, NICTQuiet
  <2>4. NICTB!StaysInOrder
    BY <1>1, <2>1, <2>3, NICTB!PlumbingInOrder DEF NICTStill
  <2> QED BY <2>2, <2>3, <2>4 DEF NICTStill, NICTB!StaysInOrder
<1>4. CASE NICT!Plumbing
  <2>1. NICTB!Plumbing
    BY <1>4, NICTBridge
  <2>2. /\ exec' \in {exec, "no"} /\ mishaps \subseteq mishaps'
        /\ exec = "userThen" => exec' = exec
        /\ life' = "listed" => life = "listed" /\ state' = state
        /\ \/ /\ UNCHANGED <<tu, state, life>>
              /\ ending' => ending \/ exec = "fail" \/ state = "Terminated"
           \/ UNCHANGED tu /\ ending /\ state' = "Terminated"
           \/ tu' = tu \o <<"refused">> /\ UNCHANGED <<state, life>>
           \/ tu' = tu \o <<"canceled">> /\ state' = "Terminated"
    BY <1>1, <2>1, NICTB!PlumbingTells
  <2>3. tu' # tu \o <<"refused">> /\ tu' # tu \o <<"canceled">>
    <3>1. \A e \in {"refused", "canceled"} : <<e>> = <<e>> /\ e \in NICTSpoils
      BY DEF NICTSpoils
    <3> QED BY <1>1, <3>1, NICTB!StillUnsaid DEF NICTCalm
  <2>4. NICTCalm /\ NICTStill
    BY <2>2, <2>3 DEF NICTCalm, NICTB!Told, NICTQuiet
  <2>5. NICTB!StaysInOrder
    BY <1>1, <2>1, <2>4, NICTB!PlumbingInOrder DEF NICTStill
  <2>6. /\ state' = state /\ exec' # "fail" /\ (exec' = "userThen" <=> exec = "userThen")
        /\ ending' \/ life' # "listed" => state' = "Terminated"
    BY <2>2, <2>3, <2>4 DEF NICTStill
  <2>7. "dangling" \notin mishaps'
    <3>1. life = "destroyed" => 1 \notin DOMAIN raised
      BY <2>4 DEF NICTStill, NICTB!Only
    <3> QED BY <1>1, <2>1, <2>4, <3>1, NICTB!WhoDangles DEF NICTStill
  <2> QED BY <2>4, <2>5, <2>6, <2>7 DEF NICTStill, NICTB!StaysInOrder
<1> QED BY <1>2, <1>3, <1>4

(* Every step of the role keeps the timers in order until something spoils *)
(* it.                                                                     *)
LEMMA NICTQuietStep ==
  ASSUME NICTInv, NICTQuiet, NICT!Next
  PROVE  NICTQuiet'
<1>1. /\ NICT!NICTAssumption /\ period \in Nat
      /\ \A kind \in {"E", "F", "K"}, t \in Nat :
            /\ NICT!Armed(kind, t) \in NICTB!Timer /\ NICT!Armed(kind, t).own = "unset"
            /\ NICT!Armed(kind, t).kind = kind
  BY TransactionsAssumption, NICTBridge
     DEF NICTInv, NICT!TypeOK, NICTB!TransacTypeOK, NICT!Armed, NICTB!Timer, NICTB!Ownership
<1>2. NICTB!Unset({})
  BY DEF NICTB!Unset
<1>3. CASE NICT!Started_2_Trying_send
  <2> SUFFICES ASSUME NICTCalm'
               PROVE  NICTStill'
    BY DEF NICTQuiet
  <2> DEFINE new == NICT!TimerE(period) \union {NICT!Armed("F", Timeout64T1)}
  <2>1. PICK sent \in NICT!Sent :
          NICT!Handle("Trying", {}, new, NICT!Request(sent), <<>>, "ok")
    BY <1>3 DEF NICT!Started_2_Trying_send
  <2>2. /\ NICTB!Unset(new) /\ \A t \in new : t.kind \in {"E", "F"}
        /\ \A t, u \in new : t.kind = u.kind => t = u
    BY <1>1 DEF NICT!TimerE, NICT!NICTAssumption, NICTB!Unset
  <2>3. state = "Started" /\ UNCHANGED acting
    BY <1>3 DEF NICT!Started_2_Trying_send
  <2> HIDE DEF new
  <2>4. NICTStill /\ NICTB!Only({}, {}) /\ UNCHANGED <<raised, ending, life, mishaps>>
        /\ state' = "Trying" /\ exec' = "ok"
    BY <2>1, <2>2, <2>3, NICTCalmHandle DEF NICTStill
  <2>5. NICTB!Orderly' /\ \A t \in pending' : t \in new \/ t \in pending
    BY <2>1, <2>2, <2>3, <2>4, NICTCalmHandle DEF NICTB!Only
  <2> QED BY <2>2, <2>3, <2>4, <2>5 DEF NICTStill, NICTB!Only
<1>4. ASSUME NEW from \in {"Trying", "Proceeding"}, NICT!Any_2_Any_timerE(from)
      PROVE  NICTQuiet'
  <2> SUFFICES ASSUME NICTCalm'
               PROVE  NICTStill'
    BY DEF NICTQuiet
  <2> DEFINE new == {NICT!Armed("E", NICT!Smaller(2 * period, T2))}
  <2>1. PICK sent \in NICT!Sent :
          NICT!Handle(from, {}, new, NICT!Request(sent), <<>>, "ok")
    BY <1>4 DEF NICT!Any_2_Any_timerE
  <2>2. /\ acting = "E" /\ state = from /\ acting' = "running"
        /\ NICT!Smaller(2 * period, T2) \in Nat
    BY <1>4, <1>1 DEF NICT!Any_2_Any_timerE, NICT!Smaller, NICT!NICTAssumption
  <2>3. /\ NICTB!Unset(new) /\ \A t \in new : t.kind = "E"
        /\ \A t, u \in new : t.kind = u.kind => t = u
    BY <1>1, <2>2 DEF NICTB!Unset
  <2> HIDE DEF new
  <2>4. NICTStill /\ UNCHANGED <<raised, ending, life, mishaps>>
        /\ state' = from /\ exec' = "ok"
    BY <2>1, <2>2, <2>3, NICTCalmHandle
  <2>5. (\A t \in pending : t.kind # "E") /\ \A i \in DOMAIN raised : raised[i].kind # "E"
    BY <2>2, <2>4 DEF NICTStill, NICTB!Orderly, NICTB!OneEach
  <2>6. NICTB!Orderly' /\ \A t \in pending' : t \in new \/ t \in pending
    BY <2>1, <2>2, <2>3, <2>5, NICTCalmHandle
  <2> QED BY <2>2, <2>3, <2>4, <2>6 DEF NICTStill, NICTB!Only
<1>5. CASE NICT!Trying_2_Proceedding_1xx \/ NICT!Proceeding_2_Proceeding_1xx
  <2> SUFFICES ASSUME NICTCalm'
               PROVE  NICTStill'
    BY DEF NICTQuiet
  <2>1. PICK cancel :
          /\ NICT!Handle("Proceeding", cancel, {}, {}, <<"1xx">>, "userAny")
          /\ UNCHANGED acting
          /\ state = "Proceeding" \/ (state = "Trying" /\ cancel = {"E", "F"})
    BY <1>5 DEF NICT!Trying_2_Proceedding_1xx, NICT!Proceeding_2_Proceeding_1xx
  <2>2. NICTStill /\ UNCHANGED <<raised, ending, life, mishaps>>
        /\ state' = "Proceeding" /\ exec' = "userAny" /\ NICTB!Orderly'
        /\ \A t \in pending' : t \in pending /\ t.kind \notin cancel
    BY <2>1, <1>2, NICTCalmHandle
  <2>3. NICTB!Only({"E"}, {"E", "F"})'
    BY <2>1, <2>2 DEF NICTStill, NICTB!Only
  <2> QED BY <2>1, <2>2, <2>3 DEF NICTStill
<1>6. CASE NICT!Trying_2_Completed_200_to_699 \/ NICT!Proceeding_2_Completed_200_to_699
  <2> SUFFICES ASSUME NICTCalm'
               PROVE  NICTStill'
    BY DEF NICTQuiet
  <2>1. PICK cancel :
          /\ NICT!Handle("Completed", cancel, {}, {}, <<"final">>, "userThen")
          /\ UNCHANGED acting
          /\ \/ state = "Trying" /\ cancel = {"E", "F"}
             \/ state = "Proceeding" /\ cancel = {"E"}
    BY <1>6 DEF NICT!Trying_2_Completed_200_to_699, NICT!Proceeding_2_Completed_200_to_699,
                NICT!Any_2_Completed_200_to_699
  <2>2. NICTStill /\ UNCHANGED <<raised, ending, life, mishaps>>
        /\ state' = "Completed" /\ exec' = "userThen" /\ NICTB!Orderly'
        /\ \A t \in pending' : t \in pending /\ t.kind \notin cancel
    BY <2>1, <1>2, NICTCalmHandle
  <2>3. NICTB!Only({}, {"E", "F"})'
    BY <2>1, <2>2 DEF NICTStill, NICTB!Only
  <2> QED BY <2>1, <2>2, <2>3 DEF NICTStill
<1>7. CASE NICT!Completed_2_Terminated_timerK
  <2> SUFFICES ASSUME NICTCalm'
               PROVE  NICTStill'
    BY DEF NICTQuiet
  <2>1. /\ NICT!Handle("Terminated", {}, {}, {}, <<>>, "ok") /\ state = "Completed"
        /\ acting = "K" /\ acting' = "running"
    BY <1>7 DEF NICT!Completed_2_Terminated_timerK
  <2>2. NICTStill /\ exec = "no" /\ UNCHANGED <<raised, ending, life, mishaps>>
        /\ state' = "Terminated" /\ exec' = "ok" /\ NICTB!Orderly'
        /\ \A t \in pending' : t \in pending
    BY <2>1, <1>2, NICTCalmHandle
  <2>3. NICTB!Last("K")
    BY <2>1, <2>2 DEF NICTStill
  <2>4. raised = <<>> /\ \A t \in pending : FALSE
    BY <2>1, <2>2, <2>3 DEF NICTStill, NICTB!Orderly, NICTB!OneEach, NICTB!Last
  <2>5. NICTB!Only({}, {})'
    BY <2>1, <2>2, <2>4 DEF NICTB!Only
  <2> QED BY <2>2, <2>5 DEF NICTStill
<1>8. ASSUME NEW e \in NICTSpoils, NEW how, NICT!Handle("Terminated", {}, {}, {}, <<e>>, how)
      PROVE  NICTQuiet'
  <2>1. tu' = tu \o <<e>> /\ tu \in Seq(NICT!Exchange)
    BY <1>8 DEF NICT!Handle, NICT!Effects, NICTInv, NICT!TypeOK
  <2>2. NICTB!Told(NICTSpoils)'
    BY <1>8, <2>1, NICTB!OneMoreEvent
  <2> QED BY <2>2 DEF NICTQuiet, NICTCalm
<1>9. CASE \/ NICT!Trying_2_Terminated_timerF \/ NICT!Proceeding_2_Terminated_timerF
           \/ NICT!Fault
  <2>1. {"timedout", "transport_error", "error", "canceled"} \subseteq NICTSpoils
    BY DEF NICTSpoils
  <2>2. CASE NICT!Trying_2_Terminated_timerF
    BY <1>8, <2>1, <2>2 DEF NICT!Trying_2_Terminated_timerF
  <2>3. CASE NICT!Proceeding_2_Terminated_timerF
    BY <1>8, <2>1, <2>3 DEF NICT!Proceeding_2_Terminated_timerF
  <2>4. CASE NICT!Any_2_Terminated_transportError
    BY <1>8, <2>1, <2>4 DEF NICT!Any_2_Terminated_transportError
  <2>5. CASE NICT!Any_2_Terminated_Error
    BY <1>8, <2>1, <2>5 DEF NICT!Any_2_Terminated_Error
  <2>6. CASE NICT!Any_2_Terminated_cancel
    BY <1>8, <2>1, <2>6 DEF NICT!Any_2_Terminated_cancel
  <2> QED BY <1>9, <2>2, <2>3, <2>4, <2>5, <2>6 DEF NICT!Fault
<1> QED
  BY <1>3, <1>4, <1>5, <1>6, <1>7, <1>9, NICTQuietOther
     DEF NICT!Next, NICT!Receive, NICT!OnTimer, NICT!TimerFires,
         NICT!Trying_2_Trying_timerE, NICT!Proceeding_2_Proceeding_timerE

(* At first there is no timer.                                             *)
LEMMA NICTQuietStart ==
  ASSUME NICT!Init
  PROVE  NICTQuiet
BY DEF NICT!Init, NICT!TransacInit, NICTQuiet, NICTStill, NICTB!Orderly, NICTB!OneEach,
       NICTB!Known, NICTB!Only

(* A transaction that is answered and left to timer K spoils nothing.      *)
LEMMA NICTIsQuiet ==
  ASSUME NICTInv, NICTQuiet
  PROVE  NICT!QuietAfterAnswer
<1> SUFFICES ASSUME \A i \in 1..Len(tu) : tu[i] \in {"1xx", "final"}
             PROVE  "dangling" \notin mishaps
  BY DEF NICT!QuietAfterAnswer
<1>1. ~NICTB!Told(NICTSpoils)
  BY DEF NICTB!Told, NICTSpoils
<1> QED BY <1>1 DEF NICTQuiet, NICTCalm, NICTStill

-----------------------------------------------------------------------------
(* The INVITE client transaction. *)

ICTB == INSTANCE TransacProofs WITH Kinds <- {"A", "B", "D", "M"}, Reliables <- BOOLEAN

(* The base class of the role is that of the lemmas.                       *)
LEMMA ICTBridge ==
  /\ \A to, cancel, new, msgs, events, how :
       ICT!Handle(to, cancel, new, msgs, events, how)
         => ICTB!Handle(to, cancel, new, msgs, events, how)
  /\ \A expected : ICT!IgnoreTimer(expected) => ICTB!IgnoreTimer(expected)
  /\ \A kinds : ICT!Destroy(kinds) => ICTB!Destroy(kinds)
  /\ ICT!Plumbing => ICTB!Plumbing
  /\ ICT!TransacTypeOK <=> ICTB!TransacTypeOK
  /\ ICT!TransacTypeOK' <=> ICTB!TransacTypeOK'
<1>1. \A to, cancel, new, msgs, events, how :
         ICT!Handle(to, cancel, new, msgs, events, how)
           => ICTB!Handle(to, cancel, new, msgs, events, how)
  BY DEF ICT!Handle, ICTB!Handle, ICT!Effects, ICTB!Effects, ICT!Canceled,
         ICTB!Canceled
<1>2. \A expected : ICT!IgnoreTimer(expected) => ICTB!IgnoreTimer(expected)
  BY DEF ICT!IgnoreTimer, ICTB!IgnoreTimer
<1>3. \A kinds : ICT!Destroy(kinds) => ICTB!Destroy(kinds)
  BY DEF ICT!Destroy, ICTB!Destroy, ICT!Canceled, ICTB!Canceled
<1>4. ICT!Plumbing => ICTB!Plumbing
  <2>1. ICT!Return => ICTB!Return
    BY DEF ICT!Return, ICTB!Return, ICT!Stored, ICTB!Stored
  <2>2. ICT!Finish => ICTB!Finish
    BY DEF ICT!Finish, ICTB!Finish
  <2>3. ICT!NestedCancel => ICTB!NestedCancel
    BY DEF ICT!NestedCancel, ICTB!NestedCancel, ICT!InUser, ICTB!InUser
  <2>4. ICT!RaiseTimer => ICTB!RaiseTimer
    BY DEF ICT!RaiseTimer, ICTB!RaiseTimer
  <2>5. ICT!MatchTimer => ICTB!MatchTimer
    BY DEF ICT!MatchTimer, ICTB!MatchTimer
  <2>6. ICT!Tick => ICTB!Tick
    BY DEF ICT!Tick, ICTB!Tick
  <2> QED BY <2>1, <2>2, <2>3, <2>4, <2>5, <2>6 DEF ICT!Plumbing, ICTB!Plumbing
<1>5. ICT!TransacTypeOK <=> ICTB!TransacTypeOK
  BY DEF ICT!TransacTypeOK, ICTB!TransacTypeOK, ICT!Timer, ICTB!Timer,
         ICT!Raised, ICTB!Raised, ICT!Ownership, ICTB!Ownership, ICT!Endings,
         ICTB!Endings, ICT!InUser, ICTB!InUser
<1>6. ICT!TransacTypeOK' <=> ICTB!TransacTypeOK'
  BY DEF ICT!TransacTypeOK, ICTB!TransacTypeOK, ICT!Timer, ICTB!Timer,
         ICT!Raised, ICTB!Raised, ICT!Ownership, ICTB!Ownership, ICT!Endings,
         ICTB!Endings, ICT!InUser, ICTB!InUser
<1> QED BY <1>1, <1>2, <1>3, <1>4, <1>5, <1>6

ICTVerdicts == {"2xx", "3xx", "timedout", "transport_error", "error"}
ICTReplies  == {"1xx", "2xx", "3xx"}
ICTWords    == {"refused", "canceled"} \union ICTVerdicts

(* What the user has been told in each state.                              *)
ICTOutcome ==
  /\ state \in {"Started", "Calling"} =>
       ~ICTB!Told(ICTVerdicts) /\ ~ICTB!Told(ICTReplies)
  /\ state = "Proceeding" => ~ICTB!Told(ICTVerdicts)
  /\ state = "Completed" => ~ICTB!Told({"2xx"})
  /\ state = "Accepted" => ~ICTB!Told({"3xx"}) /\ ~ICTB!Told({"timedout"})
  /\ ~(ICTB!Told({"2xx"}) /\ ICTB!Told({"3xx"}))
  /\ ICTB!AtMostOnce({"3xx"}) /\ ICTB!AtMostOnce({"timedout"})
  /\ ~(ICTB!Told({"timedout"}) /\ ICTB!Told(ICTReplies))
  /\ ICTB!NeverAfter(ICTVerdicts, {"1xx"})

(* Who is on the way out has heard the end, or said it, or an ACK was      *)
(* refused.                                                                *)
ICTWord ==
  (\/ state \in {"Completed", "Accepted", "Terminated"} \/ exec = "fail"
   \/ ending \/ life # "listed") => ICTB!Told(ICTWords) \/ "unsent" \in mishaps

ICTTimer ==
  (life = "listed" /\ ~ending) =>
    /\ state = "Calling" => ICTB!Comes("B")
    /\ state = "Completed" => ICTB!Comes("D")
    /\ state = "Accepted" => ICTB!Comes("M")

ICTInv == ICT!TypeOK /\ ICTB!StoringInv /\ ICTOutcome /\ ICTWord /\ ICTTimer

(* The states in which an event may pass, and the one it leads to.         *)
ICTEvent(e, to) ==
  \/ e = "1xx" /\ state \in {"Calling", "Proceeding"} /\ to = "Proceeding"
  \/ e = "2xx" /\ state \in {"Calling", "Proceeding", "Accepted"} /\ to = "Accepted"
  \/ e = "3xx" /\ state \in {"Calling", "Proceeding"} /\ to = "Completed"
  \/ e = "timedout" /\ state = "Calling" /\ to = "Terminated"
  \/ /\ e \in {"transport_error", "error"} /\ to = "Terminated"
     /\ state \notin {"Started", "Terminated"}
  \/ e \in {"refused", "canceled"} /\ to \in {state, "Terminated"}

ICTSilent(to) ==
  \/ to = state
  \/ state = "Started" /\ to = "Calling"
  \/ state \in {"Calling", "Proceeding"} /\ to = "Completed"
  \/ state \in {"Completed", "Accepted"} /\ to = "Terminated"
  \/ ending /\ to = "Terminated"

(* The state entered has its timer armed by the step, or left alone.       *)
ICTKept(in, kind, to, cancel, new) ==
  to = in => \/ \E t \in new : t.kind = kind
             \/ state = to /\ kind \notin cancel /\ (acting' = acting \/ acting # kind)

(* An event that may pass in this state keeps the outcome.                 *)
LEMMA ICTTold ==
  ASSUME tu \in Seq(ICT!Exchange), NEW e, tu' = tu \o <<e>>,
         ICTOutcome, state \in ICT!States, ICTEvent(e, state')
  PROVE  /\ ICTOutcome'
         /\ ICTB!Told(ICTWords)' <=> ICTB!Told(ICTWords) \/ e # "1xx"
<1>1. /\ ICTB!Told({"2xx"}) => ICTB!Told(ICTVerdicts) /\ ICTB!Told(ICTReplies)
      /\ ICTB!Told({"3xx"}) => ICTB!Told(ICTVerdicts) /\ ICTB!Told(ICTReplies)
      /\ ICTB!Told({"timedout"}) => ICTB!Told(ICTVerdicts)
  BY DEF ICTB!Told, ICTVerdicts, ICTReplies
<1>2. /\ e \in ICTVerdicts <=> e \in {"2xx", "3xx", "timedout", "transport_error", "error"}
      /\ e \in ICTReplies <=> e \in {"1xx", "2xx", "3xx"}
      /\ e \in ICTWords <=> e # "1xx"
  BY DEF ICTVerdicts, ICTReplies, ICTWords, ICTEvent
<1>3. /\ ICTB!Told({"2xx"})' <=> ICTB!Told({"2xx"}) \/ e = "2xx"
      /\ ICTB!Told({"3xx"})' <=> ICTB!Told({"3xx"}) \/ e = "3xx"
      /\ ICTB!Told({"timedout"})' <=> ICTB!Told({"timedout"}) \/ e = "timedout"
      /\ ICTB!Told(ICTReplies)' <=> ICTB!Told(ICTReplies) \/ e \in ICTReplies
      /\ ICTB!Told(ICTVerdicts)' <=> ICTB!Told(ICTVerdicts) \/ e \in ICTVerdicts
      /\ ICTB!Told(ICTWords)' <=> ICTB!Told(ICTWords) \/ e \in ICTWords
  BY ICTB!OneMoreEvent
<1>4. /\ ICTB!AtMostOnce({"3xx"}) /\ (e = "3xx" => ~ICTB!Told({"3xx"}))
             => ICTB!AtMostOnce({"3xx"})'
      /\ ICTB!AtMostOnce({"timedout"}) /\ (e = "timedout" => ~ICTB!Told({"timedout"}))
             => ICTB!AtMostOnce({"timedout"})'
  BY ICTB!OneMoreEvent
<1>5. ICTB!NeverAfter(ICTVerdicts, {"1xx"}) /\ (e = "1xx" => ~ICTB!Told(ICTVerdicts))
             => ICTB!NeverAfter(ICTVerdicts, {"1xx"})'
  BY ICTB!OneMoreAfter
<1> QED BY <1>1, <1>2, <1>3, <1>4, <1>5 DEF ICTOutcome, ICT!States, ICTEvent

(* A step that says nothing keeps it as well.                              *)
LEMMA ICTSaid ==
  ASSUME UNCHANGED tu, ICTOutcome, ICTSilent(state')
  PROVE  ICTOutcome' /\ (ICTB!Told(ICTWords)' <=> ICTB!Told(ICTWords))
<1>1. /\ ICTB!Told({"2xx"}) => ICTB!Told(ICTVerdicts)
      /\ UNCHANGED <<ICTB!Told(ICTVerdicts), ICTB!Told(ICTReplies), ICTB!Told({"2xx"}),
                     ICTB!Told({"3xx"}), ICTB!Told({"timedout"}), ICTB!Told(ICTWords),
                     ICTB!AtMostOnce({"3xx"}), ICTB!AtMostOnce({"timedout"}),
                     ICTB!NeverAfter(ICTVerdicts, {"1xx"})>>
  BY DEF ICTB!Told, ICTB!AtMostOnce, ICTB!NeverAfter, ICTVerdicts
<1> QED BY <1>1 DEF ICTOutcome, ICTSilent

(* A step that tells one event or none.                                    *)
LEMMA ICTEvents ==
  ASSUME ICTInv, NEW events, tu' = tu \o events,
         \/ events = <<>> /\ ICTSilent(state')
         \/ \E e \in ICT!Exchange : events = <<e>> /\ ICTEvent(e, state')
  PROVE  /\ ICTOutcome' /\ tu' \in Seq(ICT!Exchange)
         /\ ICTB!Told(ICTWords) => ICTB!Told(ICTWords)'
         /\ \/ ICTB!Told(ICTWords)' \/ state' = "Proceeding"
            \/ events = <<>> /\ ICTSilent(state')
         /\ events \in {<<"refused">>, <<"canceled">>} => ICTB!Told(ICTWords)'
<1>1. tu \in Seq(ICT!Exchange) /\ state \in ICT!States
  BY DEF ICTInv, ICT!TypeOK
<1>2. CASE events = <<>> /\ ICTSilent(state')
  <2>1. UNCHANGED tu
    BY <1>1, <1>2
  <2> QED BY <2>1, <1>1, <1>2, ICTSaid DEF ICTInv
<1>3. ASSUME NEW e \in ICT!Exchange, events = <<e>>, ICTEvent(e, state')
      PROVE  /\ ICTOutcome' /\ tu' \in Seq(ICT!Exchange)
             /\ ICTB!Told(ICTWords) => ICTB!Told(ICTWords)'
             /\ ICTB!Told(ICTWords)' \/ state' = "Proceeding"
             /\ events \in {<<"refused">>, <<"canceled">>} => ICTB!Told(ICTWords)'
  <2>1. tu' = tu \o <<e>> /\ tu' \in Seq(ICT!Exchange)
    BY <1>1, <1>3
  <2>2. /\ ICTOutcome'
        /\ ICTB!Told(ICTWords)' <=> ICTB!Told(ICTWords) \/ e # "1xx"
    BY <2>1, <1>1, <1>3, ICTTold DEF ICTInv
  <2> QED BY <2>1, <2>2, <1>3 DEF ICTEvent
<1> QED BY <1>2, <1>3

(* The handlers that keep the invariant.                                   *)
ICTAllowed(to, cancel, new, events, how) ==
  /\ to \in ICT!States \ {"Started"} /\ how \in ICTB!Endings /\ ICTB!Unset(new)
  /\ acting' \in {acting, "running"} /\ period' \in Nat
  /\ \/ events = <<>> /\ ICTSilent(to)
     \/ \E e \in ICT!Exchange : events = <<e>> /\ ICTEvent(e, to)
  /\ events = <<>> /\ to = "Completed" => state = "Completed" \/ how = "fail"
  /\ ICTKept("Calling", "B", to, cancel, new)
  /\ ICTKept("Completed", "D", to, cancel, new)
  /\ ICTKept("Accepted", "M", to, cancel, new)

(* A handler of that kind, entered from outside, keeps the invariant.      *)
LEMMA ICTHandle ==
  ASSUME ICTInv, NEW to, NEW cancel, NEW new, NEW msgs \in SUBSET ICT!Requests,
         NEW events, NEW how, ICT!Handle(to, cancel, new, msgs, events, how),
         ICTAllowed(to, cancel, new, events, how)
  PROVE  ICTInv'
<1>1. ICTB!Handle(to, cancel, new, msgs, events, how)
  BY ICTBridge
<1>2. /\ state' = to /\ exec' = how /\ ending' = ending /\ life' = life
      /\ out' = out \union msgs /\ tu' = tu \o events
      /\ mishaps' = mishaps \union IF how = "fail" THEN {"unsent"} ELSE {}
  BY <1>1 DEF ICTB!Handle, ICTB!Effects
<1>3. ICTB!BaseInv /\ out \subseteq ICT!Requests
  BY ICTBridge DEF ICTInv, ICT!TypeOK, ICTB!BaseInv
<1>4. ICTB!BaseInv' /\ ICTB!Carries(cancel, new)
  BY <1>1, <1>3, ICTB!HandleKeeps DEF ICTAllowed
<1>5. /\ ICTOutcome' /\ tu' \in Seq(ICT!Exchange)
      /\ ICTB!Told(ICTWords) => ICTB!Told(ICTWords)'
      /\ \/ ICTB!Told(ICTWords)' \/ to = "Proceeding"
         \/ events = <<>> /\ ICTSilent(to)
  BY <1>2, ICTEvents DEF ICTAllowed
<1>6. ICT!TypeOK'
  BY <1>2, <1>3, <1>4, <1>5, ICTBridge DEF ICT!TypeOK, ICTB!BaseInv, ICTAllowed
<1>7. ICTWord'
  BY <1>2, <1>5 DEF ICTInv, ICTWord, ICTSilent, ICTAllowed
<1>8. ICTTimer'
  BY <1>2, <1>4 DEF ICTInv, ICTTimer, ICTB!Carries, ICTKept, ICTAllowed
<1> QED BY <1>4, <1>5, <1>6, <1>7, <1>8 DEF ICTInv, ICTB!BaseInv

(* The steps between the handlers.                                         *)
LEMMA ICTPlumbing ==
  ASSUME ICTInv, ICT!Plumbing
  PROVE  ICTInv'
<1>1. ICTB!Plumbing /\ ICTB!BaseInv /\ state \in ICT!States /\ tu \in Seq(ICT!Exchange)
  BY ICTBridge DEF ICTInv, ICT!TypeOK, ICTB!BaseInv
<1>2. ICTB!BaseInv' /\ ICTB!CarriesOn
  BY <1>1, ICTB!PlumbingKeeps
<1>3. /\ UNCHANGED out /\ exec' \in {exec, "no"} /\ mishaps \subseteq mishaps'
      /\ life' = "listed" => life = "listed" /\ state' = state
      /\ life' = "listed" /\ ~ending' => ~ending
      /\ \/ /\ UNCHANGED <<tu, state, life>>
            /\ ending' => ending \/ exec = "fail" \/ state = "Terminated"
         \/ UNCHANGED tu /\ ending /\ state' = "Terminated"
         \/ tu' = tu \o <<"refused">> /\ UNCHANGED <<state, life>>
         \/ tu' = tu \o <<"canceled">> /\ state' = "Terminated"
  BY <1>1, ICTB!PlumbingTells DEF ICTB!BaseInv
<1>4. state' \in ICT!States
  BY <1>1, <1>3 DEF ICT!States
<1>5. /\ ICTOutcome' /\ tu' \in Seq(ICT!Exchange)
      /\ ICTWord'
  <2>1. CASE UNCHANGED tu
    <3>1. tu' = tu \o <<>> /\ ICTSilent(state')
      BY <2>1, <1>1, <1>3 DEF ICTSilent
    <3>2. /\ ICTOutcome' /\ tu' \in Seq(ICT!Exchange)
          /\ ICTB!Told(ICTWords) => ICTB!Told(ICTWords)'
      BY <3>1, ICTEvents
    <3> QED BY <2>1, <1>3, <3>2 DEF ICTInv, ICTWord
  <2>2. ASSUME NEW e \in {"refused", "canceled"}, tu' = tu \o <<e>>,
               state' \in {state, "Terminated"}
        PROVE  /\ ICTOutcome' /\ tu' \in Seq(ICT!Exchange)
               /\ ICTWord'
    <3>1. e \in ICT!Exchange /\ ICTEvent(e, state')
      BY <2>2 DEF ICT!Exchange, ICTEvent
    <3>2. /\ ICTOutcome' /\ tu' \in Seq(ICT!Exchange)
          /\ ICTB!Told(ICTWords)'
      BY <2>2, <3>1, ICTEvents
    <3> QED BY <1>3, <3>2 DEF ICTInv, ICTWord
  <2> QED BY <1>3, <2>1, <2>2
<1>6. ICT!TypeOK'
  BY <1>2, <1>3, <1>4, <1>5, ICTBridge DEF ICT!TypeOK, ICTB!BaseInv, ICTInv
<1>7. ICTTimer'
  BY <1>2, <1>3 DEF ICTInv, ICTTimer, ICTB!CarriesOn
<1> QED BY <1>2, <1>5, <1>6, <1>7 DEF ICTInv, ICTB!BaseInv

(* A timer the state machine does not expect, and the destructor.          *)
LEMMA ICTOther ==
  ASSUME ICTInv, ICT!IgnoreTimer(ICT!Expected) \/ ICT!Dtor
  PROVE  ICTInv'
<1>1. ICTB!BaseInv
  BY ICTBridge DEF ICTInv, ICT!TypeOK, ICTB!BaseInv
<1>2. CASE ICT!IgnoreTimer(ICT!Expected)
  <2>1. ICTB!IgnoreTimer(ICT!Expected)
    BY <1>2, ICTBridge
  <2>2. ICTB!BaseInv' /\ \A kind \in ICT!Expected : ICTB!Comes(kind) => ICTB!Comes(kind)'
    BY <1>1, <2>1, ICTB!IgnoreKeeps
  <2>3. UNCHANGED <<state, exec, ending, life, mishaps, out, tu>>
    BY <2>1 DEF ICTB!IgnoreTimer
  <2>4. /\ state = "Calling" => "B" \in ICT!Expected
        /\ state = "Completed" => "D" \in ICT!Expected
        /\ state = "Accepted" => "M" \in ICT!Expected
    BY DEF ICT!Expected
  <2> QED
    BY <2>2, <2>3, <2>4, ICTBridge, ICTSaid
       DEF ICTInv, ICT!TypeOK, ICTB!BaseInv, ICTWord, ICTTimer, ICTSilent
<1>3. CASE ICT!Dtor
  <2>1. ICTB!Destroy({"A", "B", "D", "M"})
    BY <1>3, ICTBridge DEF ICT!Dtor
  <2>2. ICTB!BaseInv'
    BY <1>1, <2>1, ICTB!DestroyKeeps
  <2>3. /\ UNCHANGED <<state, exec, ending, mishaps, out, tu>>
        /\ life = "removed" /\ life' = "destroyed"
    BY <2>1 DEF ICTB!Destroy
  <2> QED
    BY <2>2, <2>3, ICTBridge, ICTSaid
       DEF ICTInv, ICT!TypeOK, ICTB!BaseInv, ICTWord, ICTTimer, ICTSilent
<1> QED BY <1>2, <1>3

(* Every step of the role keeps its invariant.                             *)
LEMMA ICTStep ==
  ASSUME ICTInv, ICT!Next
  PROVE  ICTInv'
<1>1. /\ ICT!ICTAssumption /\ period \in Nat
      /\ \A kind \in {"A", "B", "D", "M"}, t \in Nat :
            /\ ICT!Armed(kind, t) \in ICTB!Timer /\ ICT!Armed(kind, t).own = "unset"
            /\ ICT!Armed(kind, t).kind = kind
  BY TransactionsAssumption, ICTBridge
     DEF ICTInv, ICT!TypeOK, ICTB!TransacTypeOK, ICT!Armed, ICTB!Timer, ICTB!Ownership
<1>2. \A sent : /\ ICT!Request(sent, "INVITE") \in SUBSET ICT!Requests
                /\ ICT!Request(sent, "ACK") \in SUBSET ICT!Requests
  BY DEF ICT!Request, ICT!Requests
<1>3. ICT!Exchange = {"1xx", "refused", "canceled", "2xx", "3xx", "timedout",
                      "transport_error", "error"}
  BY DEF ICT!Exchange, ICT!Verdicts
<1>4. CASE ICT!Started_2_Calling_send
  <2> DEFINE new == ICT!TimerA(period) \union {ICT!Armed("B", Timeout64T1)}
  <2>1. PICK sent \in ICT!Sent :
          ICT!Handle("Calling", {}, new, ICT!Request(sent, "INVITE"), <<>>, "ok")
    BY <1>4 DEF ICT!Started_2_Calling_send
  <2>2. ICTB!Unset(new) /\ \E t \in new : t.kind = "B"
    BY <1>1 DEF ICT!TimerA, ICT!ICTAssumption, ICTB!Unset
  <2>3. state = "Started" /\ UNCHANGED <<period, acting>>
    BY <1>4 DEF ICT!Started_2_Calling_send
  <2> HIDE DEF new
  <2>4. ICTAllowed("Calling", {}, new, <<>>, "ok")
    BY <1>1, <2>2, <2>3
       DEF ICTAllowed, ICTB!Endings, ICT!States, ICTSilent, ICTKept
  <2> QED BY <1>2, <2>1, <2>4, ICTHandle
<1>5. CASE ICT!Calling_2_Calling_timerA
  <2> DEFINE new == {ICT!Armed("A", 2 * period)}
  <2>1. PICK sent \in ICT!Sent :
          ICT!Handle("Calling", {}, new, ICT!Request(sent, "INVITE"), <<>>, "ok")
    BY <1>5 DEF ICT!Calling_2_Calling_timerA
  <2>2. /\ acting = "A" /\ state = "Calling" /\ acting' = "running"
        /\ period' = 2 * period /\ 2 * period \in Nat
    BY <1>5, <1>1 DEF ICT!Calling_2_Calling_timerA
  <2>3. ICTB!Unset(new)
    BY <1>1, <2>2 DEF ICTB!Unset
  <2> HIDE DEF new
  <2>4. ICTAllowed("Calling", {}, new, <<>>, "ok")
    BY <1>1, <2>2, <2>3
       DEF ICTAllowed, ICTB!Endings, ICT!States, ICTSilent, ICTKept
  <2> QED BY <1>2, <2>1, <2>4, ICTHandle
<1>6. CASE ICT!Calling_2_Terminated_timerB
  <2>1. /\ ICT!Handle("Terminated", {}, {}, {}, <<"timedout">>, "userAny")
        /\ ICTAllowed("Terminated", {}, {}, <<"timedout">>, "userAny")
    BY <1>6, <1>1, <1>3
       DEF ICT!Calling_2_Terminated_timerB,
           ICTAllowed, ICTB!Unset, ICTB!Endings, ICTB!InUser, ICT!States, ICTSilent,
           ICTEvent, ICTKept
  <2> QED BY <2>1, ICTHandle
<1>7. ASSUME NEW from \in {"Calling", "Proceeding"}, ICT!Any_2_Completed_300_to_699(from)
      PROVE  ICTInv'
  <2> DEFINE new == {ICT!Armed("D", ICT!DTimeout)}
  <2>1. PICK sent \in ICT!Sent :
          ICT!Handle("Completed", {"A", "B"}, new, ICT!Request(sent, "ACK"),
                     IF sent THEN <<"3xx">> ELSE <<>>, IF sent THEN "user" ELSE "fail")
    BY <1>7 DEF ICT!Any_2_Completed_300_to_699
  <2>2. state = from /\ UNCHANGED <<period, acting>> /\ ICT!DTimeout \in Nat
    BY <1>7, <1>1 DEF ICT!Any_2_Completed_300_to_699, ICT!DTimeout, ICT!ICTAssumption
  <2>3. ICTB!Unset(new) /\ \E t \in new : t.kind = "D"
    BY <1>1, <2>2 DEF ICTB!Unset
  <2> HIDE DEF new
  <2>4. CASE sent
    <3>1. ICTAllowed("Completed", {"A", "B"}, new, <<"3xx">>, "user")
      BY <1>1, <1>3, <2>2, <2>3
         DEF ICTAllowed, ICTB!Endings, ICTB!InUser, ICT!States, ICTEvent, ICTKept
    <3> QED BY <1>2, <2>1, <2>4, <3>1, ICTHandle
  <2>5. CASE ~sent
    <3>1. ICTAllowed("Completed", {"A", "B"}, new, <<>>, "fail")
      BY <1>1, <2>2, <2>3
         DEF ICTAllowed, ICTB!Endings, ICT!States, ICTSilent, ICTKept
    <3> QED BY <1>2, <2>1, <2>5, <3>1, ICTHandle
  <2> QED BY <2>4, <2>5
<1>8. CASE ICT!Calling_2_Proceeding_1xx
  <2>1. /\ ICT!Handle("Proceeding", {"A", "B"}, {}, {}, <<"1xx">>, "userAny")
        /\ ICTAllowed("Proceeding", {"A", "B"}, {}, <<"1xx">>, "userAny")
    BY <1>8, <1>1, <1>3
       DEF ICT!Calling_2_Proceeding_1xx,
           ICTAllowed, ICTB!Unset, ICTB!Endings, ICTB!InUser, ICT!States, ICTSilent,
           ICTEvent, ICTKept
  <2> QED BY <2>1, ICTHandle
<1>9. ASSUME NEW from \in {"Calling", "Proceeding"}, ICT!Any_2_Accepted_2xx(from)
      PROVE  ICTInv'
  <2> DEFINE new == {ICT!Armed("M", Timeout64T1), ICT!Armed("B", Timeout64T1)}
                      \union ICT!TimerA(period)
  <2>1. /\ ICT!Handle("Accepted", {}, new, {}, <<"2xx">>, "user")
        /\ state = from /\ UNCHANGED <<period, acting>>
    BY <1>9 DEF ICT!Any_2_Accepted_2xx
  <2>2. ICTB!Unset(new) /\ \E t \in new : t.kind = "M"
    BY <1>1 DEF ICT!TimerA, ICT!ICTAssumption, ICTB!Unset
  <2> HIDE DEF new
  <2>3. ICTAllowed("Accepted", {}, new, <<"2xx">>, "user")
    BY <1>1, <1>3, <2>1, <2>2
       DEF ICTAllowed, ICTB!Endings, ICTB!InUser, ICT!States, ICTEvent, ICTKept
  <2> QED BY <2>1, <2>3, ICTHandle
<1>10. CASE ICT!Proceeding_2_Proceeding_1xx
  <2>1. /\ ICT!Handle("Proceeding", {}, {}, {}, <<"1xx">>, "user")
        /\ ICTAllowed("Proceeding", {}, {}, <<"1xx">>, "user")
    BY <1>10, <1>1, <1>3
       DEF ICT!Proceeding_2_Proceeding_1xx,
           ICTAllowed, ICTB!Unset, ICTB!Endings, ICTB!InUser, ICT!States, ICTSilent,
           ICTEvent, ICTKept
  <2> QED BY <2>1, ICTHandle
<1>11. CASE ICT!Completed_2_Completed_300_to_699
  <2>1. PICK sent \in ICT!Sent :
          ICT!Handle("Completed", {}, {}, ICT!Request(sent, "ACK"), <<>>,
                     IF sent THEN "ok" ELSE "fail")
    BY <1>11 DEF ICT!Completed_2_Completed_300_to_699
  <2>2. ICTAllowed("Completed", {}, {}, <<>>, IF sent THEN "ok" ELSE "fail")
    BY <1>11, <1>1
       DEF ICT!Completed_2_Completed_300_to_699, ICTAllowed, ICTB!Unset,
           ICTB!Endings, ICT!States, ICTSilent, ICTKept
  <2> QED BY <1>2, <2>1, <2>2, ICTHandle
<1>12. CASE ICT!Completed_2_Terminated_timerD
  <2>1. /\ ICT!Handle("Terminated", {}, {}, {}, <<>>, "ok")
        /\ ICTAllowed("Terminated", {}, {}, <<>>, "ok")
    BY <1>12, <1>1, <1>3
       DEF ICT!Completed_2_Terminated_timerD,
           ICTAllowed, ICTB!Unset, ICTB!Endings, ICTB!InUser, ICT!States, ICTSilent,
           ICTEvent, ICTKept
  <2> QED BY <2>1, ICTHandle
<1>13. CASE ICT!Accepted_2_Accepted_2xx
  <2>1. /\ ICT!Handle("Accepted", {}, {}, {}, <<"2xx">>, "userAny")
        /\ ICTAllowed("Accepted", {}, {}, <<"2xx">>, "userAny")
    BY <1>13, <1>1, <1>3
       DEF ICT!Accepted_2_Accepted_2xx,
           ICTAllowed, ICTB!Unset, ICTB!Endings, ICTB!InUser, ICT!States, ICTSilent,
           ICTEvent, ICTKept
  <2> QED BY <2>1, ICTHandle
<1>14. CASE ICT!Accepted_2_Terminated_timerM
  <2>1. /\ ICT!Handle("Terminated", {}, {}, {}, <<>>, "ok")
        /\ ICTAllowed("Terminated", {}, {}, <<>>, "ok")
    BY <1>14, <1>1, <1>3
       DEF ICT!Accepted_2_Terminated_timerM,
           ICTAllowed, ICTB!Unset, ICTB!Endings, ICTB!InUser, ICT!States, ICTSilent,
           ICTEvent, ICTKept
  <2> QED BY <2>1, ICTHandle
<1>15. CASE ICT!Any_2_Terminated_transportError
  <2>1. /\ ICT!Handle("Terminated", {}, {}, {}, <<"transport_error">>, "user")
        /\ ICTAllowed("Terminated", {}, {}, <<"transport_error">>, "user")
    BY <1>15, <1>1, <1>3
       DEF ICT!Any_2_Terminated_transportError, ICT!Alive,
           ICTAllowed, ICTB!Unset, ICTB!Endings, ICTB!InUser, ICT!States, ICTSilent,
           ICTEvent, ICTKept
  <2> QED BY <2>1, ICTHandle
<1>16. CASE ICT!Any_2_Terminated_Error
  <2>1. /\ ICT!Handle("Terminated", {}, {}, {}, <<"error">>, "user")
        /\ ICTAllowed("Terminated", {}, {}, <<"error">>, "user")
    BY <1>16, <1>1, <1>3
       DEF ICT!Any_2_Terminated_Error, ICT!Alive,
           ICTAllowed, ICTB!Unset, ICTB!Endings, ICTB!InUser, ICT!States, ICTSilent,
           ICTEvent, ICTKept
  <2> QED BY <2>1, ICTHandle
<1>17. CASE ICT!Any_2_Terminated_cancel
  <2>1. /\ ICT!Handle("Terminated", {}, {}, {}, <<"canceled">>, "ok")
        /\ ICTAllowed("Terminated", {}, {}, <<"canceled">>, "ok")
    BY <1>17, <1>1, <1>3
       DEF ICT!Any_2_Terminated_cancel, ICT!Alive,
           ICTAllowed, ICTB!Unset, ICTB!Endings, ICTB!InUser, ICT!States, ICTSilent,
           ICTEvent, ICTKept
  <2> QED BY <2>1, ICTHandle
<1> QED
  BY <1>4, <1>5, <1>6, <1>7, <1>8, <1>9, <1>10, <1>11, <1>12, <1>13, <1>14, <1>15,
     <1>16, <1>17, ICTOther, ICTPlumbing
     DEF ICT!Next, ICT!Receive, ICT!OnTimer, ICT!TimerFires, ICT!Fault,
         ICT!Calling_2_Completed_300_to_699, ICT!Proceeding_2_Completed_300_to_699,
         ICT!Calling_2_Accepted_2xx, ICT!Proceeding_2_Accepted_2xx

(* It holds in the initial states of the role.                             *)
LEMMA ICTStart ==
  ASSUME ICT!Init
  PROVE  ICTInv
<1> USE DEF ICT!Init, ICT!TransacInit
<1>1. ICT!TypeOK
  <2>1. ICT!TransacTypeOK
    <3>1. reliable \in BOOLEAN /\ ending \in BOOLEAN
      BY Zenon
    <3>2. /\ exec \in {"no"} /\ life = "listed" /\ period \in Nat /\ pending = {}
          /\ raised \in Seq(ICT!Raised) /\ storing = {} /\ acting = "idle" /\ mishaps = {}
      BY TransactionsAssumption DEF ICT!ICTAssumption
    <3> QED BY <3>1, <3>2 DEF ICT!TransacTypeOK
  <2> QED BY <2>1 DEF ICT!TypeOK, ICT!States
<1>2. ICTB!StoringInv
  BY DEF ICTB!StoringInv
<1>3. ICTOutcome /\ ICTWord /\ ICTTimer
  BY DEF ICTOutcome, ICTWord, ICTTimer, ICTB!Told, ICTB!AtMostOnce, ICTB!NeverAfter
<1> QED BY <1>1, <1>2, <1>3 DEF ICTInv

(* What the invariant says of the role's properties.                       *)
LEMMA ICTShows ==
  ASSUME ICTInv
  PROVE  ICT!NeverStuck /\ ICT!OneVerdict /\ ICT!NoSilentEnd
<1>1. ICT!NeverStuck
  BY DEF ICTInv, ICTTimer, ICT!NeverStuck, ICT!TimerOf, ICTB!Comes, ICTB!Waiting,
         ICT!Waiting
<1>2. ICT!OneVerdict
  BY DEF ICTInv, ICTOutcome, ICT!OneVerdict, ICTB!Told, ICTB!AtMostOnce,
         ICTB!NeverAfter, ICT!Told, ICT!AtMostOnce, ICT!Verdicts, ICTVerdicts, ICTReplies
<1>3. ICT!NoSilentEnd
  BY DEF ICTInv, ICTWord, ICT!NoSilentEnd, ICTB!Told, ICT!Told, ICT!Verdicts,
         ICTWords, ICTVerdicts
<1> QED BY <1>1, <1>2, <1>3

(* What spoils a quiet end: any word but of a rejection, and a handler that*)
(* failed to send.                                                         *)
ICTSpoils == {"2xx", "timedout", "transport_error", "error", "refused", "canceled"}
ICTCalm   == ~ICTB!Told(ICTSpoils) /\ "unsent" \notin mishaps

(* As long as nothing does, the timers go with the states: A and B in      *)
(* Calling, none counted in Proceeding, D behind all others in Completed,  *)
(* and none once it has acted.                                             *)
ICTStill ==
  /\ ICTB!Orderly /\ "dangling" \notin mishaps
  /\ exec # "fail" /\ (ending \/ life # "listed" => state = "Terminated")
  /\ state \in {"Started", "Terminated"} => ICTB!Only({}, {})
  /\ state = "Calling" => ICTB!Only({"A", "B"}, {"A", "B"})
  /\ state = "Proceeding" => ICTB!Only({}, {"A", "B"})
  /\ state = "Completed" => ICTB!Last("D")
  /\ state # "Accepted"

ICTQuiet == ICTCalm => ICTStill

(* What a handler entered in such a state does to the timers.              *)
LEMMA ICTCalmHandle ==
  ASSUME ICTInv, ICTQuiet, ICTCalm', NEW to, NEW cancel, NEW new, NEW msgs, NEW events,
         NEW how, ICT!Handle(to, cancel, new, msgs, events, how),
         acting' \in {acting, "running"}, ICTB!Unset(new),
         \/ events = <<>>
         \/ \E e : events = <<e>>
  PROVE  /\ ICTStill /\ how # "fail" /\ \A e : events = <<e>> => e \notin ICTSpoils
         /\ state' = to /\ exec' = how /\ UNCHANGED <<raised, ending, life, mishaps>>
         /\ (/\ \A t, u \in new : t.kind = u.kind => t = u
             /\ \A t \in new : /\ \A u \in pending : u.kind = t.kind => u.kind \in cancel
                               /\ \A i \in DOMAIN raised : raised[i].kind # t.kind
                               /\ acting' # t.kind)
              => /\ ICTB!Orderly'
                 /\ \A t \in pending' : t \in new \/ (t \in pending /\ t.kind \notin cancel)
<1>1. /\ ICTB!Handle(to, cancel, new, msgs, events, how)
      /\ ICTB!BaseInv /\ tu \in Seq(ICT!Exchange)
  BY ICTBridge DEF ICTInv, ICT!TypeOK, ICTB!BaseInv
<1>2. /\ state' = to /\ exec = "no" /\ exec' = how /\ UNCHANGED <<raised, ending, life>>
      /\ tu' = tu \o events /\ ICTB!Effects(cancel, new, msgs, events)
      /\ mishaps' = mishaps \union IF how = "fail" THEN {"unsent"} ELSE {}
  BY <1>1 DEF ICTB!Handle, ICTB!Effects
<1>3. how # "fail" /\ "unsent" \notin mishaps /\ UNCHANGED mishaps
  BY <1>2 DEF ICTCalm
<1>4. ~ICTB!Told(ICTSpoils) /\ \A e : events = <<e>> => e \notin ICTSpoils
  BY <1>1, <1>2, ICTB!StillUnsaid DEF ICTCalm
<1>5. ICTStill /\ ICTB!Orderly
  BY <1>3, <1>4 DEF ICTQuiet, ICTCalm, ICTStill
<1>6. {"A", "B", "D", "M"} \intersect {"idle", "running"} = {}
  OBVIOUS
<1>7. ASSUME \A t, u \in new : t.kind = u.kind => t = u,
             \A t \in new : /\ \A u \in pending : u.kind = t.kind => u.kind \in cancel
                            /\ \A i \in DOMAIN raised : raised[i].kind # t.kind
                            /\ acting' # t.kind
      PROVE  /\ ICTB!Orderly'
             /\ \A t \in pending' : t \in new \/ (t \in pending /\ t.kind \notin cancel)
  BY <1>1, <1>2, <1>5, <1>6, <1>7, ICTB!HandleInOrder
<1> QED BY <1>2, <1>3, <1>4, <1>5, <1>7

(* The steps that are not handlers.                                        *)
LEMMA ICTQuietOther ==
  ASSUME ICTInv, ICTQuiet, ICT!Plumbing \/ ICT!IgnoreTimer(ICT!Expected) \/ ICT!Dtor
  PROVE  ICTQuiet'
<1> SUFFICES ASSUME ICTCalm'
             PROVE  ICTStill'
  BY DEF ICTQuiet
<1>1. /\ ICTB!TransacTypeOK /\ tu \in Seq(ICT!Exchange)
      /\ {"A", "B", "D", "M"} \intersect {"idle", "running"} = {}
  BY ICTBridge DEF ICTInv, ICT!TypeOK
<1>2. \/ ICTB!Plumbing \/ (\E expected : ICTB!IgnoreTimer(expected))
      \/ \E ks : ICTB!Destroy(ks)
  BY ICTBridge DEF ICT!Dtor
<1>3. CASE ~ICTB!Plumbing
  <2>1. /\ UNCHANGED <<state, exec, ending, mishaps, tu>>
        /\ life' = life \/ life = "removed"
    BY <1>2, <1>3 DEF ICTB!IgnoreTimer, ICTB!Destroy
  <2>2. ICTCalm /\ ICTStill
    BY <2>1 DEF ICTCalm, ICTB!Told, ICTQuiet
  <2>3. ICTB!StaysInOrder
    BY <1>1, <1>2, <2>2, ICTB!PlumbingInOrder DEF ICTStill
  <2> QED BY <2>1, <2>2, <2>3 DEF ICTStill, ICTB!StaysInOrder
<1>4. CASE ICTB!Plumbing
  <2>1. /\ exec' \in {exec, "no"} /\ mishaps \subseteq mishaps'
        /\ life' = "listed" => life = "listed" /\ state' = state
        /\ \/ /\ UNCHANGED <<tu, state, life>>
              /\ ending' => ending \/ exec = "fail" \/ state = "Terminated"
           \/ UNCHANGED tu /\ ending /\ state' = "Terminated"
           \/ tu' = tu \o <<"refused">> /\ UNCHANGED <<state, life>>
           \/ tu' = tu \o <<"canceled">> /\ state' = "Terminated"
    BY <1>1, <1>4, ICTB!PlumbingTells
  <2>2. tu' # tu \o <<"refused">> /\ tu' # tu \o <<"canceled">>
    <3>1. \A e \in {"refused", "canceled"} : <<e>> = <<e>> /\ e \in ICTSpoils
      BY DEF ICTSpoils
    <3> QED BY <1>1, <3>1, ICTB!StillUnsaid DEF ICTCalm
  <2>3. ICTCalm /\ ICTStill
    BY <2>1, <2>2 DEF ICTCalm, ICTB!Told, ICTQuiet
  <2>4. ICTB!StaysInOrder
    BY <1>1, <1>4, <2>3, ICTB!PlumbingInOrder DEF ICTStill
  <2>5. /\ state' = state /\ exec' # "fail"
        /\ ending' \/ life' # "listed" => state' = "Terminated"
    BY <2>1, <2>2, <2>3 DEF ICTStill
  <2>6. "dangling" \notin mishaps'
    <3>1. life = "destroyed" => 1 \notin DOMAIN raised
      BY <2>3 DEF ICTStill, ICTB!Only
    <3> QED BY <1>1, <1>4, <2>3, <3>1, ICTB!WhoDangles DEF ICTStill
  <2> QED BY <2>3, <2>4, <2>5, <2>6 DEF ICTStill, ICTB!StaysInOrder
<1> QED BY <1>3, <1>4

(* Every step of the role keeps the timers in order until something spoils *)
(* it.                                                                     *)
LEMMA ICTQuietStep ==
  ASSUME ICTInv, ICTQuiet, ICT!Next
  PROVE  ICTQuiet'
<1>1. /\ ICT!ICTAssumption /\ period \in Nat
      /\ \A kind \in {"A", "B", "D", "M"}, t \in Nat :
            /\ ICT!Armed(kind, t) \in ICTB!Timer /\ ICT!Armed(kind, t).own = "unset"
            /\ ICT!Armed(kind, t).kind = kind
  BY TransactionsAssumption, ICTBridge
     DEF ICTInv, ICT!TypeOK, ICTB!TransacTypeOK, ICT!Armed, ICTB!Timer, ICTB!Ownership
<1>2. CASE ICT!Started_2_Calling_send
  <2> SUFFICES ASSUME ICTCalm'
               PROVE  ICTStill'
    BY DEF ICTQuiet
  <2> DEFINE new == ICT!TimerA(period) \union {ICT!Armed("B", Timeout64T1)}
  <2>1. PICK sent \in ICT!Sent :
          ICT!Handle("Calling", {}, new, ICT!Request(sent, "INVITE"), <<>>, "ok")
    BY <1>2 DEF ICT!Started_2_Calling_send
  <2>2. /\ ICTB!Unset(new) /\ \A t \in new : t.kind \in {"A", "B"}
        /\ \A t, u \in new : t.kind = u.kind => t = u
    BY <1>1 DEF ICT!TimerA, ICT!ICTAssumption, ICTB!Unset
  <2>3. state = "Started" /\ UNCHANGED acting
    BY <1>2 DEF ICT!Started_2_Calling_send
  <2> HIDE DEF new
  <2>4. ICTStill /\ ICTB!Only({}, {}) /\ UNCHANGED <<raised, ending, life, mishaps>>
        /\ state' = "Calling" /\ exec' = "ok"
    BY <2>1, <2>2, <2>3, ICTCalmHandle DEF ICTStill
  <2>5. ICTB!Orderly' /\ \A t \in pending' : t \in new \/ t \in pending
    BY <2>1, <2>2, <2>3, <2>4, ICTCalmHandle DEF ICTB!Only
  <2> QED BY <2>2, <2>3, <2>4, <2>5 DEF ICTStill, ICTB!Only
<1>3. CASE ICT!Calling_2_Calling_timerA
  <2> SUFFICES ASSUME ICTCalm'
               PROVE  ICTStill'
    BY DEF ICTQuiet
  <2> DEFINE new == {ICT!Armed("A", 2 * period)}
  <2>1. PICK sent \in ICT!Sent :
          ICT!Handle("Calling", {}, new, ICT!Request(sent, "INVITE"), <<>>, "ok")
    BY <1>3 DEF ICT!Calling_2_Calling_timerA
  <2>2. acting = "A" /\ state = "Calling" /\ acting' = "running" /\ 2 * period \in Nat
    BY <1>3, <1>1 DEF ICT!Calling_2_Calling_timerA
  <2>3. /\ ICTB!Unset(new) /\ \A t \in new : t.kind = "A"
        /\ \A t, u \in new : t.kind = u.kind => t = u
    BY <1>1, <2>2 DEF ICTB!Unset
  <2> HIDE DEF new
  <2>4. ICTStill /\ UNCHANGED <<raised, ending, life, mishaps>>
        /\ state' = "Calling" /\ exec' = "ok"
    BY <2>1, <2>2, <2>3, ICTCalmHandle
  <2>5. (\A t \in pending : t.kind # "A") /\ \A i \in DOMAIN raised : raised[i].kind # "A"
    BY <2>2, <2>4 DEF ICTStill, ICTB!Orderly, ICTB!OneEach
  <2>6. ICTB!Orderly' /\ \A t \in pending' : t \in new \/ t \in pending
    BY <2>1, <2>2, <2>3, <2>5, ICTCalmHandle
  <2> QED BY <2>2, <2>3, <2>4, <2>6 DEF ICTStill, ICTB!Only
<1>4. ASSUME NEW from \in {"Calling", "Proceeding"}, ICT!Any_2_Completed_300_to_699(from)
      PROVE  ICTQuiet'
  <2> SUFFICES ASSUME ICTCalm'
               PROVE  ICTStill'
    BY DEF ICTQuiet
  <2> DEFINE new == {ICT!Armed("D", ICT!DTimeout)}
  <2>1. PICK sent \in ICT!Sent :
          ICT!Handle("Completed", {"A", "B"}, new, ICT!Request(sent, "ACK"),
                     IF sent THEN <<"3xx">> ELSE <<>>, IF sent THEN "user" ELSE "fail")
    BY <1>4 DEF ICT!Any_2_Completed_300_to_699
  <2>2. state = from /\ UNCHANGED acting /\ ICT!DTimeout \in Nat
    BY <1>4, <1>1 DEF ICT!Any_2_Completed_300_to_699, ICT!DTimeout, ICT!ICTAssumption
  <2>3. /\ ICTB!Unset(new) /\ \A t \in new : t.kind = "D"
        /\ \A t, u \in new : t.kind = u.kind => t = u
    BY <1>1, <2>2 DEF ICTB!Unset
  <2> HIDE DEF new
  <2> DEFINE events == IF sent THEN <<"3xx">> ELSE <<>>
             how == IF sent THEN "user" ELSE "fail"
  <2>4. events = <<>> \/ \E e : events = <<e>>
    OBVIOUS
  <2>5. how \in {"user", "fail"}
    OBVIOUS
  <2>6. ICT!Handle("Completed", {"A", "B"}, new, ICT!Request(sent, "ACK"), events, how)
    BY <2>1
  <2> HIDE DEF events, how
  <2>7. ICTStill /\ UNCHANGED <<raised, ending, life, mishaps>>
        /\ state' = "Completed" /\ exec' = "user"
    BY <2>2, <2>3, <2>4, <2>5, <2>6, ICTCalmHandle
  <2>8. /\ \A t \in pending : t.kind \in {"A", "B"}
        /\ \A i \in DOMAIN raised : raised[i].kind \in {"A", "B"}
        /\ acting # "D"
    BY <2>2, <2>7 DEF ICTStill, ICTB!Only
  <2>9. ICTB!Orderly' /\ \A t \in pending' : t \in new
    BY <2>2, <2>3, <2>4, <2>6, <2>8, ICTCalmHandle
  <2>10. ICTB!Last("D")'
    BY <2>2, <2>3, <2>7, <2>8, <2>9 DEF ICTB!Last
  <2> QED BY <2>2, <2>7, <2>9, <2>10 DEF ICTStill
<1>5. CASE ICT!Calling_2_Proceeding_1xx \/ ICT!Proceeding_2_Proceeding_1xx
  <2> SUFFICES ASSUME ICTCalm'
               PROVE  ICTStill'
    BY DEF ICTQuiet
  <2>1. PICK cancel, how :
          /\ ICT!Handle("Proceeding", cancel, {}, {}, <<"1xx">>, how) /\ UNCHANGED acting
          /\ how \in {"user", "userAny"}
          /\ state = "Proceeding" \/ (state = "Calling" /\ cancel = {"A", "B"})
    BY <1>5 DEF ICT!Calling_2_Proceeding_1xx, ICT!Proceeding_2_Proceeding_1xx
  <2>2. ICTB!Unset({})
    BY DEF ICTB!Unset
  <2>3. ICTStill /\ UNCHANGED <<raised, ending, life, mishaps>>
        /\ state' = "Proceeding" /\ exec' = how /\ ICTB!Orderly'
        /\ \A t \in pending' : t \in pending /\ t.kind \notin cancel
    BY <2>1, <2>2, ICTCalmHandle
  <2>4. ICTB!Only({}, {"A", "B"})'
    BY <2>1, <2>3 DEF ICTStill, ICTB!Only
  <2> QED BY <2>1, <2>3, <2>4 DEF ICTStill
<1>6. CASE ICT!Completed_2_Completed_300_to_699 \/ ICT!Completed_2_Terminated_timerD
  <2> SUFFICES ASSUME ICTCalm'
               PROVE  ICTStill'
    BY DEF ICTQuiet
  <2>1. PICK to, msgs, how :
          /\ ICT!Handle(to, {}, {}, msgs, <<>>, how) /\ state = "Completed"
          /\ how \in {"ok", "fail"}
          /\ \/ to = "Completed" /\ UNCHANGED acting
             \/ to = "Terminated" /\ acting = "D" /\ acting' = "running"
    BY <1>6 DEF ICT!Completed_2_Completed_300_to_699, ICT!Completed_2_Terminated_timerD
  <2>2. ICTB!Unset({})
    BY DEF ICTB!Unset
  <2>3. ICTStill /\ UNCHANGED <<raised, ending, life, mishaps>>
        /\ state' = to /\ exec' = how /\ how # "fail" /\ ICTB!Orderly'
        /\ \A t \in pending' : t \in pending
    BY <2>1, <2>2, ICTCalmHandle
  <2>4. ICTB!Last("D")
    BY <2>1, <2>3 DEF ICTStill
  <2>5. CASE to = "Completed" /\ UNCHANGED acting
    <3>1. ICTB!Last("D")'
      BY <2>3, <2>4, <2>5 DEF ICTB!Last
    <3> QED BY <2>1, <2>3, <2>5, <3>1 DEF ICTStill
  <2>6. CASE to = "Terminated" /\ acting = "D" /\ acting' = "running"
    <3>1. raised = <<>> /\ \A t \in pending : FALSE
      BY <2>3, <2>4, <2>6 DEF ICTStill, ICTB!Orderly, ICTB!OneEach, ICTB!Last
    <3>2. ICTB!Only({}, {})'
      BY <2>3, <2>6, <3>1 DEF ICTB!Only
    <3> QED BY <2>3, <2>6, <3>2 DEF ICTStill
  <2> QED BY <2>1, <2>5, <2>6
<1>7. ASSUME NEW to, NEW cancel, NEW new, NEW e \in ICTSpoils, NEW how,
             ICT!Handle(to, cancel, new, {}, <<e>>, how)
      PROVE  ICTQuiet'
  <2>1. tu' = tu \o <<e>> /\ tu \in Seq(ICT!Exchange)
    BY <1>7 DEF ICT!Handle, ICT!Effects, ICTInv, ICT!TypeOK
  <2>2. ICTB!Told(ICTSpoils)'
    BY <1>7, <2>1, ICTB!OneMoreEvent
  <2> QED BY <2>2 DEF ICTQuiet, ICTCalm
<1>8. CASE ICT!Calling_2_Terminated_timerB \/ ICT!Accepted_2_Accepted_2xx \/ ICT!Fault
  <2>1. {"timedout", "2xx", "transport_error", "error", "canceled"} \subseteq ICTSpoils
    BY DEF ICTSpoils
  <2>2. CASE ICT!Calling_2_Terminated_timerB
    BY <1>7, <2>1, <2>2 DEF ICT!Calling_2_Terminated_timerB
  <2>3. CASE ICT!Accepted_2_Accepted_2xx
    BY <1>7, <2>1, <2>3 DEF ICT!Accepted_2_Accepted_2xx
  <2>4. CASE ICT!Any_2_Terminated_transportError
    BY <1>7, <2>1, <2>4 DEF ICT!Any_2_Terminated_transportError
  <2>5. CASE ICT!Any_2_Terminated_Error
    BY <1>7, <2>1, <2>5 DEF ICT!Any_2_Terminated_Error
  <2>6. CASE ICT!Any_2_Terminated_cancel
    BY <1>7, <2>1, <2>6 DEF ICT!Any_2_Terminated_cancel
  <2> QED BY <1>8, <2>2, <2>3, <2>4, <2>5, <2>6 DEF ICT!Fault
<1>9. ASSUME NEW from, ICT!Any_2_Accepted_2xx(from)
      PROVE  ICTQuiet'
  <2>1. "2xx" \in ICTSpoils
    BY DEF ICTSpoils
  <2> QED BY <1>7, <1>9, <2>1 DEF ICT!Any_2_Accepted_2xx
<1>10. CASE ICT!Accepted_2_Terminated_timerM
  <2> SUFFICES ASSUME ICTCalm'
               PROVE  FALSE
    BY DEF ICTQuiet
  <2>1. /\ ICT!Handle("Terminated", {}, {}, {}, <<>>, "ok") /\ state = "Accepted"
        /\ acting' = "running" /\ ICTB!Unset({})
    BY <1>10 DEF ICT!Accepted_2_Terminated_timerM, ICTB!Unset
  <2>2. ICTStill
    BY <2>1, ICTCalmHandle
  <2> QED BY <2>1, <2>2 DEF ICTStill
<1> QED
  BY <1>2, <1>3, <1>4, <1>5, <1>6, <1>8, <1>9, <1>10, ICTQuietOther
     DEF ICT!Next, ICT!Receive, ICT!OnTimer, ICT!TimerFires,
         ICT!Calling_2_Completed_300_to_699, ICT!Proceeding_2_Completed_300_to_699,
         ICT!Calling_2_Accepted_2xx, ICT!Proceeding_2_Accepted_2xx

(* At first there is no timer.                                             *)
LEMMA ICTQuietStart ==
  ASSUME ICT!Init
  PROVE  ICTQuiet
BY DEF ICT!Init, ICT!TransacInit, ICTQuiet, ICTStill, ICTB!Orderly, ICTB!OneEach,
       ICTB!Known, ICTB!Only

(* A rejected call left to timer D spoils nothing.                         *)
LEMMA ICTIsQuiet ==
  ASSUME ICTInv, ICTQuiet
  PROVE  ICT!QuietAfterRejection
<1> SUFFICES ASSUME \A i \in 1..Len(tu) : tu[i] \in {"1xx", "3xx"}, "unsent" \notin mishaps
             PROVE  "dangling" \notin mishaps
  BY DEF ICT!QuietAfterRejection
<1>1. ~ICTB!Told(ICTSpoils)
  BY DEF ICTB!Told, ICTSpoils
<1> QED BY <1>1 DEF ICTQuiet, ICTCalm, ICTStill

-----------------------------------------------------------------------------
(* The non-INVITE server transaction. *)

NISTB == INSTANCE TransacProofs WITH Kinds <- {"J"}, Reliables <- BOOLEAN

(* The base class of the role is that of the lemmas.                       *)
LEMMA NISTBridge ==
  /\ \A to, cancel, new, msgs, events, how :
       NIST!Handle(to, cancel, new, msgs, events, how)
         => NISTB!Handle(to, cancel, new, msgs, events, how)
  /\ \A to, cancel, new, msgs, events, ok :
       NIST!HandleNested(to, cancel, new, msgs, events, ok)
         => NISTB!HandleNested(to, cancel, new, msgs, events, ok)
  /\ \A expected : NIST!IgnoreTimer(expected) => NISTB!IgnoreTimer(expected)
  /\ \A kinds : NIST!Destroy(kinds) => NISTB!Destroy(kinds)
  /\ NIST!Plumbing => NISTB!Plumbing
  /\ NIST!TransacTypeOK <=> NISTB!TransacTypeOK
  /\ NIST!TransacTypeOK' <=> NISTB!TransacTypeOK'
<1>1. \A to, cancel, new, msgs, events, how :
         NIST!Handle(to, cancel, new, msgs, events, how)
           => NISTB!Handle(to, cancel, new, msgs, events, how)
  BY DEF NIST!Handle, NISTB!Handle, NIST!Effects, NISTB!Effects, NIST!Canceled,
         NISTB!Canceled
<1>2. \A to, cancel, new, msgs, events, ok :
         NIST!HandleNested(to, cancel, new, msgs, events, ok)
           => NISTB!HandleNested(to, cancel, new, msgs, events, ok)
  BY DEF NIST!HandleNested, NISTB!HandleNested, NIST!Effects, NISTB!Effects,
         NIST!Canceled, NISTB!Canceled, NIST!InUser, NISTB!InUser
<1>3. \A expected : NIST!IgnoreTimer(expected) => NISTB!IgnoreTimer(expected)
  BY DEF NIST!IgnoreTimer, NISTB!IgnoreTimer
<1>4. \A kinds : NIST!Destroy(kinds) => NISTB!Destroy(kinds)
  BY DEF NIST!Destroy, NISTB!Destroy, NIST!Canceled, NISTB!Canceled
<1>5. NIST!Plumbing => NISTB!Plumbing
  <2>1. NIST!Return => NISTB!Return
    BY DEF NIST!Return, NISTB!Return, NIST!Stored, NISTB!Stored
  <2>2. NIST!Finish => NISTB!Finish
    BY DEF NIST!Finish, NISTB!Finish
  <2>3. NIST!NestedCancel => NISTB!NestedCancel
    BY DEF NIST!NestedCancel, NISTB!NestedCancel, NIST!InUser, NISTB!InUser
  <2>4. NIST!RaiseTimer => NISTB!RaiseTimer
    BY DEF NIST!RaiseTimer, NISTB!RaiseTimer
  <2>5. NIST!MatchTimer => NISTB!MatchTimer
    BY DEF NIST!MatchTimer, NISTB!MatchTimer
  <2>6. NIST!Tick => NISTB!Tick
    BY DEF NIST!Tick, NISTB!Tick
  <2> QED BY <2>1, <2>2, <2>3, <2>4, <2>5, <2>6 DEF NIST!Plumbing, NISTB!Plumbing
<1>6. NIST!TransacTypeOK <=> NISTB!TransacTypeOK
  BY DEF NIST!TransacTypeOK, NISTB!TransacTypeOK, NIST!Timer, NISTB!Timer,
         NIST!Raised, NISTB!Raised, NIST!Ownership, NISTB!Ownership,
         NIST!Endings, NISTB!Endings, NIST!InUser, NISTB!InUser
<1>7. NIST!TransacTypeOK' <=> NISTB!TransacTypeOK'
  BY DEF NIST!TransacTypeOK, NISTB!TransacTypeOK, NIST!Timer, NISTB!Timer,
         NIST!Raised, NISTB!Raised, NIST!Ownership, NISTB!Ownership,
         NIST!Endings, NISTB!Endings, NIST!InUser, NISTB!InUser
<1> QED BY <1>1, <1>2, <1>3, <1>4, <1>5, <1>6, <1>7

NISTWords == {"final", "transport_error", "error", "refused", "canceled"}

(* What has passed in each state, and what a retransmission is answered.   *)
NISTOutcome ==
  /\ state = "Started" => ~NISTB!Told({"request"})
  /\ state \in {"Started", "Trying", "Proceeding"} => ~NISTB!Told({"final"})
  /\ state \in {"Proceeding", "Completed"} => lastResponse \in NIST!Answers
  /\ NISTB!Told({"final"}) => lastResponse = "final"
  /\ NISTB!AtMostOnce({"request"}) /\ NISTB!AtMostOnce({"final"})

NISTWord ==
  (\/ state \in {"Completed", "Terminated"} \/ exec = "fail"
   \/ ending \/ life # "listed") => NISTB!Told(NISTWords) \/ "unsent" \in mishaps

NISTTimer ==
  (life = "listed" /\ ~ending) => (state = "Completed" => NISTB!Comes("J"))

NISTInv == NIST!TypeOK /\ NISTB!StoringInv /\ NISTOutcome /\ NISTWord /\ NISTTimer

(* The states in which an event may pass, and the one it leads to.         *)
NISTEvent(e, to) ==
  /\ \/ e = "request" /\ state = "Started" /\ to = "Trying"
     \/ e = "1xx" /\ state \in {"Trying", "Proceeding"} /\ to \in {"Proceeding", "Terminated"}
     \/ e = "final" /\ state \in {"Trying", "Proceeding"} /\ to \in {"Completed", "Terminated"}
     \/ e \in {"transport_error", "error"} /\ to = "Terminated"
     \/ e \in {"refused", "canceled"} /\ to \in {state, "Terminated"}
  /\ IF e \in NIST!Answers THEN lastResponse' = e ELSE UNCHANGED lastResponse

NISTSilent(to) ==
  /\ \/ to = state
     \/ state = "Completed" /\ to = "Terminated"
     \/ ending /\ to = "Terminated"
  /\ UNCHANGED lastResponse

(* An event that may pass in this state keeps the outcome.                 *)
LEMMA NISTTold ==
  ASSUME tu \in Seq(NIST!Exchange), NEW e, tu' = tu \o <<e>>,
         NISTOutcome, NISTEvent(e, state')
  PROVE  /\ NISTOutcome'
         /\ NISTB!Told(NISTWords)' <=> NISTB!Told(NISTWords) \/ e \in NISTWords
<1>1. /\ NISTB!Told({"request"})' <=> NISTB!Told({"request"}) \/ e = "request"
      /\ NISTB!Told({"final"})' <=> NISTB!Told({"final"}) \/ e = "final"
      /\ NISTB!Told(NISTWords)' <=> NISTB!Told(NISTWords) \/ e \in NISTWords
  BY NISTB!OneMoreEvent
<1>2. /\ NISTB!AtMostOnce({"request"}) /\ (e = "request" => ~NISTB!Told({"request"}))
             => NISTB!AtMostOnce({"request"})'
      /\ NISTB!AtMostOnce({"final"}) /\ (e = "final" => ~NISTB!Told({"final"}))
             => NISTB!AtMostOnce({"final"})'
  BY NISTB!OneMoreEvent
<1> QED BY <1>1, <1>2 DEF NISTOutcome, NISTEvent, NIST!Answers

(* A step that says nothing keeps it as well.                              *)
LEMMA NISTSaid ==
  ASSUME UNCHANGED tu, NISTOutcome, NISTSilent(state')
  PROVE  NISTOutcome' /\ (NISTB!Told(NISTWords)' <=> NISTB!Told(NISTWords))
<1>1. UNCHANGED <<NISTB!Told({"request"}), NISTB!Told({"final"}), NISTB!Told(NISTWords),
                  NISTB!AtMostOnce({"request"}), NISTB!AtMostOnce({"final"})>>
  BY DEF NISTB!Told, NISTB!AtMostOnce
<1> QED BY <1>1 DEF NISTOutcome, NISTSilent

(* A step that passes one event or none.                                   *)
LEMMA NISTEvents ==
  ASSUME NISTInv, NEW events, tu' = tu \o events,
         \/ events = <<>> /\ NISTSilent(state')
         \/ \E e \in NIST!Exchange : events = <<e>> /\ NISTEvent(e, state')
  PROVE  /\ NISTOutcome' /\ tu' \in Seq(NIST!Exchange)
         /\ lastResponse' \in {"none"} \union NIST!Answers
         /\ NISTB!Told(NISTWords) => NISTB!Told(NISTWords)'
         /\ \A e \in NISTWords : events = <<e>> => NISTB!Told(NISTWords)'
<1>1. /\ tu \in Seq(NIST!Exchange) /\ lastResponse \in {"none"} \union NIST!Answers
      /\ NISTOutcome
  BY DEF NISTInv, NIST!TypeOK
<1>2. CASE events = <<>> /\ NISTSilent(state')
  <2>1. UNCHANGED <<tu, lastResponse>>
    BY <1>1, <1>2 DEF NISTSilent
  <2> QED BY <2>1, <1>1, <1>2, NISTSaid
<1>3. ASSUME NEW e \in NIST!Exchange, events = <<e>>, NISTEvent(e, state')
      PROVE  /\ NISTOutcome' /\ tu' \in Seq(NIST!Exchange)
             /\ lastResponse' \in {"none"} \union NIST!Answers
             /\ NISTB!Told(NISTWords) => NISTB!Told(NISTWords)'
             /\ \A f \in NISTWords : events = <<f>> => NISTB!Told(NISTWords)'
  <2>1. tu' = tu \o <<e>> /\ tu' \in Seq(NIST!Exchange)
    BY <1>1, <1>3
  <2>2. /\ NISTOutcome'
        /\ NISTB!Told(NISTWords)' <=> NISTB!Told(NISTWords) \/ e \in NISTWords
    BY <2>1, <1>1, <1>3, NISTTold
  <2>3. lastResponse' \in {"none"} \union NIST!Answers
    BY <1>1, <1>3 DEF NISTEvent
  <2> QED BY <2>1, <2>2, <2>3, <1>3
<1> QED BY <1>2, <1>3

(* The handlers that keep the invariant, entered from outside or from      *)
(* inside a delivery.                                                      *)
NISTAllowed(to, new, msgs, events) ==
  /\ to \in NIST!States \ {"Started"} /\ NISTB!Unset(new) /\ msgs \subseteq NIST!Answers
  /\ acting' \in {acting, "running"} /\ period' \in Nat
  /\ \/ events = <<>> /\ NISTSilent(to)
     \/ \E e \in NIST!Exchange :
          /\ events = <<e>> /\ NISTEvent(e, to)
          /\ to = "Completed" \/ (to = "Terminated" /\ e # "1xx") => e \in NISTWords
  /\ to = "Completed" => \/ \E t \in new : t.kind = "J"
                         \/ state = to /\ (acting' = acting \/ acting # "J")

(* A handler of that kind, entered from outside, keeps the invariant.      *)
LEMMA NISTHandle ==
  ASSUME NISTInv, NEW to, NEW new, NEW msgs, NEW events, NEW how \in NISTB!Endings,
         NIST!Handle(to, {}, new, msgs, events, how), NISTAllowed(to, new, msgs, events),
         to = "Terminated" => events # <<"1xx">>
  PROVE  NISTInv'
<1>1. NISTB!Handle(to, {}, new, msgs, events, how)
  BY NISTBridge
<1>2. /\ state' = to /\ exec' = how /\ ending' = ending /\ life' = life
      /\ out' = out \union msgs /\ tu' = tu \o events
      /\ mishaps' = mishaps \union IF how = "fail" THEN {"unsent"} ELSE {}
  BY <1>1 DEF NISTB!Handle, NISTB!Effects
<1>3. NISTB!BaseInv /\ out \subseteq NIST!Answers
  BY NISTBridge DEF NISTInv, NIST!TypeOK, NISTB!BaseInv
<1>4. NISTB!BaseInv' /\ NISTB!Carries({}, new)
  BY <1>1, <1>3, NISTB!HandleKeeps DEF NISTAllowed
<1>5. /\ NISTOutcome' /\ tu' \in Seq(NIST!Exchange)
      /\ lastResponse' \in {"none"} \union NIST!Answers
      /\ NISTB!Told(NISTWords) => NISTB!Told(NISTWords)'
      /\ \A e \in NISTWords : events = <<e>> => NISTB!Told(NISTWords)'
  BY <1>2, NISTEvents DEF NISTAllowed
<1>6. NIST!TypeOK'
  BY <1>2, <1>3, <1>4, <1>5, NISTBridge DEF NIST!TypeOK, NISTB!BaseInv, NISTAllowed
<1>7. NISTWord'
  BY <1>2, <1>5 DEF NISTInv, NISTWord, NISTSilent, NISTAllowed
<1>8. NISTTimer'
  BY <1>2, <1>4 DEF NISTInv, NISTTimer, NISTB!Carries, NISTAllowed
<1> QED BY <1>4, <1>5, <1>6, <1>7, <1>8 DEF NISTInv, NISTB!BaseInv

(* One entered by the user from inside a delivery keeps it as well.        *)
LEMMA NISTHandleNested ==
  ASSUME NISTInv, NEW to, NEW new, NEW msgs, NEW e \in {"1xx", "final"}, NEW ok \in BOOLEAN,
         NIST!HandleNested(to, {}, new, msgs, <<e>>, ok), UNCHANGED acting,
         NISTAllowed(to, new, msgs, <<e>>), NISTEvent(e, to), to # "Terminated"
  PROVE  NISTInv'
<1>1. NISTB!HandleNested(to, {}, new, msgs, <<e>>, ok)
  BY NISTBridge
<1>2. /\ state' = (IF ok THEN to ELSE "Terminated") /\ exec' = exec /\ ending' = ending
      /\ life' = (IF ok THEN life ELSE "removed")
      /\ out' = out \union msgs /\ tu' = tu \o <<e>>
      /\ mishaps' = mishaps \union IF ok THEN {} ELSE {"unsent"}
  BY <1>1 DEF NISTB!HandleNested, NISTB!Effects
<1>3. NISTB!BaseInv /\ out \subseteq NIST!Answers
  BY NISTBridge DEF NISTInv, NIST!TypeOK, NISTB!BaseInv
<1>4. NISTB!BaseInv' /\ NISTB!Carries({}, new)
  BY <1>1, <1>3, NISTB!HandleNestedKeeps DEF NISTAllowed
<1>5. /\ NISTOutcome' /\ tu' \in Seq(NIST!Exchange)
      /\ lastResponse' \in {"none"} \union NIST!Answers
      /\ NISTB!Told(NISTWords) => NISTB!Told(NISTWords)'
      /\ e = "final" => NISTB!Told(NISTWords)'
  <2>1. NISTEvent(e, state') /\ e \in NIST!Exchange
    BY <1>2 DEF NISTEvent, NIST!Exchange, NIST!Answers
  <2> QED BY <1>2, <2>1, NISTEvents DEF NISTWords
<1>6. NIST!TypeOK'
  BY <1>2, <1>3, <1>4, <1>5, NISTBridge
     DEF NIST!TypeOK, NISTB!BaseInv, NISTAllowed, NIST!States
<1>7. NISTWord'
  BY <1>2, <1>5 DEF NISTInv, NISTWord, NISTEvent
<1>8. NISTTimer'
  BY <1>2, <1>4 DEF NISTInv, NISTTimer, NISTB!Carries, NISTAllowed
<1> QED BY <1>4, <1>5, <1>6, <1>7, <1>8 DEF NISTInv, NISTB!BaseInv

(* The steps between the handlers.                                         *)
LEMMA NISTPlumbing ==
  ASSUME NISTInv, NIST!Plumbing, NIST!Own
  PROVE  NISTInv'
<1>1. NISTB!Plumbing /\ NISTB!BaseInv /\ state \in NIST!States /\ tu \in Seq(NIST!Exchange)
      /\ UNCHANGED lastResponse
  BY NISTBridge DEF NISTInv, NIST!TypeOK, NISTB!BaseInv, NIST!Own
<1>2. NISTB!BaseInv' /\ NISTB!CarriesOn
  BY <1>1, NISTB!PlumbingKeeps
<1>3. /\ UNCHANGED out /\ exec' \in {exec, "no"} /\ mishaps \subseteq mishaps'
      /\ life' = "listed" => life = "listed" /\ state' = state
      /\ life' = "listed" /\ ~ending' => ~ending
      /\ \/ /\ UNCHANGED <<tu, state, life>>
            /\ ending' => ending \/ exec = "fail" \/ state = "Terminated"
         \/ UNCHANGED tu /\ ending /\ state' = "Terminated"
         \/ tu' = tu \o <<"refused">> /\ UNCHANGED <<state, life>>
         \/ tu' = tu \o <<"canceled">> /\ state' = "Terminated"
  BY <1>1, NISTB!PlumbingTells DEF NISTB!BaseInv
<1>4. state' \in NIST!States
  BY <1>1, <1>3 DEF NIST!States
<1>5. /\ NISTOutcome' /\ tu' \in Seq(NIST!Exchange)
      /\ lastResponse' \in {"none"} \union NIST!Answers
      /\ NISTWord'
  <2>1. CASE UNCHANGED tu
    <3>1. tu' = tu \o <<>> /\ NISTSilent(state')
      BY <2>1, <1>1, <1>3 DEF NISTSilent
    <3>2. /\ NISTOutcome' /\ tu' \in Seq(NIST!Exchange)
          /\ lastResponse' \in {"none"} \union NIST!Answers
          /\ NISTB!Told(NISTWords) => NISTB!Told(NISTWords)'
      BY <3>1, NISTEvents
    <3> QED BY <2>1, <1>3, <3>2 DEF NISTInv, NISTWord
  <2>2. ASSUME NEW e \in {"refused", "canceled"}, tu' = tu \o <<e>>,
               state' \in {state, "Terminated"}
        PROVE  /\ NISTOutcome' /\ tu' \in Seq(NIST!Exchange)
               /\ lastResponse' \in {"none"} \union NIST!Answers
               /\ NISTWord'
    <3>1. e \in NIST!Exchange /\ NISTEvent(e, state') /\ e \in NISTWords
      BY <2>2, <1>1 DEF NIST!Exchange, NISTEvent, NIST!Answers, NISTWords
    <3>2. /\ NISTOutcome' /\ tu' \in Seq(NIST!Exchange)
          /\ lastResponse' \in {"none"} \union NIST!Answers
          /\ NISTB!Told(NISTWords)'
      BY <2>2, <3>1, NISTEvents
    <3> QED BY <1>3, <3>2 DEF NISTInv, NISTWord
  <2> QED BY <1>3, <2>1, <2>2
<1>6. NIST!TypeOK'
  BY <1>2, <1>3, <1>4, <1>5, NISTBridge DEF NIST!TypeOK, NISTB!BaseInv, NISTInv
<1>7. NISTTimer'
  BY <1>2, <1>3 DEF NISTInv, NISTTimer, NISTB!CarriesOn
<1> QED BY <1>2, <1>5, <1>6, <1>7 DEF NISTInv, NISTB!BaseInv

(* A timer the state machine does not expect, and the destructor.          *)
LEMMA NISTOther ==
  ASSUME NISTInv, (NIST!IgnoreTimer(NIST!Expected) /\ NIST!Own) \/ NIST!Dtor
  PROVE  NISTInv'
<1>1. NISTB!BaseInv /\ UNCHANGED lastResponse
  BY NISTBridge DEF NISTInv, NIST!TypeOK, NISTB!BaseInv, NIST!Own, NIST!Dtor
<1>2. CASE NIST!IgnoreTimer(NIST!Expected)
  <2>1. NISTB!IgnoreTimer(NIST!Expected)
    BY <1>2, NISTBridge
  <2>2. NISTB!BaseInv' /\ \A kind \in NIST!Expected : NISTB!Comes(kind) => NISTB!Comes(kind)'
    BY <1>1, <2>1, NISTB!IgnoreKeeps
  <2>3. UNCHANGED <<state, exec, ending, life, mishaps, out, tu>>
    BY <2>1 DEF NISTB!IgnoreTimer
  <2>4. state = "Completed" => "J" \in NIST!Expected
    BY DEF NIST!Expected
  <2> QED
    BY <1>1, <2>2, <2>3, <2>4, NISTBridge, NISTSaid
       DEF NISTInv, NIST!TypeOK, NISTB!BaseInv, NISTWord, NISTTimer, NISTSilent
<1>3. CASE NIST!Dtor
  <2>1. NISTB!Destroy({"J"})
    BY <1>3, NISTBridge DEF NIST!Dtor
  <2>2. NISTB!BaseInv'
    BY <1>1, <2>1, NISTB!DestroyKeeps
  <2>3. /\ UNCHANGED <<state, exec, ending, mishaps, out, tu>>
        /\ life = "removed" /\ life' = "destroyed"
    BY <2>1 DEF NISTB!Destroy
  <2> QED
    BY <1>1, <2>2, <2>3, NISTBridge, NISTSaid
       DEF NISTInv, NIST!TypeOK, NISTB!BaseInv, NISTWord, NISTTimer, NISTSilent
<1> QED BY <1>2, <1>3

(* An answer of the user, from outside or from inside a delivery.          *)
LEMMA NISTRespond ==
  ASSUME NISTInv, NEW to, NEW answer, NEW new, NEW checked \in BOOLEAN,
         NIST!Respond(to, answer, new, checked), state \in {"Trying", "Proceeding"},
         NISTB!Unset(new),
         \/ to = "Proceeding" /\ answer = "1xx"
         \/ to = "Completed" /\ answer = "final" /\ \E t \in new : t.kind = "J"
  PROVE  NISTInv'
<1>1. PICK sent \in NIST!Sent :
        \/ NIST!Handle(to, {}, new, NIST!Response(sent, answer), <<answer>>,
                       IF sent \/ ~checked THEN "ok" ELSE "fail")
        \/ NIST!HandleNested(to, {}, new, NIST!Response(sent, answer), <<answer>>,
                             sent \/ ~checked)
  BY DEF NIST!Respond
<1>2. lastResponse' = answer /\ UNCHANGED <<period, acting>>
  BY DEF NIST!Respond
<1>3. NIST!Response(sent, answer) \subseteq NIST!Answers /\ answer \in NIST!Exchange
  BY DEF NIST!Response, NIST!Answers, NIST!Exchange
<1>4. NISTEvent(answer, to)
  BY <1>2 DEF NISTEvent, NIST!Answers
<1>5. period \in Nat
  BY DEF NISTInv, NIST!TypeOK, NIST!TransacTypeOK
<1>6. NISTAllowed(to, new, NIST!Response(sent, answer), <<answer>>)
  BY <1>2, <1>3, <1>4, <1>5 DEF NISTAllowed, NIST!States, NISTWords
<1>7. CASE NIST!Handle(to, {}, new, NIST!Response(sent, answer), <<answer>>,
                       IF sent \/ ~checked THEN "ok" ELSE "fail")
  <2>1. (IF sent \/ ~checked THEN "ok" ELSE "fail") \in NISTB!Endings
    BY DEF NISTB!Endings
  <2> QED BY <1>6, <1>7, <2>1, NISTHandle
<1>8. CASE NIST!HandleNested(to, {}, new, NIST!Response(sent, answer), <<answer>>,
                             sent \/ ~checked)
  <2>1. (sent \/ ~checked) \in BOOLEAN
    BY DEF NIST!Sent
  <2> QED BY <1>2, <1>4, <1>6, <1>8, <2>1, NISTHandleNested
<1> QED BY <1>1, <1>7, <1>8

(* Every step of the role keeps its invariant.                             *)
LEMMA NISTStep ==
  ASSUME NISTInv, NIST!Next
  PROVE  NISTInv'
<1>1. /\ NIST!NISTAssumption /\ period \in Nat
      /\ \A t \in Nat : /\ NIST!Armed("J", t) \in NISTB!Timer
                        /\ NIST!Armed("J", t).own = "unset" /\ NIST!Armed("J", t).kind = "J"
  BY TransactionsAssumption, NISTBridge
     DEF NISTInv, NIST!TypeOK, NISTB!TransacTypeOK, NIST!Armed, NISTB!Timer, NISTB!Ownership
<1>2. NISTB!Unset({NIST!Armed("J", NIST!JTimeout)})
  BY <1>1 DEF NISTB!Unset, NIST!JTimeout, NIST!NISTAssumption
<1>3. NISTB!Unset({})
  BY DEF NISTB!Unset
<1>4. NIST!Exchange = {"request", "transport_error", "error", "refused", "canceled",
                       "1xx", "final"}
  BY DEF NIST!Exchange, NIST!Answers
<1>5. CASE NIST!Started_2_Trying_request
  <2>1. /\ NIST!Handle("Trying", {}, {}, {}, <<"request">>, "user")
        /\ NISTAllowed("Trying", {}, {}, <<"request">>) /\ "user" \in NISTB!Endings
    BY <1>5, <1>1, <1>3, <1>4
       DEF NIST!Started_2_Trying_request, NISTAllowed, NIST!States, NISTEvent, NIST!Answers,
           NISTB!Endings, NISTB!InUser
  <2> QED BY <2>1, NISTHandle
<1>6. CASE NIST!Trying_2_Trying_request
  <2>1. /\ NIST!Handle("Trying", {}, {}, {}, <<>>, "ok")
        /\ NISTAllowed("Trying", {}, {}, <<>>) /\ "ok" \in NISTB!Endings
    BY <1>6, <1>1, <1>3
       DEF NIST!Trying_2_Trying_request, NISTAllowed, NIST!States, NISTSilent, NISTB!Endings
  <2> QED BY <2>1, NISTHandle
<1>7. ASSUME NEW to \in {"Proceeding", "Completed"}, state = to, NIST!Resend(to)
      PROVE  NISTInv'
  <2>1. PICK sent \in NIST!Sent :
          NIST!Handle(to, {}, {}, NIST!Response(sent, lastResponse), <<>>, "ok")
    BY <1>7 DEF NIST!Resend
  <2>2. NIST!Response(sent, lastResponse) \subseteq NIST!Answers
    BY <1>7 DEF NISTInv, NISTOutcome, NIST!Response
  <2>3. NISTAllowed(to, {}, NIST!Response(sent, lastResponse), <<>>) /\ "ok" \in NISTB!Endings
    BY <1>7, <1>1, <1>3, <2>2
       DEF NIST!Resend, NISTAllowed, NIST!States, NISTSilent, NISTB!Endings
  <2> QED BY <1>7, <2>1, <2>3, NISTHandle
<1>8. CASE NIST!Answer
  BY <1>8, <1>2, <1>3, NISTRespond, <1>1
     DEF NIST!Answer, NIST!Trying_2_Proceeding_send_1xx, NIST!Proceeding_2_Proceeding_send_1xx,
         NIST!Trying_2_Completed_send_200_to_699,
         NIST!Proceeding_2_Completed_send_200_to_699, NIST!Any_2_Completed_send_200_to_699,
         NIST!JTimeout, NIST!NISTAssumption
<1>9. CASE NIST!Completed_2_Terminated_tirmerJ
  <2>1. /\ NIST!Handle("Terminated", {}, {}, {}, <<>>, "ok")
        /\ NISTAllowed("Terminated", {}, {}, <<>>) /\ "ok" \in NISTB!Endings
    BY <1>9, <1>1, <1>3
       DEF NIST!Completed_2_Terminated_tirmerJ, NISTAllowed, NIST!States, NISTSilent,
           NISTB!Endings
  <2> QED BY <2>1, NISTHandle
<1>10. ASSUME NEW e \in {"transport_error", "error", "canceled"}, NEW how \in {"user", "ok"},
              NIST!Handle("Terminated", {}, {}, {}, <<e>>, how), NIST!Alive,
              UNCHANGED <<period, acting, lastResponse>>
       PROVE  NISTInv'
  <2>1. NISTAllowed("Terminated", {}, {}, <<e>>) /\ how \in NISTB!Endings
    BY <1>10, <1>1, <1>3, <1>4
       DEF NISTAllowed, NIST!States, NISTEvent, NIST!Answers, NISTWords,
           NISTB!Endings, NISTB!InUser
  <2>2. <<e>> # <<"1xx">>
    BY <1>10
  <2> QED BY <1>10, <2>1, <2>2, NISTHandle
<1>11. CASE NIST!Fault
  BY <1>10, <1>11
     DEF NIST!Fault, NIST!Any_2_Terminated_transportError, NIST!Any_2_Terminated_Error,
         NIST!Any_2_Terminated_cancel
<1> QED
  BY <1>5, <1>6, <1>7, <1>8, <1>9, <1>11, NISTOther, NISTPlumbing
     DEF NIST!Next, NIST!ReceiveRequest, NIST!OnTimer, NIST!Proceeding_2_Proceeding_request,
         NIST!Completed_2_Completed_request

(* It holds in the initial states of the role.                             *)
LEMMA NISTStart ==
  ASSUME NIST!Init
  PROVE  NISTInv
<1> USE DEF NIST!Init, NIST!TransacInit
<1>1. NIST!TypeOK
  <2>1. NIST!TransacTypeOK
    <3>1. reliable \in BOOLEAN /\ ending \in BOOLEAN
      BY Zenon
    <3>2. /\ exec \in {"no"} /\ life = "listed" /\ period \in Nat /\ pending = {}
          /\ raised \in Seq(NIST!Raised) /\ storing = {} /\ acting = "idle" /\ mishaps = {}
      OBVIOUS
    <3> QED BY <3>1, <3>2 DEF NIST!TransacTypeOK
  <2> QED BY <2>1 DEF NIST!TypeOK, NIST!States
<1>2. NISTB!StoringInv
  BY DEF NISTB!StoringInv
<1>3. NISTOutcome /\ NISTWord /\ NISTTimer
  BY DEF NISTOutcome, NISTWord, NISTTimer, NISTB!Told, NISTB!AtMostOnce
<1> QED BY <1>1, <1>2, <1>3 DEF NISTInv

(* What the invariant says of the role's properties.                       *)
LEMMA NISTShows ==
  ASSUME NISTInv
  PROVE  NIST!NeverStuck /\ NIST!OneFinalAnswer /\ NIST!NoSilentEnd
<1>1. NIST!NeverStuck
  BY DEF NISTInv, NISTTimer, NIST!NeverStuck, NISTB!Comes, NISTB!Waiting, NIST!Waiting
<1>2. NIST!OneFinalAnswer
  BY DEF NISTInv, NISTOutcome, NIST!OneFinalAnswer, NISTB!Told, NISTB!AtMostOnce,
         NIST!Told, NIST!AtMostOnce
<1>3. NIST!NoSilentEnd
  BY DEF NISTInv, NISTWord, NIST!NoSilentEnd, NISTB!Told, NIST!Told, NISTWords
<1> QED BY <1>1, <1>2, <1>3

-----------------------------------------------------------------------------
(* The INVITE server transaction. *)

ISTB == INSTANCE TransacProofs WITH Kinds <- {"G", "H", "I", "L", "X"}, Reliables <- BOOLEAN

(* The base class of the role is that of the lemmas.                       *)
LEMMA ISTBridge ==
  /\ \A to, cancel, new, msgs, events, how :
       IST!Handle(to, cancel, new, msgs, events, how)
         => ISTB!Handle(to, cancel, new, msgs, events, how)
  /\ \A to, cancel, new, msgs, events, ok :
       IST!HandleNested(to, cancel, new, msgs, events, ok)
         => ISTB!HandleNested(to, cancel, new, msgs, events, ok)
  /\ \A expected : IST!IgnoreTimer(expected) => ISTB!IgnoreTimer(expected)
  /\ \A kinds : IST!Destroy(kinds) => ISTB!Destroy(kinds)
  /\ IST!Plumbing => ISTB!Plumbing
  /\ IST!TransacTypeOK <=> ISTB!TransacTypeOK
  /\ IST!TransacTypeOK' <=> ISTB!TransacTypeOK'
<1>1. \A to, cancel, new, msgs, events, how :
         IST!Handle(to, cancel, new, msgs, events, how)
           => ISTB!Handle(to, cancel, new, msgs, events, how)
  BY DEF IST!Handle, ISTB!Handle, IST!Effects, ISTB!Effects, IST!Canceled,
         ISTB!Canceled
<1>2. \A to, cancel, new, msgs, events, ok :
         IST!HandleNested(to, cancel, new, msgs, events, ok)
           => ISTB!HandleNested(to, cancel, new, msgs, events, ok)
  BY DEF IST!HandleNested, ISTB!HandleNested, IST!Effects, ISTB!Effects,
         IST!Canceled, ISTB!Canceled, IST!InUser, ISTB!InUser
<1>3. \A expected : IST!IgnoreTimer(expected) => ISTB!IgnoreTimer(expected)
  BY DEF IST!IgnoreTimer, ISTB!IgnoreTimer
<1>4. \A kinds : IST!Destroy(kinds) => ISTB!Destroy(kinds)
  BY DEF IST!Destroy, ISTB!Destroy, IST!Canceled, ISTB!Canceled
<1>5. IST!Plumbing => ISTB!Plumbing
  <2>1. IST!Return => ISTB!Return
    BY DEF IST!Return, ISTB!Return, IST!Stored, ISTB!Stored
  <2>2. IST!Finish => ISTB!Finish
    BY DEF IST!Finish, ISTB!Finish
  <2>3. IST!NestedCancel => ISTB!NestedCancel
    BY DEF IST!NestedCancel, ISTB!NestedCancel, IST!InUser, ISTB!InUser
  <2>4. IST!RaiseTimer => ISTB!RaiseTimer
    BY DEF IST!RaiseTimer, ISTB!RaiseTimer
  <2>5. IST!MatchTimer => ISTB!MatchTimer
    BY DEF IST!MatchTimer, ISTB!MatchTimer
  <2>6. IST!Tick => ISTB!Tick
    BY DEF IST!Tick, ISTB!Tick
  <2> QED BY <2>1, <2>2, <2>3, <2>4, <2>5, <2>6 DEF IST!Plumbing, ISTB!Plumbing
<1>6. IST!TransacTypeOK <=> ISTB!TransacTypeOK
  BY DEF IST!TransacTypeOK, ISTB!TransacTypeOK, IST!Timer, ISTB!Timer,
         IST!Raised, ISTB!Raised, IST!Ownership, ISTB!Ownership, IST!Endings,
         ISTB!Endings, IST!InUser, ISTB!InUser
<1>7. IST!TransacTypeOK' <=> ISTB!TransacTypeOK'
  BY DEF IST!TransacTypeOK, ISTB!TransacTypeOK, IST!Timer, ISTB!Timer,
         IST!Raised, ISTB!Raised, IST!Ownership, ISTB!Ownership, IST!Endings,
         ISTB!Endings, IST!InUser, ISTB!InUser
<1> QED BY <1>1, <1>2, <1>3, <1>4, <1>5, <1>6, <1>7

ISTBackedOut == ISTB!Told({"refused", "canceled"})
ISTFailed    == ISTB!Told({"transport_error", "error"})

(* What has passed in each state, and what a retransmission is answered.   *)
ISTOutcome ==
  /\ ISTB!AtMostOnce({"INVITE"}) /\ (state = "Started" => ~ISTB!Told({"INVITE"}))
  /\ state \in {"Started", "Proceeding"} =>
       /\ ~ISTB!Told({"2xx"}) /\ ~ISTB!Told({"3xx"}) /\ "2xx" \notin out /\ "3xx" \notin out
       /\ lastResponse \notin {"2xx", "3xx"}
  /\ state = "Proceeding" => lastResponse # "none"
  /\ state \in {"Completed", "Confirmed"} =>
       ~ISTB!Told({"2xx"}) /\ "2xx" \notin out /\ lastResponse = "3xx"
  /\ state = "Accepted" =>
       ~ISTB!Told({"3xx"}) /\ "3xx" \notin out /\ lastResponse = "2xx"
  /\ ~("2xx" \in out /\ "3xx" \in out)
  /\ ISTB!Told({"2xx"}) => lastResponse = "2xx"
  /\ ISTB!Told({"3xx"}) => lastResponse = "3xx"

(* Who is on the way out is over, was backed out of, or a message was      *)
(* refused; an accepted call is over with its ACK, or else.                *)
ISTWord ==
  /\ exec = "fail" \/ ending \/ life # "listed" =>
       state = "Terminated" \/ ISTBackedOut \/ "unsent" \in mishaps
  /\ state = "Terminated" /\ ISTB!Told({"2xx"}) =>
       acked \/ ISTBackedOut \/ ISTFailed \/ "unsent" \in mishaps

ISTTimer ==
  (life = "listed" /\ ~ending) =>
    /\ state = "Completed" => ISTB!Comes("H")
    /\ state = "Accepted" => ISTB!Comes("L")
    /\ state = "Confirmed" => ISTB!Comes("I")

(* Only an accepted call is acknowledged.                                  *)
ISTAck ==
  /\ acked => state \in {"Accepted", "Terminated"}
  /\ acked /\ ~lateX => ~ISTB!Waiting("X")

ISTInv ==
  IST!TypeOK /\ ISTB!StoringInv /\ ISTOutcome /\ ISTWord /\ ISTTimer /\ ISTAck

(* The states in which an event may pass, and the one it leads to; what is *)
(* sent is what is remembered.                                             *)
ISTEvent(e, to) ==
  /\ \/ e = "INVITE" /\ state = "Started" /\ to = "Proceeding"
     \/ e = "1xx" /\ state = "Proceeding" /\ to \in {"Proceeding", "Terminated"}
     \/ e = "2xx" /\ state \in {"Proceeding", "Accepted"} /\ to \in {"Accepted", "Terminated"}
     \/ e = "3xx" /\ state = "Proceeding" /\ to \in {"Completed", "Terminated"}
     \/ e = "ACK" /\ state = "Accepted" /\ to = "Accepted"
     \/ e \in {"transport_error", "error"} /\ to = "Terminated"
     \/ e \in {"refused", "canceled"} /\ to \in {state, "Terminated"}
  /\ lastResponse' = IF e = "INVITE" THEN "100"
                     ELSE IF e \in IST!Answers THEN e ELSE lastResponse
  /\ out' \subseteq out \union {lastResponse'}
  /\ e \notin {"INVITE"} \union IST!Answers => out' = out

ISTSilent(to) ==
  /\ \/ to = state /\ state # "Started" /\ UNCHANGED lastResponse
        /\ out' \subseteq out \union {lastResponse}
     \/ to = state /\ UNCHANGED <<lastResponse, out>>
     \/ state = "Started" /\ to = "Proceeding" /\ lastResponse' = "100" /\ UNCHANGED out
     \/ state = "Completed" /\ to = "Confirmed" /\ UNCHANGED <<lastResponse, out>>
     \/ state = "Confirmed" /\ to = "Terminated" /\ UNCHANGED <<lastResponse, out>>
     \/ state = "Accepted" /\ acked /\ to = "Terminated" /\ UNCHANGED <<lastResponse, out>>
     \/ ending /\ to = "Terminated" /\ UNCHANGED <<lastResponse, out>>
  /\ state = "Terminated" => UNCHANGED out

(* The state entered has its timer armed by the step, or left alone.       *)
ISTKept(in, kind, to, cancel, new) ==
  to = in => \/ \E t \in new : t.kind = kind
             \/ state = to /\ kind \notin cancel /\ (acting' = acting \/ acting # kind)

(* An event that may pass in this state keeps the outcome.                 *)
LEMMA ISTTold ==
  ASSUME tu \in Seq(IST!Exchange), NEW e, tu' = tu \o <<e>>,
         ISTOutcome, state \in IST!States, ISTEvent(e, state')
  PROVE  /\ ISTOutcome'
         /\ ISTB!Told({"2xx"})' <=> ISTB!Told({"2xx"}) \/ e = "2xx"
         /\ ISTBackedOut' <=> ISTBackedOut \/ e \in {"refused", "canceled"}
         /\ ISTFailed' <=> ISTFailed \/ e \in {"transport_error", "error"}
<1>1. /\ ISTB!Told({"2xx"})' <=> ISTB!Told({"2xx"}) \/ e = "2xx"
      /\ ISTB!Told({"3xx"})' <=> ISTB!Told({"3xx"}) \/ e = "3xx"
      /\ ISTB!Told({"INVITE"})' <=> ISTB!Told({"INVITE"}) \/ e = "INVITE"
  BY ISTB!OneMoreEvent
<1>2. /\ ISTBackedOut' <=> ISTBackedOut \/ e \in {"refused", "canceled"}
      /\ ISTFailed' <=> ISTFailed \/ e \in {"transport_error", "error"}
  BY ISTB!OneMoreEvent DEF ISTBackedOut, ISTFailed
<1>3. ISTB!AtMostOnce({"INVITE"}) /\ (e = "INVITE" => ~ISTB!Told({"INVITE"}))
             => ISTB!AtMostOnce({"INVITE"})'
  BY ISTB!OneMoreEvent
<1>4. ISTOutcome'
  BY <1>1, <1>3 DEF ISTOutcome, ISTEvent, IST!Answers, IST!States
<1> QED BY <1>1, <1>2, <1>4

(* A step that says nothing keeps it as well.                              *)
LEMMA ISTSaid ==
  ASSUME UNCHANGED tu, ISTOutcome, state \in IST!States, ISTSilent(state')
  PROVE  /\ ISTOutcome' /\ (ISTB!Told({"2xx"})' <=> ISTB!Told({"2xx"}))
         /\ ISTBackedOut' <=> ISTBackedOut
         /\ ISTFailed' <=> ISTFailed
<1>1. UNCHANGED <<ISTB!Told({"2xx"}), ISTB!Told({"3xx"}), ISTB!Told({"INVITE"}),
                  ISTB!AtMostOnce({"INVITE"})>>
  BY DEF ISTB!Told, ISTB!AtMostOnce
<1>2. (ISTBackedOut' <=> ISTBackedOut) /\ (ISTFailed' <=> ISTFailed)
  BY DEF ISTB!Told, ISTBackedOut, ISTFailed
<1>3. ISTOutcome'
  BY <1>1 DEF ISTOutcome, ISTSilent, IST!States
<1> QED BY <1>1, <1>2, <1>3

(* A step that passes one event or none, and what its handler ends with.   *)
LEMMA ISTEvents ==
  ASSUME ISTInv, NEW events, tu' = tu \o events,
         \/ events = <<>> /\ ISTSilent(state')
         \/ \E e \in IST!Exchange : events = <<e>> /\ ISTEvent(e, state'),
         mishaps \subseteq mishaps', acked => acked',
         ending' \/ life' # "listed" =>
            \/ ending \/ life # "listed" \/ exec = "fail" \/ state' = "Terminated"
            \/ "unsent" \in mishaps' \/ events = <<"refused">>,
         exec' = "fail" => exec = "fail" \/ "unsent" \in mishaps',
         state' = "Terminated" /\ events \in {<<"1xx">>, <<"2xx">>, <<"3xx">>} =>
            "unsent" \in mishaps'
  PROVE  /\ ISTOutcome' /\ tu' \in Seq(IST!Exchange)
         /\ lastResponse' \in {"none", "100"} \union IST!Answers
         /\ out' \subseteq {"100"} \union IST!Answers
         /\ ISTWord'
<1>1. /\ tu \in Seq(IST!Exchange) /\ lastResponse \in {"none", "100"} \union IST!Answers
      /\ out \subseteq {"100"} \union IST!Answers /\ state \in IST!States
      /\ ISTOutcome /\ ISTWord
  BY DEF ISTInv, IST!TypeOK
<1>2. CASE events = <<>> /\ ISTSilent(state')
  <2>1. UNCHANGED tu /\ events # <<"refused">>
    BY <1>1, <1>2
  <2>2. /\ ISTOutcome' /\ (ISTB!Told({"2xx"})' <=> ISTB!Told({"2xx"}))
        /\ ISTBackedOut' <=> ISTBackedOut
        /\ ISTFailed' <=> ISTFailed
    BY <2>1, <1>1, <1>2, ISTSaid
  <2>3. /\ lastResponse' \in {"none", "100"} \union IST!Answers
        /\ out' \subseteq {"100"} \union IST!Answers
    BY <1>1, <1>2 DEF ISTSilent, ISTOutcome, IST!Answers, IST!States
  <2>4. ISTWord'
    BY <2>1, <2>2, <1>1, <1>2 DEF ISTWord, ISTSilent, ISTOutcome
  <2> QED BY <2>1, <2>2, <2>3, <2>4, <1>1
<1>3. ASSUME NEW e \in IST!Exchange, events = <<e>>, ISTEvent(e, state')
      PROVE  /\ ISTOutcome' /\ tu' \in Seq(IST!Exchange)
             /\ lastResponse' \in {"none", "100"} \union IST!Answers
             /\ out' \subseteq {"100"} \union IST!Answers
             /\ ISTWord'
  <2>1. tu' = tu \o <<e>> /\ tu' \in Seq(IST!Exchange)
    BY <1>1, <1>3
  <2>2. /\ ISTOutcome'
        /\ ISTB!Told({"2xx"})' <=> ISTB!Told({"2xx"}) \/ e = "2xx"
        /\ ISTBackedOut' <=> ISTBackedOut \/ e \in {"refused", "canceled"}
        /\ ISTFailed' <=> ISTFailed \/ e \in {"transport_error", "error"}
    BY <2>1, <1>1, <1>3, ISTTold
  <2>3. /\ lastResponse' \in {"none", "100"} \union IST!Answers
        /\ out' \subseteq {"100"} \union IST!Answers
    BY <1>1, <1>3 DEF ISTEvent
  <2>4. /\ events = <<"refused">> => e = "refused"
        /\ e \in {"1xx", "2xx", "3xx"} => events \in {<<"1xx">>, <<"2xx">>, <<"3xx">>}
    BY <1>3
  <2>5. ISTWord'
    BY <2>2, <2>4, <1>1, <1>3 DEF ISTWord, ISTEvent
  <2> QED BY <2>1, <2>2, <2>3, <2>5
<1> QED BY <1>2, <1>3

(* The handlers that keep the invariant, entered from outside or from      *)
(* inside a delivery.                                                      *)
ISTAllowed(to, cancel, new, msgs, events) ==
  /\ to \in IST!States \ {"Started"} /\ ISTB!Unset(new)
  /\ acting' \in {acting, "running"} /\ period' \in Nat /\ UNCHANGED <<acked, lateX>>
  /\ \/ events = <<>> /\ ISTSilent(to)
     \/ \E e \in IST!Exchange :
          /\ events = <<e>> /\ ISTEvent(e, to)
          /\ to = "Terminated" => e \notin IST!Answers
  /\ ISTKept("Completed", "H", to, cancel, new) /\ ISTKept("Accepted", "L", to, cancel, new)
  /\ ISTKept("Confirmed", "I", to, cancel, new)
  /\ (\E t \in new : t.kind = "X") => state = "Proceeding" \/ acting = "X"

(* Such a handler keeps the timer of the state, and timer X stopped.       *)
LEMMA ISTKeptTimer ==
  ASSUME ISTInv, NEW to, NEW cancel, NEW new, NEW msgs, NEW events,
         ISTAllowed(to, cancel, new, msgs, events), ISTB!Carries(cancel, new),
         state' \in {to, "Terminated"}, ending' = ending, life' = "listed" => life = "listed"
  PROVE  ISTTimer' /\ ISTAck'
<1>1. ISTTimer'
  <2>1. ASSUME NEW in \in {"Completed", "Accepted", "Confirmed"}, NEW kind,
               ISTKept(in, kind, to, cancel, new), state = in => ISTB!Comes(kind),
               state' = in
        PROVE  ISTB!Comes(kind)'
    BY <2>1 DEF ISTKept, ISTB!Carries
  <2>2. /\ state' = "Completed" /\ (state = "Completed" => ISTB!Comes("H"))
              => ISTB!Comes("H")'
        /\ state' = "Accepted" /\ (state = "Accepted" => ISTB!Comes("L"))
              => ISTB!Comes("L")'
        /\ state' = "Confirmed" /\ (state = "Confirmed" => ISTB!Comes("I"))
              => ISTB!Comes("I")'
    BY <2>1 DEF ISTAllowed
  <2> QED BY <2>2 DEF ISTInv, ISTTimer
<1>2. acked' => state' \in {"Accepted", "Terminated"}
  BY DEF ISTInv, ISTAck, ISTAllowed, ISTSilent, ISTEvent
<1>3. acked' /\ ~lateX' => ~ISTB!Waiting("X")'
  <2>1. UNCHANGED <<acked, lateX>>
    BY DEF ISTAllowed
  <2>2. ASSUME acked, ~lateX
        PROVE  ~ISTB!Waiting("X") /\ \A t \in new : t.kind # "X"
    BY <2>2 DEF ISTInv, ISTAck, ISTAllowed, ISTB!Waiting
  <2>3. ASSUME ~ISTB!Waiting("X"), \A t \in new : t.kind # "X"
        PROVE  ~ISTB!Waiting("X")'
    BY <2>3 DEF ISTB!Carries
  <2> QED BY <2>1, <2>2, <2>3
<1> QED BY <1>1, <1>2, <1>3 DEF ISTAck

(* A handler of that kind, entered from outside, keeps the invariant.      *)
LEMMA ISTHandle ==
  ASSUME ISTInv, NEW to, NEW cancel, NEW new, NEW msgs, NEW events,
         NEW how \in ISTB!Endings, IST!Handle(to, cancel, new, msgs, events, how),
         ISTAllowed(to, cancel, new, msgs, events)
  PROVE  ISTInv'
<1>1. ISTB!Handle(to, cancel, new, msgs, events, how)
  BY ISTBridge
<1>2. /\ state' = to /\ exec' = how /\ ending' = ending /\ life' = life
      /\ tu' = tu \o events
      /\ mishaps' = mishaps \union IF how = "fail" THEN {"unsent"} ELSE {}
  BY <1>1 DEF ISTB!Handle, ISTB!Effects
<1>3. ISTB!BaseInv
  BY ISTBridge DEF ISTInv, IST!TypeOK, ISTB!BaseInv
<1>4. ISTB!BaseInv' /\ ISTB!Carries(cancel, new)
  BY <1>1, <1>3, ISTB!HandleKeeps DEF ISTAllowed
<1>5. /\ \/ events = <<>> /\ ISTSilent(state')
         \/ \E e \in IST!Exchange : events = <<e>> /\ ISTEvent(e, state')
      /\ state' = "Terminated" => events \notin {<<"1xx">>, <<"2xx">>, <<"3xx">>}
  <2>1. CASE events = <<>> /\ ISTSilent(to)
    BY <1>2, <2>1
  <2>2. ASSUME NEW e \in IST!Exchange, events = <<e>>, ISTEvent(e, to),
               to = "Terminated" => e \notin IST!Answers
        PROVE  /\ ISTEvent(e, state')
               /\ state' = "Terminated" => events \notin {<<"1xx">>, <<"2xx">>, <<"3xx">>}
    BY <1>2, <2>2 DEF IST!Answers
  <2> QED BY <2>1, <2>2 DEF ISTAllowed
<1>6. /\ mishaps \subseteq mishaps' /\ (acked => acked')
      /\ ending' \/ life' # "listed" => ending \/ life # "listed"
      /\ exec' = "fail" => "unsent" \in mishaps'
  BY <1>2 DEF ISTAllowed
<1>7. /\ ISTOutcome' /\ tu' \in Seq(IST!Exchange)
      /\ lastResponse' \in {"none", "100"} \union IST!Answers
      /\ out' \subseteq {"100"} \union IST!Answers
      /\ ISTWord'
  BY <1>2, <1>5, <1>6, ISTEvents
<1>8. acked' \in BOOLEAN /\ lateX' \in BOOLEAN
  BY Zenon DEF ISTAllowed, ISTInv, IST!TypeOK
<1>9. IST!TypeOK'
  BY <1>2, <1>4, <1>7, <1>8, ISTBridge DEF IST!TypeOK, ISTB!BaseInv, ISTAllowed
<1>10. ISTTimer' /\ ISTAck'
  BY <1>2, <1>4, ISTKeptTimer
<1> QED BY <1>4, <1>7, <1>9, <1>10 DEF ISTInv, ISTB!BaseInv

(* One entered by the user from inside a delivery keeps it as well.        *)
LEMMA ISTHandleNested ==
  ASSUME ISTInv, NEW to, NEW new, NEW msgs, NEW e \in IST!Answers, NEW ok \in BOOLEAN,
         IST!HandleNested(to, {}, new, msgs, <<e>>, ok), UNCHANGED acting,
         ISTAllowed(to, {}, new, msgs, <<e>>), ISTEvent(e, to), to # "Terminated"
  PROVE  ISTInv'
<1>1. ISTB!HandleNested(to, {}, new, msgs, <<e>>, ok)
  BY ISTBridge
<1>2. /\ state' = (IF ok THEN to ELSE "Terminated") /\ exec' = exec /\ ending' = ending
      /\ life' = (IF ok THEN life ELSE "removed")
      /\ tu' = tu \o <<e>>
      /\ mishaps' = mishaps \union IF ok THEN {} ELSE {"unsent"}
  BY <1>1 DEF ISTB!HandleNested, ISTB!Effects
<1>3. ISTB!BaseInv
  BY ISTBridge DEF ISTInv, IST!TypeOK, ISTB!BaseInv
<1>4. ISTB!BaseInv' /\ ISTB!Carries({}, new)
  BY <1>1, <1>3, ISTB!HandleNestedKeeps DEF ISTAllowed
<1>5. ISTEvent(e, state') /\ e \in IST!Exchange
  BY <1>2 DEF ISTEvent, IST!Exchange, IST!Answers
<1>6. /\ mishaps \subseteq mishaps' /\ (acked => acked')
      /\ ending' \/ life' # "listed" => ending \/ life # "listed" \/ "unsent" \in mishaps'
      /\ exec' = "fail" => exec = "fail"
      /\ state' = "Terminated" => "unsent" \in mishaps'
  BY <1>2 DEF ISTAllowed
<1>7. /\ ISTOutcome' /\ tu' \in Seq(IST!Exchange)
      /\ lastResponse' \in {"none", "100"} \union IST!Answers
      /\ out' \subseteq {"100"} \union IST!Answers
      /\ ISTWord'
  BY <1>2, <1>5, <1>6, ISTEvents
<1>8. acked' \in BOOLEAN /\ lateX' \in BOOLEAN
  BY Zenon DEF ISTAllowed, ISTInv, IST!TypeOK
<1>9. IST!TypeOK'
  BY <1>2, <1>4, <1>7, <1>8, ISTBridge DEF IST!TypeOK, IST!States, ISTB!BaseInv, ISTAllowed
<1>10. ISTTimer' /\ ISTAck'
  BY <1>2, <1>4, ISTKeptTimer
<1> QED BY <1>4, <1>7, <1>9, <1>10 DEF ISTInv, ISTB!BaseInv

(* The steps between the handlers.                                         *)
LEMMA ISTPlumbing ==
  ASSUME ISTInv, IST!Plumbing, IST!Own
  PROVE  ISTInv'
<1>1. ISTB!Plumbing /\ ISTB!BaseInv /\ state \in IST!States /\ tu \in Seq(IST!Exchange)
      /\ UNCHANGED <<lastResponse, acked, lateX>>
  BY ISTBridge DEF ISTInv, IST!TypeOK, ISTB!BaseInv, IST!Own
<1>2. ISTB!BaseInv' /\ ISTB!CarriesOn
  BY <1>1, ISTB!PlumbingKeeps
<1>3. /\ UNCHANGED out /\ exec' \in {exec, "no"} /\ mishaps \subseteq mishaps'
      /\ life' = "listed" => life = "listed" /\ state' = state
      /\ life' = "listed" /\ ~ending' => ~ending
      /\ \/ /\ UNCHANGED <<tu, state, life>>
            /\ ending' => ending \/ exec = "fail" \/ state = "Terminated"
         \/ UNCHANGED tu /\ ending /\ state' = "Terminated"
         \/ tu' = tu \o <<"refused">> /\ UNCHANGED <<state, life>>
         \/ tu' = tu \o <<"canceled">> /\ state' = "Terminated"
  BY <1>1, ISTB!PlumbingTells DEF ISTB!BaseInv
<1>4. state' \in IST!States /\ state' \in {state, "Terminated"}
  BY <1>1, <1>3 DEF IST!States
<1>5. /\ ISTOutcome' /\ tu' \in Seq(IST!Exchange)
      /\ lastResponse' \in {"none", "100"} \union IST!Answers
      /\ out' \subseteq {"100"} \union IST!Answers
      /\ ISTWord'
  <2>1. CASE UNCHANGED tu
    <3>1. tu' = tu \o <<>> /\ ISTSilent(state')
      BY <2>1, <1>1, <1>3 DEF ISTSilent
    <3>2. /\ ending' \/ life' # "listed" =>
               ending \/ life # "listed" \/ exec = "fail" \/ state' = "Terminated"
          /\ exec' = "fail" => exec = "fail"
      BY <2>1, <1>1, <1>3
    <3>3. <<>> \notin {<<"1xx">>, <<"2xx">>, <<"3xx">>}
      OBVIOUS
    <3> QED BY <3>1, <3>2, <3>3, <1>1, <1>3, ISTEvents
  <2>2. ASSUME NEW e \in {"refused", "canceled"}, tu' = tu \o <<e>>,
               state' \in {state, "Terminated"},
               e = "canceled" => state' = "Terminated",
               life' # "listed" => life # "listed" \/ state' = "Terminated"
        PROVE  /\ ISTOutcome' /\ tu' \in Seq(IST!Exchange)
               /\ lastResponse' \in {"none", "100"} \union IST!Answers
               /\ out' \subseteq {"100"} \union IST!Answers
               /\ ISTWord'
    <3>1. e \in IST!Exchange /\ ISTEvent(e, state')
      BY <2>2, <1>1, <1>3 DEF IST!Exchange, ISTEvent, IST!Answers
    <3>2. /\ ending' \/ life' # "listed" =>
               \/ ending \/ life # "listed" \/ exec = "fail" \/ state' = "Terminated"
               \/ <<e>> = <<"refused">>
          /\ exec' = "fail" => exec = "fail"
          /\ <<e>> \notin {<<"1xx">>, <<"2xx">>, <<"3xx">>}
      BY <2>2, <1>3
    <3> QED BY <2>2, <3>1, <3>2, <1>1, <1>3, ISTEvents
  <2> QED BY <1>3, <2>1, <2>2
<1>6. acked' \in BOOLEAN /\ lateX' \in BOOLEAN
  BY <1>1, Zenon DEF ISTInv, IST!TypeOK
<1>7. IST!TypeOK'
  BY <1>2, <1>4, <1>5, <1>6, ISTBridge DEF IST!TypeOK, ISTB!BaseInv
<1>8. ISTTimer'
  BY <1>2, <1>3 DEF ISTInv, ISTTimer, ISTB!CarriesOn
<1>9. ISTAck'
  BY <1>1, <1>2, <1>4 DEF ISTInv, ISTAck, ISTB!CarriesOn
<1> QED BY <1>2, <1>5, <1>7, <1>8, <1>9 DEF ISTInv, ISTB!BaseInv

(* A timer the state machine does not expect, and the destructor.          *)
LEMMA ISTOther ==
  ASSUME ISTInv, (IST!IgnoreTimer(IST!Expected) /\ IST!Own) \/ IST!Dtor
  PROVE  ISTInv'
<1>1. ISTB!BaseInv /\ UNCHANGED <<lastResponse, acked, lateX>> /\ state \in IST!States
  BY ISTBridge DEF ISTInv, IST!TypeOK, ISTB!BaseInv, IST!Own, IST!Dtor
<1>2. acked' \in BOOLEAN /\ lateX' \in BOOLEAN
  BY <1>1, Zenon DEF ISTInv, IST!TypeOK
<1>3. ASSUME UNCHANGED <<state, exec, ending, mishaps, out, tu>>, life' = life \/ life = "removed"
      PROVE  ISTOutcome' /\ ISTWord'
  <2>1. ISTOutcome /\ ISTSilent(state')
    BY <1>1, <1>3 DEF ISTInv, ISTSilent
  <2>2. /\ ISTOutcome' /\ (ISTB!Told({"2xx"})' <=> ISTB!Told({"2xx"}))
        /\ ISTBackedOut' <=> ISTBackedOut
        /\ ISTFailed' <=> ISTFailed
    BY <2>1, <1>1, <1>3, ISTSaid
  <2> QED BY <2>2, <1>1, <1>3 DEF ISTInv, ISTWord
<1>4. CASE IST!IgnoreTimer(IST!Expected)
  <2>1. ISTB!IgnoreTimer(IST!Expected)
    BY <1>4, ISTBridge
  <2>2. /\ ISTB!BaseInv' /\ \A kind \in IST!Expected : ISTB!Comes(kind) => ISTB!Comes(kind)'
        /\ \A kind : kind # "idle" /\ ~ISTB!Waiting(kind) => ~ISTB!Waiting(kind)'
    BY <1>1, <2>1, ISTB!IgnoreKeeps
  <2>3. UNCHANGED <<state, exec, ending, life, mishaps, out, tu>>
    BY <2>1 DEF ISTB!IgnoreTimer
  <2>4. /\ state = "Completed" => "H" \in IST!Expected
        /\ state = "Accepted" => "L" \in IST!Expected
        /\ state = "Confirmed" => "I" \in IST!Expected
    BY DEF IST!Expected
  <2>5. ISTOutcome' /\ ISTWord'
    BY <2>3, <1>3
  <2>6. ISTTimer' /\ ISTAck'
    BY <1>1, <2>2, <2>3, <2>4 DEF ISTInv, ISTTimer, ISTAck
  <2> QED
    BY <1>1, <1>2, <2>2, <2>3, <2>5, <2>6, ISTBridge DEF ISTInv, IST!TypeOK, ISTB!BaseInv
<1>5. CASE IST!Dtor
  <2>1. ISTB!Destroy({"G", "H", "I", "L", "X"})
    BY <1>5, ISTBridge DEF IST!Dtor
  <2>2. ISTB!BaseInv' /\ ISTB!CarriesOn
    BY <1>1, <2>1, ISTB!DestroyKeeps
  <2>3. /\ UNCHANGED <<state, exec, ending, mishaps, out, tu>>
        /\ life = "removed" /\ life' = "destroyed"
    BY <2>1 DEF ISTB!Destroy
  <2>4. ISTOutcome' /\ ISTWord'
    BY <2>3, <1>3
  <2>5. ISTTimer' /\ ISTAck'
    BY <1>1, <2>2, <2>3 DEF ISTInv, ISTTimer, ISTAck, ISTB!CarriesOn
  <2> QED
    BY <1>1, <1>2, <2>2, <2>3, <2>4, <2>5, ISTBridge DEF ISTInv, IST!TypeOK, ISTB!BaseInv
<1> QED BY <1>4, <1>5

(* It holds in the initial states of the role.                             *)
LEMMA ISTStart ==
  ASSUME IST!Init
  PROVE  ISTInv
<1> USE DEF IST!Init, IST!TransacInit
<1>1. IST!TypeOK
  <2>1. IST!TransacTypeOK
    <3>1. reliable \in BOOLEAN /\ ending \in BOOLEAN
      BY Zenon
    <3>2. /\ exec \in {"no"} /\ life = "listed" /\ period \in Nat /\ pending = {}
          /\ raised \in Seq(IST!Raised) /\ storing = {} /\ acting = "idle" /\ mishaps = {}
      BY TransactionsAssumption DEF IST!ISTAssumption
    <3> QED BY <3>1, <3>2 DEF IST!TransacTypeOK
  <2>2. acked \in BOOLEAN /\ lateX \in BOOLEAN
    BY Zenon
  <2> QED BY <2>1, <2>2 DEF IST!TypeOK, IST!States
<1>2. ISTB!StoringInv
  BY DEF ISTB!StoringInv
<1>3. ISTOutcome /\ ISTWord /\ ISTTimer /\ ISTAck
  BY DEF ISTOutcome, ISTWord, ISTTimer, ISTAck, ISTB!Told, ISTB!AtMostOnce
<1> QED BY <1>1, <1>2, <1>3 DEF ISTInv

(* What the invariant says of the role's properties.                       *)
LEMMA ISTShows ==
  ASSUME ISTInv
  PROVE  IST!NeverStuck /\ IST!OneFinalAnswer /\ IST!NoSilentEnd /\ IST!AckStopsTimerX
<1>1. IST!NeverStuck
  <2>1. /\ DOMAIN IST!TimerOf = {"Completed", "Accepted", "Confirmed"}
        /\ IST!TimerOf["Completed"] = "H" /\ IST!TimerOf["Accepted"] = "L"
        /\ IST!TimerOf["Confirmed"] = "I"
    BY DEF IST!TimerOf
  <2>2. \A kind : ISTB!Waiting(kind) <=> IST!Waiting(kind)
    BY DEF ISTB!Waiting, IST!Waiting
  <2> QED BY <2>1, <2>2 DEF ISTInv, ISTTimer, IST!NeverStuck, ISTB!Comes
<1>2. IST!OneFinalAnswer
  BY DEF ISTInv, ISTOutcome, IST!OneFinalAnswer, ISTB!Told, ISTB!AtMostOnce,
         IST!Told, IST!AtMostOnce
<1>3. IST!NoSilentEnd
  <2>1. /\ ISTB!Told({"2xx"}) <=> IST!Told({"2xx"})
        /\ ISTBackedOut <=> IST!BackedOut
        /\ ISTFailed <=> IST!Told({"transport_error", "error"})
    BY DEF ISTBackedOut, ISTFailed, IST!BackedOut, ISTB!Told, IST!Told
  <2> QED BY <2>1 DEF ISTInv, ISTWord, IST!NoSilentEnd
<1>4. IST!AckStopsTimerX
  BY DEF ISTInv, ISTAck, IST!AckStopsTimerX, ISTB!Waiting, IST!Waiting
<1> QED BY <1>1, <1>2, <1>3, <1>4

(* A response of the user, from outside or from inside a delivery.         *)
LEMMA ISTRespond ==
  ASSUME ISTInv, NEW to, NEW answer, NEW new, IST!Respond(to, answer, new),
         ISTB!Unset(new), period' \in Nat,
         \/ state = "Proceeding" /\ to = "Proceeding" /\ answer = "1xx" /\ new = {}
         \/ /\ state = "Proceeding" /\ to = "Completed" /\ answer = "3xx"
            /\ \E t \in new : t.kind = "H"
         \/ /\ state = "Proceeding" /\ to = "Accepted" /\ answer = "2xx"
            /\ \E t \in new : t.kind = "L"
         \/ state = "Accepted" /\ to = "Accepted" /\ answer = "2xx" /\ new = {}
  PROVE  ISTInv'
<1>1. PICK sent \in IST!Sent :
        \/ IST!Handle(to, {}, new, IST!Response(sent, answer), <<answer>>,
                      IST!SendResult(sent))
        \/ IST!HandleNested(to, {}, new, IST!Response(sent, answer), <<answer>>, sent)
  BY DEF IST!Respond
<1>2. lastResponse' = answer /\ UNCHANGED <<acting, acked, lateX>>
  BY DEF IST!Respond
<1>3. answer \in IST!Answers /\ answer \in IST!Exchange /\ answer # "INVITE"
  BY DEF IST!Answers, IST!Exchange
<1>4. out' \subseteq out \union {answer}
  BY <1>1 DEF IST!Handle, IST!HandleNested, IST!Effects, IST!Response
<1>5. ISTEvent(answer, to)
  BY <1>2, <1>3, <1>4 DEF ISTEvent
<1>6. ISTAllowed(to, {}, new, IST!Response(sent, answer), <<answer>>)
  BY <1>2, <1>3, <1>5 DEF ISTAllowed, ISTKept, IST!States
<1>7. CASE IST!Handle(to, {}, new, IST!Response(sent, answer), <<answer>>,
                      IST!SendResult(sent))
  <2>1. IST!SendResult(sent) \in ISTB!Endings
    BY DEF IST!SendResult, ISTB!Endings
  <2> QED BY <1>6, <1>7, <2>1, ISTHandle
<1>8. CASE IST!HandleNested(to, {}, new, IST!Response(sent, answer), <<answer>>, sent)
  <2>1. sent \in BOOLEAN /\ to # "Terminated"
    BY DEF IST!Sent
  <2> QED BY <1>2, <1>3, <1>5, <1>6, <1>8, <2>1, ISTHandleNested
<1> QED BY <1>1, <1>7, <1>8

(* The ACK of the 2xx: every timer X that the manager still holds is found *)
(* by its id, for the ids are in place while the lock is free.             *)
LEMMA ISTAcknowledged ==
  ASSUME ISTInv, IST!Accepted_2_Accepted_iACK
  PROVE  ISTInv'
<1>1. /\ IST!Handle("Accepted", {"X"}, {}, {}, <<"ACK">>, "user")
      /\ state = "Accepted" /\ acked' = TRUE /\ UNCHANGED <<period, acting, lastResponse>>
      /\ lateX' = (lateX \/ acting = "X" \/ \E i \in DOMAIN raised : raised[i].kind = "X")
  BY DEF IST!Accepted_2_Accepted_iACK
<1>2. ISTB!Handle("Accepted", {"X"}, {}, {}, <<"ACK">>, "user") /\ "user" \in ISTB!Endings
  BY <1>1, ISTBridge DEF ISTB!Endings, ISTB!InUser
<1>3. /\ exec = "no" /\ exec' = "user" /\ state' = "Accepted"
      /\ pending' = ISTB!Canceled(pending, {"X"}) \union {}
      /\ out' = out \union {} /\ tu' = tu \o <<"ACK">>
      /\ UNCHANGED <<raised, ending, life, mishaps>>
  BY <1>2 DEF ISTB!Handle, ISTB!Effects
<1>4. ISTB!BaseInv
  BY ISTBridge DEF ISTInv, IST!TypeOK, ISTB!BaseInv
<1>5. ISTB!BaseInv' /\ ISTB!Carries({"X"}, {})
  <2>1. ISTB!Unset({}) /\ acting' \in {acting, "running"} /\ period' \in Nat
    BY <1>1, <1>4 DEF ISTB!Unset, ISTB!BaseInv, ISTB!TransacTypeOK
  <2> QED BY <1>2, <1>4, <2>1, ISTB!HandleKeeps
<1>6. ISTEvent("ACK", state') /\ "ACK" \in IST!Exchange
  BY <1>1, <1>3 DEF ISTEvent, IST!Exchange, IST!Answers
<1>7. /\ ISTOutcome' /\ tu' \in Seq(IST!Exchange)
      /\ lastResponse' \in {"none", "100"} \union IST!Answers
      /\ out' \subseteq {"100"} \union IST!Answers
      /\ ISTWord'
  <2>1. state' # "Terminated"
    BY <1>3
  <2> QED BY <1>1, <1>3, <1>6, <2>1, ISTEvents
<1>8. acked' \in BOOLEAN /\ lateX' \in BOOLEAN
  <2>1. lateX' \in BOOLEAN
    BY <1>1, Zenon DEF ISTInv, IST!TypeOK
  <2> QED BY <1>1, <2>1
<1>9. IST!TypeOK'
  BY <1>3, <1>5, <1>7, <1>8, ISTBridge DEF IST!TypeOK, IST!States, ISTB!BaseInv
<1>10. ISTTimer'
  BY <1>1, <1>3, <1>5 DEF ISTInv, ISTTimer, ISTB!Carries
<1>11. ISTAck'
  <2>1. \A t \in pending : t.kind = "X" => t.own \in {"set", "lost"}
    BY <1>3, <1>4 DEF ISTB!BaseInv, ISTB!StoringInv, ISTB!TransacTypeOK, ISTB!Timer,
                      ISTB!Ownership
  <2>2. \A t \in pending' : t.kind = "X" => t.own = "lost"
    BY <1>3, <2>1 DEF ISTB!Canceled
  <2>3. ~lateX' => ~ISTB!Waiting("X")'
    BY <1>1, <1>3, <2>2 DEF ISTB!Waiting
  <2> QED BY <1>3, <2>3 DEF ISTAck
<1> QED BY <1>5, <1>7, <1>9, <1>10, <1>11 DEF ISTInv, ISTB!BaseInv

(* Every step of the role keeps its invariant.                             *)
LEMMA ISTStep ==
  ASSUME ISTInv, IST!Next
  PROVE  ISTInv'
<1>1. /\ period \in Nat /\ state \in IST!States /\ IST!Exchange = {"INVITE", "ACK",
           "transport_error", "error", "refused", "canceled", "1xx", "2xx", "3xx"}
  BY DEF ISTInv, IST!TypeOK, IST!TransacTypeOK, IST!Exchange, IST!Answers
<1>2. /\ T1 \in Nat /\ T2 \in Nat /\ Timeout64T1 \in Nat /\ TimeoutI \in Nat
      /\ IST!ITimeout \in Nat /\ 2 * period \in Nat
      /\ IST!Smaller(2 * period, T2) \in Nat
  BY <1>1, TransactionsAssumption DEF IST!ISTAssumption, IST!ITimeout, IST!Smaller
<1>3. \A kind \in {"G", "H", "I", "L", "X"}, timeout \in Nat :
        /\ IST!Armed(kind, timeout).kind = kind /\ ISTB!Unset({IST!Armed(kind, timeout)})
  BY DEF IST!Armed, ISTB!Unset, ISTB!Timer, ISTB!Ownership
<1>4. ISTB!Unset({}) /\ \A S, T : ISTB!Unset(S) /\ ISTB!Unset(T) => ISTB!Unset(S \union T)
  BY DEF ISTB!Unset
<1>5. {"ok", "fail", "user"} \subseteq ISTB!Endings
  BY DEF ISTB!Endings, ISTB!InUser
<1>6. CASE IST!Started_2_Proceeding_INVITE
  <2>1. PICK sent \in IST!Sent :
          IST!Handle("Proceeding", {}, {}, IST!Response(sent, "100"),
                     IF sent THEN <<"INVITE">> ELSE <<>>, IF sent THEN "user" ELSE "fail")
    BY <1>6 DEF IST!Started_2_Proceeding_INVITE
  <2>2. /\ state = "Started" /\ lastResponse' = "100"
        /\ UNCHANGED <<period, acting, acked, lateX>>
    BY <1>6 DEF IST!Started_2_Proceeding_INVITE
  <2>3. out' = out \union IST!Response(sent, "100")
    BY <2>1 DEF IST!Handle, IST!Effects
  <2>4. sent \in BOOLEAN
    BY DEF IST!Sent
  <2>5. CASE sent
    <3>1. ISTEvent("INVITE", "Proceeding")
      BY <2>2, <2>3, <2>5 DEF ISTEvent, IST!Response, IST!Answers
    <3>2. ISTAllowed("Proceeding", {}, {}, IST!Response(sent, "100"), <<"INVITE">>)
      BY <1>1, <1>4, <2>2, <3>1 DEF ISTAllowed, ISTKept, IST!States
    <3>3. IST!Handle("Proceeding", {}, {}, IST!Response(sent, "100"), <<"INVITE">>, "user")
      BY <2>1, <2>5
    <3> QED BY <3>2, <3>3, <1>5, ISTHandle
  <2>6. CASE ~sent
    <3>1. ISTSilent("Proceeding")
      BY <2>2, <2>3, <2>6 DEF ISTSilent, IST!Response
    <3>2. ISTAllowed("Proceeding", {}, {}, IST!Response(sent, "100"), <<>>)
      BY <1>1, <1>4, <2>2, <3>1 DEF ISTAllowed, ISTKept, IST!States
    <3>3. IST!Handle("Proceeding", {}, {}, IST!Response(sent, "100"), <<>>, "fail")
      BY <2>1, <2>6
    <3> QED BY <3>2, <3>3, <1>5, ISTHandle
  <2> QED BY <2>4, <2>5, <2>6
<1>7. ASSUME NEW to \in {"Proceeding", "Completed", "Accepted"}, state = to, NEW new,
             NEW sent \in IST!Sent, NEW how \in {"ok", "fail"},
             IST!Handle(to, {}, new, IST!Response(sent, lastResponse), <<>>, how),
             ISTB!Unset(new), acting' \in {acting, "running"}, period' \in Nat,
             to = "Completed" => \A t \in new : t.kind = "G",
             acting' = acting \/ acting \in {"G", "X"},
             (\E t \in new : t.kind = "X") => acting = "X",
             UNCHANGED <<lastResponse, acked, lateX>>
      PROVE  ISTInv'
  <2>1. out' \subseteq out \union {lastResponse}
    BY <1>7 DEF IST!Handle, IST!Effects, IST!Response
  <2>2. ISTSilent(to)
    BY <1>7, <2>1 DEF ISTSilent
  <2>3. ISTAllowed(to, {}, new, IST!Response(sent, lastResponse), <<>>)
    BY <1>7, <2>2 DEF ISTAllowed, ISTKept, IST!States
  <2> QED BY <1>5, <1>7, <2>3, ISTHandle
<1>8. ASSUME NEW to \in {"Proceeding", "Completed", "Accepted"}, state = to, IST!Resend(to, {}),
             UNCHANGED <<period, acting, lastResponse, acked, lateX>>
      PROVE  ISTInv'
  <2>1. PICK sent \in IST!Sent :
          IST!Handle(to, {}, {}, IST!Response(sent, lastResponse), <<>>, IST!SendResult(sent))
    BY <1>8 DEF IST!Resend
  <2>2. IST!SendResult(sent) \in {"ok", "fail"}
    BY DEF IST!SendResult
  <2> QED BY <1>1, <1>4, <1>7, <1>8, <2>1, <2>2
<1>9. CASE IST!ReceiveINVITE
  BY <1>6, <1>8, <1>9
     DEF IST!ReceiveINVITE, IST!Proceeding_2_Proceeding_INVITE, IST!Completed_2_Completed_INVITE,
         IST!Accepted_2_Accepted_INVITE
<1>10. CASE IST!Completed_2_Completed_timerG
  <2>1. /\ acting = "G" /\ state = "Completed" /\ acting' = "running"
        /\ period' = IST!Smaller(2 * period, T2) /\ UNCHANGED <<lastResponse, acked, lateX>>
        /\ IST!Resend("Completed", {IST!Armed("G", IST!Smaller(2 * period, T2))})
    BY <1>10 DEF IST!Completed_2_Completed_timerG
  <2>2. PICK sent \in IST!Sent :
          IST!Handle("Completed", {}, {IST!Armed("G", IST!Smaller(2 * period, T2))},
                     IST!Response(sent, lastResponse), <<>>, IST!SendResult(sent))
    BY <2>1 DEF IST!Resend
  <2>3. IST!SendResult(sent) \in {"ok", "fail"}
    BY DEF IST!SendResult
  <2>4. /\ ISTB!Unset({IST!Armed("G", IST!Smaller(2 * period, T2))})
        /\ \A t \in {IST!Armed("G", IST!Smaller(2 * period, T2))} : t.kind = "G"
    BY <1>2, <1>3
  <2> QED BY <1>2, <1>7, <2>1, <2>2, <2>3, <2>4
<1>11. CASE IST!Accepted_2_Accepted_timerX
  <2>1. /\ acting = "X" /\ state = "Accepted" /\ acting' = "running"
        /\ period' = 2 * period /\ UNCHANGED <<lastResponse, acked, lateX>>
    BY <1>11 DEF IST!Accepted_2_Accepted_timerX
  <2>2. PICK sent \in IST!Sent :
          IST!Handle("Accepted", {}, {IST!Armed("X", 2 * period)},
                     IST!Response(sent, lastResponse), <<>>, "ok")
    BY <1>11 DEF IST!Accepted_2_Accepted_timerX
  <2>3. ISTB!Unset({IST!Armed("X", 2 * period)})
    BY <1>2, <1>3
  <2> QED BY <1>2, <1>7, <2>1, <2>2, <2>3
<1>12. ASSUME NEW e \in {"transport_error", "error", "canceled"}, NEW how \in {"user", "ok"},
              IST!Handle("Terminated", {}, {}, {}, <<e>>, how),
              acting' \in {acting, "running"}, UNCHANGED <<period, lastResponse, acked, lateX>>
       PROVE  ISTInv'
  <2>1. UNCHANGED out
    BY <1>12 DEF IST!Handle, IST!Effects
  <2>2. ISTEvent(e, "Terminated") /\ e \in IST!Exchange
    BY <1>1, <1>12, <2>1 DEF ISTEvent, IST!Answers
  <2>3. ISTAllowed("Terminated", {}, {}, {}, <<e>>)
    BY <1>1, <1>4, <1>12, <2>2 DEF ISTAllowed, ISTKept, IST!States, IST!Answers
  <2> QED BY <1>5, <1>12, <2>3, ISTHandle
<1>13. ASSUME IST!Handle("Terminated", {}, {}, {}, <<>>, "ok"),
              state = "Confirmed" \/ (state = "Accepted" /\ acked),
              acting' \in {acting, "running"}, UNCHANGED <<period, lastResponse, acked, lateX>>
       PROVE  ISTInv'
  <2>1. UNCHANGED out
    BY <1>13 DEF IST!Handle, IST!Effects
  <2>2. ISTSilent("Terminated")
    BY <1>13, <2>1 DEF ISTSilent
  <2>3. ISTAllowed("Terminated", {}, {}, {}, <<>>)
    BY <1>1, <1>4, <1>13, <2>2 DEF ISTAllowed, ISTKept, IST!States
  <2> QED BY <1>5, <1>13, <2>3, ISTHandle
<1>14. CASE IST!TimerFires
  BY <1>10, <1>11, <1>12, <1>13, <1>14
     DEF IST!TimerFires, IST!Completed_2_Terminated_timerH, IST!Accepted_2_Terminated_timerL,
         IST!Confirmed_2_Terminated_timerI
<1>15. CASE IST!Completed_2_Confirmed_ACK
  <2>1. /\ IST!Handle("Confirmed", {"G"}, {IST!Armed("I", IST!ITimeout)}, {}, <<>>, "ok")
        /\ state = "Completed" /\ UNCHANGED <<period, acting, lastResponse, acked, lateX>>
    BY <1>15 DEF IST!Completed_2_Confirmed_ACK
  <2>2. UNCHANGED out
    BY <2>1 DEF IST!Handle, IST!Effects
  <2>3. ISTSilent("Confirmed")
    BY <2>1, <2>2 DEF ISTSilent
  <2>4. /\ ISTB!Unset({IST!Armed("I", IST!ITimeout)})
        /\ \A t \in {IST!Armed("I", IST!ITimeout)} : t.kind = "I"
    BY <1>2, <1>3
  <2>5. ISTAllowed("Confirmed", {"G"}, {IST!Armed("I", IST!ITimeout)}, {}, <<>>)
    BY <1>1, <2>1, <2>3, <2>4 DEF ISTAllowed, ISTKept, IST!States
  <2> QED BY <1>5, <2>1, <2>5, ISTHandle
<1>16. CASE IST!Proceeding_2_Completed_300_to_699
  <2> DEFINE new == {IST!Armed("H", Timeout64T1)}
                      \union IF reliable THEN {} ELSE {IST!Armed("G", period)}
  <2>1. IST!Respond("Completed", "3xx", new) /\ state = "Proceeding" /\ UNCHANGED period
    BY <1>16 DEF IST!Proceeding_2_Completed_300_to_699
  <2>2. ISTB!Unset(IF reliable THEN {} ELSE {IST!Armed("G", period)})
    BY <1>1, <1>3, <1>4
  <2>3. ISTB!Unset(new) /\ \E t \in new : t.kind = "H"
    BY <1>2, <1>3, <1>4, <2>2
  <2> HIDE DEF new
  <2> QED BY <1>1, <2>1, <2>3, ISTRespond
<1>17. CASE IST!Proceeding_2_Accepted_2xx
  <2> DEFINE new == {IST!Armed("X", period), IST!Armed("L", Timeout64T1)}
  <2>1. IST!Respond("Accepted", "2xx", new) /\ state = "Proceeding" /\ period' = 2 * period
    BY <1>17 DEF IST!Proceeding_2_Accepted_2xx
  <2>2. new = {IST!Armed("X", period)} \union {IST!Armed("L", Timeout64T1)}
    OBVIOUS
  <2>3. ISTB!Unset({IST!Armed("X", period)}) /\ ISTB!Unset({IST!Armed("L", Timeout64T1)})
    BY <1>1, <1>2, <1>3
  <2>4. ISTB!Unset(new)
    BY <1>4, <2>2, <2>3
  <2>5. \E t \in new : t.kind = "L"
    BY <1>2, <1>3
  <2> HIDE DEF new
  <2> QED BY <1>2, <2>1, <2>4, <2>5, ISTRespond
<1>18. CASE IST!Proceeding_2_Proceeding_1xx \/ IST!Accepted_2_Accepted_2xx
  BY <1>1, <1>4, <1>18, ISTRespond
     DEF IST!Proceeding_2_Proceeding_1xx, IST!Accepted_2_Accepted_2xx
<1>19. CASE IST!Fault
  BY <1>12, <1>19
     DEF IST!Fault, IST!Any_2_Terminated_transportError, IST!Any_2_Terminated_Error,
         IST!Any_2_Terminated_cancel
<1> QED
  BY <1>9, <1>14, <1>15, <1>16, <1>17, <1>18, <1>19, ISTAcknowledged, ISTOther, ISTPlumbing
     DEF IST!Next, IST!ReceiveACK, IST!Answer, IST!OnTimer
-----------------------------------------------------------------------------
(* The four together. *)

(* What the invariants of the roles say of the role a behaviour is about.  *)
TransactionsInv ==
  /\ role \in Roles
  /\ role = "ict" => ICTInv
  /\ role = "ist" => ISTInv
  /\ role = "nict" => NICTInv
  /\ role = "nist" => NISTInv

(* A step of one role keeps its invariant, and no step changes the role.   *)
LEMMA TransactionsStep ==
  ASSUME TransactionsInv, [Next]_vars
  PROVE  TransactionsInv'
<1> USE DEF TransactionsInv, Is
<1>1. CASE ICTNext
  BY <1>1, ICTStep DEF ICTNext, Roles
<1>2. CASE ISTNext
  BY <1>2, ISTStep DEF ISTNext, Roles
<1>3. CASE NICTNext
  BY <1>3, NICTStep DEF NICTNext, Roles
<1>4. CASE NISTNext
  BY <1>4, NISTStep DEF NISTNext, Roles
<1>5. CASE UNCHANGED vars
  <2> USE <1>5 DEF vars, base
  <2>1. ICTInv <=> ICTInv'
    <3>1. UNCHANGED <<ICT!TypeOK, ICTB!StoringInv>>
      BY DEF ICT!TypeOK, ICT!TransacTypeOK, ICTB!StoringInv, ICTB!Fresh
    <3>2. UNCHANGED <<ICTOutcome, ICTWord, ICTTimer>>
      BY DEF ICTOutcome, ICTWord, ICTTimer, ICTB!Told, ICTB!AtMostOnce, ICTB!NeverAfter,
             ICTB!Comes, ICTB!Waiting
    <3> QED BY <3>1, <3>2 DEF ICTInv
  <2>2. ISTInv <=> ISTInv'
    <3>1. UNCHANGED <<IST!TypeOK, ISTB!StoringInv>>
      BY DEF IST!TypeOK, IST!TransacTypeOK, ISTB!StoringInv, ISTB!Fresh
    <3>2. UNCHANGED <<ISTOutcome, ISTWord, ISTTimer, ISTAck>>
      BY DEF ISTOutcome, ISTWord, ISTTimer, ISTAck, ISTBackedOut, ISTFailed,
             ISTB!Told, ISTB!AtMostOnce,
             ISTB!Comes, ISTB!Waiting
    <3> QED BY <3>1, <3>2 DEF ISTInv
  <2>3. NICTInv <=> NICTInv'
    <3>1. UNCHANGED <<NICT!TypeOK, NICTB!StoringInv>>
      BY DEF NICT!TypeOK, NICT!TransacTypeOK, NICTB!StoringInv, NICTB!Fresh
    <3>2. UNCHANGED <<NICTOutcome, NICTWord, NICTTimer>>
      BY DEF NICTOutcome, NICTWord, NICTTimer, NICTB!Told, NICTB!AtMostOnce, NICTB!NeverAfter,
             NICTB!Comes, NICTB!Waiting
    <3> QED BY <3>1, <3>2 DEF NICTInv
  <2>4. NISTInv <=> NISTInv'
    <3>1. UNCHANGED <<NIST!TypeOK, NISTB!StoringInv>>
      BY DEF NIST!TypeOK, NIST!TransacTypeOK, NISTB!StoringInv, NISTB!Fresh
    <3>2. UNCHANGED <<NISTOutcome, NISTWord, NISTTimer>>
      BY DEF NISTOutcome, NISTWord, NISTTimer, NISTB!Told, NISTB!AtMostOnce,
             NISTB!Comes, NISTB!Waiting
    <3> QED BY <3>1, <3>2 DEF NISTInv
  <2> QED BY <2>1, <2>2, <2>3, <2>4
<1> QED BY <1>1, <1>2, <1>3, <1>4, <1>5 DEF Next

(* The invariant of the transactions: with it, each role's properties      *)
(* follow from what its user has been told in the state it is in.          *)
THEOREM TransactionsCorrect == Spec => []TransactionsInv
<1>1. Init => TransactionsInv
  BY ICTStart, ISTStart, NICTStart, NISTStart DEF Init, TransactionsInv, Roles
<1>2. TransactionsInv /\ [Next]_vars => TransactionsInv'
  BY TransactionsStep
<1> QED BY <1>1, <1>2, PTL DEF Spec

(* Every transaction keeps to its states, its messages and the exchanges   *)
(* with its user, whatever the faults and the timeouts (the handlers of the*)
(* four tsip_transac_*.c and tsip_transac.c).                              *)
THEOREM TypeCorrect == Spec => []TypeOK
<1>1. TransactionsInv => TypeOK
  BY DEF TransactionsInv, TypeOK, Roles, ICTInv, ISTInv, NICTInv, NISTInv
<1> QED BY <1>1, TransactionsCorrect, PTL

(* A state that only a timer can end has that timer on its way to the state*)
(* machine, through every cancellation, rescheduling and late callback.    *)
THEOREM NoTransactionIsStuck == Spec => []NeverStuck
<1>1. TransactionsInv => NeverStuck
  BY ICTShows, ISTShows, NICTShows, NISTShows DEF TransactionsInv, NeverStuck, Roles
<1> QED BY <1>1, TransactionsCorrect, PTL

(* One verdict for the user of a client transaction; one final answer, and *)
(* the request handed over once, for a server transaction.                 *)
THEOREM EachHasOneOutcome == Spec => []OneOutcome
<1>1. TransactionsInv => OneOutcome
  BY ICTShows, ISTShows, NICTShows, NISTShows DEF TransactionsInv, OneOutcome, Roles
<1> QED BY <1>1, TransactionsCorrect, PTL

(* No transaction leaves the layer without a word to its user, unless the  *)
(* transport refused a message and the handler returned the error.         *)
THEOREM NoneEndsSilently == Spec => []NoSilentEnd
<1>1. TransactionsInv => NoSilentEnd
  BY ICTShows, ISTShows, NICTShows, NISTShows DEF TransactionsInv, NoSilentEnd, Roles
<1> QED BY <1>1, TransactionsCorrect, PTL

(* Timer X, which retransmits the 2xx, is stopped by the ACK: the handler  *)
(* finds it by the id stored since the lock was released.                  *)
THEOREM AckStopsRetransmission == Spec => []AckStopsTimerX
<1>1. TransactionsInv => AckStopsTimerX
  BY ISTShows DEF TransactionsInv, AckStopsTimerX
<1> QED BY <1>1, TransactionsCorrect, PTL

(* The client transactions, whose timers are in order until something      *)
(* spoils their end.                                                       *)
QuietInv ==
  /\ role = "ict" => ICTQuiet
  /\ role = "nict" => NICTQuiet

(* A step of either keeps it so.                                           *)
LEMMA QuietStep ==
  ASSUME TransactionsInv, QuietInv, [Next]_vars
  PROVE  QuietInv'
<1>1. CASE ICTNext
  BY <1>1, ICTQuietStep DEF ICTNext, Is, TransactionsInv, QuietInv
<1>2. CASE NICTNext
  BY <1>2, NICTQuietStep DEF NICTNext, Is, TransactionsInv, QuietInv
<1>3. CASE ISTNext \/ NISTNext
  BY <1>3 DEF ISTNext, NISTNext, Is, QuietInv
<1>4. CASE UNCHANGED vars
  <2> USE <1>4 DEF vars, base
  <2>1. UNCHANGED <<ICTCalm, NICTCalm>>
    BY DEF ICTCalm, NICTCalm, ICTB!Told, NICTB!Told
  <2>2. ICTStill => ICTStill'
    BY DEF ICTStill, ICTB!Orderly, ICTB!OneEach, ICTB!Known, ICTB!Only, ICTB!Last
  <2>3. NICTStill => NICTStill'
    BY DEF NICTStill, NICTB!Orderly, NICTB!OneEach, NICTB!Known, NICTB!Only, NICTB!Last
  <2> QED BY <2>1, <2>2, <2>3 DEF QuietInv, ICTQuiet, NICTQuiet
<1> QED BY <1>1, <1>2, <1>3, <1>4 DEF Next

(* A client transaction that is answered and left to its last timer is not *)
(* called back once it is destroyed: whatever was dispatched earlier comes *)
(* before the timer that ends it (the callbacks of tsip_transac_ict.c and  *)
(* tsip_transac_nict.c, to which the manager keeps no reference).          *)
THEOREM AnsweredEndsQuietly == Spec => []QuietAfterAnswer
<1>1. Init => QuietInv
  BY ICTQuietStart, NICTQuietStart DEF Init, QuietInv, Roles
<1>2. TransactionsInv /\ QuietInv /\ [Next]_vars => QuietInv'
  BY QuietStep
<1>3. TransactionsInv /\ QuietInv => QuietAfterAnswer
  BY ICTIsQuiet, NICTIsQuiet DEF TransactionsInv, QuietInv, QuietAfterAnswer
<1> QED BY <1>1, <1>2, <1>3, TransactionsCorrect, PTL DEF Spec
=============================================================================
