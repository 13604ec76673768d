------------------------------ MODULE Transac ------------------------------
(***************************************************************************)
(* What the four SIP transactions share: the base class tsip_transac_t,    *)
(* the way its state machine runs a handler (tsk_fsm_act), the macros that *)
(* arm and cancel its timers, and the life of the object from the          *)
(* transaction layer's list to its destructor.                             *)
(*                                                                         *)
(* Threads.  A handler runs under the lock of the state machine: `exec` is *)
(* "no" when the lock is free and otherwise says how the handler under way *)
(* will end.  A handler is one step up to its last call, and Return is the *)
(* rest: in between, the transaction user it has called may act, and the   *)
(* timer manager may already run a timer the handler has just armed.  The  *)
(* timer manager has one dispatching thread: it takes the raised timers in *)
(* order, compares the identifier with the ones stored in the transaction  *)
(* (without the lock), and only then acts on the state machine.            *)
(*                                                                         *)
(* Time is counted in units of T1.  A handler takes less than one unit and *)
(* the manager raises a timer as soon as it is due (TimerManager), but the *)
(* dispatching thread may lag for any length of time.                      *)
(*                                                                         *)
(* One window is wider here than in the code and one is left out.  A       *)
(* handler's ids are stored when it returns, all of them, although each is *)
(* stored as soon as its schedule returns.  And the test for the final     *)
(* state, which tsk_fsm_act makes before it takes the lock, is made with   *)
(* it: what that window lets happen is the subject of module Fsm.          *)
(***************************************************************************)
EXTENDS Integers, Sequences

CONSTANTS
  Kinds,      \* the timers of the transaction
  Reliables,  \* the transports considered: TRUE for a stream transport
  Faults      \* what may go wrong: "send" (the transport refuses a message),
              \* "refuse" (the user returns an error), "cancel" (the user
              \* cancels), "error" and "transport_error" (reported from below)

VARIABLES
  reliable,   \* tsip_transac_t.reliable
  state,      \* fsm->current
  exec,       \* "no", or how the handler holding the FSM's lock will end
  ending,     \* some thread is about to set the final state and call back
  life,       \* "listed" in the layer, "removed" from it, "destroyed"
  period,     \* timeout of the retransmission timer, doubled as it fires
  pending,    \* this transaction's timers in the timer manager's list
  raised,     \* those handed over to the dispatching thread, in order
  storing,    \* timers scheduled by a handler that has not stored their id
  acting,     \* what the dispatching thread is doing with this transaction
  mishaps,    \* what went wrong: a callback "unmatched" or "dangling", a
              \* message "unsent" whose handler returned the error
  tu,         \* what the transaction user was tu, and how it backed out
  out         \* messages handed to the transport layer

transacVars == <<reliable, state, exec, ending, life, period, pending, raised,
                 storing, acting, mishaps, tu, out>>

(* "unset": the id is not stored yet; "set": it is the one stored;         *)
(* "lost": a later timer of the same kind has overwritten it.              *)
Ownership == {"unset", "set", "lost"}
Timer     == [kind : Kinds, left : Nat, own : Ownership]
Raised    == [kind : Kinds, own : Ownership]

(* How the handler under way will end: returning 0, returning an error, or *)
(* after a call of the transaction user whose result is returned ("user"), *)
(* dropped ("userAny"), or dropped with more to do after it ("userThen").  *)
InUser  == {"user", "userAny", "userThen"}
Endings == {"ok", "fail"} \union InUser

TransacTypeOK ==
  /\ reliable \in BOOLEAN /\ ending \in BOOLEAN
  /\ exec \in {"no"} \union Endings
  /\ life \in {"listed", "removed", "destroyed"}
  /\ period \in Nat
  /\ pending \subseteq Timer /\ raised \in Seq(Raised)
  /\ storing \subseteq Kinds
  /\ acting \in {"idle", "running"} \union Kinds
  /\ mishaps \subseteq {"unmatched", "dangling", "unsent"}

TransacInit(firstPeriod) ==
  /\ reliable \in Reliables /\ state = "Started"
  /\ exec = "no" /\ ending = FALSE /\ life = "listed"
  /\ period = firstPeriod /\ pending = {} /\ raised = <<>> /\ storing = {}
  /\ acting = "idle" /\ mishaps = {} /\ tu = <<>> /\ out = {}

(* TRANSAC_TIMER_CANCEL of each kind in ks: the manager finds the timer by *)
(* its id, so only the one whose id is stored, and only while it is listed.*)
Canceled(timers, ks) == {t \in timers : ~(t.kind \in ks /\ t.own = "set")}

(* TRANSAC_TIMER_SCHEDULE: the manager holds the timer before the caller   *)
(* has its id.                                                             *)
Armed(kind, timeout) == [kind |-> kind, left |-> timeout, own |-> "unset"]

(* tsip_transac_send: whether the transport took the message.              *)
Sent == IF "send" \in Faults THEN BOOLEAN ELSE {TRUE}

(* What any handler does: timers canceled and armed, messages handed to    *)
(* the transport layer, events delivered to the transaction user.          *)
Effects(cancel, new, msgs, events) ==
  /\ life # "destroyed"
  /\ pending' = Canceled(pending, cancel) \union new
  /\ storing' = storing \union {t.kind : t \in new}
  /\ out' = out \union msgs
  /\ tu' = tu \o events
  /\ UNCHANGED <<reliable, ending, raised>>

(* tsip_transac_fsm_act up to the end of the handler's own calls: the lock *)
(* is free and taken, and the target state is set before the handler runs. *)
Handle(to, cancel, new, msgs, events, how) ==
  /\ exec = "no" /\ exec' = how
  /\ state' = to
  /\ mishaps' = mishaps \union IF how = "fail" THEN {"unsent"} ELSE {}
  /\ Effects(cancel, new, msgs, events)
  /\ UNCHANGED life

(* The same called by the transaction user from inside a delivery: the     *)
(* lock is recursive, and an error terminates at once.                     *)
HandleNested(to, cancel, new, msgs, events, ok) ==
  /\ exec \in InUser /\ UNCHANGED exec
  /\ state' = IF ok THEN to ELSE "Terminated"
  /\ mishaps' = mishaps \union IF ok THEN {} ELSE {"unsent"}
  /\ life' = IF ok THEN life ELSE "removed"
  /\ Effects(cancel, new, msgs, events)

(* What the handler does once the user has returned: it arms a timer, even *)
(* if the user has meanwhile ended the transaction.                        *)
ThenSchedule(kind, timeout) ==
  /\ exec = "userThen" /\ exec' = "ok"
  /\ pending' = pending \union {Armed(kind, timeout)}
  /\ storing' = storing \union {kind}
  /\ UNCHANGED <<reliable, state, ending, life, period, raised, acting, mishaps,
                 tu, out>>

(* The handler returns: the ids it got are in place, the lock is released, *)
(* and an error, or the final state, sends the thread on to Finish.        *)
Stored(t) == [t EXCEPT !.own = IF @ = "unset" THEN "set"
                               ELSE IF t.kind \in storing THEN "lost" ELSE @]

Return ==
  /\ exec \notin {"no", "userThen"}
  /\ \E refused \in IF "refuse" \in Faults /\ exec = "user"
                   THEN BOOLEAN ELSE {FALSE} :
        /\ ending' = (ending \/ refused \/ exec = "fail" \/ state = "Terminated")
        /\ tu' = IF refused THEN Append(tu, "refused") ELSE tu
  /\ exec' = "no"
  /\ pending' = {Stored(t) : t \in pending}
  /\ raised' = [i \in DOMAIN raised |-> Stored(raised[i])]
  /\ storing' = {}
  /\ acting' = IF acting = "running" THEN "idle" ELSE acting
  /\ UNCHANGED <<reliable, state, life, period, mishaps, out>>

(* After the unlock: fsm->current = term, then OnTerminated removes the    *)
(* transaction from the layer's list.                                      *)
Finish ==
  /\ ending /\ ending' = FALSE
  /\ state' = "Terminated"
  /\ life' = "removed"
  /\ UNCHANGED <<reliable, exec, period, pending, raised, storing, acting,
                 mishaps, tu, out>>

(* The dialog, called by the handler, terminates and cancels its           *)
(* transactions: the same thread re-enters the state machine.              *)
NestedCancel ==
  /\ "cancel" \in Faults
  /\ exec \in InUser /\ state # "Terminated"
  /\ state' = "Terminated"
  /\ tu' = Append(tu, "canceled")
  /\ life' = "removed"
  /\ UNCHANGED <<reliable, exec, ending, period, pending, raised, storing,
                 acting, mishaps, out>>

(* The last reference is dropped: the destructor cancels the timers ks.    *)
Destroy(ks) ==
  /\ life = "removed" /\ exec = "no" /\ ~ending /\ acting = "idle"
  /\ life' = "destroyed"
  /\ pending' = Canceled(pending, ks)
  /\ UNCHANGED <<reliable, state, exec, ending, period, raised, storing,
                 acting, mishaps, tu, out>>

(* The timer manager hands a due timer to its dispatching thread.          *)
RaiseTimer ==
  \E t \in pending :
     /\ t.left = 0
     /\ pending' = pending \ {t}
     /\ raised' = Append(raised, [kind |-> t.kind, own |-> t.own])
     /\ UNCHANGED <<reliable, state, exec, ending, life, period, storing,
                    acting, mishaps, tu, out>>

(* The dispatching thread runs tsip_transac_*_timer_callback: it reads the *)
(* stored ids without the lock, and does nothing with an id it cannot find.*)
(* The manager holds no reference on the transaction.                      *)
MatchTimer ==
  /\ raised # <<>> /\ acting = "idle"
  /\ raised' = Tail(raised)
  /\ acting' = IF life # "destroyed" /\ Head(raised).own = "set"
               THEN Head(raised).kind ELSE "idle"
  /\ mishaps' = mishaps
       \union (IF life = "destroyed" THEN {"dangling"} ELSE {})
       \union (IF Head(raised).own = "unset" THEN {"unmatched"} ELSE {})
  /\ UNCHANGED <<reliable, state, exec, ending, life, period, pending,
                 storing, tu, out>>

(* The state machine has no entry for the matched timer in this state.     *)
IgnoreTimer(expected) ==
  /\ acting \in Kinds /\ exec = "no" /\ acting \notin expected
  /\ acting' = "idle"
  /\ UNCHANGED <<reliable, state, exec, ending, life, period, pending, raised,
                 storing, mishaps, tu, out>>

(* One unit of time; no timer is left behind and no handler is under way.  *)
Tick ==
  /\ exec = "no" /\ pending # {} /\ \A t \in pending : t.left > 0
  /\ pending' = {[t EXCEPT !.left = @ - 1] : t \in pending}
  /\ UNCHANGED <<reliable, state, exec, ending, life, period, raised, storing,
                 acting, mishaps, tu, out>>

Plumbing == Return \/ Finish \/ NestedCancel \/ RaiseTimer \/ MatchTimer \/ Tick

-----------------------------------------------------------------------------

(* A timer of this kind will still reach the state machine: it is counted  *)
(* by the manager, or raised, or matched, or its id is about to be stored. *)
Waiting(kind) ==
  \/ \E t \in pending : t.kind = kind /\ t.own # "lost"
  \/ \E i \in DOMAIN raised : raised[i].kind = kind /\ raised[i].own # "lost"
  \/ acting = kind

(* What has passed between the transaction and its user.                   *)
Told(events) == \E i \in 1..Len(tu) : tu[i] \in events
AtMostOnce(events) ==
  \A i, j \in 1..Len(tu) : tu[i] \in events /\ tu[j] \in events => i = j

(* Threads that must run: the lock's holder, the terminating thread, the   *)
(* two threads of the timer manager, and time itself, which passes however *)
(* often the lock is taken.                                                *)
PlumbingFairness ==
  /\ WF_transacVars(Return) /\ WF_transacVars(Finish)
  /\ WF_transacVars(RaiseTimer) /\ WF_transacVars(MatchTimer)
  /\ SF_transacVars(Tick)
=============================================================================
