------------------------------ MODULE SipLayers ------------------------------
(***************************************************************************)
(* The lists of dialogs and of transactions, tsip_dialog_layer.c and       *)
(* tsip_transac_layer.c, and the locks under which the threads of a stack  *)
(* reach them: "net" brings messages, "timer" runs the callbacks of        *)
(* timers, "user" calls the API and "main" stops the stack.                *)
(*                                                                         *)
(* Every dialog and every transaction acts under a lock of its own, and    *)
(* calls the other while it holds it.  A thread is therefore a stack of    *)
(* frames, one for each function that waits for a lock or holds one; a     *)
(* step leads from one lock to the next.  All locks are recursive.  What   *)
(* the state machines do between the locks is any choice: modules          *)
(* InviteDialog and Transactions say which.                                *)
(***************************************************************************)
EXTENDS Naturals, Sequences, SequencesExt, FiniteSets

CONSTANTS
  Dialogs,       \* identities of dialogs
  MaxTransacs,   \* transactions that are ever created
  Casts          \* who plays, see CastType

(* In the order of their creation.                                         *)
Transacs == 1..MaxTransacs

Threads == {"net", "timer", "user", "main"}
DialogKinds == {"register", "silent", "other"}   \* tsip_dialog_type_t and silent_hangup

CastType ==
  [calls : [Threads -> Nat],                          \* calls each thread makes
   kind : [Dialogs -> DialogKinds \cup {"incoming"}]] \* "incoming": not there yet

ASSUME SipLayersAssumption ==
  IsFiniteSet(Dialogs) /\ MaxTransacs \in Nat /\ Casts \subseteq CastType

(* Where a function waits for a lock, or what it does under it.            *)
TransacAt == {"start", "event", "respond", "cancel",   \* waits for the lock
              "starting", "running", "failed",         \* delivers under the lock
              "remove"}                                \* waits for the layer's
DialogAt == {"enter", "run", "new", "find", "cancel", "cancelling", "remove"}
CallAt == {"found", "held", "create", "push", "timer", "crashed"}
ShutdownAt == {"begin", "tell1", "wait1", "phase2", "tell2", "wait2", "tell3"}

Frame == [of : {"transac"}, id : Transacs, at : TransacAt]
         \cup [of : {"dialog"}, id : Dialogs, at : DialogAt]
         \cup [of : {"call"}, id : Dialogs, at : CallAt]
         \cup [of : {"shutdown"}, id : {"all"}, at : ShutdownAt]

VARIABLES
  cast,
  stack,      \* [Threads -> Seq(Frame)], the innermost first
  calls,      \* calls a thread may still make
  dialogs,    \* the dialog layer's list
  transacs,   \* the transaction layer's list
  dialog,     \* state of each dialog's state machine
  transac,    \* state of each transaction's, its dialog and its role
  shutdown    \* TSIP_DIALOG_LAYER(self)->shutdown and the locals of shutdownAll

vars == <<cast, stack, calls, dialogs, transacs, dialog, transac, shutdown>>

NoTransac == [fsm |-> "none"]

Init ==
  /\ cast \in Casts
  /\ stack = [th \in Threads |-> <<>>]
  /\ calls = cast.calls
  /\ dialogs \in SetToSeqs({d \in Dialogs : cast.kind[d] # "incoming"})
  /\ transacs = <<>>
  /\ dialog = [d \in Dialogs |-> IF cast.kind[d] = "incoming" THEN "none" ELSE "alive"]
  /\ transac = [t \in Transacs |-> NoTransac]
  /\ shutdown = [phase2 |-> FALSE, told |-> {}, wait |-> FALSE, signaled |-> FALSE]

(* The first item of a list that is one of some.                           *)
First(list, items) == list[SelectInSeq(list, LAMBDA item : item \in items)]

-----------------------------------------------------------------------------
(* Locks.                                                                  *)

DialogLock(d) == <<"dialog", d>>
TransacLock(t) == <<"transac", t>>
DialogLayer == <<"layer", "dialogs">>
TransacLayer == <<"layer", "transacs">>

(* Seeded fault: the transaction tells its owner before it unlocks.        *)
TransacHoldsLonger(f) ==
  IF f.at \in {"starting", "running", "failed", "remove"} THEN {TransacLock(f.id)} ELSE {}

(* tsk_fsm_act unlocks before it tells the owner of the end.               *)
TransacHolds(f) ==
  IF f.at \in {"starting", "running", "failed"} THEN {TransacLock(f.id)} ELSE {}

(* tsip_dialog_fsm_act holds the lock until tsk_fsm_act is back, and so    *)
(* through OnTerminated.                                                   *)
DialogHolds(f) ==
  (IF f.at # "enter" THEN {DialogLock(f.id)} ELSE {})
    \cup (IF f.at = "cancelling" THEN {TransacLayer} ELSE {})

(* Phases 1 and 2 tell the dialogs under the layer's lock, phase 3 does    *)
(* not.                                                                    *)
ShutdownHolds(f) == IF f.at \in {"tell1", "tell2"} THEN {DialogLayer} ELSE {}

Holds(f) ==
  CASE f.of = "transac" -> TransacHolds(f)
    [] f.of = "dialog" -> DialogHolds(f)
    [] f.of = "shutdown" -> ShutdownHolds(f)
    [] f.of = "call" -> {}

Wants(f) ==
  CASE f.of = "transac" /\ f.at \in {"start", "event", "respond", "cancel"} -> {TransacLock(f.id)}
    [] f.of = "transac" /\ f.at = "remove" -> {TransacLayer}
    [] f.of = "dialog" /\ f.at = "enter" -> {DialogLock(f.id)}
    [] f.of = "dialog" /\ f.at \in {"new", "find", "cancel"} -> {TransacLayer}
    [] f.of = "dialog" /\ f.at = "remove" -> {DialogLayer}
    [] f.of = "call" /\ f.at = "create" -> {TransacLayer}
    [] f.of = "shutdown" /\ f.at \in {"begin", "phase2"} -> {DialogLayer}
    [] OTHER -> {}

Frames(th) == {stack[th][i] : i \in DOMAIN stack[th]}
Held(th) == UNION {Holds(f) : f \in Frames(th)}

LockFree(th, lock) == \A other \in Threads \ {th} : lock \notin Held(other)

-----------------------------------------------------------------------------
(* Stacks.                                                                 *)

F(of, id, at) == [of |-> of, id |-> id, at |-> at]
Now(th, at) == stack[th] # <<>> /\ Head(stack[th]).at = at
Runs(th, of, at) == Now(th, at) /\ Head(stack[th]).of = of

Goes(th, at) == [stack EXCEPT ![th][1].at = at]
Calls(th, f) == [stack EXCEPT ![th] = <<f>> \o @]
GoesAndCalls(th, at, f) == [stack EXCEPT ![th] = <<f, [Head(@) EXCEPT !.at = at]>> \o Tail(@)]
Returns(th) == [stack EXCEPT ![th] = Tail(@)]

(* An act on a dialog that has ended returns -2, which makes the handler   *)
(* of the transaction that delivers fail.                                  *)
Refuses(th) ==
  [stack EXCEPT ![th] =
     IF Len(@) > 1 /\ @[2].of = "transac" THEN <<[@[2] EXCEPT !.at = "failed"]>> \o Tail(Tail(@))
     ELSE Tail(@)]

-----------------------------------------------------------------------------
(* tsip_transac_fsm_act.                                                   *)

Going(t) == transac[t].fsm = "going"

TransacEnds(t) == transac' = [transac EXCEPT ![t].fsm = "terminated"]

(* The request that made a server transaction is delivered.                *)
TransacStart(th) ==
  LET t == Head(stack[th]).id IN
  /\ Runs(th, "transac", "start") /\ LockFree(th, TransacLock(t))
  /\ transac' = [transac EXCEPT ![t].fsm = "going"]
  /\ stack' = GoesAndCalls(th, "starting", F("dialog", transac[t].dialog, "enter"))
  /\ UNCHANGED <<cast, calls, dialogs, transacs, dialog, shutdown>>

(* A message or a timer: delivered, or not, or the end.  Started and the   *)
(* final state ignore it.                                                  *)
TransacEvent(th) ==
  LET t == Head(stack[th]).id IN
  /\ Runs(th, "transac", "event") /\ LockFree(th, TransacLock(t))
  /\ \/ /\ Going(t) /\ UNCHANGED transac
        /\ stack' = GoesAndCalls(th, "running", F("dialog", transac[t].dialog, "enter"))
     \/ Going(t) /\ TransacEnds(t) /\ stack' = Goes(th, "remove")
     \/ stack' = Returns(th) /\ UNCHANGED transac
  /\ UNCHANGED <<cast, calls, dialogs, transacs, dialog, shutdown>>

(* The dialog's response; a failure to send it is the end.                 *)
TransacRespond(th) ==
  LET t == Head(stack[th]).id IN
  /\ Runs(th, "transac", "respond") /\ LockFree(th, TransacLock(t))
  /\ \/ Going(t) /\ TransacEnds(t) /\ stack' = Goes(th, "remove")
     \/ stack' = Returns(th) /\ UNCHANGED transac
  /\ UNCHANGED <<cast, calls, dialogs, transacs, dialog, shutdown>>

(* Started ignores it and answers 0, as if it had ended.                   *)
TransacCancel(th) ==
  LET t == Head(stack[th]).id IN
  /\ Runs(th, "transac", "cancel") /\ LockFree(th, TransacLock(t))
  /\ IF transac[t].fsm = "started" THEN stack' = Returns(th) /\ UNCHANGED transac
     ELSE TransacEnds(t) /\ stack' = Goes(th, "remove")
  /\ UNCHANGED <<cast, calls, dialogs, transacs, dialog, shutdown>>

(* Seeded fault: a refused delivery is forgotten.                          *)
TransacDeliveredWhatever(th) ==
  LET t == Head(stack[th]).id IN
  /\ \E at \in {"starting", "running", "failed"} : Runs(th, "transac", at)
  /\ IF transac[t].fsm = "terminated" THEN stack' = Goes(th, "remove") ELSE stack' = Returns(th)
  /\ UNCHANGED <<cast, calls, dialogs, transacs, dialog, transac, shutdown>>

(* The dialog has been told.  It may have canceled the transaction, which  *)
(* then ends a second time.                                                *)
TransacDelivered(th) ==
  LET t == Head(stack[th]).id IN
  /\ \E at \in {"starting", "running", "failed"} : Runs(th, "transac", at)
  /\ \/ TransacEnds(t) /\ stack' = Goes(th, "remove")
     \/ ~Now(th, "failed") /\ Going(t) /\ stack' = Returns(th) /\ UNCHANGED transac
  /\ UNCHANGED <<cast, calls, dialogs, transacs, dialog, shutdown>>

(* tsip_transac_layer_remove.                                              *)
TransacRemove(th) ==
  /\ Runs(th, "transac", "remove") /\ LockFree(th, TransacLayer)
  /\ transacs' = RemoveFirst(transacs, Head(stack[th]).id)
  /\ stack' = Returns(th)
  /\ UNCHANGED <<cast, calls, dialogs, dialog, transac, shutdown>>

TransacStep(th) ==
  \/ TransacStart(th) \/ TransacEvent(th) \/ TransacRespond(th) \/ TransacCancel(th)
  \/ TransacDelivered(th) \/ TransacRemove(th)

-----------------------------------------------------------------------------
(* tsip_dialog_fsm_act and what its handlers do with the layers.           *)

FreshTransacs ==
  {t \in Transacs : \A u \in Transacs : transac[u].fsm = "none" <=> u >= t}

(* tsip_transac_layer_new; a client transaction is started at once.        *)
NewTransac(t, d, role, fsm) ==
  /\ transac' = [transac EXCEPT ![t] = [fsm |-> fsm, dialog |-> d, role |-> role]]
  /\ transacs' = Append(transacs, t)

(* Shut down with success, a dialog is worth a wait.                       *)
DialogEnter(th) ==
  LET d == Head(stack[th]).id IN
  /\ Runs(th, "dialog", "enter") /\ LockFree(th, DialogLock(d))
  /\ IF dialog[d] = "ended" THEN stack' = Refuses(th) /\ UNCHANGED shutdown
     ELSE /\ \E at \in {"run", "find", "new"} : stack' = Goes(th, at)
          /\ shutdown' = [shutdown EXCEPT !.wait = @ \/ Last(stack[th]).of = "shutdown"]
  /\ UNCHANGED <<cast, calls, dialogs, transacs, dialog, transac>>

(* tsip_dialog_request_send.  At the bound the request is not made.        *)
DialogRequests(th) ==
  /\ Runs(th, "dialog", "new") /\ LockFree(th, TransacLayer)
  /\ IF FreshTransacs = {} THEN UNCHANGED <<transac, transacs>>
     ELSE \E t \in FreshTransacs : NewTransac(t, Head(stack[th]).id, "client", "going")
  /\ stack' = Goes(th, "run")
  /\ UNCHANGED <<cast, calls, dialogs, dialog, shutdown>>

(* tsip_dialog_response_send.                                              *)
DialogResponds(th) ==
  LET mine == {t \in ToSet(transacs) :
                 transac[t].dialog = Head(stack[th]).id /\ transac[t].role = "server"} IN
  /\ Runs(th, "dialog", "find") /\ LockFree(th, TransacLayer)
  /\ IF mine = {} THEN stack' = Goes(th, "run")
     ELSE \E t \in mine : stack' = GoesAndCalls(th, "run", F("transac", t, "respond"))
  /\ UNCHANGED <<cast, calls, dialogs, transacs, dialog, transac, shutdown>>

(* The handler is done; the machine goes on or has reached its end.        *)
DialogRun(th) ==
  LET d == Head(stack[th]).id IN
  /\ Runs(th, "dialog", "run")
  /\ \/ stack' = Returns(th) /\ UNCHANGED dialog
     \/ dialog' = [dialog EXCEPT ![d] = "ended"] /\ stack' = Goes(th, "cancel")
  /\ UNCHANGED <<cast, calls, dialogs, transacs, transac, shutdown>>

(* OnTerminated: tsip_transac_layer_cancel_by_dialog ...                   *)
DialogCancels(th) ==
  /\ Runs(th, "dialog", "cancel") /\ LockFree(th, TransacLayer)
  /\ stack' = Goes(th, "cancelling")
  /\ UNCHANGED <<cast, calls, dialogs, transacs, dialog, transac, shutdown>>

(* Seeded fault: only the oldest transaction is canceled.                  *)
ToCancelOldest(d) ==
  {t \in ToSet(SubSeq(transacs, 1, 1)) : transac[t].dialog = d /\ transac[t].fsm # "terminated"}

ToCancel(d) ==
  {t \in ToSet(transacs) : transac[t].dialog = d /\ transac[t].fsm # "terminated"}

(* ... which starts over after each act that returned 0, and passes those  *)
(* that had already ended.                                                 *)
DialogCancelsNext(th) ==
  LET next == ToCancel(Head(stack[th]).id) IN
  /\ Runs(th, "dialog", "cancelling")
  /\ IF next = {} THEN stack' = Goes(th, "remove")
     ELSE stack' = Calls(th, F("transac", First(transacs, next), "cancel"))
  /\ UNCHANGED <<cast, calls, dialogs, transacs, dialog, transac, shutdown>>

OfKind(list, kinds) == {d \in ToSet(list) : cast.kind[d] \in kinds}

NotRegister == {"silent", "other", "incoming"}

(* ... and tsip_dialog_layer_remove.  A signal is lost unless main already *)
(* waits.                                                                  *)
DialogRemove(th) ==
  LET left == RemoveFirst(dialogs, Head(stack[th]).id)
      last == OfKind(left, IF shutdown.phase2 THEN {"register"} ELSE NotRegister) = {}
      waits == Now("main", "wait1") \/ Now("main", "wait2")
  IN
  /\ Runs(th, "dialog", "remove") /\ LockFree(th, DialogLayer)
  /\ dialogs' = left
  /\ shutdown' = [shutdown EXCEPT !.signaled = @ \/ (last /\ waits)]
  /\ stack' = Returns(th)
  /\ UNCHANGED <<cast, calls, transacs, dialog, transac>>

DialogStep(th) ==
  \/ DialogEnter(th) \/ DialogRequests(th) \/ DialogResponds(th) \/ DialogRun(th)
  \/ DialogCancels(th) \/ DialogCancelsNext(th) \/ DialogRemove(th)

-----------------------------------------------------------------------------
(* The calls from outside.                                                 *)

Begins(th, frames) ==
  /\ stack[th] = <<>> /\ calls[th] > 0
  /\ stack' = [stack EXCEPT ![th] = frames]
  /\ calls' = [calls EXCEPT ![th] = @ - 1]
  /\ UNCHANGED cast

(* A message for a transaction.                                            *)
NetMessage ==
  /\ LockFree("net", TransacLayer)
  /\ \E t \in ToSet(transacs) : Begins("net", <<F("transac", t, "event")>>)
  /\ UNCHANGED <<dialogs, transacs, dialog, transac, shutdown>>

(* A request within a dialog; ACK and CANCEL have no transaction.          *)
NetRequest ==
  /\ LockFree("net", DialogLayer)
  /\ \E d \in ToSet(dialogs) :
       \/ Begins("net", <<F("call", d, "create")>>)
       \/ Begins("net", <<F("dialog", d, "enter"), F("call", d, "held")>>)
  /\ UNCHANGED <<dialogs, transacs, dialog, transac, shutdown>>

(* A request that makes a dialog.                                          *)
NetNewDialog ==
  /\ LockFree("net", DialogLayer)
  /\ \E d \in Dialogs :
       /\ dialog[d] = "none" /\ dialog' = [dialog EXCEPT ![d] = "new"]
       /\ Begins("net", <<F("call", d, "create")>>)
  /\ UNCHANGED <<dialogs, transacs, transac, shutdown>>

(* The transaction is in the list before it is started.                    *)
NetCreate ==
  LET d == Head(stack["net"]).id IN
  /\ Runs("net", "call", "create") /\ LockFree("net", TransacLayer)
  /\ IF FreshTransacs = {} THEN stack' = Returns("net") /\ UNCHANGED <<transac, transacs>>
     ELSE \E t \in FreshTransacs :
            /\ NewTransac(t, d, "server", "started")
            /\ stack' = [stack EXCEPT !["net"] =
                 (IF dialog[d] = "new" THEN <<F("call", d, "push")>> ELSE <<>>)
                   \o <<F("transac", t, "start")>>]
  /\ UNCHANGED <<cast, calls, dialogs, dialog, shutdown>>

(* The new dialog is pushed without the lock.                              *)
NetPush ==
  LET d == Head(stack["net"]).id IN
  /\ Runs("net", "call", "push")
  /\ dialogs' = Append(dialogs, d)
  /\ dialog' = [dialog EXCEPT ![d] = "alive"]
  /\ stack' = Returns("net")
  /\ UNCHANGED <<cast, calls, transacs, transac, shutdown>>

(* The manager calls with a bare pointer, to a transaction ...             *)
TimerTransac ==
  /\ \E t \in Transacs : Going(t) /\ Begins("timer", <<F("transac", t, "event")>>)
  /\ UNCHANGED <<dialogs, transacs, dialog, transac, shutdown>>

(* ... and to a dialog, which no reference keeps.                          *)
TimerDialog ==
  /\ \E d \in ToSet(dialogs) :
       Begins("timer", <<F("dialog", d, "enter"), F("call", d, "timer")>>)
  /\ UNCHANGED <<dialogs, transacs, dialog, transac, shutdown>>

(* tsip_dialog_layer_new, without the lock.                                *)
UserNewDialog ==
  /\ \E d \in Dialogs :
       /\ dialog[d] = "none" /\ dialog' = [dialog EXCEPT ![d] = "alive"]
       /\ dialogs' = Append(dialogs, d)
       /\ Begins("user", <<F("dialog", d, "enter"), F("call", d, "held")>>)
  /\ UNCHANGED <<transacs, transac, shutdown>>

(* tsip_dialog_layer_find_by_ssid finds the dialog under the lock ...      *)
UserFinds ==
  /\ LockFree("user", DialogLayer)
  /\ \E d \in ToSet(dialogs) : Begins("user", <<F("call", d, "found")>>)
  /\ UNCHANGED <<dialogs, transacs, dialog, transac, shutdown>>

(* Who keeps a dialog: the list, its transactions, a call that took a      *)
(* reference, the shutdown through the list's item.                        *)
Keeps(f, d) ==
  \/ f.of = "transac" /\ transac[f.id].dialog = d
  \/ f.of = "call" /\ f.id = d /\ f.at \in {"held", "create", "push"}

Referenced(d) ==
  \/ d \in ToSet(dialogs)
  \/ \E t \in ToSet(transacs) : transac[t].dialog = d
  \/ \E th \in Threads : \E f \in Frames(th) : Keeps(f, d)
  \/ \E f \in Frames("main") : f.of = "dialog" /\ f.id = d

(* Seeded fault: no reference is taken.                                    *)
UserActsOnly ==
  LET d == Head(stack["user"]).id IN
  /\ Runs("user", "call", "found")
  /\ stack' = [stack EXCEPT !["user"] = <<F("dialog", d, "enter")>>]
  /\ UNCHANGED <<cast, calls, dialogs, transacs, dialog, transac, shutdown>>

(* ... and takes its reference after the unlock.                           *)
UserActs ==
  LET d == Head(stack["user"]).id IN
  /\ Runs("user", "call", "found")
  /\ stack' = IF Referenced(d) THEN GoesAndCalls("user", "held", F("dialog", d, "enter"))
              ELSE Goes("user", "crashed")
  /\ UNCHANGED <<cast, calls, dialogs, transacs, dialog, transac, shutdown>>

CallReturns(th) ==
  /\ Runs(th, "call", "held") \/ Runs(th, "call", "timer")
  /\ stack' = Returns(th)
  /\ UNCHANGED <<cast, calls, dialogs, transacs, dialog, transac, shutdown>>

-----------------------------------------------------------------------------
(* tsip_dialog_layer_shutdownAll.                                          *)

ShutdownCalled ==
  /\ Begins("main", <<F("shutdown", "all", "begin")>>)
  /\ UNCHANGED <<dialogs, transacs, dialog, transac, shutdown>>

(* Nothing but silent dialogs is not nothing: they count as non-REGISTER.  *)
ShutdownBegin ==
  LET some(kinds) == OfKind(dialogs, kinds) # {} IN
  /\ Runs("main", "shutdown", "begin") /\ LockFree("main", DialogLayer)
  /\ stack' = IF some(NotRegister) THEN Goes("main", "tell1")
              ELSE IF some({"register"}) THEN Goes("main", "tell2")
              ELSE Returns("main")
  /\ shutdown' = [shutdown EXCEPT !.phase2 = ~some(NotRegister) /\ some({"register"})]
  /\ UNCHANGED <<cast, calls, dialogs, transacs, dialog, transac>>

Told(phase) ==
  CASE phase = "tell1" -> {"other", "incoming"}
    [] phase = "tell2" -> {"register"}
    [] phase = "tell3" -> {"silent"}

(* The next dialog of the list to shut down, or the end of the loop.  The  *)
(* loop starts over when the dialog it told has left the list.             *)
ShutdownTells ==
  \E at \in {"tell1", "tell2", "tell3"} :
    LET told == IF shutdown.told \subseteq ToSet(dialogs) THEN shutdown.told ELSE {}
        next == OfKind(dialogs, Told(at)) \ told
        d == First(dialogs, next)
    IN
    /\ Runs("main", "shutdown", at)
    /\ IF next # {}
       THEN /\ stack' = Calls("main", F("dialog", d, "enter"))
            /\ shutdown' = [shutdown EXCEPT !.told = told \cup {d}]
       ELSE /\ stack' = CASE at = "tell1" -> Goes("main", IF shutdown.wait THEN "wait1" ELSE "phase2")
                          [] at = "tell2" -> Goes("main", IF shutdown.wait THEN "wait2" ELSE "tell3")
                          [] at = "tell3" -> Returns("main")
            /\ shutdown' = [shutdown EXCEPT !.told = {}, !.signaled = FALSE, !.wait = FALSE]
    /\ UNCHANGED <<cast, calls, dialogs, transacs, dialog, transac>>

AfterWait == IF Now("main", "wait1") THEN "phase2" ELSE "tell3"

ShutdownWait == Runs("main", "shutdown", "wait1") \/ Runs("main", "shutdown", "wait2")

(* tsk_condwait_timedwait.                                                 *)
ShutdownWakes ==
  /\ ShutdownWait /\ shutdown.signaled
  /\ stack' = Goes("main", AfterWait)
  /\ UNCHANGED <<cast, calls, dialogs, transacs, dialog, transac, shutdown>>

(* Seeded fault: a wait without a timeout.                                 *)
ShutdownNeverTimesOut == FALSE

ShutdownTimesOut ==
  /\ ShutdownWait /\ ~shutdown.signaled
  /\ stack' = Goes("main", AfterWait)
  /\ UNCHANGED <<cast, calls, dialogs, transacs, dialog, transac, shutdown>>

ShutdownPhase2 ==
  /\ Runs("main", "shutdown", "phase2") /\ LockFree("main", DialogLayer)
  /\ stack' = Goes("main", "tell2")
  /\ shutdown' = [shutdown EXCEPT !.phase2 = TRUE, !.signaled = FALSE]
  /\ UNCHANGED <<cast, calls, dialogs, transacs, dialog, transac>>

Shutdown ==
  \/ ShutdownBegin \/ ShutdownTells \/ ShutdownWakes \/ ShutdownTimesOut \/ ShutdownPhase2

Call ==
  \/ NetMessage \/ NetRequest \/ NetNewDialog \/ TimerTransac \/ TimerDialog
  \/ UserNewDialog \/ UserFinds \/ ShutdownCalled

Step(th) ==
  \/ TransacStep(th) \/ DialogStep(th) \/ CallReturns(th)
  \/ th = "net" /\ (NetCreate \/ NetPush)
  \/ th = "user" /\ UserActs
  \/ th = "main" /\ Shutdown

Next == Call \/ \E th \in Threads : Step(th)

Spec == Init /\ [][Next]_vars

(* Threads are scheduled, a lock that is free again and again is granted,  *)
(* and pthread_cond_timedwait times out.                                   *)
FairSpec == Spec /\ \A th \in Threads : SF_vars(Step(th))

-----------------------------------------------------------------------------
(* Types, and each lock has one owner.                                     *)
TypeOK ==
  /\ cast \in Casts
  /\ \A th \in Threads : Frames(th) \subseteq Frame
  /\ \A a, b \in Threads : a # b => Held(a) \cap Held(b) = {}
  /\ calls \in [Threads -> Nat]
  /\ ToSet(dialogs) \subseteq Dialogs /\ ToSet(transacs) \subseteq Transacs
  /\ dialog \in [Dialogs -> {"none", "new", "alive", "ended"}]
  /\ \A t \in Transacs : transac[t] = NoTransac \/
       transac[t] \in [fsm : {"started", "going", "terminated"}, dialog : Dialogs,
                       role : {"client", "server"}]
  /\ shutdown \in [phase2 : BOOLEAN, told : SUBSET Dialogs, wait : BOOLEAN, signaled : BOOLEAN]

(* What a thread waits for, and who has it.                                *)
Wanted(th) == IF stack[th] = <<>> THEN {} ELSE Wants(Head(stack[th])) \ Held(th)
WaitsFor(a, b) == a # b /\ Wanted(a) \cap Held(b) # {}

(* a delivers to a dialog, from under the lock of one of its transactions, *)
(* while b acts on that transaction from under the lock of the dialog; or  *)
(* a tells a dialog from under the layer's lock, which b, who ends that    *)
(* dialog, waits for.                                                      *)
Inverted(a, b) ==
  /\ WaitsFor(a, b) /\ WaitsFor(b, a)
  /\ \E d \in Dialogs :
       /\ DialogLock(d) \in Wanted(a)
       /\ \/ \E t \in Transacs : transac[t] # NoTransac /\ transac[t].dialog = d
                                  /\ TransacLock(t) \in Wanted(b)
          \/ a = "main" /\ DialogLayer \in Wanted(b)

(* Threads that wait only for each other do so in one of these two ways    *)
(* and in no other.                                                        *)
DeadlocksAreInversions ==
  LET waits == {p \in Threads \X Threads : WaitsFor(p[1], p[2])} IN
  \A stuck \in (SUBSET Threads) \ {{}} :
    (\A a \in stuck : \E b \in stuck : <<a, b>> \in waits) =>
      \E a, b \in stuck : Inverted(a, b)

(* A dialog that has ended, and that nobody is about to leave, has left    *)
(* both lists and no transaction behind.                                   *)
EndedLeavesNothing ==
  \A d \in Dialogs :
    dialog[d] = "ended" /\ (\A th \in Threads : stack[th] = <<>>) =>
      d \notin ToSet(dialogs) /\ \A t \in ToSet(transacs) : transac[t].dialog # d

(* Whoever acts on a dialog, holds its lock or waits for it, is kept from  *)
(* a freed one by a reference, but for the callback of a dialog's own      *)
(* timer: when it ends the dialog, it unlocks what it has freed.           *)
UsedIsReferenced ==
  \A th \in Threads : \A f \in Frames(th) :
    f.of = "dialog" /\ F("call", f.id, "timer") \notin Frames(th) => Referenced(f.id)

(* The shutdown returns, unless two threads stand in each other's way.     *)
ShutdownReturns ==
  stack["main"] # <<>> ~> stack["main"] = <<>> \/ \E a, b \in Threads : Inverted(a, b)
=============================================================================
