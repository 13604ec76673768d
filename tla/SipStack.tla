------------------------------- MODULE SipStack -------------------------------
(***************************************************************************)
(* The life of a SIP stack, tsip.c: threads of the application start and   *)
(* stop it, its own thread hands events to the application, and it shares  *)
(* the one global timer manager of the process, tsk_timer.c, with the RTCP *)
(* sessions of the calls (trtp_rtcp_session.c), which count themselves in  *)
(* and out beside it.                                                      *)
(*                                                                         *)
(* What happens within the manager is in module TimerManager, what the     *)
(* shutdown of the dialogs does in module SipLayers.                       *)
(***************************************************************************)
EXTENDS Integers, Sequences, FiniteSets

CONSTANTS
  Apps,        \* threads of the application
  Sessions,    \* RTCP sessions, each with its thread
  Casts        \* who plays, see CastType

Callers == Apps \cup Sessions
Users == Sessions \cup {"stack"}     \* of the timer manager

CastType == [calls : [Callers -> Nat],    \* calls each thread makes
             messages : Nat]              \* events the layers below signal

ASSUME SipStackAssumption ==
  /\ Casts \subseteq CastType
  /\ {"stack", "nobody"} \cap Callers = {} /\ Apps \cap Sessions = {}

VARIABLES
  calls, messages,  \* what may still be called and signaled
  call, at,         \* [Callers -> ...]: the call a thread is in, and where it is there
  count,            \* __timer_mgr_start_count
  manager,          \* __timer_mgr, its runnable and its thread
  users,            \* timer_mgr_started of the stack, timer.started of the sessions
  stack,            \* started, the transports, and the owner of the lock
  runnable,         \* TSK_RUNNABLE(stack) and its thread
  queue,            \* its objects: events for the application
  signal,           \* where the thread below is that signals an event
  owed,             \* history: events enqueued and not handed to the application
  races             \* history: races that were lost, see Races

threadVars == <<calls, call, at>>
timerVars == <<count, manager, users>>
eventVars == <<runnable, queue, owed, signal, messages>>
vars == <<threadVars, timerVars, stack, eventVars, races>>

(* skipped: a stop found the manager started but its thread not running.   *)
(* crossed: two stops compared the count before either had lowered it.     *)
(* overtaken: a start fell into the stop of the last user before it.       *)
(* twice: a start got the lock of a stack another start had completed.     *)
(* unborn: a failed start found its thread not running.  impatient: so did *)
(* a stop, for three seconds.  lost: an event was pushed while the queue's *)
(* last one was taken.  after: one came when the thread had left its loop. *)
Races == {"skipped", "crossed", "overtaken", "twice", "unborn", "impatient", "lost", "after"}

Off == [running |-> FALSE, started |-> FALSE, thread |-> "none"]
Dead == [initialized |-> FALSE, started |-> FALSE, running |-> FALSE, sem |-> 0,
         thread |-> "none", alone |-> FALSE]

Init ==
  /\ \E cast \in Casts : calls = cast.calls /\ messages = cast.messages
  /\ call = [th \in Callers |-> "none"] /\ at = [th \in Callers |-> "idle"]
  /\ count = 0 /\ manager = Off /\ users = {}
  /\ stack = [started |-> FALSE, open |-> FALSE, owner |-> "nobody"]
  /\ runnable = Dead /\ queue = <<>> /\ owed = 0 /\ signal = "idle"
  /\ races = {}

-----------------------------------------------------------------------------
Goes(th, step) == at' = [at EXCEPT ![th] = step] /\ UNCHANGED <<calls, call>>
Becomes(th, what, step) ==
  at' = [at EXCEPT ![th] = step] /\ call' = [call EXCEPT ![th] = what] /\ UNCHANGED calls
Returns(th) == Becomes(th, "none", "idle")

Begins(th, what, step) ==
  /\ call[th] = "none" /\ calls[th] > 0
  /\ calls' = [calls EXCEPT ![th] = @ - 1]
  /\ call' = [call EXCEPT ![th] = what] /\ at' = [at EXCEPT ![th] = step]

Happens(race, when) == races' = races \cup IF when THEN {race} ELSE {}
Others(th, steps) == \E other \in Callers \ {th} : at[other] \in steps

User(th) == IF th \in Sessions THEN th ELSE "stack"

-----------------------------------------------------------------------------
(* tsk_timer_mgr_global_start.  The flags are read without the mutex ...   *)
GlobalStartTest(th) ==
  /\ at[th] = "start timers"
  /\ Goes(th, IF ~manager.running /\ ~manager.started THEN "start manager" ELSE "count in")
  /\ UNCHANGED <<timerVars, stack, eventVars, races>>

(* ... and again by tsk_timer_manager_start, under it: who comes second    *)
(* has failed.                                                             *)
GlobalStartManager(th) ==
  /\ at[th] = "start manager"
  /\ IF ~manager.running /\ ~manager.started
     THEN /\ manager' = [manager EXCEPT !.started = TRUE, !.thread = "new"]
          /\ Goes(th, "count in")
     ELSE /\ UNCHANGED manager
          /\ IF th \in Sessions THEN Returns(th) ELSE Becomes(th, "failed", "signal failure")
  /\ UNCHANGED <<count, users, stack, eventVars, races>>

(* From the comparison with 1 to the end of the manager's stop.            *)
Stopping == {"stop manager", "join manager"}

(* Seeded fault: only who starts the manager counts.                       *)
GlobalStartCountFirst(th) ==
  /\ at[th] = "count in"
  /\ count' = IF users = {} THEN count + 1 ELSE count
  /\ users' = users \cup {User(th)}
  /\ Goes(th, IF th \in Sessions THEN "playing" ELSE "start events")
  /\ Happens("overtaken", Others(th, Stopping))
  /\ UNCHANGED <<manager, stack, eventVars>>

GlobalStartCount(th) ==
  /\ at[th] = "count in"
  /\ count' = count + 1 /\ users' = users \cup {User(th)}
  /\ Goes(th, IF th \in Sessions THEN "playing" ELSE "start events")
  /\ Happens("overtaken", Others(th, Stopping))
  /\ UNCHANGED <<manager, stack, eventVars>>

(* The thread of the manager, run() of tsk_timer.c.                        *)
ManagerRuns ==
  /\ manager.thread = "new"
  /\ manager' = [manager EXCEPT !.thread = "going", !.running = TRUE]
  /\ UNCHANGED <<threadVars, count, users, stack, eventVars, races>>

-----------------------------------------------------------------------------
(* tsk_timer_mgr_global_stop, on behalf of a session, of the stop of the   *)
(* stack or of a failed start of it.                                       *)
AfterTimers(th) ==
  IF th \in Sessions THEN Returns(th) ELSE Goes(th, "close transports")

(* While the thread of the manager is not running yet, nothing is counted. *)
GlobalStopTest(th) ==
  /\ at[th] = "stop timers"
  /\ CASE count <= 0 -> AfterTimers(th) /\ UNCHANGED <<users, races>>
       [] count > 0 /\ manager.running -> Goes(th, "last user?") /\ UNCHANGED <<users, races>>
       [] OTHER ->
            AfterTimers(th) /\ users' = users \ {User(th)} /\ Happens("skipped", TRUE)
  /\ UNCHANGED <<count, manager, stack, eventVars>>

(* Seeded fault: the count is compared as if it had been lowered.          *)
GlobalStopLastLow(th) ==
  /\ at[th] = "last user?"
  /\ Goes(th, IF count = 0 THEN "stop manager" ELSE "count out")
  /\ Happens("crossed", count # 0 /\ Others(th, {"count out"}))
  /\ UNCHANGED <<timerVars, stack, eventVars>>

GlobalStopLast(th) ==
  /\ at[th] = "last user?"
  /\ Goes(th, IF count = 1 THEN "stop manager" ELSE "count out")
  /\ Happens("crossed", count # 1 /\ Others(th, {"count out"}))
  /\ UNCHANGED <<timerVars, stack, eventVars>>

(* tsk_timer_manager_stop: the thread is told ...                          *)
GlobalStopManager(th) ==
  /\ at[th] = "stop manager"
  /\ IF manager.running
     THEN manager' = [manager EXCEPT !.running = FALSE] /\ Goes(th, "join manager")
     ELSE UNCHANGED manager /\ Goes(th, "count out")
  /\ UNCHANGED <<count, users, stack, eventVars, races>>

(* ... and joined.                                                         *)
GlobalStopJoin(th) ==
  /\ at[th] = "join manager"
  /\ manager' = Off /\ Goes(th, "count out")
  /\ Happens("overtaken", Others(th, {"count in"}))
  /\ UNCHANGED <<count, users, stack, eventVars>>

GlobalStopCount(th) ==
  /\ at[th] = "count out"
  /\ count' = count - 1 /\ users' = users \ {User(th)}
  /\ AfterTimers(th)
  /\ UNCHANGED <<manager, stack, eventVars, races>>

GlobalTimers(th) ==
  \/ GlobalStartTest(th) \/ GlobalStartManager(th) \/ GlobalStartCount(th)
  \/ GlobalStopTest(th) \/ GlobalStopLast(th) \/ GlobalStopManager(th)
  \/ GlobalStopJoin(th) \/ GlobalStopCount(th)

(* trtp_rtcp_session_start and _stop.                                      *)
SessionStart(th) ==
  /\ th \in Sessions /\ Begins(th, "session", "start timers")
  /\ UNCHANGED <<timerVars, stack, eventVars, races>>

SessionStop(th) ==
  /\ at[th] = "playing" /\ Goes(th, "stop timers")
  /\ UNCHANGED <<timerVars, stack, eventVars, races>>

-----------------------------------------------------------------------------
(* The queue of events.                                                    *)
Pushed(event) ==
  /\ queue' = Append(queue, event) /\ owed' = owed + 1
  /\ races' = races \cup (IF runnable.thread = "none" THEN {"after"} ELSE {})
                    \cup (IF runnable.thread = "take" /\ runnable.alone THEN {"lost"} ELSE {})

(* TSK_RUNNABLE_ENQUEUE_OBJECT: nothing is kept where the runnable is not  *)
(* initialized.                                                            *)
Enqueued(event) ==
  IF runnable.initialized
  THEN Pushed(event) /\ runnable' = [runnable EXCEPT !.sem = @ + 1]
  ELSE UNCHANGED <<runnable, queue, owed, races>>

(* tsip_event_signal_2, from a thread of the transports or the timers: it  *)
(* tests ...                                                               *)
SignalTest ==
  /\ signal = "idle" /\ messages > 0 /\ messages' = messages - 1
  /\ signal' = IF runnable.initialized THEN "push" ELSE "idle"
  /\ UNCHANGED <<threadVars, timerVars, stack, runnable, queue, owed, races>>

(* ... pushes, under the lock of the list ...                              *)
SignalPush ==
  /\ signal = "push" /\ signal' = "post"
  /\ IF runnable.initialized THEN Pushed("message")
     ELSE UNCHANGED <<queue, owed>> /\ Happens("after", TRUE)
  /\ UNCHANGED <<threadVars, timerVars, stack, runnable, messages>>

(* ... and posts.                                                          *)
SignalPost ==
  /\ signal = "post" /\ signal' = "idle"
  /\ runnable' = IF runnable.initialized THEN [runnable EXCEPT !.sem = @ + 1] ELSE runnable
  /\ UNCHANGED <<threadVars, timerVars, stack, queue, owed, messages, races>>

(* run() of tsip.c.                                                        *)
Thread(step) == runnable.thread = step
ThreadGoes(step) == runnable' = [runnable EXCEPT !.thread = step]

RunBegins ==
  /\ Thread("new")
  /\ runnable' = [runnable EXCEPT !.thread = "wait", !.running = TRUE]
  /\ UNCHANGED <<threadVars, timerVars, stack, queue, owed, signal, messages, races>>

(* Seeded fault: nothing is important.                                     *)
RunTakesPermitUnimportant ==
  /\ Thread("wait") /\ runnable.sem > 0
  /\ runnable' = [runnable EXCEPT !.sem = @ - 1,
                    !.thread = IF ~runnable.running THEN "none" ELSE "look"]
  /\ UNCHANGED <<threadVars, timerVars, stack, queue, owed, signal, messages, races>>

(* A runnable that is important only ends when its queue is empty.         *)
RunTakesPermit ==
  /\ Thread("wait") /\ runnable.sem > 0
  /\ runnable' = [runnable EXCEPT !.sem = @ - 1,
                    !.thread = IF ~runnable.running /\ queue = <<>> THEN "none" ELSE "look"]
  /\ UNCHANGED <<threadVars, timerVars, stack, queue, owed, signal, messages, races>>

(* TSK_RUNNABLE_POP_FIRST takes no lock: it looks whether the first event  *)
(* is the only one ...                                                     *)
RunLooks ==
  /\ Thread("look")
  /\ runnable' = [runnable EXCEPT !.thread = IF queue = <<>> THEN "wait" ELSE "take",
                                  !.alone = Len(queue) = 1]
  /\ UNCHANGED <<threadVars, timerVars, stack, queue, owed, signal, messages, races>>

(* ... and if it was, the list is empty, whatever was pushed since.        *)
RunTakes ==
  /\ Thread("take") /\ ThreadGoes("wait")
  /\ queue' = IF runnable.alone THEN <<>> ELSE Tail(queue)
  /\ owed' = owed - 1
  /\ UNCHANGED <<threadVars, timerVars, stack, signal, messages, races>>

Events ==
  \/ SignalTest \/ SignalPush \/ SignalPost
  \/ RunBegins \/ RunTakesPermit \/ RunLooks \/ RunTakes

-----------------------------------------------------------------------------
(* tsk_runnable_stop.                                                      *)
AfterEvents(th, ok) ==
  /\ stack' = [stack EXCEPT !.started = @ /\ (call[th] = "failed" \/ ~ok), !.owner = "nobody"]
  /\ Returns(th)

RunnableStopTest(th) ==
  LET idle == ~runnable.running /\ ~(runnable.initialized /\ runnable.started) IN
  /\ at[th] = "stop events"
  /\ IF idle THEN AfterEvents(th, TRUE)
     ELSE Goes(th, IF runnable.running THEN "tell thread" ELSE "sleep") /\ UNCHANGED stack
  /\ UNCHANGED <<timerVars, eventVars, races>>

(* Five sleeps, three seconds together.                                    *)
RunnableStopSleeps(th) ==
  /\ at[th] = "sleep"
  /\ \/ runnable.running /\ Goes(th, "tell thread") /\ UNCHANGED <<stack, races>>
     \/ ~runnable.running /\ AfterEvents(th, FALSE) /\ Happens("impatient", TRUE)
  /\ UNCHANGED <<timerVars, eventVars>>

(* Seeded fault: the thread is not woken.                                  *)
RunnableStopTellsNot(th) ==
  /\ at[th] = "tell thread" /\ Goes(th, "join thread")
  /\ runnable' = [runnable EXCEPT !.running = FALSE]
  /\ UNCHANGED <<timerVars, stack, queue, owed, signal, messages, races>>

RunnableStopTells(th) ==
  /\ at[th] = "tell thread" /\ Goes(th, "join thread")
  /\ runnable' = [runnable EXCEPT !.running = FALSE, !.sem = @ + 1]
  /\ UNCHANGED <<timerVars, stack, queue, owed, signal, messages, races>>

(* What is left in the queue is freed with it.                             *)
RunnableStopJoins(th) ==
  /\ at[th] = "join thread" /\ Thread("none")
  /\ runnable' = Dead /\ queue' = <<>> /\ owed' = 0
  /\ AfterEvents(th, TRUE)
  /\ UNCHANGED <<timerVars, signal, messages, races>>

RunnableStop(th) ==
  \/ RunnableStopTest(th) \/ RunnableStopSleeps(th)
  \/ RunnableStopTells(th) \/ RunnableStopJoins(th)

-----------------------------------------------------------------------------
(* tsip_stack_start: the flag is read before the lock is taken ...         *)
StartTest(th) ==
  /\ th \in Apps
  /\ IF stack.started
     THEN /\ call[th] = "none" /\ calls[th] > 0
          /\ calls' = [calls EXCEPT ![th] = @ - 1] /\ UNCHANGED <<call, at>>
     ELSE Begins(th, "start", "lock")
  /\ UNCHANGED <<timerVars, stack, eventVars, races>>

(* ... and never looked at again.                                          *)
StartLock(th) ==
  /\ at[th] = "lock" /\ call[th] = "start" /\ stack.owner = "nobody"
  /\ stack' = [stack EXCEPT !.owner = th]
  /\ Goes(th, "start timers") /\ Happens("twice", stack.started)
  /\ UNCHANGED <<timerVars, eventVars>>

(* tsk_runnable_start, and the first event.                                *)
StartEvents(th) ==
  /\ at[th] = "start events"
  /\ IF runnable.running \/ runnable.initialized
     THEN Becomes(th, "failed", "signal failure") /\ UNCHANGED <<runnable, queue, owed>>
     ELSE /\ runnable' = [Dead EXCEPT !.initialized = TRUE, !.started = TRUE, !.thread = "new",
                                      !.sem = 1]
          /\ queue' = <<"starting">> /\ owed' = 1
          /\ Goes(th, "open transports")
  /\ UNCHANGED <<timerVars, stack, signal, messages, races>>

StartTransports(th) ==
  /\ at[th] = "open transports"
  /\ \/ stack' = [stack EXCEPT !.open = TRUE] /\ Goes(th, "all is ok")
     \/ \E some \in BOOLEAN : stack' = [stack EXCEPT !.open = @ \/ some]
                              /\ Becomes(th, "failed", "signal failure")
  /\ UNCHANGED <<timerVars, eventVars, races>>

StartDone(th) ==
  /\ at[th] = "all is ok" /\ Enqueued("started")
  /\ stack' = [stack EXCEPT !.started = TRUE, !.owner = "nobody"]
  /\ Returns(th)
  /\ UNCHANGED <<timerVars, signal, messages>>

(* Seeded fault: the timers are left to themselves.                        *)
StartFailsUntimed(th) ==
  /\ at[th] = "signal failure" /\ Enqueued("failed")
  /\ Goes(th, "close transports")
  /\ UNCHANGED <<timerVars, stack, signal, messages>>

(* Whatever fails, the timers and the transports are stopped ...           *)
StartFails(th) ==
  /\ at[th] = "signal failure" /\ Enqueued("failed")
  /\ Goes(th, IF "stack" \in users THEN "stop timers" ELSE "close transports")
  /\ UNCHANGED <<timerVars, stack, signal, messages>>

(* ... and the thread, if it is already running.                           *)
CloseTransports(th) ==
  LET told == call[th] = "failed" /\ ~runnable.running IN
  /\ at[th] = "close transports"
  /\ IF call[th] = "stop" THEN Enqueued("stopped")
     ELSE UNCHANGED <<runnable, queue, owed>> /\ Happens("unborn", told /\ runnable.thread # "none")
  /\ stack' = [stack EXCEPT !.open = FALSE, !.owner = IF told THEN "nobody" ELSE @]
  /\ IF told THEN Returns(th) ELSE Goes(th, "stop events")
  /\ UNCHANGED <<timerVars, signal, messages>>

(* tsip_stack_stop.                                                        *)
StopCalled(th) ==
  /\ th \in Apps /\ Begins(th, "stop", "lock")
  /\ UNCHANGED <<timerVars, stack, eventVars, races>>

StopLock(th) ==
  /\ at[th] = "lock" /\ call[th] = "stop" /\ stack.owner = "nobody"
  /\ IF stack.started
     THEN /\ stack' = [stack EXCEPT !.owner = th]
          /\ Enqueued("stopping")
          /\ Goes(th, IF "stack" \in users THEN "stop timers" ELSE "close transports")
     ELSE UNCHANGED <<stack, runnable, queue, owed, races>> /\ Returns(th)
  /\ UNCHANGED <<timerVars, signal, messages>>

Stack(th) ==
  \/ StartLock(th) \/ StartEvents(th) \/ StartTransports(th) \/ StartDone(th)
  \/ StartFails(th) \/ CloseTransports(th) \/ StopLock(th)

Call(th) == SessionStart(th) \/ SessionStop(th) \/ StartTest(th) \/ StopCalled(th)

Step(th) == GlobalTimers(th) \/ RunnableStop(th) \/ Stack(th)

Next == ManagerRuns \/ Events \/ \E th \in Callers : Call(th) \/ Step(th)

Spec == Init /\ [][Next]_vars

(* Threads are scheduled, and a lock that is free again and again is       *)
(* granted.  Nobody is obliged to call or to signal.                       *)
Fairness ==
  /\ WF_vars(ManagerRuns)
  /\ WF_vars(RunBegins \/ RunTakesPermit \/ RunLooks \/ RunTakes)
  /\ WF_vars(SignalPush) /\ WF_vars(SignalPost)
  /\ \A th \in Callers : SF_vars(Step(th))

FairSpec == Spec /\ Fairness

-----------------------------------------------------------------------------
(* Types.                                                                  *)
TypeOK ==
  /\ calls \in [Callers -> Nat] /\ messages \in Nat
  /\ call \in [Callers -> {"none", "session", "start", "failed", "stop"}]
  /\ \A th \in Callers : call[th] = "none" <=> at[th] = "idle"
  /\ count \in Nat /\ users \subseteq Users
  /\ manager \in [running : BOOLEAN, started : BOOLEAN, thread : {"none", "new", "going"}]
  /\ stack \in [started : BOOLEAN, open : BOOLEAN, owner : Apps \cup {"nobody"}]
  /\ runnable \in [initialized : BOOLEAN, started : BOOLEAN, running : BOOLEAN, sem : Nat,
                   thread : {"none", "new", "wait", "look", "take"}, alone : BOOLEAN]
  /\ queue \in Seq({"starting", "started", "failed", "stopping", "stopped", "message"})
  /\ owed \in Nat /\ signal \in {"idle", "push", "post"} /\ races \subseteq Races

(* The user u is about to stop.                                            *)
Leaves(u) ==
  \E th \in Callers :
    User(th) = u /\ at[th] \in {"stop timers", "last user?", "count out"} \cup Stopping

(* The manager serves each of its users until it stops, however the others *)
(* come and go, and is counted for each of them, unless a start fell into  *)
(* the stop of the one that was last before it.                            *)
EveryUserIsServed ==
  /\ count >= Cardinality(users)
  /\ \A u \in users :
       Leaves(u) \/ manager.running \/ manager.thread = "new" \/ "overtaken" \in races

(* When the last user has gone the manager has been stopped, unless one    *)
(* stopped it before its thread ran, two stopped it at once, or two starts *)
(* of the stack counted it twice for one stop.                             *)
LastUserStops ==
  users = {} /\ (\A th \in Callers : at[th] = "idle") =>
    manager = Off \/ races \cap {"skipped", "crossed", "overtaken", "twice"} # {}

(* "all events should be delivered to the user before the stack stop": a   *)
(* thread that has left its loop owes none, whoever signals and whenever   *)
(* the stop comes, but one that was pushed after it had left or while it   *)
(* took the last one of the queue without the lock.                        *)
EventsAreDelivered == Thread("none") /\ owed # 0 => races \cap {"after", "lost"} # {}

(* Outside of the calls a stack has either everything a start gives it or  *)
(* nothing of it: no failure and no stop stays half way, unless two starts *)
(* met or the thread of the events was slow to come up.                    *)
AllOrNothing ==
  (\A th \in Apps : at[th] = "idle") =>
    \/ stack.started /\ stack.open /\ "stack" \in users /\ ~Thread("none")
    \/ ~stack.started /\ ~stack.open /\ "stack" \notin users /\ Thread("none")
    \/ races \cap {"twice", "unborn", "impatient"} # {}

(* Every start and every stop returns.                                     *)
EveryCallReturns ==
  \A th \in Apps : at[th] # "idle" ~> at[th] = "idle"
=============================================================================
