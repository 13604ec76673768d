---------------------------- MODULE TimerManager ----------------------------
(***************************************************************************)
(* The timer manager of tinySAK (tsk_timer.c) on top of its runnable       *)
(* (tsk_runnable.c/.h), its counting semaphores and its condition          *)
(* variable.  Four kinds of threads share it:                              *)
(*   - Callers, any threads that schedule and cancel timers;               *)
(*   - the owner, the thread that starts and stops the manager;            *)
(*   - "mainthread", which sleeps until the head of `timers` is due and    *)
(*     moves it to the runnable's queue `objects`;                         *)
(*   - run(), which pops `objects` and invokes the callbacks.              *)
(* A step of the model is a piece of code that no other thread can cut in  *)
(* a way these threads observe: a critical section, one access to a        *)
(* shared flag, one semaphore or condition operation.                      *)
(***************************************************************************)
EXTENDS Integers, Sequences, SequencesExt, FiniteSets

CONSTANTS
  Callers,          \* threads that schedule and cancel
  Delays,           \* relative timeouts the callers pass
  HalfRange,        \* 2^31: half of the range of the int tsk_timer_cmp returns
  MaxTimers,        \* bound: timers ever created
  MaxNow,           \* bound: last instant of the clock
  MaxStarts,        \* bound: calls of start that create the threads
  MaxStops,         \* bound: calls of stop
  StopMayRaceStart  \* may stop be called before run() has reached its loop

ASSUME TimerAssumption ==
  /\ IsFiniteSet(Callers)
  /\ Delays \subseteq Nat
  /\ HalfRange \in Nat \ {0}
  /\ MaxTimers \in Nat /\ MaxNow \in Nat /\ MaxStarts \in Nat /\ MaxStops \in Nat
  /\ StopMayRaceStart \in BOOLEAN

TimerId == 1..MaxTimers
None == 0           \* tsk_null for a timer pointer, TSK_INVALID_TIMER_ID

VARIABLES
  now,          \* tsk_time_now()
  created,      \* timers created so far; ids come from a static counter
  timeout,      \* timer->timeout, absolute
  canceled,     \* timer->canceled; callback is tsk_null exactly when it is set
  timers,       \* manager->timers
  sem,          \* manager->sem
  initialized,  \* runnable->initialized
  started,      \* runnable->started
  running,      \* runnable->running
  objects,      \* runnable->objects
  semaphore,    \* runnable->semaphore
  callerAt,     \* where each caller is
  callerArg,    \* the timer each caller is scheduling
  ownerAt,      \* where the owner is
  mainAt, curr,     \* where mainthread is, and its local `curr`
  runAt, popped,    \* where run() is, and the timer it popped
  starts, stops,    \* how often the owner started and stopped the manager
  fires,        \* history: how often each callback was invoked
  crashed       \* a use of freed memory or of a null callback ended the process

timerVars == <<created, timeout, canceled, timers, sem>>
runnableVars == <<initialized, started, running, objects, semaphore>>
callerVars == <<callerAt, callerArg>>
ownerVars == <<ownerAt, starts, stops>>
mainVars == <<mainAt, curr>>
runVars == <<runAt, popped, fires>>
vars == <<now, timerVars, runnableVars, callerVars, ownerVars, mainVars,
          runVars, crashed>>

CallerState == {"idle", "push", "signal", "post"}
OwnerState == {"idle", "starting", "post", "joinRun", "mainSem", "mainSignal",
               "joinMain", "clear"}
MainState == {"none", "while", "dec", "peek", "test", "enqueue", "push", "post",
              "remove", "arm", "timedwait", "exit"}
RunState == {"none", "entry", "spawn", "begin", "dec", "pop", "load", "call",
             "end", "exit"}

-----------------------------------------------------------------------------
\* tsk_timer_cmp: the difference of two 64-bit instants, cut to an int.
TimerCmp(a, b) == ((timeout[a] - timeout[b] + HalfRange) % (2 * HalfRange)) - HalfRange

\* Seeded fault: the list is filled in the order of the calls.
PushAtEnd(list, t) == Append(list, t)

\* tsk_list_push_ascending_data: before the first timer it compares below.
PushAscending(list, t) ==
  LET later == {i \in DOMAIN list : TimerCmp(t, list[i]) < 0}
  IN  IF later = {} THEN Append(list, t)
      ELSE InsertAt(list, CHOOSE i \in later : \A j \in later : i <= j, t)

\* tsk_list_remove_item_by_data: the first timer that compares equal.
RemoveByData(list, t) ==
  LET same == {i \in DOMAIN list : TimerCmp(list[i], t) = 0}
  IN  IF same = {} THEN list
      ELSE RemoveAt(list, CHOOSE i \in same : \A j \in same : i <= j)

\* manager->mutex: every section under it is one step, except start's, which
\* holds it while it starts the runnable.
MutexFree == ownerAt # "starting"

\* tsk_condwait_signal wakes mainthread if it is waiting and is lost if not.
Signal == mainAt' = IF mainAt = "timedwait" THEN "peek" ELSE mainAt

Init ==
  /\ now = 0 /\ created = 0
  /\ timeout = [t \in TimerId |-> 0]
  /\ canceled = [t \in TimerId |-> FALSE]
  /\ timers = <<>> /\ sem = 0
  /\ initialized = FALSE /\ started = FALSE /\ running = FALSE
  /\ objects = <<>> /\ semaphore = 0
  /\ callerAt = [c \in Callers |-> "idle"]
  /\ callerArg = [c \in Callers |-> None]
  /\ ownerAt = "idle" /\ starts = 0 /\ stops = 0
  /\ mainAt = "none" /\ curr = None
  /\ runAt = "none" /\ popped = None
  /\ fires = [t \in TimerId |-> 0]
  /\ crashed = FALSE

-----------------------------------------------------------------------------
(* tsk_timer_manager_schedule: create, push under the mutex, signal, and    *)
(* only then increment the semaphore.                                       *)

ScheduleCreate(c, d) ==
  /\ callerAt[c] = "idle"
  /\ running \/ started
  /\ created < MaxTimers /\ now + d <= MaxNow
  /\ created' = created + 1
  /\ timeout' = [timeout EXCEPT ![created + 1] = now + d]
  /\ callerAt' = [callerAt EXCEPT ![c] = "push"]
  /\ callerArg' = [callerArg EXCEPT ![c] = created + 1]
  /\ UNCHANGED <<now, canceled, timers, sem, runnableVars, ownerVars, mainVars,
                 runVars, crashed>>

SchedulePush(c) ==
  /\ callerAt[c] = "push" /\ MutexFree
  /\ timers' = PushAscending(timers, callerArg[c])
  /\ callerAt' = [callerAt EXCEPT ![c] = "signal"]
  /\ UNCHANGED <<now, created, timeout, canceled, sem, runnableVars, callerArg,
                 ownerVars, mainVars, runVars, crashed>>

ScheduleSignal(c) ==
  /\ callerAt[c] = "signal"
  /\ Signal
  /\ callerAt' = [callerAt EXCEPT ![c] = "post"]
  /\ UNCHANGED <<now, timerVars, runnableVars, callerArg, ownerVars, curr,
                 runVars, crashed>>

\* Seeded fault: the semaphore is not incremented.
SchedulePostLost(c) ==
  /\ callerAt[c] = "post"
  /\ callerAt' = [callerAt EXCEPT ![c] = "idle"]
  /\ callerArg' = [callerArg EXCEPT ![c] = None]
  /\ UNCHANGED <<now, timerVars, runnableVars, ownerVars, mainVars, runVars,
                 crashed>>

SchedulePost(c) ==
  /\ callerAt[c] = "post"
  /\ sem' = sem + 1
  /\ callerAt' = [callerAt EXCEPT ![c] = "idle"]
  /\ callerArg' = [callerArg EXCEPT ![c] = None]
  /\ UNCHANGED <<now, created, timeout, canceled, timers, runnableVars,
                 ownerVars, mainVars, runVars, crashed>>

\* tsk_timer_manager_cancel of a timer that is still listed (returns 0); for
\* any other id the call changes nothing (-1).  An id is known to the callers
\* once schedule has returned it.
Cancel(c, t) ==
  /\ callerAt[c] = "idle" /\ MutexFree
  /\ running
  /\ \E i \in DOMAIN timers : timers[i] = t
  /\ \A b \in Callers : callerArg[b] # t
  /\ canceled' = [canceled EXCEPT ![t] = TRUE]
  /\ IF Head(timers) = t THEN Signal ELSE UNCHANGED mainAt
  /\ UNCHANGED <<now, created, timeout, timers, sem, runnableVars, callerVars,
                 ownerVars, curr, runVars, crashed>>

-----------------------------------------------------------------------------
(* __tsk_timer_manager_mainthread.                                          *)

MainWhile ==
  /\ mainAt = "while"
  /\ mainAt' = IF running THEN "dec" ELSE "exit"
  /\ UNCHANGED <<now, timerVars, runnableVars, callerVars, ownerVars, curr,
                 runVars, crashed>>

MainDec ==
  /\ mainAt = "dec" /\ sem > 0
  /\ sem' = sem - 1
  /\ mainAt' = "peek"
  /\ UNCHANGED <<now, created, timeout, canceled, timers, runnableVars,
                 callerVars, ownerVars, curr, runVars, crashed>>

MainPeek ==
  /\ mainAt = "peek"
  /\ \/ ~running /\ mainAt' = "exit" /\ UNCHANGED curr
     \/ /\ running /\ MutexFree
        /\ curr' = IF timers = <<>> THEN None ELSE Head(timers)
        /\ mainAt' = "test"
  /\ UNCHANGED <<now, timerVars, runnableVars, callerVars, ownerVars, runVars,
                 crashed>>

\* Reads curr->canceled and the clock, without the mutex.
MainTest ==
  /\ mainAt = "test"
  /\ mainAt' = IF curr = None THEN "while"
               ELSE IF canceled[curr] THEN "remove"
               ELSE IF now >= timeout[curr] THEN "enqueue" ELSE "arm"
  /\ UNCHANGED <<now, timerVars, runnableVars, callerVars, ownerVars, curr,
                 runVars, crashed>>

\* TSK_RUNNABLE_ENQUEUE_OBJECT_SAFE: test `initialized`, push, increment.
\* stop() may free the queue and the semaphore in between: the operation then
\* finds a null handle and does nothing, or touches freed memory.
MainEnqueue ==
  /\ mainAt = "enqueue"
  /\ mainAt' = IF initialized THEN "push" ELSE "remove"
  /\ UNCHANGED <<now, timerVars, runnableVars, callerVars, ownerVars, curr,
                 runVars, crashed>>

MainPush ==
  /\ mainAt = "push"
  /\ objects' = IF initialized THEN Append(objects, curr) ELSE objects
  /\ \/ crashed' = FALSE
     \/ ~initialized /\ crashed' = TRUE
  /\ mainAt' = "post"
  /\ UNCHANGED <<now, timerVars, initialized, started, running, semaphore,
                 callerVars, ownerVars, curr, runVars>>

\* Seeded fault: the runnable's semaphore is not incremented.
MainPostLost ==
  /\ mainAt = "post" /\ mainAt' = "remove"
  /\ UNCHANGED <<now, timerVars, runnableVars, callerVars, ownerVars, curr,
                 runVars, crashed>>

MainPost ==
  /\ mainAt = "post"
  /\ semaphore' = IF initialized THEN semaphore + 1 ELSE semaphore
  /\ \/ crashed' = FALSE
     \/ ~initialized /\ crashed' = TRUE
  /\ mainAt' = "remove"
  /\ UNCHANGED <<now, timerVars, initialized, started, running, objects,
                 callerVars, ownerVars, curr, runVars>>

\* Seeded fault: a timer that was handed over stays in the list.
MainRemoveNothing ==
  /\ mainAt = "remove" /\ MutexFree
  /\ mainAt' = "while" /\ curr' = None
  /\ UNCHANGED <<now, timerVars, runnableVars, callerVars, ownerVars, runVars,
                 crashed>>

MainRemove ==
  /\ mainAt = "remove" /\ MutexFree
  /\ timers' = RemoveByData(timers, curr)
  /\ mainAt' = "while" /\ curr' = None
  /\ UNCHANGED <<now, created, timeout, canceled, sem, runnableVars, callerVars,
                 ownerVars, runVars, crashed>>

\* tsk_condwait_timedwait takes effect: from here a signal wakes the thread.
MainArm ==
  /\ mainAt = "arm"
  /\ mainAt' = "timedwait"
  /\ UNCHANGED <<now, timerVars, runnableVars, callerVars, ownerVars, curr,
                 runVars, crashed>>

MainTimedOut ==
  /\ mainAt = "timedwait" /\ now >= timeout[curr]
  /\ mainAt' = "peek"
  /\ UNCHANGED <<now, timerVars, runnableVars, callerVars, ownerVars, curr,
                 runVars, crashed>>

\* pthread_cond_timedwait may return without a signal.
MainSpuriousWake ==
  /\ mainAt = "timedwait" /\ now < timeout[curr]
  /\ mainAt' = "peek"
  /\ UNCHANGED <<now, timerVars, runnableVars, callerVars, ownerVars, curr,
                 runVars, crashed>>

-----------------------------------------------------------------------------
(* run() and the loop TSK_RUNNABLE_RUN_BEGIN ... TSK_RUNNABLE_RUN_END.      *)

RunEnter ==
  /\ runAt = "entry"
  /\ running' = TRUE
  /\ runAt' = "spawn"
  /\ UNCHANGED <<now, timerVars, initialized, started, objects, semaphore,
                 callerVars, ownerVars, mainVars, popped, fires, crashed>>

RunSpawn ==
  /\ runAt = "spawn"
  /\ mainAt' = "while"
  /\ runAt' = "begin"
  /\ UNCHANGED <<now, timerVars, runnableVars, callerVars, ownerVars, curr,
                 popped, fires, crashed>>

RunBegin ==
  /\ runAt = "begin"
  /\ running' = TRUE
  /\ runAt' = "dec"
  /\ UNCHANGED <<now, timerVars, initialized, started, objects, semaphore,
                 callerVars, ownerVars, mainVars, popped, fires, crashed>>

RunDec ==
  /\ runAt = "dec" /\ semaphore > 0
  /\ semaphore' = semaphore - 1
  /\ runAt' = IF running THEN "pop" ELSE "end"
  /\ UNCHANGED <<now, timerVars, initialized, started, running, objects,
                 callerVars, ownerVars, mainVars, popped, fires, crashed>>

RunPop ==
  /\ runAt = "pop"
  /\ IF objects = <<>>
     THEN runAt' = "dec" /\ UNCHANGED <<objects, popped>>
     ELSE /\ popped' = Head(objects) /\ objects' = Tail(objects)
          /\ runAt' = "load"
  /\ UNCHANGED <<now, timerVars, initialized, started, running, semaphore,
                 callerVars, ownerVars, mainVars, fires, crashed>>

\* Seeded fault: the callback is called without the test.
RunLoadUntested ==
  /\ runAt = "load" /\ runAt' = "call"
  /\ UNCHANGED <<now, timerVars, runnableVars, callerVars, ownerVars, mainVars,
                 popped, fires, crashed>>

\* if(timer->callback)
RunLoad ==
  /\ runAt = "load"
  /\ IF canceled[popped]
     THEN runAt' = "dec" /\ popped' = None
     ELSE runAt' = "call" /\ UNCHANGED popped
  /\ UNCHANGED <<now, timerVars, runnableVars, callerVars, ownerVars, mainVars,
                 fires, crashed>>

\* timer->callback(timer->arg, timer->id): the member may be loaded again, and
\* a cancel since RunLoad has then made it null.
RunCall ==
  /\ runAt = "call"
  /\ \/ /\ fires' = [fires EXCEPT ![popped] = @ + 1]
        /\ UNCHANGED crashed
     \/ /\ canceled[popped]
        /\ crashed' = TRUE
        /\ UNCHANGED fires
  /\ runAt' = "dec" /\ popped' = None
  /\ UNCHANGED <<now, timerVars, runnableVars, callerVars, ownerVars, mainVars>>

RunEnd ==
  /\ runAt = "end"
  /\ running' = FALSE
  /\ runAt' = "exit"
  /\ UNCHANGED <<now, timerVars, initialized, started, objects, semaphore,
                 callerVars, ownerVars, mainVars, popped, fires, crashed>>

-----------------------------------------------------------------------------
(* tsk_timer_manager_start and tsk_timer_manager_stop, with the runnable's  *)
(* start, stop, init and deinit inlined.                                    *)

StartThreads ==
  /\ ownerAt = "idle" /\ starts < MaxStarts
  /\ ~running /\ ~started /\ ~initialized
  /\ initialized' = TRUE /\ objects' = <<>> /\ semaphore' = 0
  /\ runAt' = "entry"
  /\ ownerAt' = "starting" /\ starts' = starts + 1
  /\ UNCHANGED <<now, timerVars, started, running, callerVars, stops, mainVars,
                 popped, fires, crashed>>

StartDone ==
  /\ ownerAt = "starting"
  /\ started' = TRUE
  /\ ownerAt' = "idle"
  /\ UNCHANGED <<now, timerVars, initialized, running, objects, semaphore,
                 callerVars, starts, stops, mainVars, runVars, crashed>>

\* The bound on calls and, when StopMayRaceStart is FALSE, the assumption that
\* the application stops the manager well after it started it.
MayStop ==
  /\ ownerAt = "idle" /\ stops < MaxStops
  /\ StopMayRaceStart \/ runAt \notin {"entry", "spawn", "begin"}

\* stop() that finds `running` false: clears the list and returns 0.
StopNotRunning ==
  /\ MayStop /\ ~running
  /\ timers' = <<>>
  /\ stops' = stops + 1
  /\ UNCHANGED <<now, created, timeout, canceled, sem, runnableVars, callerVars,
                 ownerAt, starts, mainVars, runVars, crashed>>

StopRunning ==
  /\ MayStop /\ running
  /\ running' = FALSE
  /\ ownerAt' = "post" /\ stops' = stops + 1
  /\ UNCHANGED <<now, timerVars, initialized, started, objects, semaphore,
                 callerVars, starts, mainVars, runVars, crashed>>

\* Seeded fault: run() is not woken.
StopPostLost ==
  /\ ownerAt = "post" /\ ownerAt' = "joinRun"
  /\ UNCHANGED <<now, timerVars, runnableVars, callerVars, starts, stops,
                 mainVars, runVars, crashed>>

StopPost ==
  /\ ownerAt = "post"
  /\ semaphore' = semaphore + 1
  /\ ownerAt' = "joinRun"
  /\ UNCHANGED <<now, timerVars, initialized, started, running, objects,
                 callerVars, starts, stops, mainVars, runVars, crashed>>

\* Seeded fault: stop does not go on to wake and join mainthread.
StopJoinRunOnly ==
  /\ ownerAt = "joinRun" /\ runAt = "exit"
  /\ initialized' = FALSE /\ started' = FALSE
  /\ objects' = <<>> /\ semaphore' = 0
  /\ ownerAt' = "clear"
  /\ UNCHANGED <<now, timerVars, running, callerVars, starts, stops, mainVars,
                 runVars, crashed>>

\* tsk_thread_join of run(), then tsk_runnable_deinit.
StopJoinRun ==
  /\ ownerAt = "joinRun" /\ runAt = "exit"
  /\ initialized' = FALSE /\ started' = FALSE
  /\ objects' = <<>> /\ semaphore' = 0
  /\ ownerAt' = "mainSem"
  /\ UNCHANGED <<now, timerVars, running, callerVars, starts, stops, mainVars,
                 runVars, crashed>>

\* Seeded fault: mainthread's semaphore is not incremented.
StopMainSemLost ==
  /\ ownerAt = "mainSem" /\ ownerAt' = "mainSignal"
  /\ UNCHANGED <<now, timerVars, runnableVars, callerVars, starts, stops,
                 mainVars, runVars, crashed>>

StopMainSem ==
  /\ ownerAt = "mainSem"
  /\ sem' = sem + 1
  /\ ownerAt' = "mainSignal"
  /\ UNCHANGED <<now, created, timeout, canceled, timers, runnableVars,
                 callerVars, starts, stops, mainVars, runVars, crashed>>

StopMainSignal ==
  /\ ownerAt = "mainSignal"
  /\ Signal
  /\ ownerAt' = "joinMain"
  /\ UNCHANGED <<now, timerVars, runnableVars, callerVars, starts, stops, curr,
                 runVars, crashed>>

StopJoinMain ==
  /\ ownerAt = "joinMain" /\ mainAt = "exit"
  /\ mainAt' = "none" /\ curr' = None /\ runAt' = "none"
  /\ ownerAt' = "clear"
  /\ UNCHANGED <<now, timerVars, runnableVars, callerVars, starts, stops, popped,
                 fires, crashed>>

StopClear ==
  /\ ownerAt = "clear"
  /\ timers' = <<>>
  /\ ownerAt' = "idle"
  /\ UNCHANGED <<now, created, timeout, canceled, sem, runnableVars, callerVars,
                 starts, stops, mainVars, runVars, crashed>>

-----------------------------------------------------------------------------
\* The clock.  One unit is long next to the few instructions between mainthread's
\* reading of the clock and its entry into the wait (bound: none elapses there).
Tick ==
  /\ now < MaxNow /\ mainAt # "arm"
  /\ now' = now + 1
  /\ UNCHANGED <<timerVars, runnableVars, callerVars, ownerVars, mainVars,
                 runVars, crashed>>

CallerStep(c) ==
  \/ \E d \in Delays : ScheduleCreate(c, d)
  \/ SchedulePush(c)
  \/ ScheduleSignal(c)
  \/ SchedulePost(c)
  \/ \E t \in TimerId : Cancel(c, t)

MainStep ==
  \/ MainWhile \/ MainDec \/ MainPeek \/ MainTest \/ MainEnqueue \/ MainPush
  \/ MainPost \/ MainRemove \/ MainArm \/ MainTimedOut

RunStep ==
  \/ RunEnter \/ RunSpawn \/ RunBegin \/ RunDec \/ RunPop \/ RunLoad \/ RunCall
  \/ RunEnd

StopStep ==
  \/ StopPost \/ StopJoinRun \/ StopMainSem \/ StopMainSignal \/ StopJoinMain
  \/ StopClear

OwnerStep == StartThreads \/ StartDone \/ StopNotRunning \/ StopRunning \/ StopStep

Next ==
  /\ ~crashed
  /\ \/ \E c \in Callers : CallerStep(c)
     \/ MainStep \/ MainSpuriousWake
     \/ RunStep
     \/ OwnerStep
     \/ Tick

Spec == Init /\ [][Next]_vars

\* The scheduler runs every thread that can run, and time passes (strong
\* fairness, for Tick is disabled for the instant mainthread needs to arm its
\* wait).  Nobody is obliged to schedule, to cancel, to start or to stop.
Fairness ==
  /\ WF_vars(~crashed /\ MainStep)
  /\ WF_vars(~crashed /\ RunStep)
  /\ WF_vars(~crashed /\ (StartDone \/ StopStep))
  /\ SF_vars(~crashed /\ Tick)
  /\ \A c \in Callers :
       WF_vars(~crashed /\ (SchedulePush(c) \/ ScheduleSignal(c) \/ SchedulePost(c)))

FairSpec == Spec /\ Fairness

-----------------------------------------------------------------------------
(* What must hold.                                                          *)

FlagsOK ==
  /\ canceled \in [TimerId -> BOOLEAN]
  /\ initialized \in BOOLEAN /\ started \in BOOLEAN /\ running \in BOOLEAN
  /\ crashed \in BOOLEAN

TypeOK ==
  /\ now \in 0..MaxNow /\ created \in 0..MaxTimers
  /\ timeout \in [TimerId -> 0..MaxNow]
  /\ timers \in Seq(TimerId) /\ sem \in Nat
  /\ objects \in Seq(TimerId) /\ semaphore \in Nat
  /\ callerAt \in [Callers -> CallerState]
  /\ callerArg \in [Callers -> TimerId \cup {None}]
  /\ ownerAt \in OwnerState /\ starts \in 0..MaxStarts /\ stops \in 0..MaxStops
  /\ mainAt \in MainState /\ curr \in TimerId \cup {None}
  /\ runAt \in RunState /\ popped \in TimerId \cup {None}
  /\ fires \in [TimerId -> Nat]
  /\ FlagsOK

\* Permits of manager->sem that are on their way: callers that pushed a timer
\* and have not incremented yet, the permit mainthread took and works on, and
\* the one the owner gives back for a mainthread that left with its permit.
Incoming == {c \in Callers : callerAt[c] \in {"signal", "post"}}
MainHolds == mainAt \in {"peek", "test", "enqueue", "push", "post", "remove",
                         "arm", "timedwait"}
MainMayHaveTaken ==
  mainAt = "exit" /\ ownerAt \in {"post", "joinRun", "mainSem"}
Permits == sem + Cardinality(Incoming)
             + (IF MainHolds \/ MainMayHaveTaken THEN 1 ELSE 0)

\* No timer is stranded: each timer in the list has a permit of the semaphore
\* that brings mainthread back to the list (schedule increments only after
\* it pushed, mainthread may loop on one permit, stop adds and clears).
NoStrandedTimer == Len(timers) <= Permits

\* The inductive strengthening of NoStrandedTimer.
Stopping == {"post", "joinRun", "mainSem", "mainSignal", "joinMain"}

\* Which threads exist and run, as a function of where the owner is.
ThreadInv ==
  /\ mainAt # "none" => runAt \notin {"none", "entry", "spawn"}
  /\ ownerAt = "clear" => ~initialized
  /\ ownerAt = "starting" => initialized
  /\ ownerAt = "idle" /\ ~started => ~initialized
  /\ ownerAt \in {"idle", "clear"} /\ ~initialized => runAt = "none"
  /\ ownerAt \in {"mainSem", "mainSignal", "joinMain"} =>
       runAt = "exit" /\ ~initialized
  /\ runAt \in {"end", "exit"} => ownerAt \in Stopping
  /\ runAt = "exit" => ~running
  /\ ~running /\ runAt \notin {"none", "entry"} => ownerAt \in Stopping

\* The timer mainthread works on stays in the list until it removes it; a
\* caller about to push and run() with a popped item have a timer.
CurrInv ==
  /\ \/ mainAt \in {"enqueue", "push", "post", "remove", "arm", "timedwait"}
     \/ mainAt = "test" /\ curr # None
     => curr # None /\ \E i \in DOMAIN timers : timers[i] = curr
  /\ \A c \in Callers : callerAt[c] = "push" => callerArg[c] # None
  /\ runAt \in {"load", "call"} => popped # None

\* A permit to spare when mainthread took one for an empty list, and one once
\* stop has given its own.
Spare == (IF mainAt = "test" /\ curr = None THEN 1 ELSE 0)
           + (IF ownerAt \in {"mainSignal", "joinMain"} /\ mainAt # "exit" THEN 1 ELSE 0)
PermitInv == Len(timers) + Spare <= Permits

TimerInv == TypeOK /\ ThreadInv /\ CurrInv /\ PermitInv

\* The queue between mainthread and run() strands nothing either: as long as
\* run() is in its loop, each queued timer has a permit of the runnable.
NoStrandedObject ==
  initialized /\ runAt \notin {"end", "exit", "none"} =>
    Len(objects) <= semaphore + (IF mainAt = "post" THEN 1 ELSE 0)
                              + (IF runAt = "pop" THEN 1 ELSE 0)

\* Mainthread waits on the head only, so the list must stay in due order.
SortedByTimeout ==
  \A i, j \in DOMAIN timers : i < j => timeout[timers[i]] <= timeout[timers[j]]

\* When stop has returned and the runnable is not started any more, neither
\* thread exists: no callback can run on data the application now frees.
StopQuiesces ==
  ownerAt = "idle" /\ ~started => runAt = "none" /\ mainAt = "none"

\* The only ways to end the process: a cancel that slipped between the test
\* and the call of a callback, or a stop that freed the queue under mainthread.
CrashOnlyByLateCancelOrStop ==
  crashed => stops > 0 \/ \E t \in TimerId : canceled[t] /\ fires[t] = 0

Phase(t) ==
  IF t > created THEN "free"
  ELSE IF fires[t] > 0 THEN (IF fires[t] = 1 THEN "fired" ELSE "firedAgain")
  ELSE IF runAt = "call" /\ popped = t THEN "raised"
  ELSE IF canceled[t] THEN "void"
  ELSE IF popped = t \/ t \in ToSet(objects) THEN "raised"
  ELSE IF curr = t /\ mainAt \in {"post", "remove"} THEN "void"
  ELSE IF t \in ToSet(timers) THEN "armed"
  ELSE IF \E c \in Callers : callerArg[c] = t /\ callerAt[c] = "push" THEN "armed"
  ELSE "void"

\* The threads, the list and the semaphores together implement the timer
\* service: at most one call, never early, never after a cancel that reached
\* the timer before run() loaded its callback, and lost only by a stop.
Service == INSTANCE TimerService WITH
             Timer <- TimerId, phase <- [t \in TimerId |-> Phase(t)]
ImplementsService == Service!Spec

\* While nobody stops the manager every listed timer is dealt with: fired, or
\* found canceled (or the process is gone).
EveryTimerHandled ==
  \A t \in TimerId :
    t \in ToSet(timers) ~> fires[t] > 0 \/ canceled[t] \/ stops > 0 \/ crashed

\* Every stop returns although its signal to the waiting mainthread can be lost.
StopReturns == ownerAt = "post" ~> ownerAt = "idle" \/ crashed
=============================================================================
