---------------------------- MODULE SipStackProofs ----------------------------
(***************************************************************************)
(* What the life of a SIP stack never does, for every number of threads,   *)
(* sessions, calls and events.                                             *)
(***************************************************************************)
EXTENDS SipStack, SequencesExt, SequenceTheorems, FiniteSetTheorems, TLAPS

(***************************************************************************)
(* The events.  Unless one was pushed at a wrong moment, the events owed   *)
(* are those in the queue, and the thread has left its loop only when      *)
(* there was none; it takes an event it has looked at.                     *)
(***************************************************************************)

Event == {"starting", "started", "failed", "stopping", "stopped", "message"}
RunnableType ==
  [initialized : BOOLEAN, started : BOOLEAN, running : BOOLEAN, sem : Nat,
   thread : {"none", "new", "wait", "look", "take"}, alone : BOOLEAN]

EventsInv ==
  /\ runnable \in RunnableType /\ queue \in Seq(Event) /\ owed \in Int
  /\ Thread("take") => queue # <<>>
  /\ races \cap {"after", "lost"} = {} =>
       /\ owed = Len(queue)
       /\ Thread("none") => queue = <<>>
       /\ Thread("take") /\ runnable.alone => Len(queue) = 1

\* A step that leaves the queue and its thread alone, and forgets no race.
LEMMA QuietKeepsEvents ==
  ASSUME EventsInv, UNCHANGED <<runnable, queue, owed>>, races \subseteq races'
  PROVE  EventsInv'
<1> USE DEF EventsInv, Thread
<1>1. races' \cap {"after", "lost"} = {} => races \cap {"after", "lost"} = {}
  OBVIOUS
<1>2. QED
  BY <1>1

\* A posted semaphore changes nothing the invariant looks at.
LEMMA PostKeepsType ==
  ASSUME runnable \in RunnableType
  PROVE  LET r == [runnable EXCEPT !.sem = @ + 1] IN
           /\ r \in RunnableType
           /\ r.thread = runnable.thread /\ r.alone = runnable.alone
BY SMT DEF RunnableType

\* An event that is pushed is owed; when the thread does not see it, because
\* it has left its loop or is taking the last one, the race is recorded.
LEMMA PushKeepsEvents ==
  ASSUME EventsInv, NEW event \in Event, Pushed(event), runnable' \in RunnableType,
         runnable'.thread = runnable.thread, runnable'.alone = runnable.alone
  PROVE  EventsInv'
<1>1. /\ queue' \in Seq(Event) /\ Len(queue') = Len(queue) + 1 /\ queue' # <<>>
  <2>1. queue \in Seq(Event) /\ queue' = Append(queue, event)
    BY DEF EventsInv, Pushed
  <2>2. QED
    BY <2>1, AppendProperties, LenProperties, EmptySeq
<1>2. owed' \in Int
  BY DEF EventsInv, Pushed
<1>3. ASSUME races' \cap {"after", "lost"} = {}
      PROVE  /\ races \cap {"after", "lost"} = {}
             /\ runnable.thread # "none"
             /\ ~(runnable.thread = "take" /\ runnable.alone)
  BY <1>3 DEF Pushed
<1>4. ASSUME races' \cap {"after", "lost"} = {}
      PROVE  owed' = Len(queue')
  BY <1>1, <1>3, <1>4, LenProperties DEF EventsInv, Pushed
<1>5. QED
  BY <1>1, <1>2, <1>3, <1>4 DEF EventsInv, Thread

LEMMA EnqueuedKeepsEvents ==
  ASSUME EventsInv, NEW event \in Event, Enqueued(event)
  PROVE  EventsInv'
<1>1. CASE runnable.initialized
  <2>1. Pushed(event) /\ runnable' = [runnable EXCEPT !.sem = @ + 1]
    BY <1>1 DEF Enqueued
  <2>2. /\ runnable' \in RunnableType
        /\ runnable'.thread = runnable.thread /\ runnable'.alone = runnable.alone
    BY <2>1, PostKeepsType DEF EventsInv
  <2>3. QED
    BY <2>1, <2>2, PushKeepsEvents
<1>2. CASE ~runnable.initialized
  BY <1>2, QuietKeepsEvents DEF Enqueued
<1>3. QED
  BY <1>1, <1>2

-----------------------------------------------------------------------------
(* The thread of the events and the thread that signals one.               *)

LEMMA EventStepsKeepEvents ==
  ASSUME EventsInv, Events
  PROVE  EventsInv'
<1> SUFFICES ASSUME EventsInv, Events PROVE EventsInv'
  OBVIOUS
<1>t. runnable \in RunnableType /\ queue \in Seq(Event) /\ owed \in Int
  BY DEF EventsInv
<1>1. CASE SignalTest
  BY <1>1, QuietKeepsEvents DEF SignalTest
<1>2. CASE SignalPush
  <2>1. CASE runnable.initialized
    BY <1>t, <1>2, <2>1, PushKeepsEvents DEF SignalPush, Event
  <2>2. CASE ~runnable.initialized
    BY <1>2, <2>2, QuietKeepsEvents DEF SignalPush, Happens
  <2>3. QED
    BY <2>1, <2>2
<1>3. CASE SignalPost
  <2>1. /\ runnable' \in RunnableType
        /\ runnable'.thread = runnable.thread /\ runnable'.alone = runnable.alone
    BY <1>t, <1>3, PostKeepsType DEF SignalPost
  <2>2. UNCHANGED <<queue, owed, races>>
    BY <1>3 DEF SignalPost
  <2>3. QED
    BY <2>1, <2>2 DEF EventsInv, Thread
<1>4. CASE RunBegins
  <2>1. runnable' \in RunnableType /\ runnable'.thread = "wait"
    <3> DEFINE up == TRUE
    <3>1. up \in BOOLEAN /\ runnable' = [runnable EXCEPT !.thread = "wait", !.running = up]
      BY <1>4 DEF RunBegins
    <3> HIDE DEF up
    <3>2. QED
      BY <1>t, <3>1 DEF RunnableType
  <2>2. UNCHANGED <<queue, owed, races>>
    BY <1>4 DEF RunBegins
  <2>3. QED
    BY <2>1, <2>2 DEF EventsInv, Thread
<1>5. CASE RunTakesPermit
  <2>1. /\ runnable' \in RunnableType
        /\ runnable'.thread \in {"none", "look"}
        /\ runnable'.thread = "none" => queue = <<>>
    <3> DEFINE step == IF ~runnable.running /\ queue = <<>> THEN "none" ELSE "look"
    <3>1. step \in {"none", "look"} /\ (step = "none" => queue = <<>>)
      OBVIOUS
    <3> DEFINE left == runnable.sem - 1
    <3>2. runnable' = [runnable EXCEPT !.sem = left, !.thread = step] /\ runnable.sem > 0
      BY <1>5 DEF RunTakesPermit
    <3>3. left \in Nat
      BY <1>t, <3>2 DEF RunnableType
    <3> HIDE DEF step, left
    <3>4. runnable' \in RunnableType /\ runnable'.thread = step
      BY <1>t, <3>1, <3>2, <3>3 DEF RunnableType
    <3>5. QED
      BY <3>1, <3>4
  <2>2. UNCHANGED <<queue, owed, races>>
    BY <1>5 DEF RunTakesPermit
  <2>3. QED
    BY <2>1, <2>2 DEF EventsInv, Thread
<1>6. CASE RunLooks
  <2>1. /\ runnable' \in RunnableType
        /\ runnable'.thread \in {"wait", "take"}
        /\ runnable'.thread = "take" => queue # <<>>
        /\ runnable'.alone => Len(queue) = 1
    <3> DEFINE step == IF queue = <<>> THEN "wait" ELSE "take"
               only == Len(queue) = 1
    <3>1. step \in {"wait", "take"} /\ (step = "take" => queue # <<>>) /\ only \in BOOLEAN
      OBVIOUS
    <3>2. runnable' = [runnable EXCEPT !.thread = step, !.alone = only]
      BY <1>6 DEF RunLooks
    <3>3. only => Len(queue) = 1
      OBVIOUS
    <3> HIDE DEF step, only
    <3>4. /\ runnable' \in RunnableType /\ runnable'.thread = step
          /\ runnable'.alone = only
      BY <1>t, <3>1, <3>2 DEF RunnableType
    <3>5. QED
      BY <3>1, <3>3, <3>4
  <2>2. UNCHANGED <<queue, owed, races>>
    BY <1>6 DEF RunLooks
  <2>3. QED
    BY <2>1, <2>2 DEF EventsInv, Thread
<1>7. CASE RunTakes
  <2>1. runnable' \in RunnableType /\ runnable'.thread = "wait"
    BY <1>t, <1>7, SMT DEF RunTakes, ThreadGoes, RunnableType
  <2>2. queue # <<>> /\ runnable.thread = "take"
    BY <1>7 DEF EventsInv, RunTakes, Thread
  <2>3. /\ queue' \in Seq(Event)
        /\ Len(queue') = IF runnable.alone THEN 0 ELSE Len(queue) - 1
    <3>1. Tail(queue) \in Seq(Event) /\ Len(Tail(queue)) = Len(queue) - 1
      BY <1>t, <2>2, HeadTailProperties
    <3>2. queue' = IF runnable.alone THEN <<>> ELSE Tail(queue)
      BY <1>7 DEF RunTakes
    <3>3. <<>> \in Seq(Event) /\ Len(<<>>) = 0
      OBVIOUS
    <3>4. QED
      BY <3>1, <3>2, <3>3
  <2>4. UNCHANGED races /\ owed' = owed - 1
    BY <1>7 DEF RunTakes
  <2>5. ASSUME races \cap {"after", "lost"} = {}
        PROVE  owed = Len(queue) /\ (runnable.alone => Len(queue) = 1)
    BY <2>2, <2>5 DEF EventsInv, Thread
  <2>6. ASSUME races \cap {"after", "lost"} = {}
        PROVE  owed' = Len(queue')
    <3>1. CASE runnable.alone
      <4>1. Len(queue) = 1 /\ Len(queue') = 0
        BY <2>3, <2>5, <2>6, <3>1
      <4>2. QED
        BY <4>1, <2>4, <2>5, <2>6
    <3>2. CASE ~runnable.alone
      <4>1. Len(queue') = Len(queue) - 1
        BY <2>3, <3>2
      <4>2. QED
        BY <4>1, <2>4, <2>5, <2>6
    <3>3. QED
      BY <3>1, <3>2
  <2>7. owed' \in Int
    BY <1>t, <2>4
  <2>8. QED
    BY <2>1, <2>3, <2>4, <2>6, <2>7 DEF EventsInv, Thread
<1>8. QED
  BY <1>1, <1>2, <1>3, <1>4, <1>5, <1>6, <1>7 DEF Events

-----------------------------------------------------------------------------
(* The calls.                                                              *)

LEMMA TimerStepsKeepEvents ==
  ASSUME EventsInv, NEW th \in Callers, GlobalTimers(th)
  PROVE  EventsInv'
<1> USE DEF eventVars, Happens
<1>1. UNCHANGED <<runnable, queue, owed>> /\ races \subseteq races'
  <2>1. CASE GlobalStartTest(th)
    BY <2>1 DEF GlobalStartTest
  <2>2. CASE GlobalStartManager(th)
    BY <2>2 DEF GlobalStartManager
  <2>3. CASE GlobalStartCount(th)
    BY <2>3 DEF GlobalStartCount
  <2>4. CASE GlobalStopTest(th)
    BY <2>4 DEF GlobalStopTest
  <2>5. CASE GlobalStopLast(th)
    BY <2>5 DEF GlobalStopLast
  <2>6. CASE GlobalStopManager(th) \/ GlobalStopCount(th)
    BY <2>6 DEF GlobalStopManager, GlobalStopCount
  <2>7. CASE GlobalStopJoin(th)
    BY <2>7 DEF GlobalStopJoin
  <2>8. QED
    BY <2>1, <2>2, <2>3, <2>4, <2>5, <2>6, <2>7 DEF GlobalTimers
<1>2. QED
  BY <1>1, QuietKeepsEvents

LEMMA RunnableStopKeepsEvents ==
  ASSUME EventsInv, NEW th \in Callers, RunnableStop(th)
  PROVE  EventsInv'
<1>1. CASE RunnableStopTest(th) \/ RunnableStopSleeps(th)
  <2>1. UNCHANGED <<runnable, queue, owed>> /\ races \subseteq races'
    BY <1>1 DEF RunnableStopTest, RunnableStopSleeps, eventVars, Happens
  <2>2. QED
    BY <2>1, QuietKeepsEvents
<1>2. CASE RunnableStopTells(th)
  <2>1. /\ runnable' \in RunnableType
        /\ runnable'.thread = runnable.thread /\ runnable'.alone = runnable.alone
    <3> DEFINE down == FALSE
               more == runnable.sem + 1
    <3>1. runnable' = [runnable EXCEPT !.running = down, !.sem = more]
      BY <1>2 DEF RunnableStopTells
    <3>2. runnable \in RunnableType /\ down \in BOOLEAN /\ more \in Nat
      BY DEF EventsInv, RunnableType
    <3> HIDE DEF down, more
    <3>3. QED
      BY <3>1, <3>2 DEF RunnableType
  <2>2. UNCHANGED <<queue, owed, races>>
    BY <1>2 DEF RunnableStopTells
  <2>3. QED
    BY <2>1, <2>2 DEF EventsInv, Thread
<1>3. CASE RunnableStopJoins(th)
  <2>1. runnable' = Dead /\ queue' = <<>> /\ owed' = 0
    BY <1>3 DEF RunnableStopJoins
  <2>2. Dead \in RunnableType /\ Dead.thread = "none"
    BY DEF Dead, RunnableType
  <2>3. QED
    BY <2>1, <2>2 DEF EventsInv, Thread
<1>4. QED
  BY <1>1, <1>2, <1>3 DEF RunnableStop

LEMMA StackStepsKeepEvents ==
  ASSUME EventsInv, NEW th \in Callers, Stack(th)
  PROVE  EventsInv'
<1>1. CASE StartLock(th) \/ StartTransports(th)
  <2>1. UNCHANGED <<runnable, queue, owed>> /\ races \subseteq races'
    BY <1>1 DEF StartLock, StartTransports, eventVars, Happens
  <2>2. QED
    BY <2>1, QuietKeepsEvents
<1>2. CASE StartEvents(th)
  <2>1. CASE runnable.running \/ runnable.initialized
    BY <1>2, <2>1, QuietKeepsEvents DEF StartEvents
  <2>2. CASE ~(runnable.running \/ runnable.initialized)
    <3>1. /\ runnable' = [Dead EXCEPT !.initialized = TRUE, !.started = TRUE,
                                      !.thread = "new", !.sem = 1]
          /\ queue' = <<"starting">> /\ owed' = 1
      BY <1>2, <2>2 DEF StartEvents
    <3>2. runnable' \in RunnableType /\ runnable'.thread = "new"
      <4> DEFINE up == TRUE
      <4>1. Dead \in RunnableType /\ up \in BOOLEAN
        BY DEF Dead, RunnableType
      <4>2. runnable' = [Dead EXCEPT !.initialized = up, !.started = up,
                                     !.thread = "new", !.sem = 1]
        BY <3>1
      <4> HIDE DEF up
      <4>3. QED
        BY <4>1, <4>2 DEF RunnableType
    <3>3. queue' \in Seq(Event) /\ Len(queue') = 1
      BY <3>1 DEF Event
    <3>4. QED
      BY <3>1, <3>2, <3>3 DEF EventsInv, Thread
  <2>3. QED
    BY <2>1, <2>2
<1>3. CASE StartDone(th)
  BY <1>3, EnqueuedKeepsEvents DEF StartDone, Event
<1>4. CASE StartFails(th)
  BY <1>4, EnqueuedKeepsEvents DEF StartFails, Event
<1>5. CASE CloseTransports(th)
  <2>1. Enqueued("stopped") \/ (UNCHANGED <<runnable, queue, owed>> /\ races \subseteq races')
    BY <1>5 DEF CloseTransports, Happens
  <2>2. QED
    BY <2>1, EnqueuedKeepsEvents, QuietKeepsEvents DEF Event
<1>6. CASE StopLock(th)
  <2>1. Enqueued("stopping") \/ (UNCHANGED <<runnable, queue, owed>> /\ races \subseteq races')
    BY <1>6 DEF StopLock
  <2>2. QED
    BY <2>1, EnqueuedKeepsEvents, QuietKeepsEvents DEF Event
<1>7. QED
  BY <1>1, <1>2, <1>3, <1>4, <1>5, <1>6 DEF Stack

LEMMA CallsKeepEvents ==
  ASSUME EventsInv, NEW th \in Callers, Call(th)
  PROVE  EventsInv'
<1>1. UNCHANGED <<runnable, queue, owed, races>>
  BY DEF Call, SessionStart, SessionStop, StartTest, StopCalled, eventVars
<1>2. QED
  BY <1>1, QuietKeepsEvents

LEMMA StepKeepsEvents == EventsInv /\ [Next]_vars => EventsInv'
<1> SUFFICES ASSUME EventsInv, [Next]_vars PROVE EventsInv'
  OBVIOUS
<1>1. CASE ManagerRuns
  <2>1. UNCHANGED <<runnable, queue, owed, races>>
    BY <1>1 DEF ManagerRuns, eventVars
  <2>2. QED
    BY <2>1, QuietKeepsEvents
<1>2. CASE Events
  BY <1>2, EventStepsKeepEvents
<1>3. ASSUME NEW th \in Callers, Call(th) \/ Step(th)
      PROVE  EventsInv'
  BY <1>3, CallsKeepEvents, TimerStepsKeepEvents, RunnableStopKeepsEvents,
     StackStepsKeepEvents DEF Step
<1>4. CASE UNCHANGED vars
  BY <1>4, QuietKeepsEvents DEF vars, eventVars
<1>5. QED
  BY <1>1, <1>2, <1>3, <1>4 DEF Next

\* tsip_stack_stop promises that "all events should be delivered to the user
\* before the stack stop" (tsip.c:520): with any number of threads that start
\* and stop the stack while events come, the thread of the events leaves its
\* loop owing none, unless one was pushed after that or into the take of the
\* last one of the queue, which is done without its lock.
THEOREM DeliveredBeforeTheStop == Spec => []EventsAreDelivered
<1>1. Init => EventsInv
  BY DEF Init, EventsInv, RunnableType, Dead, Thread
<1>2. EventsInv => EventsAreDelivered
  <2> SUFFICES ASSUME EventsInv, Thread("none"), owed # 0,
                      races \cap {"after", "lost"} = {}
               PROVE  FALSE
    BY DEF EventsAreDelivered
  <2>1. owed = Len(queue) /\ queue = <<>>
    BY DEF EventsInv
  <2>2. QED
    BY <2>1
<1>3. QED
  BY <1>1, StepKeepsEvents, <1>2, PTL DEF Spec

-----------------------------------------------------------------------------
(***************************************************************************)
(* Where a thread is.  An application that is past the lock has it, so two *)
(* threads never act for the same user of the timer manager.               *)
(***************************************************************************)

Leaving == {"stop timers", "last user?", "stop manager", "join manager", "count out"}
SessionSteps == {"idle", "start timers", "start manager", "count in", "playing"} \cup Leaving
AppSteps ==
  {"idle", "lock", "start timers", "start manager", "count in", "start events",
   "open transports", "all is ok", "signal failure", "close transports", "stop events",
   "sleep", "tell thread", "join thread"} \cup Leaving
StepsOf(th) == IF th \in Sessions THEN SessionSteps ELSE AppSteps
CallType == {"none", "session", "start", "failed", "stop"}

StepsInv ==
  /\ at \in [Callers -> SessionSteps \cup AppSteps]
  /\ \A th \in Callers : at[th] \in StepsOf(th)
  /\ call \in [Callers -> CallType]
  /\ \A th \in Callers : call[th] = "none" <=> at[th] = "idle"

LockInv ==
  /\ stack \in [started : BOOLEAN, open : BOOLEAN, owner : Apps \cup {"nobody"}]
  /\ \A th \in Apps : at[th] \notin {"idle", "lock"} => stack.owner = th

\* A thread that moves keeps to its steps.
LEMMA MoveKeepsSteps ==
  ASSUME StepsInv, NEW th \in Callers, NEW step \in StepsOf(th), NEW what \in CallType,
         what = "none" <=> step = "idle",
         at' = [at EXCEPT ![th] = step], call' = [call EXCEPT ![th] = what]
  PROVE  StepsInv'
<1>1. step \in SessionSteps \cup AppSteps
  BY DEF StepsOf
<1>2. \A o \in Callers : at'[o] = (IF o = th THEN step ELSE at[o])
                      /\ call'[o] = (IF o = th THEN what ELSE call[o])
  BY DEF StepsInv
<1>3. /\ at' \in [Callers -> SessionSteps \cup AppSteps]
      /\ call' \in [Callers -> CallType]
  BY <1>1 DEF StepsInv
<1>4. \A o \in Callers : at'[o] \in StepsOf(o)
  BY <1>2 DEF StepsInv
<1>5. \A o \in Callers : call'[o] = "none" <=> at'[o] = "idle"
  BY <1>2 DEF StepsInv
<1>6. QED
  BY <1>3, <1>4, <1>5 DEF StepsInv, StepsOf

\* ... within its call ...
LEMMA GoesKeepsSteps ==
  ASSUME StepsInv, NEW th \in Callers, NEW step \in StepsOf(th),
         step # "idle", at[th] # "idle", Goes(th, step)
  PROVE  StepsInv' /\ at' = [at EXCEPT ![th] = step]
<1>1. call[th] \in CallType /\ call[th] # "none" /\ call' = [call EXCEPT ![th] = call[th]]
  BY DEF StepsInv, Goes
<1>2. QED
  BY <1>1, MoveKeepsSteps DEF Goes

\* ... and between two.
LEMMA BecomesKeepsSteps ==
  ASSUME StepsInv, NEW th \in Callers, NEW step \in StepsOf(th), NEW what \in CallType,
         what = "none" <=> step = "idle", Becomes(th, what, step)
  PROVE  StepsInv' /\ at' = [at EXCEPT ![th] = step]
BY MoveKeepsSteps DEF Becomes

LEMMA ReturnsKeepsSteps ==
  ASSUME StepsInv, NEW th \in Callers, Returns(th)
  PROVE  StepsInv' /\ at' = [at EXCEPT ![th] = "idle"]
<1>1. "idle" \in StepsOf(th) /\ "none" \in CallType
  BY DEF StepsOf, SessionSteps, AppSteps, CallType
<1>2. QED
  BY <1>1, BecomesKeepsSteps DEF Returns

\* Who is at a step that no session has is an application.
LEMMA AppsAlone ==
  ASSUME StepsInv, NEW th \in Callers, at[th] \notin SessionSteps
  PROVE  th \in Apps /\ th \notin Sessions
BY DEF StepsInv, StepsOf, Callers

\* Two threads that act for the same user are the same.
LEMMA SameUser ==
  ASSUME StepsInv, LockInv, NEW a \in Callers, NEW b \in Callers, User(a) = User(b),
         at[a] \notin {"idle", "lock"}, at[b] \notin {"idle", "lock"}
  PROVE  a = b
<1>1. a \in Sessions <=> b \in Sessions
  BY SipStackAssumption DEF User, Callers
<1>2. CASE a \in Sessions
  BY <1>1, <1>2 DEF User
<1>3. CASE a \notin Sessions
  BY <1>1, <1>3 DEF LockInv, Callers
<1>4. QED
  BY <1>2, <1>3

-----------------------------------------------------------------------------
(***************************************************************************)
(* The count and the manager.                                              *)
(***************************************************************************)

CountInv ==
  /\ count \in Nat /\ IsFiniteSet(users) /\ Cardinality(users) <= count
  /\ \A th \in Callers : at[th] \in Leaving \cup {"playing"} => User(th) \in users

(* Who stops the manager is its last user, unless a start has overtaken it. *)
LastInv ==
  \A th \in Callers : at[th] \in Stopping => "overtaken" \in races \/ users = {User(th)}

(* A manager that was started runs, or will, or is being stopped.           *)
Up == manager.running \/ manager.thread = "new"
Joined == \E th \in Callers : at[th] = "join manager"

ManagerInv ==
  /\ manager \in [running : BOOLEAN, started : BOOLEAN, thread : {"none", "new", "going"}]
  /\ manager.started => Up \/ Joined
  /\ \A th \in Callers : at[th] = "count in" => Up \/ "overtaken" \in races \/ Joined
  /\ \A u \in users : Leaves(u) \/ Up \/ "overtaken" \in races

ThreadInv == StepsInv /\ LockInv
ServeInv == CountInv /\ LastInv /\ ManagerInv
StackInv == ThreadInv /\ ServeInv

\* A thread that moves outside of the manager disturbs nothing of it, if it
\* starts to leave only where it is a user.
LEMMA MoveKeepsServing ==
  ASSUME StackInv, NEW th \in Callers, NEW step, at' = [at EXCEPT ![th] = step],
         at[th] \notin Leaving,
         step \notin {"playing", "count in"} \cup (Leaving \ {"stop timers"}),
         step = "stop timers" => User(th) \in users,
         UNCHANGED timerVars, races \subseteq races'
  PROVE  ServeInv'
<1> USE DEF StackInv, ThreadInv, ServeInv
<1>1. /\ UNCHANGED <<count, manager, users>> /\ (Up' <=> Up)
      /\ "overtaken" \in races => "overtaken" \in races'
  BY DEF timerVars, Up
<1>2. \A o \in Callers : at'[o] = IF o = th THEN step ELSE at[o]
  BY DEF StepsInv
<1>3. CountInv'
  <2>1. ASSUME NEW o \in Callers, at'[o] \in Leaving \cup {"playing"}
        PROVE  User(o) \in users
    BY <1>2, <2>1 DEF CountInv
  <2>2. QED
    BY <1>1, <2>1 DEF CountInv, User
<1>4. LastInv'
  <2>1. ASSUME NEW o \in Callers, at'[o] \in Stopping
        PROVE  o # th /\ at[o] \in Stopping
    BY <1>2, <2>1 DEF Stopping, Leaving
  <2>2. QED
    BY <1>1, <2>1 DEF LastInv, User
<1>5. ManagerInv'
  <2>1. Joined => Joined'
    BY <1>2 DEF Joined, Leaving
  <2>2. ASSUME NEW u, Leaves(u)
        PROVE  Leaves(u)'
    BY <1>2, <2>2 DEF Leaves, User, Leaving, Stopping
  <2>3. ASSUME NEW o \in Callers, at'[o] = "count in"
        PROVE  at[o] = "count in"
    BY <1>2, <2>3
  <2>4. QED
    BY <1>1, <2>1, <2>2, <2>3 DEF ManagerInv
<1>6. QED
  BY <1>3, <1>4, <1>5

-----------------------------------------------------------------------------
(* The steps of the threads keep to their order and to the lock.           *)

\* The stack's flags, as far as they matter here, are flags.
LEMMA FlagsKeepType ==
  ASSUME LockInv, NEW s \in BOOLEAN, NEW o \in BOOLEAN, NEW owner \in Apps \cup {"nobody"}
  PROVE  [stack EXCEPT !.started = s, !.open = o, !.owner = owner]
           \in [started : BOOLEAN, open : BOOLEAN, owner : Apps \cup {"nobody"}]
BY DEF LockInv

\* Who has the lock, or does not come to it, moves without another noticing.
LEMMA MoveKeepsLock ==
  ASSUME ThreadInv, NEW th \in Callers, NEW step, at' = [at EXCEPT ![th] = step],
         \/ th \in Sessions \/ step \in {"idle", "lock"} \/ at[th] \notin {"idle", "lock"},
         UNCHANGED stack
  PROVE  LockInv'
<1>1. \A o \in Callers : at'[o] = IF o = th THEN step ELSE at[o]
  BY DEF ThreadInv, StepsInv
<1>2. ASSUME NEW o \in Apps, at'[o] \notin {"idle", "lock"}
      PROVE  stack.owner = o
  <2>1. at[o] \notin {"idle", "lock"}
    BY <1>1, <1>2, SipStackAssumption DEF Callers
  <2>2. QED
    BY <2>1 DEF ThreadInv, LockInv
<1>3. QED
  BY <1>2 DEF ThreadInv, LockInv

\* Who gets the free lock is alone past it ...
LEMMA LockingKeepsLock ==
  ASSUME ThreadInv, NEW th \in Apps, NEW step, at' = [at EXCEPT ![th] = step],
         stack.owner = "nobody", stack' = [stack EXCEPT !.owner = th]
  PROVE  LockInv'
<1>1. /\ stack' \in [started : BOOLEAN, open : BOOLEAN, owner : Apps \cup {"nobody"}]
      /\ stack'.owner = th
  BY DEF ThreadInv, LockInv
<1>2. \A o \in Apps : at[o] \in {"idle", "lock"}
  BY SipStackAssumption DEF ThreadInv, LockInv, Callers
<1>3. \A o \in Callers : at'[o] = IF o = th THEN step ELSE at[o]
  BY DEF ThreadInv, StepsInv
<1>4. QED
  BY <1>1, <1>2, <1>3 DEF LockInv, Callers

\* ... and who has it may open, close and leave the stack.
LEMMA OwnerKeepsLock ==
  ASSUME ThreadInv, NEW th \in Apps, at[th] \notin {"idle", "lock"},
         NEW step, at' = [at EXCEPT ![th] = step],
         NEW s \in BOOLEAN, NEW o \in BOOLEAN, NEW owner \in {th, "nobody"},
         stack' = [stack EXCEPT !.started = s, !.open = o, !.owner = owner],
         owner = "nobody" => step = "idle"
  PROVE  LockInv'
<1>1. stack' \in [started : BOOLEAN, open : BOOLEAN, owner : Apps \cup {"nobody"}]
  <2>1. LockInv /\ owner \in Apps \cup {"nobody"}
    BY DEF ThreadInv
  <2>2. [stack EXCEPT !.started = s, !.open = o, !.owner = owner]
          \in [started : BOOLEAN, open : BOOLEAN, owner : Apps \cup {"nobody"}]
    BY <2>1, FlagsKeepType
  <2> QED BY <2>2
<1>2. stack'.owner = owner
  BY DEF ThreadInv, LockInv
<1>3. \A a \in Apps : a # th => at[a] \in {"idle", "lock"}
  BY DEF ThreadInv, LockInv
<1>4. \A a \in Callers : at'[a] = IF a = th THEN step ELSE at[a]
  BY DEF ThreadInv, StepsInv
<1>5. QED
  BY <1>1, <1>2, <1>3, <1>4 DEF LockInv, Callers

-----------------------------------------------------------------------------
(* What happens outside of the timer manager.                              *)

LEMMA QuietKeepsServing ==
  ASSUME StackInv, UNCHANGED <<call, at, timerVars, stack>>, races \subseteq races'
  PROVE  StackInv'
<1>1. ThreadInv'
  BY DEF StackInv, ThreadInv, StepsInv, LockInv, StepsOf
<1>2. /\ UNCHANGED <<at, count, manager, users>>
      /\ "overtaken" \in races => "overtaken" \in races'
  BY DEF timerVars
<1>3. CountInv'
  BY <1>2 DEF StackInv, ServeInv, CountInv, User
<1>4. LastInv'
  BY <1>2 DEF StackInv, ServeInv, LastInv, User
<1>5. (Up' <=> Up) /\ (Joined' <=> Joined) /\ \A u : Leaves(u)' <=> Leaves(u)
  BY <1>2 DEF Up, Joined, Leaves, User
<1>6. ManagerInv'
  BY <1>2, <1>5 DEF StackInv, ServeInv, ManagerInv
<1>7. QED
  BY <1>1, <1>3, <1>4, <1>6 DEF StackInv, ServeInv

LEMMA EventsKeepServing ==
  ASSUME StackInv, Events
  PROVE  StackInv'
<1> USE DEF Pushed, Happens, threadVars
<1>1. UNCHANGED <<call, at, timerVars, stack>> /\ races \subseteq races'
  <2>1. CASE SignalTest \/ SignalPost
    BY <2>1 DEF SignalTest, SignalPost
  <2>2. CASE SignalPush
    BY <2>2 DEF SignalPush
  <2>3. CASE RunBegins \/ RunTakesPermit
    BY <2>3 DEF RunBegins, RunTakesPermit
  <2>4. CASE RunLooks \/ RunTakes
    BY <2>4 DEF RunLooks, RunTakes
  <2>5. QED
    BY <2>1, <2>2, <2>3, <2>4 DEF Events
<1>2. QED
  BY <1>1, QuietKeepsServing

LEMMA CallsKeepServing ==
  ASSUME StackInv, NEW th \in Callers, Call(th)
  PROVE  StackInv'
<1> USE DEF StackInv
<1>1. ASSUME NEW what \in CallType \ {"none"}, NEW step \in StepsOf(th),
             Begins(th, what, step), step \in {"start timers", "lock"},
             step = "start timers" => th \in Sessions,
             UNCHANGED <<timerVars, stack, races>>
      PROVE  StackInv'
  <2>1. at[th] = "idle"
    BY <1>1 DEF Begins, ThreadInv, StepsInv
  <2>2. at' = [at EXCEPT ![th] = step] /\ call' = [call EXCEPT ![th] = what]
    BY <1>1 DEF Begins
  <2>3. StepsInv'
    BY <1>1, <2>2, MoveKeepsSteps DEF ThreadInv
  <2>4. LockInv'
    BY <1>1, <2>2, MoveKeepsLock
  <2>5. ServeInv'
    BY <1>1, <2>1, <2>2, MoveKeepsServing DEF Leaving
  <2>6. QED
    BY <2>3, <2>4, <2>5 DEF ThreadInv
<1>2. CASE SessionStart(th)
  <2>1. th \in Sessions /\ Begins(th, "session", "start timers")
        /\ UNCHANGED <<timerVars, stack, races>>
    BY <1>2 DEF SessionStart
  <2>2. QED
    BY <1>1, <2>1 DEF CallType, StepsOf, SessionSteps
<1>3. CASE SessionStop(th)
  <2>1. at[th] = "playing" /\ Goes(th, "stop timers") /\ UNCHANGED <<timerVars, stack, races>>
    BY <1>3 DEF SessionStop
  <2>2. "stop timers" \in StepsOf(th)
    BY DEF StepsOf, SessionSteps, AppSteps, Leaving
  <2>3. StepsInv' /\ at' = [at EXCEPT ![th] = "stop timers"]
    BY <2>1, <2>2, GoesKeepsSteps DEF ThreadInv
  <2>4. LockInv'
    BY <2>1, <2>3, MoveKeepsLock
  <2>5. User(th) \in users
    BY <2>1 DEF ServeInv, CountInv
  <2>6. ServeInv'
    BY <2>1, <2>3, <2>5, MoveKeepsServing DEF Leaving
  <2>7. QED
    BY <2>3, <2>4, <2>6 DEF ThreadInv
<1>4. CASE StartTest(th)
  <2>1. CASE stack.started
    BY <1>4, <2>1, QuietKeepsServing DEF StartTest
  <2>2. CASE ~stack.started
    <3>1. th \notin Sessions /\ Begins(th, "start", "lock")
          /\ UNCHANGED <<timerVars, stack, races>>
      BY <1>4, <2>2, SipStackAssumption DEF StartTest
    <3>2. QED
      BY <1>1, <3>1 DEF CallType, StepsOf, AppSteps
  <2>3. QED
    BY <2>1, <2>2
<1>5. CASE StopCalled(th)
  <2>1. th \notin Sessions /\ Begins(th, "stop", "lock")
        /\ UNCHANGED <<timerVars, stack, races>>
    BY <1>5, SipStackAssumption DEF StopCalled
  <2>2. QED
    BY <1>1, <2>1 DEF CallType, StepsOf, AppSteps
<1>6. QED
  BY <1>2, <1>3, <1>4, <1>5 DEF Call

\* The steps of an application within its call, when it has the lock.
LEMMA OwnersMoveKeepsServing ==
  ASSUME StackInv, NEW th \in Callers, th \notin Sessions, at[th] \notin {"idle", "lock"} \cup Leaving,
         NEW step \in AppSteps, NEW what \in CallType,
         step \notin {"lock", "count in"} \cup (Leaving \ {"stop timers"}),
         step = "stop timers" => "stack" \in users,
         what = "none" <=> step = "idle",
         at' = [at EXCEPT ![th] = step], call' = [call EXCEPT ![th] = what],
         NEW s \in BOOLEAN, NEW o \in BOOLEAN, NEW owner \in {th, "nobody"},
         stack' = [stack EXCEPT !.started = s, !.open = o, !.owner = owner],
         owner = "nobody" => step = "idle",
         UNCHANGED timerVars, races \subseteq races'
  PROVE  StackInv'
<1> USE DEF StackInv
<1>1. StepsInv'
  BY MoveKeepsSteps DEF ThreadInv, StepsOf
<1>2. LockInv'
  BY OwnerKeepsLock DEF ThreadInv, Callers
<1>3. User(th) = "stack" /\ step # "playing"
  BY DEF User, AppSteps, Leaving
<1>4. ServeInv'
  BY <1>3, MoveKeepsServing
<1>5. QED
  BY <1>1, <1>2, <1>4 DEF ThreadInv

LEMMA OwnersStepKeepsServing ==
  ASSUME StackInv, NEW th \in Callers, th \notin Sessions, at[th] \notin {"idle", "lock"} \cup Leaving,
         NEW step \in AppSteps,
         step \notin {"idle", "lock", "count in"} \cup (Leaving \ {"stop timers"}),
         step = "stop timers" => "stack" \in users,
         Goes(th, step) \/ Becomes(th, "failed", step),
         UNCHANGED <<stack, timerVars>>, races \subseteq races'
  PROVE  StackInv'
<1> USE DEF StackInv
<1>1. StepsInv' /\ at' = [at EXCEPT ![th] = step]
  BY GoesKeepsSteps, BecomesKeepsSteps DEF ThreadInv, StepsOf, CallType
<1>2. LockInv'
  BY <1>1, MoveKeepsLock
<1>3. User(th) = "stack" /\ step # "playing"
  BY DEF User, AppSteps, Leaving
<1>4. ServeInv'
  BY <1>1, <1>3, MoveKeepsServing
<1>5. QED
  BY <1>1, <1>2, <1>4 DEF ThreadInv

LEMMA AfterEventsKeepsServing ==
  ASSUME StackInv, NEW th \in Callers, th \notin Sessions, at[th] \notin {"idle", "lock"} \cup Leaving,
         NEW ok \in BOOLEAN, AfterEvents(th, ok),
         UNCHANGED timerVars, races \subseteq races'
  PROVE  StackInv'
<1> DEFINE s == stack.started /\ (call[th] = "failed" \/ ~ok)
           o == stack.open
<1>1. s \in BOOLEAN /\ o \in BOOLEAN
  BY DEF StackInv, ThreadInv, LockInv
<1>2. stack' = [stack EXCEPT !.started = s, !.owner = "nobody"]
  BY DEF AfterEvents
<1> HIDE DEF s
<1>3. stack' = [stack EXCEPT !.started = s, !.open = o, !.owner = "nobody"]
  BY <1>2 DEF StackInv, ThreadInv, LockInv
<1> HIDE DEF o
<1>4. at' = [at EXCEPT ![th] = "idle"] /\ call' = [call EXCEPT ![th] = "none"]
  BY DEF AfterEvents, Returns, Becomes
<1>5. QED
  BY <1>1, <1>3, <1>4, OwnersMoveKeepsServing DEF AppSteps, CallType, Leaving

LEMMA RunnableStopKeepsServing ==
  ASSUME StackInv, NEW th \in Callers, RunnableStop(th)
  PROVE  StackInv'
<1>1. /\ at[th] \in {"stop events", "sleep", "tell thread", "join thread"}
      /\ UNCHANGED timerVars /\ races \subseteq races'
  BY DEF RunnableStop, RunnableStopTest, RunnableStopSleeps, RunnableStopTells,
         RunnableStopJoins, Happens
<1>2. th \notin Sessions /\ at[th] \notin {"idle", "lock"} \cup Leaving
  BY <1>1, AppsAlone DEF StackInv, ThreadInv, SessionSteps, Leaving
<1>3. \/ \E ok \in BOOLEAN : AfterEvents(th, ok)
      \/ \E step \in {"tell thread", "sleep", "join thread"} : Goes(th, step) /\ UNCHANGED stack
  BY DEF RunnableStop, RunnableStopTest, RunnableStopSleeps, RunnableStopTells,
         RunnableStopJoins
<1>4. CASE \E ok \in BOOLEAN : AfterEvents(th, ok)
  BY <1>1, <1>2, <1>4, AfterEventsKeepsServing
<1>5. CASE \E step \in {"tell thread", "sleep", "join thread"} :
             Goes(th, step) /\ UNCHANGED stack
  <2>1. PICK step \in {"tell thread", "sleep", "join thread"} :
               Goes(th, step) /\ UNCHANGED stack
    BY <1>5
  <2>2. step \in AppSteps /\ step \notin {"idle", "lock", "count in"} \cup Leaving
    BY DEF AppSteps, Leaving
  <2>3. QED
    BY <1>1, <1>2, <2>1, <2>2, OwnersStepKeepsServing DEF Leaving
<1>6. QED
  BY <1>3, <1>4, <1>5

LEMMA StackStepsKeepServing ==
  ASSUME StackInv, NEW th \in Callers, Stack(th)
  PROVE  StackInv'
<1> USE DEF Pushed, Enqueued, Happens
<1>1. UNCHANGED timerVars /\ races \subseteq races'
  <2>1. CASE StartLock(th) \/ StartEvents(th) \/ StartTransports(th)
    BY <2>1 DEF StartLock, StartEvents, StartTransports
  <2>2. CASE StartDone(th)
    BY <2>2 DEF StartDone
  <2>3. CASE StartFails(th)
    BY <2>3 DEF StartFails
  <2>4. CASE CloseTransports(th)
    BY <2>4 DEF CloseTransports
  <2>5. CASE StopLock(th)
    BY <2>5 DEF StopLock
  <2>6. QED
    BY <2>1, <2>2, <2>3, <2>4, <2>5 DEF Stack
<1>2. at[th] \in {"lock", "start events", "open transports", "all is ok", "signal failure",
                  "close transports"}
  BY DEF Stack, StartLock, StartEvents, StartTransports, StartDone, StartFails,
         CloseTransports, StopLock
<1>3. th \in Apps /\ th \notin Sessions /\ at[th] \notin {"idle"} \cup Leaving
  BY <1>2, AppsAlone DEF StackInv, ThreadInv, SessionSteps, Leaving
<1>4. stack \in [started : BOOLEAN, open : BOOLEAN, owner : Apps \cup {"nobody"}]
  BY DEF StackInv, ThreadInv, LockInv
<1>5. at[th] # "lock" => stack.owner = th
  BY <1>3 DEF StackInv, ThreadInv, LockInv
<1>6. ASSUME NEW step \in AppSteps, at[th] = "lock",
             step \in {"start timers", "stop timers", "close transports"},
             step = "stop timers" => "stack" \in users,
             Goes(th, step), stack.owner = "nobody", stack' = [stack EXCEPT !.owner = th]
      PROVE  StackInv'
  <2>1. StepsInv' /\ at' = [at EXCEPT ![th] = step]
    BY <1>3, <1>6, GoesKeepsSteps DEF StackInv, ThreadInv, StepsOf
  <2>2. LockInv'
    BY <1>3, <1>6, <2>1, LockingKeepsLock DEF StackInv
  <2>3. ServeInv'
    BY <1>1, <1>3, <1>6, <2>1, MoveKeepsServing DEF User, Leaving
  <2>4. QED
    BY <2>1, <2>2, <2>3 DEF StackInv, ThreadInv
<1>7. CASE StartLock(th)
  BY <1>6, <1>7 DEF StartLock, AppSteps
<1>8. CASE StopLock(th)
  <2>1. CASE stack.started
    <3> DEFINE step == IF "stack" \in users THEN "stop timers" ELSE "close transports"
    <3>1. /\ at[th] = "lock" /\ stack.owner = "nobody" /\ stack' = [stack EXCEPT !.owner = th]
          /\ Goes(th, step)
      BY <1>8, <2>1 DEF StopLock
    <3>2. step \in {"stop timers", "close transports"} /\ step \in AppSteps
          /\ (step = "stop timers" => "stack" \in users)
      BY DEF AppSteps, Leaving
    <3> HIDE DEF step
    <3>3. QED
      BY <1>6, <3>1, <3>2
  <2>2. CASE ~stack.started
    <3>1. Returns(th) /\ UNCHANGED stack
      BY <1>8, <2>2 DEF StopLock
    <3>2. StepsInv' /\ at' = [at EXCEPT ![th] = "idle"]
      BY <3>1, ReturnsKeepsSteps DEF StackInv, ThreadInv
    <3>3. LockInv'
      BY <3>1, <3>2, MoveKeepsLock DEF StackInv
    <3>4. ServeInv'
      BY <1>1, <1>3, <3>2, MoveKeepsServing DEF Leaving
    <3>5. QED
      BY <3>2, <3>3, <3>4 DEF StackInv, ThreadInv
  <2>3. QED
    BY <2>1, <2>2
<1>9. CASE StartEvents(th)
  <2>1. /\ at[th] = "start events" /\ UNCHANGED stack
        /\ \E step \in {"signal failure", "open transports"} :
             Goes(th, step) \/ Becomes(th, "failed", step)
    BY <1>9 DEF StartEvents
  <2>2. PICK step \in {"signal failure", "open transports"} :
               Goes(th, step) \/ Becomes(th, "failed", step)
    BY <2>1
  <2>3. step \in AppSteps /\ step \notin {"idle", "lock", "count in"} \cup Leaving
    BY DEF AppSteps, Leaving
  <2>4. QED
    BY <1>1, <1>3, <2>1, <2>2, <2>3, OwnersStepKeepsServing DEF Leaving
<1>10. CASE StartTransports(th)
  <2>1. PICK step \in {"all is ok", "signal failure"}, what \in {call[th], "failed"},
             o \in BOOLEAN :
          /\ at' = [at EXCEPT ![th] = step] /\ call' = [call EXCEPT ![th] = what]
          /\ stack' = [stack EXCEPT !.open = o]
    <3> DEFINE Moves(step, what, o) ==
                 /\ at' = [at EXCEPT ![th] = step] /\ call' = [call EXCEPT ![th] = what]
                 /\ stack' = [stack EXCEPT !.open = o]
    <3>1. ASSUME stack' = [stack EXCEPT !.open = TRUE], Goes(th, "all is ok")
          PROVE  Moves("all is ok", call[th], TRUE)
      BY <3>1 DEF StackInv, ThreadInv, StepsInv, Goes
    <3>2. ASSUME NEW some \in BOOLEAN, stack' = [stack EXCEPT !.open = @ \/ some],
                 Becomes(th, "failed", "signal failure")
          PROVE  Moves("signal failure", "failed", stack.open \/ some)
      BY <1>4, <3>2 DEF Becomes
    <3>3. \A some \in BOOLEAN : (stack.open \/ some) \in BOOLEAN
      OBVIOUS
    <3>4. \/ stack' = [stack EXCEPT !.open = TRUE] /\ Goes(th, "all is ok")
          \/ \E some \in BOOLEAN : /\ stack' = [stack EXCEPT !.open = @ \/ some]
                                   /\ Becomes(th, "failed", "signal failure")
      BY <1>10 DEF StartTransports
    <3> HIDE DEF Moves
    <3>5. \E step \in {"all is ok", "signal failure"}, what \in {call[th], "failed"},
             o \in BOOLEAN : Moves(step, what, o)
      <4>1. CASE stack' = [stack EXCEPT !.open = TRUE] /\ Goes(th, "all is ok")
        BY <3>1, <4>1
      <4>2. CASE \E some \in BOOLEAN : /\ stack' = [stack EXCEPT !.open = @ \/ some]
                                       /\ Becomes(th, "failed", "signal failure")
        BY <3>2, <3>3, <4>2, Zenon
      <4> QED BY <3>4, <4>1, <4>2
    <3>6. QED
      BY <3>5 DEF Moves
  <2>2. stack' = [stack EXCEPT !.started = stack.started, !.open = o, !.owner = th]
        /\ stack.started \in BOOLEAN
    <3>1. /\ stack \in [started : BOOLEAN, open : BOOLEAN, owner : Apps \cup {"nobody"}]
          /\ stack.owner = th
      BY <1>4, <1>5, <1>10 DEF StartTransports, StackInv, ThreadInv, LockInv
    <3> QED BY <2>1, <3>1
  <2>3. what \in CallType /\ what # "none"
    BY <1>3, <2>1 DEF StackInv, ThreadInv, StepsInv, CallType
  <2>4. step \in AppSteps /\ step \notin {"idle", "lock", "count in"} \cup Leaving
    BY DEF AppSteps, Leaving
  <2>5. at[th] # "lock"
    BY <1>10 DEF StartTransports
  <2>6. th # "nobody"
    BY <1>3, SipStackAssumption DEF Callers
  <2> DEFINE s == stack.started
  <2>7. stack' = [stack EXCEPT !.started = s, !.open = o, !.owner = th] /\ s \in BOOLEAN
    BY <2>2
  <2> HIDE DEF s
  <2>8. QED
    BY <1>1, <1>3, <2>1, <2>3, <2>4, <2>5, <2>6, <2>7, OwnersMoveKeepsServing DEF Leaving
<1>11. CASE StartDone(th)
  <2> DEFINE up == TRUE
  <2>1. /\ at' = [at EXCEPT ![th] = "idle"] /\ call' = [call EXCEPT ![th] = "none"]
        /\ stack' = [stack EXCEPT !.started = up, !.owner = "nobody"] /\ up \in BOOLEAN
        /\ at[th] # "lock"
    BY <1>11 DEF StartDone, Returns, Becomes
  <2> HIDE DEF up
  <2>2. stack' = [stack EXCEPT !.started = up, !.open = stack.open, !.owner = "nobody"]
        /\ stack.open \in BOOLEAN
    BY <1>4, <2>1
  <2>3. QED
    BY <1>1, <1>3, <2>1, <2>2, OwnersMoveKeepsServing DEF AppSteps, CallType, Leaving
<1>12. CASE StartFails(th)
  <2> DEFINE step == IF "stack" \in users THEN "stop timers" ELSE "close transports"
  <2>1. at[th] = "signal failure" /\ UNCHANGED stack /\ Goes(th, step)
    BY <1>12 DEF StartFails
  <2>2. step \in {"stop timers", "close transports"} /\ step \in AppSteps
        /\ (step = "stop timers" => "stack" \in users)
    BY DEF AppSteps, Leaving
  <2> HIDE DEF step
  <2>3. QED
    BY <1>1, <1>3, <2>1, <2>2, OwnersStepKeepsServing DEF Leaving
<1>13. CASE CloseTransports(th)
  <2> DEFINE told == call[th] = "failed" /\ ~runnable.running
             step == IF told THEN "idle" ELSE "stop events"
             what == IF told THEN "none" ELSE call[th]
             owner == IF told THEN "nobody" ELSE th
             shut == FALSE
  <2>1. at[th] = "close transports" /\ stack.owner = th
    BY <1>5, <1>13 DEF CloseTransports
  <2>2. stack' = [stack EXCEPT !.open = shut, !.owner = owner]
    BY <1>13, <2>1 DEF CloseTransports
  <2>3. at' = [at EXCEPT ![th] = step] /\ call' = [call EXCEPT ![th] = what]
    <3>1. call' = call => call' = [call EXCEPT ![th] = call[th]]
      BY DEF StackInv, ThreadInv, StepsInv
    <3>2. QED
      BY <1>13, <3>1 DEF CloseTransports, Returns, Becomes, Goes
  <2>4. call[th] \in CallType /\ call[th] # "none"
    BY <1>3 DEF StackInv, ThreadInv, StepsInv
  <2>5. /\ step \in {"idle", "stop events"} /\ step \in AppSteps /\ what \in CallType
        /\ (what = "none" <=> step = "idle") /\ owner \in {th, "nobody"}
        /\ (owner = "nobody" => step = "idle") /\ shut \in BOOLEAN
    BY <2>4, <1>3, SipStackAssumption DEF AppSteps, CallType, Callers
  <2> HIDE DEF step, what, owner, shut
  <2>6. stack' = [stack EXCEPT !.started = stack.started, !.open = shut, !.owner = owner]
        /\ stack.started \in BOOLEAN
    BY <1>4, <2>2
  <2>7. QED
    BY <1>1, <1>3, <2>1, <2>3, <2>5, <2>6, OwnersMoveKeepsServing DEF Leaving
<1>14. QED
  BY <1>7, <1>8, <1>9, <1>10, <1>11, <1>12, <1>13 DEF Stack

-----------------------------------------------------------------------------
(* The timer manager.                                                      *)

LEMMA ManagerRunsKeepsServing ==
  ASSUME StackInv, ManagerRuns
  PROVE  StackInv'
<1>1. ThreadInv' /\ UNCHANGED <<at, count, users, races>>
  BY DEF ManagerRuns, threadVars, StackInv, ThreadInv, StepsInv, LockInv, StepsOf
<1>2. manager' \in [running : BOOLEAN, started : BOOLEAN, thread : {"none", "new", "going"}]
      /\ manager'.running
  <2> DEFINE up == TRUE
  <2>1. manager' = [manager EXCEPT !.thread = "going", !.running = up]
        /\ up \in BOOLEAN /\ up
    BY DEF ManagerRuns
  <2> HIDE DEF up
  <2>2. QED
    BY <2>1 DEF StackInv, ServeInv, ManagerInv
<1>3. ServeInv'
  BY <1>1, <1>2 DEF StackInv, ServeInv, CountInv, LastInv, ManagerInv, Up, User
<1>4. QED
  BY <1>1, <1>3 DEF StackInv

\* What a step within the manager takes from the lemmas on steps and locks.
LEMMA TimersMove ==
  ASSUME StackInv, NEW th \in Callers, at[th] \notin {"idle", "lock"}, UNCHANGED stack,
         NEW step \in {"start manager", "count in"} \cup Leaving
                        \cup (IF th \in Sessions THEN {"playing"}
                              ELSE {"start events", "close transports", "signal failure"}),
         Goes(th, step) \/ Becomes(th, "failed", step)
  PROVE  /\ ThreadInv'
         /\ \A o \in Callers : at'[o] = IF o = th THEN step ELSE at[o]
<1>1. step \in StepsOf(th) /\ step # "idle"
  BY DEF StepsOf, SessionSteps, AppSteps, Leaving
<1>2. StepsInv' /\ at' = [at EXCEPT ![th] = step]
  BY <1>1, GoesKeepsSteps, BecomesKeepsSteps DEF StackInv, ThreadInv, CallType
<1>3. LockInv'
  BY <1>2, MoveKeepsLock DEF StackInv
<1>4. QED
  BY <1>2, <1>3 DEF StackInv, ThreadInv, StepsInv

LEMMA TimersReturn ==
  ASSUME StackInv, NEW th \in Callers, UNCHANGED stack, Returns(th)
  PROVE  /\ ThreadInv'
         /\ \A o \in Callers : at'[o] = IF o = th THEN "idle" ELSE at[o]
<1>1. StepsInv' /\ at' = [at EXCEPT ![th] = "idle"]
  BY ReturnsKeepsSteps DEF StackInv, ThreadInv
<1>2. LockInv'
  BY <1>1, MoveKeepsLock DEF StackInv
<1>3. QED
  BY <1>1, <1>2 DEF StackInv, ThreadInv, StepsInv

LEMMA AfterTimersMoves ==
  ASSUME StackInv, NEW th \in Callers, at[th] \in Leaving, UNCHANGED stack, AfterTimers(th)
  PROVE  /\ ThreadInv'
         /\ \E step \in {"idle", "close transports"} :
              \A o \in Callers : at'[o] = IF o = th THEN step ELSE at[o]
<1>1. CASE th \in Sessions
  BY <1>1, TimersReturn DEF AfterTimers
<1>2. CASE th \notin Sessions
  BY <1>2, TimersMove DEF AfterTimers, Leaving
<1>3. QED
  BY <1>1, <1>2

\* Who stops is a user, so the count is not zero.
LEMMA LeaverIsCounted ==
  ASSUME StackInv, NEW th \in Callers, at[th] \in Leaving
  PROVE  User(th) \in users /\ count >= 1
<1>1. User(th) \in users /\ IsFiniteSet(users) /\ Cardinality(users) <= count /\ count \in Nat
  BY DEF StackInv, ServeInv, CountInv
<1>2. Cardinality(users) # 0 /\ Cardinality(users) \in Nat
  BY <1>1, FS_EmptySet, FS_CardinalityType
<1>3. QED
  BY <1>1, <1>2

\* No other thread leaves, or plays, for a user who leaves.
LEMMA LeaverIsAlone ==
  ASSUME StackInv, NEW th \in Callers, at[th] \in Leaving,
         NEW o \in Callers, o # th, at[o] \in Leaving \cup {"playing"}
  PROVE  User(o) # User(th)
BY SameUser DEF StackInv, ThreadInv, Leaving

-----------------------------------------------------------------------------
(* Who starts the timers.                                                  *)

LEMMA GlobalStartTestKeepsServing ==
  ASSUME StackInv, NEW th \in Callers, GlobalStartTest(th)
  PROVE  StackInv'
<1> DEFINE step == IF ~manager.running /\ ~manager.started THEN "start manager" ELSE "count in"
<1>1. /\ at[th] = "start timers" /\ Goes(th, step) /\ step \in {"start manager", "count in"}
      /\ UNCHANGED <<count, manager, users, stack, races>>
  BY DEF GlobalStartTest, timerVars
<1>2. step = "count in" => Up \/ Joined
  BY DEF StackInv, ServeInv, ManagerInv, Up
<1> HIDE DEF step
<1>3. ThreadInv' /\ \A o \in Callers : at'[o] = IF o = th THEN step ELSE at[o]
  BY <1>1, TimersMove
<1>4. /\ Up' <=> Up
      /\ Joined => Joined'
      /\ \A u : Leaves(u) => Leaves(u)'
  BY <1>1, <1>3 DEF Up, Joined, Leaves, User, Stopping
<1>5. CountInv' /\ LastInv'
  BY <1>1, <1>3 DEF StackInv, ServeInv, CountInv, LastInv, User, Leaving, Stopping
<1>6. ManagerInv'
  BY <1>1, <1>2, <1>3, <1>4 DEF StackInv, ServeInv, ManagerInv
<1>7. QED
  BY <1>3, <1>5, <1>6 DEF StackInv, ServeInv

LEMMA GlobalStartManagerKeepsServing ==
  ASSUME StackInv, NEW th \in Callers, GlobalStartManager(th)
  PROVE  StackInv'
<1>1. /\ at[th] = "start manager"
      /\ UNCHANGED <<count, users, stack, races>>
  BY DEF GlobalStartManager
<1>2. PICK step \in {"count in", "idle", "signal failure"} :
        /\ ThreadInv' /\ \A o \in Callers : at'[o] = IF o = th THEN step ELSE at[o]
        /\ step = "count in" => ~manager.running /\ ~manager.started
                 /\ \E up \in {TRUE} : manager' = [manager EXCEPT !.started = up, !.thread = "new"]
        /\ step # "count in" => UNCHANGED manager
  <2>1. CASE ~manager.running /\ ~manager.started
    BY <1>1, <2>1, TimersMove DEF GlobalStartManager
  <2>2. CASE ~(~manager.running /\ ~manager.started) /\ th \in Sessions
    BY <1>1, <2>2, TimersReturn DEF GlobalStartManager
  <2>3. CASE ~(~manager.running /\ ~manager.started) /\ th \notin Sessions
    BY <1>1, <2>3, TimersMove DEF GlobalStartManager
  <2>4. QED
    BY <2>1, <2>2, <2>3
<1>3. CountInv' /\ LastInv'
  BY <1>1, <1>2 DEF StackInv, ServeInv, CountInv, LastInv, User, Leaving, Stopping
<1>4. /\ Joined => Joined'
      /\ \A u : Leaves(u) => Leaves(u)'
  BY <1>1, <1>2 DEF Joined, Leaves, User, Stopping
<1>5. ManagerInv'
  <2>1. CASE step = "count in"
    <3>1. PICK up \in {TRUE} : manager' = [manager EXCEPT !.started = up, !.thread = "new"]
      BY <1>2, <2>1
    <3>2. up \in BOOLEAN
      OBVIOUS
    <3>3. manager' \in [running : BOOLEAN, started : BOOLEAN, thread : {"none", "new", "going"}]
          /\ manager'.thread = "new"
      BY <3>1, <3>2 DEF StackInv, ServeInv, ManagerInv
    <3>4. QED
      BY <3>3 DEF ManagerInv, Up
  <2>2. CASE step # "count in"
    BY <1>1, <1>2, <1>4, <2>2 DEF StackInv, ServeInv, ManagerInv, Up
  <2>3. QED
    BY <2>1, <2>2
<1>6. QED
  BY <1>2, <1>3, <1>5 DEF StackInv, ServeInv

LEMMA GlobalStartCountKeepsServing ==
  ASSUME StackInv, NEW th \in Callers, GlobalStartCount(th)
  PROVE  StackInv'
<1> DEFINE step == IF th \in Sessions THEN "playing" ELSE "start events"
<1>1. /\ at[th] = "count in" /\ Goes(th, step)
      /\ step \in IF th \in Sessions THEN {"playing"} ELSE {"start events"}
      /\ UNCHANGED <<manager, stack>>
      /\ count' = count + 1 /\ users' = users \cup {User(th)}
      /\ "overtaken" \in races => "overtaken" \in races'
      /\ Others(th, Stopping) => "overtaken" \in races'
  BY DEF GlobalStartCount, Happens
<1> HIDE DEF step
<1>2. ThreadInv' /\ \A o \in Callers : at'[o] = IF o = th THEN step ELSE at[o]
  BY <1>1, TimersMove
<1>3. /\ Up' <=> Up
      /\ Joined => Joined' /\ "overtaken" \in races'
      /\ \A u : Leaves(u) => Leaves(u)'
  BY <1>1, <1>2 DEF Up, Joined, Leaves, User, Stopping, Others
<1>4. CountInv'
  <2>1. count \in Nat /\ IsFiniteSet(users) /\ Cardinality(users) <= count
    BY DEF StackInv, ServeInv, CountInv
  <2>2. IsFiniteSet(users') /\ Cardinality(users') \in {Cardinality(users), Cardinality(users) + 1}
    <3> DEFINE u == User(th)
    <3>1. users' = users \cup {u}
      BY <1>1
    <3> HIDE DEF u
    <3>2. /\ IsFiniteSet(users \cup {u})
          /\ Cardinality(users \cup {u}) = IF u \in users THEN Cardinality(users)
                                            ELSE Cardinality(users) + 1
      BY <2>1, FS_AddElement
    <3>3. QED
      BY <3>1, <3>2
  <2>3. Cardinality(users) \in Nat /\ count' \in Nat /\ Cardinality(users') <= count'
    <3> DEFINE c == Cardinality(users)
               d == Cardinality(users')
    <3>1. c \in Nat /\ c <= count /\ count \in Nat /\ d \in {c, c + 1} /\ count' = count + 1
      BY <1>1, <2>1, <2>2, FS_CardinalityType
    <3> HIDE DEF c, d
    <3>2. c \in Nat /\ count' \in Nat /\ d <= count'
      BY <3>1
    <3>3. QED
      BY <3>2 DEF c, d
  <2>4. \A o \in Callers : at'[o] \in Leaving \cup {"playing"} => User(o) \in users'
    BY <1>1, <1>2 DEF StackInv, ServeInv, CountInv
  <2>5. QED
    BY <2>2, <2>3, <2>4 DEF CountInv, User
<1>5. LastInv'
  <2>1. ASSUME NEW o \in Callers, at'[o] \in Stopping
        PROVE  "overtaken" \in races'
    BY <1>1, <1>2, <2>1 DEF Others, Stopping
  <2>2. QED
    BY <2>1 DEF LastInv
<1>6. ManagerInv'
  <2>1. \A u \in users : Leaves(u)' \/ Up' \/ "overtaken" \in races'
    BY <1>1, <1>3 DEF StackInv, ServeInv, ManagerInv
  <2>2. Up' \/ "overtaken" \in races'
    BY <1>1, <1>3 DEF StackInv, ServeInv, ManagerInv
  <2>3. QED
    BY <1>1, <1>2, <1>3, <2>1, <2>2 DEF StackInv, ServeInv, ManagerInv
<1>7. QED
  BY <1>2, <1>4, <1>5, <1>6 DEF StackInv, ServeInv

-----------------------------------------------------------------------------
(* Who stops them.                                                         *)

\* One user less, and the count lowered by one or not at all.
LEMMA OneLess ==
  ASSUME NEW c \in Nat, NEW n \in Nat, c <= n, n >= 1, NEW m \in {n, n - 1}
  PROVE  m \in Nat /\ c - 1 <= m
OBVIOUS

\* A leaver that is no user any more takes nothing from the others.
LEMMA LeaverGoes ==
  ASSUME StackInv, NEW th \in Callers, at[th] \in Leaving \ {"join manager"},
         NEW step \in {"idle", "close transports"},
         \A o \in Callers : at'[o] = IF o = th THEN step ELSE at[o],
         users' = users \ {User(th)}, count' \in {count, count - 1},
         UNCHANGED manager, races \subseteq races'
  PROVE  ServeInv'
<1>1. User(th) \in users /\ count >= 1
  BY LeaverIsCounted
<1>2. CountInv'
  <2> DEFINE u == User(th)
  <2>1. count \in Nat /\ IsFiniteSet(users) /\ Cardinality(users) <= count
    BY DEF StackInv, ServeInv, CountInv
  <2>2. u \in users /\ users' = users \ {u}
    BY <1>1
  <2>3. ASSUME NEW o \in Callers, at'[o] \in Leaving \cup {"playing"}
        PROVE  User(o) \in users'
    <3>1. o # th /\ at[o] \in Leaving \cup {"playing"}
      BY <2>3 DEF Leaving
    <3>2. User(o) \in users
      BY <3>1 DEF StackInv, ServeInv, CountInv
    <3>3. User(o) # User(th)
      BY <3>1, LeaverIsAlone
    <3>4. QED
      BY <3>2, <3>3
  <2> HIDE DEF u
  <2>4. IsFiniteSet(users \ {u}) /\ Cardinality(users \ {u}) = Cardinality(users) - 1
    BY <2>1, <2>2, FS_RemoveElement
  <2>5. Cardinality(users) \in Nat
    BY <2>1, FS_CardinalityType
  <2>6. IsFiniteSet(users') /\ count' \in Nat /\ Cardinality(users') <= count'
    <3> DEFINE c == Cardinality(users)
               d == Cardinality(users')
    <3>1. c \in Nat /\ c <= count /\ count \in Nat /\ count >= 1 /\ d = c - 1
      BY <1>1, <2>1, <2>2, <2>4, <2>5
    <3> HIDE DEF c, d
    <3>2. count' \in Nat /\ d <= count'
      BY <3>1, OneLess
    <3>3. QED
      BY <2>2, <2>4, <3>2 DEF d
  <2>7. QED
    BY <2>3, <2>6 DEF CountInv, User
<1>3. LastInv'
  <2>1. ASSUME NEW o \in Callers, at'[o] \in Stopping, "overtaken" \notin races'
        PROVE  users' = {User(o)}
    <3>1. o # th /\ at[o] \in Stopping /\ at[o] \in Leaving
      BY <2>1 DEF Stopping, Leaving
    <3>2. users = {User(o)}
      BY <2>1, <3>1 DEF StackInv, ServeInv, LastInv
    <3>3. User(o) # User(th)
      BY <3>1, LeaverIsAlone
    <3>4. QED
      BY <1>1, <3>2, <3>3
  <2>2. QED
    BY <2>1 DEF LastInv, User
<1>4. ManagerInv'
  <2>1. /\ Up' <=> Up
        /\ Joined => Joined'
    BY DEF Up, Joined
  <2>2. \A u \in users' : Leaves(u) => Leaves(u)'
    BY DEF Leaves, User, Leaving, Stopping
  <2>3. QED
    BY <2>1, <2>2 DEF StackInv, ServeInv, ManagerInv
<1>5. QED
  BY <1>2, <1>3, <1>4 DEF ServeInv

LEMMA GlobalStopTestKeepsServing ==
  ASSUME StackInv, NEW th \in Callers, GlobalStopTest(th)
  PROVE  StackInv'
<1>1. /\ at[th] = "stop timers" /\ at[th] \in Leaving
      /\ UNCHANGED <<count, manager, stack>>
  BY DEF GlobalStopTest, Leaving
<1>2. count \in Nat /\ count >= 1
  BY <1>1, LeaverIsCounted DEF StackInv, ServeInv, CountInv
<1>t. ~(count <= 0) /\ count > 0
  BY <1>2
<1>3. CASE manager.running
  <2>1. Goes(th, "last user?") /\ UNCHANGED <<users, races>>
    BY <1>t, <1>3, Zenon DEF GlobalStopTest
  <2>2. ThreadInv' /\ \A o \in Callers : at'[o] = IF o = th THEN "last user?" ELSE at[o]
    BY <1>1, <2>1, TimersMove DEF Leaving
  <2>3. /\ Up' <=> Up
        /\ Joined => Joined'
        /\ \A u : Leaves(u) => Leaves(u)'
    BY <1>1, <2>2 DEF Up, Joined, Leaves, User
  <2>4. CountInv' /\ LastInv'
    BY <1>1, <2>1, <2>2 DEF StackInv, ServeInv, CountInv, LastInv, User, Leaving, Stopping
  <2>5. ManagerInv'
    BY <1>1, <2>1, <2>2, <2>3 DEF StackInv, ServeInv, ManagerInv
  <2>6. QED
    BY <2>2, <2>4, <2>5 DEF StackInv, ServeInv
<1>4. CASE ~manager.running
  <2>1. AfterTimers(th) /\ users' = users \ {User(th)} /\ races \subseteq races'
    BY <1>t, <1>4, Zenon DEF GlobalStopTest, Happens
  <2>2. ThreadInv' /\ \E step \in {"idle", "close transports"} :
          \A o \in Callers : at'[o] = IF o = th THEN step ELSE at[o]
    BY <1>1, <2>1, AfterTimersMoves
  <2>3. QED
    BY <1>1, <2>1, <2>2, LeaverGoes DEF StackInv
<1>5. QED
  BY <1>3, <1>4

\* With a count of one the leaver is the last user.
LEMMA GlobalStopLastKeepsServing ==
  ASSUME StackInv, NEW th \in Callers, GlobalStopLast(th)
  PROVE  StackInv'
<1> DEFINE step == IF count = 1 THEN "stop manager" ELSE "count out"
<1>1. /\ at[th] = "last user?" /\ at[th] \in Leaving /\ Goes(th, step)
      /\ step \in {"stop manager", "count out"}
      /\ UNCHANGED <<count, manager, users, stack>> /\ races \subseteq races'
  BY DEF GlobalStopLast, Leaving, Happens, timerVars
<1>2. step = "stop manager" => users = {User(th)}
  <2> SUFFICES ASSUME count = 1 PROVE users = {User(th)}
    OBVIOUS
  <2>1. User(th) \in users /\ IsFiniteSet(users) /\ Cardinality(users) <= 1
    BY <1>1, LeaverIsCounted DEF StackInv, ServeInv, CountInv
  <2> DEFINE u == User(th)
  <2>2. u \in users
    BY <2>1
  <2> HIDE DEF u
  <2>3. IsFiniteSet(users \ {u}) /\ Cardinality(users \ {u}) = Cardinality(users) - 1
    BY <2>1, <2>2, FS_RemoveElement
  <2>4. Cardinality(users \ {u}) \in Nat
    BY <2>3, FS_CardinalityType
  <2>5. Cardinality(users) \in Nat
    BY <2>1, FS_CardinalityType
  <2>6. users \ {u} = {}
    BY <2>1, <2>3, <2>4, <2>5, FS_EmptySet
  <2>7. QED
    BY <2>2, <2>6 DEF u
<1> HIDE DEF step
<1>3. ThreadInv' /\ \A o \in Callers : at'[o] = IF o = th THEN step ELSE at[o]
  BY <1>1, TimersMove DEF Leaving
<1>4. /\ Up' <=> Up
      /\ Joined => Joined'
      /\ \A u : Leaves(u) => Leaves(u)'
  BY <1>1, <1>3 DEF Up, Joined, Leaves, User, Stopping
<1>5. CountInv'
  BY <1>1, <1>3 DEF StackInv, ServeInv, CountInv, User, Leaving
<1>6. LastInv'
  <2>1. ASSUME NEW o \in Callers, at'[o] \in Stopping
        PROVE  "overtaken" \in races' \/ users = {User(o)}
    BY <1>1, <1>2, <1>3, <2>1 DEF StackInv, ServeInv, LastInv, Stopping
  <2>2. QED
    BY <1>1, <2>1 DEF LastInv, User
<1>7. ManagerInv'
  BY <1>1, <1>3, <1>4 DEF StackInv, ServeInv, ManagerInv
<1>8. QED
  BY <1>3, <1>5, <1>6, <1>7 DEF StackInv, ServeInv

LEMMA GlobalStopManagerKeepsServing ==
  ASSUME StackInv, NEW th \in Callers, GlobalStopManager(th)
  PROVE  StackInv'
<1> DEFINE step == IF manager.running THEN "join manager" ELSE "count out"
<1>1. /\ at[th] = "stop manager" /\ Goes(th, step)
      /\ step \in {"join manager", "count out"}
      /\ UNCHANGED <<count, users, stack, races>>
      /\ step = "count out" => UNCHANGED manager
  BY DEF GlobalStopManager
<1>2. manager' \in [running : BOOLEAN, started : BOOLEAN, thread : {"none", "new", "going"}]
  <2> DEFINE down == FALSE
  <2>1. down \in BOOLEAN /\ manager' \in {manager, [manager EXCEPT !.running = down]}
    BY DEF GlobalStopManager
  <2> HIDE DEF down
  <2>2. QED
    BY <2>1 DEF StackInv, ServeInv, ManagerInv
<1> HIDE DEF step
<1>3. ThreadInv' /\ \A o \in Callers : at'[o] = IF o = th THEN step ELSE at[o]
  BY <1>1, TimersMove DEF Leaving
<1>4. /\ Joined => Joined'
      /\ \A u : Leaves(u) => Leaves(u)'
  BY <1>1, <1>3 DEF Joined, Leaves, User, Stopping
<1>5. CountInv'
  BY <1>1, <1>3 DEF StackInv, ServeInv, CountInv, User, Leaving
<1>6. LastInv'
  BY <1>1, <1>3 DEF StackInv, ServeInv, LastInv, User, Stopping
<1>7. ManagerInv'
  <2>1. CASE step = "count out"
    BY <1>1, <1>3, <1>4, <2>1 DEF StackInv, ServeInv, ManagerInv, Up
  <2>2. CASE step = "join manager"
    <3>1. Joined'
      BY <1>3, <2>2 DEF Joined
    <3>2. ASSUME NEW u \in users, "overtaken" \notin races
          PROVE  Leaves(u)'
      <4>1. users = {User(th)}
        BY <1>1, <3>2 DEF StackInv, ServeInv, LastInv, Stopping
      <4>2. u = User(th) /\ at'[th] = "join manager"
        BY <1>3, <2>2, <4>1
      <4>3. QED
        BY <4>2 DEF Leaves, User, Stopping
    <3>3. QED
      BY <1>1, <1>2, <3>1, <3>2 DEF ManagerInv
  <2>3. QED
    BY <1>1, <2>1, <2>2
<1>8. QED
  BY <1>3, <1>5, <1>6, <1>7 DEF StackInv, ServeInv

LEMMA GlobalStopJoinKeepsServing ==
  ASSUME StackInv, NEW th \in Callers, GlobalStopJoin(th)
  PROVE  StackInv'
<1>1. /\ at[th] = "join manager" /\ Goes(th, "count out") /\ manager' = Off
      /\ UNCHANGED <<count, users, stack>> /\ races \subseteq races'
      /\ Others(th, {"count in"}) => "overtaken" \in races'
  BY DEF GlobalStopJoin, Happens
<1>2. ThreadInv' /\ \A o \in Callers : at'[o] = IF o = th THEN "count out" ELSE at[o]
  BY <1>1, TimersMove DEF Leaving
<1>3. CountInv'
  BY <1>1, <1>2 DEF StackInv, ServeInv, CountInv, User, Leaving
<1>4. LastInv'
  BY <1>1, <1>2 DEF StackInv, ServeInv, LastInv, User, Stopping
<1>5. ManagerInv'
  <2>1. manager' \in [running : BOOLEAN, started : BOOLEAN, thread : {"none", "new", "going"}]
        /\ ~manager'.started
    BY <1>1 DEF Off
  <2>2. ASSUME NEW o \in Callers, at'[o] = "count in"
        PROVE  "overtaken" \in races'
    BY <1>1, <1>2, <2>2 DEF Others
  <2>3. ASSUME NEW u \in users, "overtaken" \notin races'
        PROVE  Leaves(u)'
    <3>1. users = {User(th)}
      BY <1>1, <2>3 DEF StackInv, ServeInv, LastInv, Stopping
    <3>2. u = User(th) /\ at'[th] = "count out"
      BY <1>2, <3>1
    <3>3. QED
      BY <3>2 DEF Leaves, User
  <2>4. QED
    BY <1>1, <2>1, <2>2, <2>3 DEF ManagerInv
<1>6. QED
  BY <1>2, <1>3, <1>4, <1>5 DEF StackInv, ServeInv

LEMMA GlobalStopCountKeepsServing ==
  ASSUME StackInv, NEW th \in Callers, GlobalStopCount(th)
  PROVE  StackInv'
<1>1. /\ at[th] = "count out" /\ at[th] \in Leaving /\ AfterTimers(th)
      /\ count' = count - 1 /\ users' = users \ {User(th)}
      /\ UNCHANGED <<manager, stack, races>>
  BY DEF GlobalStopCount, Leaving
<1>2. ThreadInv' /\ \E step \in {"idle", "close transports"} :
        \A o \in Callers : at'[o] = IF o = th THEN step ELSE at[o]
  BY <1>1, AfterTimersMoves
<1>3. QED
  BY <1>1, <1>2, LeaverGoes DEF StackInv

\* The whole, from the start of the process and through every step.
LEMMA StackBegins == Init => StackInv
<1> SUFFICES ASSUME Init PROVE StackInv
  OBVIOUS
<1>1. /\ at = [th \in Callers |-> "idle"] /\ call = [th \in Callers |-> "none"]
      /\ stack = [started |-> FALSE, open |-> FALSE, owner |-> "nobody"]
  BY DEF Init
<1>a. "idle" \in SessionSteps /\ "idle" \in AppSteps /\ "none" \in CallType
  BY DEF SessionSteps, AppSteps, CallType
<1>b. StepsInv
  BY <1>1, <1>a DEF StepsInv, StepsOf
<1>c. LockInv
  BY <1>1 DEF LockInv, Callers
<1>2. CountInv
  BY FS_EmptySet DEF Init, CountInv, Leaving
<1>3. LastInv /\ ManagerInv
  BY DEF Init, LastInv, ManagerInv, Off, Stopping
<1>4. QED
  BY <1>b, <1>c, <1>2, <1>3 DEF StackInv, ThreadInv, ServeInv

LEMMA StepKeepsStackInv == StackInv /\ [Next]_vars => StackInv'
<1> SUFFICES ASSUME StackInv, [Next]_vars PROVE StackInv'
  OBVIOUS
<1>1. CASE ManagerRuns
  BY <1>1, ManagerRunsKeepsServing
<1>2. CASE Events
  BY <1>2, EventsKeepServing
<1>3. ASSUME NEW th \in Callers, GlobalTimers(th)
      PROVE  StackInv'
  BY <1>3, GlobalStartTestKeepsServing, GlobalStartManagerKeepsServing,
     GlobalStartCountKeepsServing, GlobalStopTestKeepsServing, GlobalStopLastKeepsServing,
     GlobalStopManagerKeepsServing, GlobalStopJoinKeepsServing, GlobalStopCountKeepsServing
     DEF GlobalTimers
<1>4. ASSUME NEW th \in Callers, Call(th) \/ Step(th)
      PROVE  StackInv'
  BY <1>3, <1>4, CallsKeepServing, RunnableStopKeepsServing, StackStepsKeepServing DEF Step
<1>5. CASE UNCHANGED vars
  BY <1>5, QuietKeepsServing DEF vars, threadVars
<1>6. QED
  BY <1>1, <1>2, <1>4, <1>5 DEF Next

\* The timer manager is shared by the stack and by the RTCP sessions of all
\* calls (tsk_timer.c:425): with any number of them that come and go at the
\* same time it runs, or is about to, for each that has started it and does not
\* stop, and is counted for each, unless a start has fallen into the stop of
\* the user that was the last one before it.
THEOREM NoUserIsLeft == Spec => []EveryUserIsServed
<1>1. StackInv => EveryUserIsServed
  <2> SUFFICES ASSUME StackInv PROVE EveryUserIsServed
    OBVIOUS
  <2>1. IsFiniteSet(users) /\ count \in Nat /\ Cardinality(users) <= count
    BY DEF StackInv, ServeInv, CountInv
  <2>2. Cardinality(users) \in Nat
    BY <2>1, FS_CardinalityType
  <2>3. count >= Cardinality(users)
    BY <2>1, <2>2
  <2>4. \A u \in users : Leaves(u) \/ Up \/ "overtaken" \in races
    BY DEF StackInv, ServeInv, ManagerInv
  <2>5. QED
    BY <2>3, <2>4 DEF EveryUserIsServed, Up
<1>2. QED
  BY StackBegins, StepKeepsStackInv, <1>1, PTL DEF Spec

-----------------------------------------------------------------------------
(***************************************************************************)
(* Who is a user.  A session is one while it plays and leaves; the stack   *)
(* is none of the timer manager's while it is free and not started, nor    *)
(* once its timers are stopped, and a start does not find it one unless    *)
(* another start was there before.                                         *)
(***************************************************************************)

Given == "stack" \in users
Starting == {"start timers", "start manager", "count in"}
Closing == {"close transports", "stop events", "sleep", "tell thread", "join thread"}

GivenInv ==
  /\ \A s \in Sessions : at[s] \notin Leaving \cup {"playing"} => s \notin users
  /\ stack.owner = "nobody" /\ ~stack.started => ~Given
  /\ \A th \in Apps : at[th] \in Closing => ~Given
  /\ \A th \in Apps : at[th] \in Starting => ~Given \/ "twice" \in races

Moves(th, step) == \A o \in Callers : at'[o] = IF o = th THEN step ELSE at[o]

\* Who moves makes or unmakes no user but its own, and only with the lock.
LEMMA MoveKeepsGiven ==
  ASSUME StackInv, GivenInv, NEW th \in Callers, NEW step, Moves(th, step),
         races \subseteq races',
         users' \in {users, users \cup {User(th)}, users \ {User(th)}},
         th \in Sessions =>
           stack' = stack /\ (step \notin Leaving \cup {"playing"} => User(th) \notin users'),
         th \in Apps =>
           /\ step \in Closing => ~Given'
           /\ step \in Starting => ~Given' \/ "twice" \in races'
           /\ stack'.owner = "nobody" /\ ~stack'.started => ~Given'
           /\ (Given' <=> Given) \/ at[th] \notin {"idle", "lock"}
  PROVE  GivenInv'
<1>1. CASE th \in Sessions
  <2>1. User(th) = th /\ th # "stack" /\ th \notin Apps
    BY <1>1, SipStackAssumption DEF User, Callers
  <2>2. Given' <=> Given
    BY <2>1 DEF Given
  <2>3. ASSUME NEW s \in Sessions, at'[s] \notin Leaving \cup {"playing"}
        PROVE  s \notin users'
    BY <1>1, <2>1, <2>3 DEF GivenInv, Moves, Callers
  <2>4. ASSUME NEW a \in Apps PROVE at'[a] = at[a]
    BY <2>1 DEF Moves, Callers
  <2>5. QED
    BY <1>1, <2>2, <2>3, <2>4 DEF GivenInv
<1>2. CASE th \in Apps
  <2>1. User(th) = "stack" /\ th \notin Sessions
    BY <1>2, SipStackAssumption DEF User, Callers
  <2>2. ASSUME NEW s \in Sessions
        PROVE  at'[s] = at[s] /\ (s \in users' <=> s \in users)
    BY <2>1, SipStackAssumption DEF Moves, Callers
  <2>3. ASSUME NEW a \in Apps, a # th
        PROVE  at'[a] = at[a] /\ (at[a] \in {"idle", "lock"} \/ (Given' <=> Given))
    <3>1. at'[a] = at[a]
      BY <2>3 DEF Moves, Callers
    <3>2. at[a] \in {"idle", "lock"} \/ at[th] \in {"idle", "lock"}
      BY <1>2, <2>3 DEF StackInv, ThreadInv, LockInv
    <3>3. QED
      BY <1>2, <3>1, <3>2
  <2>4. at'[th] = step
    BY DEF Moves
  <2>5. \A a \in Apps : at'[a] \in Closing => ~Given'
    BY <1>2, <2>3, <2>4 DEF GivenInv, Closing
  <2>6. \A a \in Apps : at'[a] \in Starting => ~Given' \/ "twice" \in races'
    BY <1>2, <2>3, <2>4 DEF GivenInv, Starting
  <2>7. QED
    BY <1>2, <2>2, <2>5, <2>6 DEF GivenInv
<1>3. QED
  BY <1>1, <1>2 DEF Callers

LEMMA Moved ==
  ASSUME StackInv, NEW th \in Callers, NEW step, NEW what,
         \/ Goes(th, step) \/ Becomes(th, what, step) \/ Begins(th, what, step)
         \/ step = "idle" /\ Returns(th)
  PROVE  Moves(th, step)
BY DEF StackInv, ThreadInv, StepsInv, Goes, Becomes, Begins, Returns, Moves

\* An application in the stack's code past the lock is no session.
LEMMA AppHere ==
  ASSUME StackInv, NEW th \in Callers, at[th] \notin SessionSteps
  PROVE  th \in Apps /\ th \notin Sessions /\ User(th) = "stack"
BY AppsAlone DEF StackInv, ThreadInv, User

LEMMA QuietKeepsGiven ==
  ASSUME GivenInv, UNCHANGED <<at, users, stack>>, races \subseteq races'
  PROVE  GivenInv'
BY DEF GivenInv, Given

LEMMA EventsKeepGiven ==
  ASSUME GivenInv, Events \/ ManagerRuns
  PROVE  GivenInv'
<1> USE DEF Pushed, Happens, threadVars, timerVars
<1>1. UNCHANGED <<at, users, stack>> /\ races \subseteq races'
  <2>1. CASE SignalTest \/ SignalPost \/ SignalPush
    BY <2>1 DEF SignalTest, SignalPost, SignalPush
  <2>2. CASE RunBegins \/ RunTakesPermit \/ RunLooks \/ RunTakes
    BY <2>2 DEF RunBegins, RunTakesPermit, RunLooks, RunTakes
  <2>3. CASE ManagerRuns
    BY <2>3 DEF ManagerRuns
  <2> QED BY <2>1, <2>2, <2>3 DEF Events
<1>2. QED
  BY <1>1, QuietKeepsGiven

LEMMA CallsKeepGiven ==
  ASSUME StackInv, GivenInv, NEW th \in Callers, Call(th)
  PROVE  GivenInv'
<1> DEFINE Begun(step) == /\ Moves(th, step) /\ UNCHANGED <<users, stack, races>>
                          /\ at[th] \in {"idle", "playing"}
<1>1. CASE SessionStart(th)
  <2>1. Begun("start timers") /\ th \in Sessions /\ at[th] = "idle"
    BY <1>1, Moved DEF SessionStart, Begins, timerVars, StackInv, ThreadInv, StepsInv
  <2>2. User(th) = th /\ th \notin Apps /\ th \notin users
    BY <2>1, SipStackAssumption DEF User, GivenInv, Leaving
  <2>3. QED
    BY <2>1, <2>2, MoveKeepsGiven
<1>2. CASE SessionStop(th)
  <2>1. Begun("stop timers") /\ at[th] = "playing"
    BY <1>2, Moved DEF SessionStop, timerVars
  <2>2. th \in Sessions /\ th \notin Apps
    BY <2>1, SipStackAssumption DEF StackInv, ThreadInv, StepsInv, StepsOf, AppSteps, Leaving, Callers
  <2>3. QED
    BY <2>1, <2>2, MoveKeepsGiven DEF Leaving
<1>3. CASE StartTest(th) \/ StopCalled(th)
  <2>1. th \in Apps /\ th \notin Sessions /\ UNCHANGED <<users, stack, races>>
    BY <1>3, SipStackAssumption DEF StartTest, StopCalled, timerVars
  <2>2. CASE UNCHANGED at
    BY <2>1, <2>2, QuietKeepsGiven
  <2>3. CASE at' # at
    <3>1. Begins(th, "start", "lock") \/ Begins(th, "stop", "lock")
      BY <1>3, <2>3 DEF StartTest, StopCalled
    <3>2. Moves(th, "lock")
      BY <3>1, Moved
    <3>3. stack.owner = "nobody" /\ ~stack.started => ~Given
      BY DEF GivenInv
    <3>4. QED
      BY <2>1, <3>2, <3>3, MoveKeepsGiven DEF Closing, Starting, Given
  <2>4. QED
    BY <2>2, <2>3
<1>4. QED
  BY <1>1, <1>2, <1>3 DEF Call

LEMMA TimersKeepGiven ==
  ASSUME StackInv, GivenInv, NEW th \in Callers, GlobalTimers(th)
  PROVE  GivenInv'
<1> USE DEF timerVars
<1>l. th \in Apps /\ at[th] \notin {"idle", "lock"} => stack.owner = th /\ th # "nobody"
  BY SipStackAssumption DEF StackInv, ThreadInv, LockInv, Callers
<1>s. th \in Sessions => User(th) = th /\ th \notin Apps
  BY SipStackAssumption DEF User
<1>a. th \in Apps => User(th) = "stack" /\ th \notin Sessions
  BY SipStackAssumption DEF User
<1>n. ASSUME NEW step, Moves(th, step), UNCHANGED <<users, stack>>, races \subseteq races',
             at[th] \notin {"idle", "lock"},
             th \in Sessions => step \in Leaving \/ User(th) \notin users,
             th \in Apps => /\ step \notin Closing
                            /\ step \in Starting => ~Given \/ "twice" \in races
      PROVE  GivenInv'
  <2>1. th \in Apps => stack'.owner # "nobody"
    BY <1>l, <1>n
  <2>2. (Given' <=> Given) /\ users' = users
    BY <1>n DEF Given
  <2>3. th \in Apps => (step \in Starting => ~Given' \/ "twice" \in races')
    BY <1>n, <2>2
  <2>4. QED
    BY <1>n, <2>1, <2>2, <2>3, MoveKeepsGiven
<1>r. ASSUME at[th] \in Leaving, AfterTimers(th), users' = users \ {User(th)}, UNCHANGED stack,
             races \subseteq races'
      PROVE  GivenInv'
  <2>1. PICK step \in {"idle", "close transports"} : Moves(th, step)
    BY <1>r, AfterTimersMoves DEF Moves
  <2>2. User(th) \notin users' /\ at[th] \notin {"idle", "lock"}
    BY <1>r DEF Leaving
  <2>3. th \in Apps => ~Given'
    BY <1>a, <2>2 DEF Given
  <2>4. QED
    BY <1>r, <2>1, <2>2, <2>3, MoveKeepsGiven DEF Starting
<1>1. CASE GlobalStartTest(th)
  <2>1. PICK step \in {"start manager", "count in"} : Goes(th, step)
    BY <1>1 DEF GlobalStartTest
  <2>2. at[th] = "start timers" /\ UNCHANGED <<users, stack, races>> /\ Moves(th, step)
    BY <1>1, <2>1, Moved DEF GlobalStartTest
  <2>3. QED
    BY <1>s, <2>2, <1>n DEF GivenInv, Starting, Closing, Leaving
<1>2. CASE GlobalStartManager(th)
  <2>1. at[th] = "start manager" /\ UNCHANGED <<users, stack, races>>
    BY <1>2 DEF GlobalStartManager
  <2>2. \/ Goes(th, "count in")
        \/ th \in Sessions /\ Returns(th)
        \/ th \notin Sessions /\ Becomes(th, "failed", "signal failure")
    BY <1>2 DEF GlobalStartManager
  <2>3. PICK step \in {"count in", "idle", "signal failure"} :
               Moves(th, step) /\ (step = "idle" => th \in Sessions)
    BY <2>2, Moved
  <2>4. QED
    BY <1>s, <2>1, <2>3, <1>n DEF GivenInv, Starting, Closing, Leaving
<1>3. CASE GlobalStartCount(th)
  <2>1. /\ at[th] = "count in" /\ users' = users \cup {User(th)} /\ UNCHANGED stack
        /\ races \subseteq races'
    BY <1>3 DEF GlobalStartCount, Happens
  <2>2. th \in Sessions => Moves(th, "playing")
    BY <1>3, Moved DEF GlobalStartCount
  <2>3. th \notin Sessions => Moves(th, "start events")
    BY <1>3, Moved DEF GlobalStartCount
  <2>4. CASE th \in Sessions
    BY <1>s, <2>1, <2>2, <2>4, MoveKeepsGiven
  <2>5. CASE th \notin Sessions
    BY <1>l, <2>1, <2>3, <2>5, MoveKeepsGiven DEF Closing, Starting
  <2>6. QED
    BY <2>4, <2>5
<1>4. CASE GlobalStopTest(th)
  <2>1. /\ at[th] = "stop timers" /\ at[th] \in Leaving /\ UNCHANGED <<count, stack>>
        /\ races \subseteq races'
    BY <1>4 DEF GlobalStopTest, Leaving, Happens
  <2>2. count \in Nat /\ count >= 1
    BY <2>1, LeaverIsCounted DEF StackInv, ServeInv, CountInv
  <2>3. ~(count <= 0) /\ count > 0
    BY <2>2
  <2>4. CASE manager.running
    <3>1. Goes(th, "last user?") /\ UNCHANGED users
      BY <1>4, <2>3, <2>4, Zenon DEF GlobalStopTest
    <3>2. Moves(th, "last user?")
      BY <3>1, Moved
    <3>3. QED
      BY <2>1, <3>1, <3>2, <1>n DEF Starting, Closing, Leaving
  <2>5. CASE ~manager.running
    <3>1. AfterTimers(th) /\ users' = users \ {User(th)}
      BY <1>4, <2>3, <2>5, Zenon DEF GlobalStopTest
    <3>2. QED
      BY <2>1, <3>1, <1>r
  <2>6. QED
    BY <2>4, <2>5
<1>5. CASE GlobalStopLast(th) \/ GlobalStopManager(th) \/ GlobalStopJoin(th)
  <2>1. PICK step \in {"stop manager", "join manager", "count out"} : Goes(th, step)
    BY <1>5 DEF GlobalStopLast, GlobalStopManager, GlobalStopJoin
  <2>2. /\ at[th] \in Leaving /\ UNCHANGED <<users, stack>> /\ races \subseteq races'
    BY <1>5 DEF GlobalStopLast, GlobalStopManager, GlobalStopJoin, Leaving, Happens
  <2>3. Moves(th, step)
    BY <2>1, Moved
  <2>4. QED
    BY <2>2, <2>3, <1>n DEF Starting, Closing, Leaving
<1>6. CASE GlobalStopCount(th)
  BY <1>6, <1>r DEF GlobalStopCount, Leaving
<1>7. QED
  BY <1>1, <1>2, <1>3, <1>4, <1>5, <1>6 DEF GlobalTimers

LEMMA RunnableStopKeepsGiven ==
  ASSUME StackInv, GivenInv, NEW th \in Callers, RunnableStop(th)
  PROVE  GivenInv'
<1>1. /\ at[th] \in {"stop events", "sleep", "tell thread", "join thread"}
      /\ users' = users /\ races \subseteq races'
  BY DEF RunnableStop, RunnableStopTest, RunnableStopSleeps, RunnableStopTells,
         RunnableStopJoins, Happens, timerVars
<1>2. th \in Apps /\ th \notin Sessions /\ at[th] \notin {"idle", "lock"}
  BY <1>1, AppHere DEF SessionSteps, Leaving
<1>3. ~Given /\ ~Given'
  BY <1>1, <1>2 DEF GivenInv, Closing, Given
<1>4. \E step \in {"idle", "tell thread", "sleep", "join thread"} : Moves(th, step)
  <2>1. \/ Returns(th) \/ Goes(th, "tell thread") \/ Goes(th, "sleep") \/ Goes(th, "join thread")
    BY DEF RunnableStop, RunnableStopTest, RunnableStopSleeps, RunnableStopTells,
           RunnableStopJoins, AfterEvents
  <2>2. QED
    BY <2>1, Moved
<1>5. QED
  BY <1>1, <1>2, <1>3, <1>4, MoveKeepsGiven

LEMMA StackStepsKeepGiven ==
  ASSUME StackInv, GivenInv, NEW th \in Callers, Stack(th)
  PROVE  GivenInv'
<1> USE DEF Pushed, Enqueued, Happens, timerVars
<1>1. users' = users /\ (Given' <=> Given) /\ races \subseteq races'
  <2>1. CASE StartLock(th) \/ StartEvents(th) \/ StartTransports(th)
    BY <2>1 DEF StartLock, StartEvents, StartTransports, Given
  <2>2. CASE StartDone(th)
    BY <2>2 DEF StartDone, Given
  <2>3. CASE StartFails(th)
    BY <2>3 DEF StartFails, Given
  <2>4. CASE CloseTransports(th)
    BY <2>4 DEF CloseTransports, Given
  <2>5. CASE StopLock(th)
    BY <2>5 DEF StopLock, Given
  <2>6. QED
    BY <2>1, <2>2, <2>3, <2>4, <2>5 DEF Stack
<1>2. at[th] \in {"lock", "start events", "open transports", "all is ok", "signal failure",
                  "close transports"}
  BY DEF Stack, StartLock, StartEvents, StartTransports, StartDone, StartFails,
         CloseTransports, StopLock
<1>3. th \in Apps /\ th \notin Sessions /\ th # "nobody"
  BY <1>2, AppHere, SipStackAssumption DEF SessionSteps, Leaving
<1>4. stack \in [started : BOOLEAN, open : BOOLEAN, owner : Apps \cup {"nobody"}]
  BY DEF StackInv, ThreadInv, LockInv
<1>5. at[th] # "lock" => stack.owner = th
  BY <1>2, <1>3 DEF StackInv, ThreadInv, LockInv
<1>6. CASE StartLock(th)
  <2>1. /\ Moves(th, "start timers") /\ stack.owner = "nobody" /\ stack'.owner = th
        /\ stack.started => "twice" \in races'
    BY <1>4, <1>6, Moved DEF StartLock
  <2>2. ~Given' \/ "twice" \in races'
    BY <1>1, <2>1 DEF GivenInv
  <2>3. QED
    BY <1>1, <1>3, <2>1, <2>2, MoveKeepsGiven DEF Closing
<1>7. CASE StopLock(th)
  <2>1. CASE stack.started
    <3> DEFINE step == IF "stack" \in users THEN "stop timers" ELSE "close transports"
    <3>1. stack' = [stack EXCEPT !.owner = th] /\ Goes(th, step)
      BY <1>7, <2>1 DEF StopLock
    <3>2. step \in {"stop timers", "close transports"} /\ (step = "close transports" => ~Given')
      BY <1>1 DEF Given
    <3> HIDE DEF step
    <3>3. Moves(th, step) /\ stack'.owner = th
      BY <1>4, <3>1, Moved
    <3>4. QED
      BY <1>1, <1>3, <3>2, <3>3, MoveKeepsGiven DEF Starting, Closing
  <2>2. CASE ~stack.started
    <3>1. UNCHANGED stack /\ Moves(th, "idle")
      BY <1>7, <2>2, Moved DEF StopLock
    <3>2. stack'.owner = "nobody" /\ ~stack'.started => ~Given'
      BY <1>1, <3>1 DEF GivenInv
    <3>3. QED
      BY <1>1, <1>3, <3>1, <3>2, MoveKeepsGiven DEF Starting, Closing
  <2>3. QED
    BY <2>1, <2>2
<1>8. CASE StartEvents(th) \/ StartTransports(th)
  <2>1. \E step \in {"signal failure", "open transports", "all is ok"} : Moves(th, step)
    <3>1. \/ Goes(th, "open transports") \/ Goes(th, "all is ok")
          \/ Becomes(th, "failed", "signal failure")
      BY <1>8 DEF StartEvents, StartTransports
    <3>2. QED
      BY <3>1, Moved
  <2>2. stack'.owner = th
    BY <1>4, <1>5, <1>8 DEF StartEvents, StartTransports
  <2>3. QED
    BY <1>1, <1>3, <2>1, <2>2, MoveKeepsGiven DEF Starting, Closing
<1>9. CASE StartDone(th)
  <2>1. Moves(th, "idle") /\ stack'.started
    <3>1. stack' = [stack EXCEPT !.started = TRUE, !.owner = "nobody"]
      BY <1>9 DEF StartDone
    <3>2. stack'.started
      BY <1>4, <3>1
    <3>3. QED
      BY <1>9, <3>2, Moved DEF StartDone
  <2>2. at[th] \notin {"idle", "lock"}
    BY <1>9 DEF StartDone
  <2>3. QED
    BY <1>1, <1>3, <2>1, <2>2, MoveKeepsGiven DEF Starting, Closing
<1>10. CASE StartFails(th)
  <2> DEFINE step == IF "stack" \in users THEN "stop timers" ELSE "close transports"
  <2>1. at[th] = "signal failure" /\ UNCHANGED stack /\ Goes(th, step)
    BY <1>10 DEF StartFails
  <2>2. step \in {"stop timers", "close transports"} /\ (step = "close transports" => ~Given')
    BY <1>1 DEF Given
  <2> HIDE DEF step
  <2>3. Moves(th, step) /\ stack'.owner = th
    BY <1>5, <2>1, Moved
  <2>4. QED
    BY <1>1, <1>3, <2>2, <2>3, MoveKeepsGiven DEF Starting, Closing
<1>11. CASE CloseTransports(th)
  <2>1. at[th] = "close transports"
    BY <1>11 DEF CloseTransports
  <2>2. ~Given'
    BY <1>1, <1>3, <2>1 DEF GivenInv, Closing
  <2>3. \E step \in {"idle", "stop events"} : Moves(th, step)
    BY <1>11, Moved DEF CloseTransports
  <2>4. QED
    BY <1>1, <1>3, <2>2, <2>3, MoveKeepsGiven
<1>12. QED
  BY <1>6, <1>7, <1>8, <1>9, <1>10, <1>11 DEF Stack

LEMMA StepKeepsGiven ==
  ASSUME StackInv, GivenInv, [Next]_vars
  PROVE  GivenInv'
<1>1. CASE UNCHANGED vars
  BY <1>1, QuietKeepsGiven DEF vars, threadVars, timerVars
<1>2. QED
  BY <1>1, EventsKeepGiven, CallsKeepGiven, TimersKeepGiven, RunnableStopKeepsGiven,
     StackStepsKeepGiven DEF Next, Step

-----------------------------------------------------------------------------
(***************************************************************************)
(* The last user.  Where no stop was crossed or skipped and no start       *)
(* overtook one or came twice, the count is the number of users, who stops *)
(* the manager has seen it running, and a manager that is there has a user *)
(* that does not count out, or gets one.                                   *)
(***************************************************************************)

Flawless == races \cap {"skipped", "crossed", "overtaken", "twice"} = {}
Keeps(u) == u \in users /\ \A th \in Callers : User(th) = u => at[th] # "count out"
Wanted == (\E th \in Callers : at[th] = "count in") \/ \E u \in users : Keeps(u)

OffInv ==
  Flawless =>
    /\ count = Cardinality(users)
    /\ \A th \in Callers : at[th] \in {"last user?", "stop manager"} => manager.running
    /\ manager = Off \/ Wanted

\* Nobody came from counting itself in, or to counting itself out.
LEMMA WantedStays ==
  ASSUME users' = users,
         \A o \in Callers : at[o] = "count in" => at'[o] = "count in",
         \A o \in Callers : at'[o] = "count out" => at[o] = "count out"
  PROVE  Wanted => Wanted'
<1>1. CASE \E o \in Callers : at[o] = "count in"
  BY <1>1 DEF Wanted
<1>2. ASSUME NEW u \in users, Keeps(u)
      PROVE  Wanted'
  <2>1. Keeps(u)'
    BY <1>2 DEF Keeps, User
  <2>2. QED
    BY <1>2, <2>1 DEF Wanted
<1>3. QED
  BY <1>1, <1>2 DEF Wanted

\* A step that counts nothing and comes to none of the leaving steps in between.
LEMMA MoveKeepsOff ==
  ASSUME OffInv, NEW th \in Callers, NEW step, Moves(th, step), UNCHANGED timerVars,
         races \subseteq races', at[th] # "count in",
         step \notin {"last user?", "stop manager", "count out"}
  PROVE  OffInv'
<1> SUFFICES ASSUME Flawless' PROVE OffInv!2'
  BY DEF OffInv
<1>1. Flawless /\ UNCHANGED <<count, manager, users>>
  BY DEF Flawless, timerVars
<1>2. \A o \in Callers : at'[o] \in {"last user?", "stop manager"} => manager'.running
  BY <1>1 DEF OffInv, Moves
<1>3. Wanted => Wanted'
  BY <1>1, WantedStays DEF Moves
<1>4. QED
  BY <1>1, <1>2, <1>3 DEF OffInv

LEMMA QuietKeepsOff ==
  ASSUME OffInv, UNCHANGED <<at, timerVars>>, races \subseteq races'
  PROVE  OffInv'
<1>1. UNCHANGED <<count, manager, users>> /\ (Flawless' => Flawless)
  BY DEF Flawless, timerVars
<1>2. Wanted => Wanted'
  BY <1>1, WantedStays
<1>3. QED
  BY <1>1, <1>2 DEF OffInv

LEMMA ManagerRunsKeepsOff ==
  ASSUME StackInv, OffInv, ManagerRuns
  PROVE  OffInv'
<1>1. /\ UNCHANGED <<at, count, users, races>> /\ manager.thread = "new"
      /\ manager' = [manager EXCEPT !.thread = "going", !.running = TRUE]
  BY DEF ManagerRuns, threadVars
<1>2. manager'.running
  BY <1>1 DEF StackInv, ServeInv, ManagerInv
<1>3. manager # Off
  BY <1>1 DEF Off
<1>4. (Flawless' => Flawless) /\ (Wanted => Wanted')
  BY <1>1, WantedStays DEF Flawless
<1>5. QED
  BY <1>1, <1>2, <1>3, <1>4 DEF OffInv

LEMMA EventsKeepOff ==
  ASSUME OffInv, Events
  PROVE  OffInv'
<1> USE DEF Pushed, Happens, threadVars
<1>1. UNCHANGED <<at, timerVars>> /\ races \subseteq races'
  <2>1. CASE SignalTest \/ SignalPost \/ SignalPush
    BY <2>1 DEF SignalTest, SignalPost, SignalPush
  <2>2. CASE RunBegins \/ RunTakesPermit \/ RunLooks \/ RunTakes
    BY <2>2 DEF RunBegins, RunTakesPermit, RunLooks, RunTakes
  <2> QED BY <2>1, <2>2 DEF Events
<1>2. QED
  BY <1>1, QuietKeepsOff

\* The steps of the threads that are not the timer manager's.
LEMMA OtherStepsKeepOff ==
  ASSUME StackInv, OffInv, NEW th \in Callers, Call(th) \/ RunnableStop(th) \/ Stack(th)
  PROVE  OffInv'
<1> USE DEF Pushed, Enqueued, Happens
<1> DEFINE Steps == {"idle", "lock", "start timers", "stop timers", "start events",
                     "open transports", "all is ok", "signal failure", "close transports",
                     "stop events", "sleep", "tell thread", "join thread"}
<1>b. call[th] = "none" => at[th] = "idle"
  BY DEF StackInv, ThreadInv, StepsInv
<1>o. ASSUME NEW step \in Steps, NEW what, UNCHANGED timerVars, races \subseteq races',
             at[th] # "count in",
             \/ Goes(th, step) \/ Becomes(th, what, step) \/ Begins(th, what, step)
             \/ step = "idle" /\ Returns(th)
      PROVE  OffInv'
  <2>1. Moves(th, step)
    BY <1>o, Moved
  <2>2. QED
    BY <1>o, <2>1, MoveKeepsOff
<1>1. CASE Call(th)
  <2>1. UNCHANGED timerVars /\ races \subseteq races'
    BY <1>1 DEF Call, SessionStart, SessionStop, StartTest, StopCalled
  <2>2. at[th] # "count in"
    BY <1>1, <1>b DEF Call, SessionStart, SessionStop, StartTest, StopCalled, Begins
  <2>3. \/ UNCHANGED at
        \/ Goes(th, "stop timers")
        \/ Begins(th, "session", "start timers")
        \/ Begins(th, "start", "lock")
        \/ Begins(th, "stop", "lock")
    BY <1>1 DEF Call, SessionStart, SessionStop, StartTest, StopCalled
  <2>4. QED
    BY <2>1, <2>2, <2>3, <1>o, QuietKeepsOff
<1>2. CASE RunnableStop(th)
  <2>1. /\ at[th] \in {"stop events", "sleep", "tell thread", "join thread"}
        /\ UNCHANGED timerVars /\ races \subseteq races'
    BY <1>2 DEF RunnableStop, RunnableStopTest, RunnableStopSleeps, RunnableStopTells,
           RunnableStopJoins
  <2>2. \/ Returns(th) \/ Goes(th, "tell thread") \/ Goes(th, "sleep") \/ Goes(th, "join thread")
    BY <1>2 DEF RunnableStop, RunnableStopTest, RunnableStopSleeps, RunnableStopTells,
           RunnableStopJoins, AfterEvents
  <2>3. QED
    BY <2>1, <2>2, <1>o
<1>3. CASE Stack(th)
  <2>1. UNCHANGED timerVars /\ races \subseteq races'
    <3>1. CASE StartLock(th) \/ StartEvents(th) \/ StartTransports(th)
      BY <3>1 DEF StartLock, StartEvents, StartTransports
    <3>2. CASE StartDone(th) \/ StartFails(th)
      BY <3>2 DEF StartDone, StartFails
    <3>3. CASE CloseTransports(th)
      BY <3>3 DEF CloseTransports
    <3>4. CASE StopLock(th)
      BY <3>4 DEF StopLock
    <3>5. QED
      BY <1>3, <3>1, <3>2, <3>3, <3>4 DEF Stack
  <2>2. at[th] # "count in"
    BY <1>3 DEF Stack, StartLock, StartEvents, StartTransports, StartDone, StartFails,
           CloseTransports, StopLock
  <2>3. \/ Goes(th, "start timers") \/ Goes(th, "open transports") \/ Goes(th, "all is ok")
        \/ Goes(th, "stop timers") \/ Goes(th, "close transports") \/ Goes(th, "stop events")
        \/ Becomes(th, "failed", "signal failure") \/ Returns(th)
    BY <1>3 DEF Stack, StartLock, StartEvents, StartTransports, StartDone, StartFails,
           CloseTransports, StopLock
  <2>4. QED
    BY <2>1, <2>2, <2>3, <1>o
<1>4. QED
  BY <1>1, <1>2, <1>3

\* Who starts the timers of a user for which they are not started.
LEMMA StarterIsNoUser ==
  ASSUME StackInv, GivenInv, Flawless, NEW th \in Callers, at[th] \in Starting
  PROVE  User(th) \notin users
<1>1. CASE th \in Sessions
  BY <1>1 DEF GivenInv, User, Starting, Leaving
<1>2. CASE th \notin Sessions
  BY <1>2 DEF GivenInv, User, Given, Flawless, Callers
<1>3. QED
  BY <1>1, <1>2

\* Who stops the manager is the only one that leaves.
LEMMA StopperIsAlone ==
  ASSUME StackInv, Flawless, NEW th \in Callers, at[th] \in Stopping,
         NEW o \in Callers, o # th
  PROVE  at[o] \notin Leaving
<1>1. users = {User(th)}
  BY DEF StackInv, ServeInv, LastInv, Flawless
<1>2. at[th] \in Leaving
  BY DEF Stopping, Leaving
<1>3. at[o] \in Leaving => User(o) \in users
  BY DEF StackInv, ServeInv, CountInv
<1>4. QED
  BY <1>1, <1>2, <1>3, LeaverIsAlone

LEMMA TimersKeepOff ==
  ASSUME StackInv, GivenInv, OffInv, NEW th \in Callers, GlobalTimers(th)
  PROVE  OffInv'
<1>r. races \subseteq races'
  BY DEF GlobalTimers, GlobalStartTest, GlobalStartManager, GlobalStartCount, GlobalStopTest,
         GlobalStopLast, GlobalStopManager, GlobalStopJoin, GlobalStopCount, Happens
<1> SUFFICES ASSUME Flawless' PROVE OffInv'
  BY DEF OffInv
<1>f. Flawless
  BY <1>r DEF Flawless
<1>c. /\ count = Cardinality(users) /\ IsFiniteSet(users)
      /\ Cardinality(users) \in Nat
  BY <1>f, FS_CardinalityType DEF OffInv, StackInv, ServeInv, CountInv
<1>m. manager \in [running : BOOLEAN, started : BOOLEAN, thread : {"none", "new", "going"}]
  BY DEF StackInv, ServeInv, ManagerInv
<1>1. CASE GlobalStartTest(th)
  <2>1. PICK step \in {"start manager", "count in"} : Goes(th, step)
    BY <1>1 DEF GlobalStartTest
  <2>2. at[th] = "start timers" /\ UNCHANGED timerVars /\ Moves(th, step)
    BY <1>1, <2>1, Moved DEF GlobalStartTest
  <2>3. QED
    BY <1>r, <2>2, MoveKeepsOff
<1>2. CASE GlobalStartManager(th)
  <2>1. CASE ~manager.running /\ ~manager.started
    <3>1. /\ Moves(th, "count in") /\ UNCHANGED <<count, users>>
          /\ manager' = [manager EXCEPT !.started = TRUE, !.thread = "new"]
      BY <1>2, <2>1, Moved DEF GlobalStartManager
    <3>2. \A o \in Callers : at'[o] \notin {"last user?", "stop manager"}
      BY <1>f, <2>1, <3>1 DEF OffInv, Moves
    <3>3. Wanted'
      BY <3>1 DEF Wanted, Moves
    <3>4. QED
      BY <1>c, <3>1, <3>2, <3>3 DEF OffInv
  <2>2. CASE ~(~manager.running /\ ~manager.started)
    <3>1. /\ at[th] = "start manager" /\ UNCHANGED timerVars
          /\ Returns(th) \/ Becomes(th, "failed", "signal failure")
      BY <1>2, <2>2 DEF GlobalStartManager, timerVars
    <3>2. \E step \in {"idle", "signal failure"} : Moves(th, step)
      BY <3>1, Moved
    <3>3. QED
      BY <1>r, <3>1, <3>2, MoveKeepsOff
  <2>3. QED
    BY <2>1, <2>2
<1>3. CASE GlobalStartCount(th)
  <2> DEFINE u == User(th)
  <2>1. /\ at[th] = "count in" /\ users' = users \cup {u} /\ count' = count + 1
        /\ UNCHANGED manager
    BY <1>3 DEF GlobalStartCount
  <2>2. u \notin users
    BY <1>f, <2>1, StarterIsNoUser DEF Starting
  <2>3. PICK step \in {"playing", "start events"} : Moves(th, step)
    BY <1>3, Moved DEF GlobalStartCount
  <2>4. count' = Cardinality(users')
    <3> HIDE DEF u
    <3>1. Cardinality(users \cup {u}) = Cardinality(users) + 1
      BY <1>c, <2>2, FS_AddElement
    <3>2. QED
      BY <1>c, <2>1, <3>1
  <2>5. \A o \in Callers : at'[o] \in {"last user?", "stop manager"} => manager'.running
    BY <1>f, <2>1, <2>3 DEF OffInv, Moves
  <2>6. ASSUME NEW o \in Callers, User(o) = u
        PROVE  at'[o] # "count out"
    BY <2>1, <2>3, <2>6, SameUser DEF StackInv, ThreadInv, Moves
  <2>7. u \in users' /\ \A o \in Callers : User(o) = u => at'[o] # "count out"
    BY <2>1, <2>6
  <2>8. Wanted'
    <3> HIDE DEF u
    <3>1. QED
      BY <2>7 DEF Wanted, Keeps, User
  <2>9. QED
    BY <2>4, <2>5, <2>8 DEF OffInv
<1>4. CASE GlobalStopTest(th)
  <2>1. at[th] = "stop timers" /\ at[th] \in Leaving /\ UNCHANGED <<count, manager>>
    BY <1>4 DEF GlobalStopTest, Leaving
  <2>2. ~(count <= 0) /\ count > 0
    <3>1. count \in Nat /\ count >= 1
      BY <2>1, LeaverIsCounted DEF StackInv, ServeInv, CountInv
    <3>2. QED
      BY <3>1
  <2>3. manager.running /\ Goes(th, "last user?") /\ UNCHANGED users
    <3>1. CASE manager.running
      BY <1>4, <2>2, <3>1, Zenon DEF GlobalStopTest
    <3>2. CASE ~manager.running
      <4>1. Happens("skipped", TRUE)
        BY <1>4, <2>2, <3>2, Zenon DEF GlobalStopTest
      <4>2. QED
        BY <4>1 DEF Happens, Flawless
    <3>3. QED
      BY <3>1, <3>2
  <2>4. Moves(th, "last user?")
    BY <2>3, Moved
  <2>5. Wanted => Wanted'
    BY <2>1, <2>3, <2>4, WantedStays DEF Moves
  <2>6. QED
    BY <1>f, <1>c, <2>1, <2>3, <2>5 DEF OffInv
<1>5. CASE GlobalStopLast(th)
  <2>1. /\ at[th] = "last user?" /\ UNCHANGED <<count, manager, users>> /\ manager.running
    BY <1>5, <1>f DEF GlobalStopLast, timerVars, OffInv
  <2>2. CASE count = 1
    <3>1. Moves(th, "stop manager")
      BY <1>5, <2>2, Moved DEF GlobalStopLast
    <3>2. Wanted => Wanted'
      BY <2>1, <3>1, WantedStays DEF Moves
    <3>3. QED
      BY <1>f, <1>c, <2>1, <3>2 DEF OffInv
  <2>3. CASE count # 1
    <3>1. Moves(th, "count out")
      BY <1>5, <2>3, Moved DEF GlobalStopLast
    <3>2. \A o \in Callers : o # th => at[o] # "count out"
      BY <1>5, <2>3 DEF GlobalStopLast, Happens, Others, Flawless
    <3>3. PICK u \in users : u # User(th)
      <4> DEFINE v == User(th)
      <4>1. v \in users
        BY <2>1, LeaverIsCounted DEF Leaving
      <4> HIDE DEF v
      <4>2. Cardinality({v}) = 1 /\ users # {v}
        BY <1>c, <2>3, FS_Singleton
      <4>3. \E u \in users : u # v
        BY <4>1, <4>2
      <4>4. QED
        BY <4>3 DEF v
    <3>4. Keeps(u)'
      BY <2>1, <3>1, <3>2, <3>3 DEF Keeps, Moves, User
    <3>5. Wanted'
      BY <2>1, <3>4 DEF Wanted
    <3>6. \A o \in Callers : at'[o] \in {"last user?", "stop manager"} => manager'.running
      BY <2>1
    <3>7. QED
      BY <1>c, <2>1, <3>5, <3>6 DEF OffInv
  <2>4. QED
    BY <2>2, <2>3
<1>6. CASE GlobalStopManager(th) \/ GlobalStopJoin(th)
  <2>1. /\ at[th] \in Stopping /\ UNCHANGED <<count, users>>
        /\ at[th] = "stop manager" => manager.running
    BY <1>6, <1>f DEF GlobalStopManager, GlobalStopJoin, Stopping, OffInv
  <2>2. \/ at[th] = "stop manager" /\ Moves(th, "join manager")
        \/ manager' = Off /\ Moves(th, "count out")
    BY <1>6, <2>1, Moved DEF GlobalStopManager, GlobalStopJoin
  <2>3. \A o \in Callers : at'[o] \notin {"last user?", "stop manager"}
    BY <1>f, <2>1, <2>2, StopperIsAlone DEF Moves, Leaving
  <2>4. manager' = Off \/ Wanted'
    <3>1. CASE manager' = Off
      BY <3>1
    <3>2. CASE at[th] = "stop manager" /\ Moves(th, "join manager")
      <4>1. manager # Off
        <5>1. ~Off.running
          BY DEF Off
        <5>2. QED
          BY <2>1, <3>2, <5>1
      <4>2. Wanted => Wanted'
        BY <2>1, <3>2, WantedStays DEF Moves
      <4>3. QED
        BY <1>f, <4>1, <4>2 DEF OffInv
    <3>3. QED
      BY <2>2, <3>1, <3>2
  <2>5. QED
    BY <1>c, <2>1, <2>3, <2>4 DEF OffInv
<1>7. CASE GlobalStopCount(th)
  <2> DEFINE v == User(th)
  <2>1. /\ at[th] = "count out" /\ count' = count - 1 /\ users' = users \ {v}
        /\ UNCHANGED manager /\ AfterTimers(th) /\ UNCHANGED stack
    BY <1>7 DEF GlobalStopCount
  <2>2. v \in users
    BY <2>1, LeaverIsCounted DEF Leaving
  <2>3. PICK step \in {"idle", "close transports"} : Moves(th, step)
    BY <2>1, AfterTimersMoves DEF Moves, Leaving
  <2>4. count' = Cardinality(users')
    <3> HIDE DEF v
    <3>1. Cardinality(users \ {v}) = Cardinality(users) - 1
      BY <1>c, <2>2, FS_RemoveElement
    <3>2. QED
      BY <1>c, <2>1, <3>1
  <2>5. \A o \in Callers : at'[o] \in {"last user?", "stop manager"} => manager'.running
    BY <1>f, <2>1, <2>3 DEF OffInv, Moves
  <2>6. \A u \in users : Keeps(u) => u \in users' /\ Keeps(u)'
    BY <2>1, <2>3 DEF Keeps, Moves, User
  <2>7. Wanted => Wanted'
    BY <2>1, <2>3, <2>6 DEF Wanted, Moves
  <2>8. QED
    BY <1>f, <2>1, <2>4, <2>5, <2>7 DEF OffInv
<1>8. QED
  BY <1>1, <1>2, <1>3, <1>4, <1>5, <1>6, <1>7 DEF GlobalTimers

\* When the last user of the timer manager has gone and nobody calls, it has been
\* stopped (tsk_timer.c:430): with any number of sessions beside the stack, and
\* whatever the order of their steps, unless a stop found the manager started
\* and its thread not running, two compared the count at once, a start fell into
\* a stop, or two starts of the stack met.
THEOREM LastUserStopsTheManager == Spec => []LastUserStops
<1>1. Init => GivenInv /\ OffInv
  <2> SUFFICES ASSUME Init PROVE GivenInv /\ OffInv
    OBVIOUS
  <2>1. \A th \in Callers : at[th] = "idle"
    BY DEF Init
  <2>2. GivenInv
    BY <2>1 DEF Init, GivenInv, Given, Leaving, Closing, Starting, Callers
  <2>3. OffInv
    BY <2>1, FS_EmptySet DEF Init, OffInv
  <2>4. QED
    BY <2>2, <2>3
<1>2. StackInv /\ GivenInv /\ OffInv /\ [Next]_vars => OffInv'
  <2> SUFFICES ASSUME StackInv, GivenInv, OffInv, [Next]_vars PROVE OffInv'
    OBVIOUS
  <2>1. CASE UNCHANGED vars
    BY <2>1, QuietKeepsOff DEF vars, threadVars
  <2>2. QED
    BY <2>1, ManagerRunsKeepsOff, EventsKeepOff, OtherStepsKeepOff, TimersKeepOff DEF Next, Step
<1>3. StackInv /\ OffInv => LastUserStops
  BY DEF OffInv, LastUserStops, Flawless, Wanted
<1>4. QED
  BY StackBegins, StepKeepsStackInv, StepKeepsGiven, <1>1, <1>2, <1>3, PTL DEF Spec

-----------------------------------------------------------------------------
(***************************************************************************)
(* All or nothing.  The runnable of the events is initialized as long as   *)
(* its thread is there or joined, and runs once its thread is up until it  *)
(* is told otherwise.  A stack nobody holds has everything or nothing, and *)
(* who holds it is at a stage: with what a start has opened by then, or    *)
(* with what a stop or a failed start has left to close.  A start met by   *)
(* another, a thread not yet running when a failure looks, and a stop that *)
(* grew impatient are the races that break this.                           *)
(***************************************************************************)

Alive == runnable.thread # "none"
Joining == \E th \in Apps : at[th] = "join thread"

RunnerInv ==
  /\ ~runnable.initialized => ~runnable.running /\ ~Alive
  /\ runnable.initialized => Alive \/ Joining
  /\ runnable.initialized <=> runnable.started
  /\ runnable.thread \in {"wait", "look", "take"} => runnable.running \/ Joining

CallAs(step, what) ==
  /\ step \in Starting \cup {"start events", "open transports", "all is ok"} => what = "start"
  /\ step = "lock" => what \in {"start", "stop"}
  /\ step \in Leaving \cup Closing \cup {"signal failure"} => what \in {"failed", "stop"}

CallsInv == \A th \in Apps : CallAs(at[th], call[th])

Tame == races \cap {"twice", "unborn", "impatient"} = {}
Full == stack.started /\ stack.open /\ Given /\ Alive
Empty == ~stack.started /\ ~stack.open /\ ~Given /\ ~Alive

StageAs(step, what) ==
  /\ step \in Starting => Empty
  /\ step = "start events" => Given /\ ~stack.open /\ ~Alive
  /\ step = "open transports" => Given /\ Alive
  /\ step = "all is ok" => Given /\ Alive /\ stack.open
  /\ step \in Closing \ {"close transports"} => ~stack.open
  /\ what = "failed" \/ (what = "start" /\ step # "lock") => ~stack.started

\* Who holds the stack is past the lock.
HeldInv == stack.owner # "nobody" => at[stack.owner] \notin {"idle", "lock"}

StageInv ==
  /\ HeldInv
  /\ Tame => /\ stack.owner = "nobody" => Full \/ Empty
             /\ \A th \in Apps : StageAs(at[th], call[th])

Does(th, step, what) ==
  /\ Moves(th, step)
  /\ \A o \in Callers : call'[o] = IF o = th THEN what ELSE call[o]

LEMMA Done ==
  ASSUME StackInv, NEW th \in Callers, NEW step, NEW what
  PROVE  /\ Goes(th, step) => Does(th, step, call[th])
         /\ Becomes(th, what, step) => Does(th, step, what)
         /\ Begins(th, what, step) => Does(th, step, what)
         /\ Returns(th) => Does(th, "idle", "none")
BY DEF StackInv, ThreadInv, StepsInv, Goes, Becomes, Begins, Returns, Does, Moves

LEMMA DoesKeepsCalls ==
  ASSUME CallsInv, NEW th \in Callers, NEW step, NEW what, Does(th, step, what),
         th \in Apps => CallAs(step, what)
  PROVE  CallsInv'
<1>1. ASSUME NEW a \in Apps PROVE CallAs(at'[a], call'[a])
  <2>1. CASE a = th
    BY <2>1 DEF Does, Moves
  <2>2. CASE a # th
    <3>1. at'[a] = at[a] /\ call'[a] = call[a]
      BY <2>2 DEF Does, Moves, Callers
    <3>2. QED
      BY <3>1 DEF CallsInv
  <2>3. QED
    BY <2>1, <2>2
<1>2. QED
  BY <1>1 DEF CallsInv, CallAs

-----------------------------------------------------------------------------
(* The runnable.                                                           *)

SameRunner ==
  /\ runnable'.initialized <=> runnable.initialized
  /\ runnable'.started <=> runnable.started
  /\ runnable'.running <=> runnable.running
  /\ runnable'.thread = runnable.thread

LEMMA SameKeepsRunner ==
  ASSUME RunnerInv, SameRunner, \A th \in Apps : at[th] = "join thread" => at'[th] = "join thread"
  PROVE  RunnerInv'
<1>1. (Joining => Joining') /\ (Alive' <=> Alive)
  BY DEF Joining, Alive, SameRunner
<1>2. QED
  BY <1>1 DEF RunnerInv, SameRunner

\* A posted semaphore is no other runnable.
LEMMA PostIsSame ==
  ASSUME EventsInv, runnable' \in {runnable, [runnable EXCEPT !.sem = @ + 1]}
  PROVE  SameRunner
<1> DEFINE s == runnable.sem + 1
<1>1. runnable' \in {runnable, [runnable EXCEPT !.sem = s]}
  OBVIOUS
<1> HIDE DEF s
<1>2. QED
  BY <1>1 DEF EventsInv, RunnableType, SameRunner

LEMMA EnqueuedIsSame ==
  ASSUME EventsInv, NEW event, Enqueued(event)
  PROVE  SameRunner
BY PostIsSame DEF Enqueued

LEMMA EventsKeepRunner ==
  ASSUME EventsInv, RunnerInv, Events
  PROVE  RunnerInv'
<1> USE DEF threadVars
<1>j. at' = at /\ (Joining' <=> Joining)
  BY DEF Events, SignalTest, SignalPush, SignalPost, RunBegins, RunTakesPermit, RunLooks,
         RunTakes, Joining
<1>t. runnable \in RunnableType
  BY DEF EventsInv
<1>1. CASE SignalTest \/ SignalPush \/ SignalPost
  <2>1. runnable' \in {runnable, [runnable EXCEPT !.sem = @ + 1]}
    BY <1>1 DEF SignalTest, SignalPush, SignalPost
  <2>2. QED
    BY <1>j, <2>1, PostIsSame, SameKeepsRunner
<1>2. CASE RunBegins
  <2> DEFINE up == TRUE
  <2>1. /\ runnable.thread = "new" /\ up \in BOOLEAN /\ up
        /\ runnable' = [runnable EXCEPT !.thread = "wait", !.running = up]
    BY <1>2 DEF RunBegins, Thread
  <2> HIDE DEF up
  <2>2. /\ runnable'.thread = "wait" /\ runnable'.running
        /\ runnable'.initialized <=> runnable.initialized
        /\ runnable'.started <=> runnable.started
    BY <1>t, <2>1 DEF RunnableType
  <2>3. QED
    BY <2>1, <2>2 DEF RunnerInv, Alive
<1>3. CASE RunTakesPermit
  <2> DEFINE step == IF ~runnable.running /\ queue = <<>> THEN "none" ELSE "look"
             left == runnable.sem - 1
  <2>1. /\ runnable.thread = "wait"
        /\ runnable' = [runnable EXCEPT !.sem = left, !.thread = step]
        /\ step \in {"none", "look"} /\ (step = "none" => ~runnable.running)
    BY <1>3 DEF RunTakesPermit, Thread
  <2> HIDE DEF step, left
  <2>2. /\ runnable'.thread = step
        /\ runnable'.running <=> runnable.running
        /\ runnable'.initialized <=> runnable.initialized
        /\ runnable'.started <=> runnable.started
    BY <1>t, <2>1 DEF RunnableType
  <2>3. QED
    BY <1>j, <2>1, <2>2 DEF RunnerInv, Alive
<1>4. CASE RunLooks \/ RunTakes
  <2>1. /\ runnable.thread \in {"look", "take"}
        /\ \E step \in {"wait", "take"} : \E alone :
             runnable' \in {[runnable EXCEPT !.thread = step],
                            [runnable EXCEPT !.thread = step, !.alone = alone]}
    BY <1>4 DEF RunLooks, RunTakes, ThreadGoes, Thread
  <2>2. /\ runnable'.thread \in {"wait", "take"}
        /\ runnable'.running <=> runnable.running
        /\ runnable'.initialized <=> runnable.initialized
        /\ runnable'.started <=> runnable.started
    BY <1>t, <2>1 DEF RunnableType
  <2>3. QED
    BY <1>j, <2>1, <2>2 DEF RunnerInv, Alive
<1>5. QED
  BY <1>1, <1>2, <1>3, <1>4 DEF Events

LEMMA RunnableStopKeepsRunner ==
  ASSUME StackInv, EventsInv, RunnerInv, NEW th \in Callers, RunnableStop(th)
  PROVE  RunnerInv'
<1>t. runnable \in RunnableType
  BY DEF EventsInv
<1>1. CASE RunnableStopTest(th) \/ RunnableStopSleeps(th)
  <2>1. \/ Returns(th) \/ Goes(th, "tell thread") \/ Goes(th, "sleep")
    BY <1>1 DEF RunnableStopTest, RunnableStopSleeps, AfterEvents
  <2>2. at[th] # "join thread" /\ runnable' = runnable /\ \E step : Moves(th, step)
    BY <1>1, <2>1, Moved DEF RunnableStopTest, RunnableStopSleeps, eventVars
  <2>3. \A a \in Apps : at[a] = "join thread" => at'[a] = "join thread"
    BY <2>2 DEF Moves, Callers
  <2>4. QED
    BY <2>2, <2>3, SameKeepsRunner DEF SameRunner
<1>2. CASE RunnableStopTells(th)
  <2> DEFINE down == FALSE
             more == runnable.sem + 1
  <2>1. /\ at[th] = "tell thread" /\ Moves(th, "join thread")
        /\ runnable' = [runnable EXCEPT !.running = down, !.sem = more] /\ ~down
        /\ down \in BOOLEAN
    BY <1>2, Moved DEF RunnableStopTells
  <2> HIDE DEF down, more
  <2>2. /\ ~runnable'.running /\ runnable'.thread = runnable.thread
        /\ runnable'.initialized <=> runnable.initialized
        /\ runnable'.started <=> runnable.started
    BY <1>t, <2>1 DEF RunnableType
  <2>3. Joining'
    <3>1. th \in Apps
      BY <2>1, AppHere DEF SessionSteps, Leaving
    <3>2. QED
      BY <2>1, <3>1 DEF Joining, Moves
  <2>4. QED
    BY <2>2, <2>3 DEF RunnerInv, Alive
<1>3. CASE RunnableStopJoins(th)
  <2>1. runnable' = Dead
    BY <1>3 DEF RunnableStopJoins
  <2>2. QED
    BY <2>1 DEF RunnerInv, Alive, Dead
<1>4. QED
  BY <1>1, <1>2, <1>3 DEF RunnableStop

-----------------------------------------------------------------------------
(* The stages.                                                             *)

WholeInv == StackInv /\ GivenInv /\ EventsInv /\ RunnerInv /\ CallsInv /\ StageInv

\* Who waits for the lock, or does not call, is at no stage.
LEMMA OutsideIsNoStage ==
  ASSUME StackInv, CallsInv, NEW a \in Apps, at[a] \in {"idle", "lock"},
         NEW step, NEW what, step = at[a], what = call[a]
  PROVE  StageAs(step, what) /\ StageAs(step, what)'
<1>1. call[a] \in {"none", "start", "stop"} /\ (call[a] = "start" => at[a] = "lock")
  BY DEF StackInv, ThreadInv, StepsInv, CallsInv, CallAs, Callers
<1>2. step \notin Starting \cup Closing
  BY DEF Starting, Closing
<1>3. QED
  BY <1>1, <1>2 DEF StageAs

\* A step that leaves the applications where they are, the stack and what it is
\* a user of; the thread of the events ends where it is joined.
LEMMA QuietKeepsStage ==
  ASSUME WholeInv, UNCHANGED stack, Given' <=> Given, races \subseteq races',
         \A a \in Apps : at'[a] = at[a] /\ call'[a] = call[a],
         (Alive' <=> Alive) \/ Joining
  PROVE  CallsInv' /\ StageInv'
<1> USE DEF WholeInv
<1>1. CallsInv'
  BY DEF CallsInv, CallAs
<1>2. ASSUME Tame'
      PROVE  /\ stack.owner = "nobody" => (Full \/ Empty)'
             /\ \A a \in Apps : StageAs(at[a], call[a])'
  <2>1. /\ stack.owner = "nobody" => Full \/ Empty
        /\ \A a \in Apps : StageAs(at[a], call[a])
    BY <1>2 DEF StageInv, Tame
  <2>2. CASE Alive' <=> Alive
    <3>1. (Full' <=> Full) /\ (Empty' <=> Empty)
      BY <2>2 DEF Full, Empty
    <3>2. ASSUME NEW step, NEW what PROVE StageAs(step, what)' <=> StageAs(step, what)
      BY <2>2, <3>1 DEF StageAs
    <3>3. ASSUME NEW a \in Apps PROVE StageAs(at[a], call[a])'
      <4>1. PICK step, what : step = at[a] /\ what = call[a]
        OBVIOUS
      <4>2. at'[a] = step /\ call'[a] = what /\ StageAs(step, what)
        BY <2>1, <4>1
      <4>3. StageAs(step, what)'
        BY <3>2, <4>2
      <4>4. QED
        BY <4>2, <4>3 DEF StageAs
    <3>4. QED
      BY <2>1, <3>1, <3>3
  <2>3. CASE Joining
    <3>1. PICK j \in Apps : at[j] = "join thread"
      BY <2>3 DEF Joining
    <3>2. stack.owner = j /\ j # "nobody" /\ \A a \in Apps : a # j => at[a] \in {"idle", "lock"}
      BY <3>1, SipStackAssumption DEF StackInv, ThreadInv, LockInv, Callers
    <3>3. ASSUME NEW a \in Apps, a # j PROVE StageAs(at[a], call[a])'
      <4>1. PICK step, what : step = at[a] /\ what = call[a]
        OBVIOUS
      <4>2. at'[a] = step /\ call'[a] = what
        BY <4>1
      <4>3. StageAs(step, what)'
        BY <3>2, <3>3, <4>1, OutsideIsNoStage
      <4>4. QED
        BY <4>2, <4>3 DEF StageAs
    <3>4. StageAs(at[j], call[j])'
      BY <2>1, <3>1 DEF StageAs, Starting, Closing
    <3>5. QED
      BY <3>2, <3>3, <3>4
  <2>4. QED
    BY <2>2, <2>3
<1>3. HeldInv'
  BY DEF StageInv, HeldInv, StackInv, ThreadInv, LockInv
<1>4. QED
  BY <1>1, <1>2, <1>3 DEF StageInv

\* Who has the lock, or gets it, comes to another stage or leaves.
LEMMA OwnerKeepsStage ==
  ASSUME WholeInv, NEW th \in Apps, NEW step, NEW what, Does(th, step, what),
         CallAs(step, what),
         at[th] \notin {"idle", "lock"} \/ stack.owner = "nobody",
         stack'.owner = "nobody" \/ (stack'.owner = th /\ step \notin {"idle", "lock"}),
         Tame' => StageAs(step, what)',
         Tame' /\ stack'.owner = "nobody" => (Full \/ Empty)'
  PROVE  CallsInv' /\ StageInv'
<1> USE DEF WholeInv
<1>1. CallsInv'
  BY DoesKeepsCalls DEF Callers
<1>2. ASSUME NEW a \in Apps, a # th
      PROVE  at[a] \in {"idle", "lock"}
  BY <1>2, SipStackAssumption DEF StackInv, ThreadInv, LockInv, Callers
<1>3. ASSUME NEW a \in Apps, Tame' PROVE StageAs(at[a], call[a])'
  <2>1. CASE a = th
    <3>1. at'[a] = step /\ call'[a] = what /\ StageAs(step, what)'
      BY <1>3, <2>1 DEF Does, Moves, Callers
    <3>2. QED
      BY <3>1 DEF StageAs
  <2>2. CASE a # th
    <3>1. PICK st, wh : st = at[a] /\ wh = call[a]
      OBVIOUS
    <3>2. at'[a] = st /\ call'[a] = wh
      BY <2>2, <3>1 DEF Does, Moves, Callers
    <3>3. StageAs(st, wh)'
      BY <1>2, <2>2, <3>1, OutsideIsNoStage
    <3>4. QED
      BY <3>2, <3>3 DEF StageAs
  <2>3. QED
    BY <2>1, <2>2
<1>4. HeldInv'
  BY DEF HeldInv, Does, Moves, Callers
<1>5. QED
  BY <1>1, <1>3, <1>4 DEF StageInv

LEMMA EventsKeepStage ==
  ASSUME WholeInv, Events
  PROVE  CallsInv' /\ StageInv'
<1> USE DEF Pushed, Happens, threadVars, timerVars, Thread, ThreadGoes
<1>t. runnable \in RunnableType
  BY DEF WholeInv, EventsInv
<1>1. UNCHANGED <<at, call, users, stack>> /\ races \subseteq races'
  <2>1. CASE SignalTest \/ SignalPost \/ SignalPush
    BY <2>1 DEF SignalTest, SignalPost, SignalPush
  <2>2. CASE RunBegins \/ RunTakesPermit \/ RunLooks \/ RunTakes
    BY <2>2 DEF RunBegins, RunTakesPermit, RunLooks, RunTakes
  <2> QED BY <2>1, <2>2 DEF Events
<1>2. (Alive' <=> Alive) \/ Joining
  <2>1. CASE SignalTest \/ SignalPush \/ SignalPost
    <3>1. runnable' \in {runnable, [runnable EXCEPT !.sem = @ + 1]}
      BY <2>1 DEF SignalTest, SignalPush, SignalPost
    <3>2. QED
      BY <3>1, PostIsSame DEF SameRunner, Alive, WholeInv
  <2>2. CASE RunBegins
    <3>1. /\ runnable.thread = "new"
          /\ runnable' = [runnable EXCEPT !.thread = "wait", !.running = TRUE]
      BY <2>2 DEF RunBegins
    <3>2. runnable'.thread = "wait"
      BY <1>t, <3>1 DEF RunnableType
    <3>3. QED
      BY <3>1, <3>2 DEF Alive
  <2>3. CASE RunTakesPermit
    <3> DEFINE step == IF ~runnable.running /\ queue = <<>> THEN "none" ELSE "look"
               left == runnable.sem - 1
    <3>1. /\ runnable.thread = "wait"
          /\ runnable' = [runnable EXCEPT !.sem = left, !.thread = step]
          /\ step = "none" => ~runnable.running
      BY <2>3 DEF RunTakesPermit
    <3> HIDE DEF step, left
    <3>2. runnable'.thread = step
      BY <1>t, <3>1 DEF RunnableType
    <3>3. QED
      BY <3>1, <3>2 DEF Alive, WholeInv, RunnerInv
  <2>4. CASE RunLooks \/ RunTakes
    <3>1. /\ runnable.thread \in {"look", "take"}
          /\ \E step \in {"wait", "take"} : \E alone :
               runnable' \in {[runnable EXCEPT !.thread = step],
                              [runnable EXCEPT !.thread = step, !.alone = alone]}
      BY <2>4 DEF RunLooks, RunTakes
    <3>2. runnable'.thread \in {"wait", "take"}
      BY <1>t, <3>1 DEF RunnableType
    <3>3. QED
      BY <3>1, <3>2 DEF Alive
  <2>5. QED
    BY <2>1, <2>2, <2>3, <2>4 DEF Events
<1>3. Given' <=> Given
  BY <1>1 DEF Given
<1>4. QED
  BY <1>1, <1>2, <1>3, QuietKeepsStage

\* A step that has nothing to do with the runnable.
LEMMA ElsewhereKeepsRunner ==
  ASSUME RunnerInv, UNCHANGED runnable,
         \A th \in Apps : at[th] = "join thread" => at'[th] = "join thread"
  PROVE  RunnerInv' /\ (Alive' <=> Alive)
BY SameKeepsRunner DEF SameRunner, Alive

\* Whatever a session does, and the thread of the manager.
LEMMA SessionKeepsStage ==
  ASSUME WholeInv, NEW th \in Sessions, Call(th) \/ GlobalTimers(th)
  PROVE  RunnerInv' /\ CallsInv' /\ StageInv'
<1> USE DEF timerVars, eventVars
<1>1. th \in Callers /\ th # "stack" /\ th \notin Apps /\ User(th) = th
  BY SipStackAssumption DEF Callers, User
<1>2. UNCHANGED <<stack, runnable>> /\ races \subseteq races'
  BY <1>1 DEF Call, SessionStart, SessionStop, StartTest, StopCalled, GlobalTimers,
         GlobalStartTest, GlobalStartManager, GlobalStartCount, GlobalStopTest,
         GlobalStopLast, GlobalStopManager, GlobalStopJoin, GlobalStopCount, Happens
<1>3. users' \in {users, users \cup {th}, users \ {th}}
  BY <1>1 DEF Call, SessionStart, SessionStop, StartTest, StopCalled, GlobalTimers,
         GlobalStartTest, GlobalStartManager, GlobalStartCount, GlobalStopTest,
         GlobalStopLast, GlobalStopManager, GlobalStopJoin, GlobalStopCount
<1>4. Given' <=> Given
  BY <1>1, <1>3 DEF Given
<1>5. \E step, what : Goes(th, step) \/ Becomes(th, what, step) \/ Begins(th, what, step)
  BY <1>1 DEF Call, SessionStart, SessionStop, StartTest, StopCalled, GlobalTimers, Returns,
         GlobalStartTest, GlobalStartManager, GlobalStartCount, GlobalStopTest, AfterTimers,
         GlobalStopLast, GlobalStopManager, GlobalStopJoin, GlobalStopCount
<1>6. \E step, what : Does(th, step, what)
  BY <1>1, <1>5, Done DEF WholeInv
<1>7. \A a \in Apps : at'[a] = at[a] /\ call'[a] = call[a]
  BY <1>1, <1>6 DEF Does, Moves, Callers
<1>8. RunnerInv' /\ (Alive' <=> Alive)
  BY <1>2, <1>7, ElsewhereKeepsRunner DEF WholeInv
<1>9. QED
  BY <1>2, <1>4, <1>7, <1>8, QuietKeepsStage

\* An application that calls.
LEMMA CallsKeepStage ==
  ASSUME WholeInv, NEW th \in Apps, Call(th)
  PROVE  RunnerInv' /\ CallsInv' /\ StageInv'
<1> USE DEF timerVars, eventVars
<1>1. th \in Callers /\ th \notin Sessions
  BY SipStackAssumption DEF Callers
<1>2. CASE SessionStop(th)
  <2>1. at[th] = "playing"
    BY <1>2 DEF SessionStop
  <2>2. QED
    BY <1>1, <2>1 DEF WholeInv, StackInv, ThreadInv, StepsInv, StepsOf, AppSteps, Leaving
<1>3. CASE StartTest(th) \/ StopCalled(th)
  <2>1. UNCHANGED <<stack, runnable, users, races>> /\ (Given' <=> Given)
    BY <1>3 DEF StartTest, StopCalled, Given
  <2>2. CASE UNCHANGED <<at, call>>
    <3>1. RunnerInv' /\ (Alive' <=> Alive)
      BY <2>1, <2>2, ElsewhereKeepsRunner DEF WholeInv
    <3>2. QED
      BY <2>1, <2>2, <3>1, QuietKeepsStage
  <2>3. ASSUME NEW what \in {"start", "stop"}, Begins(th, what, "lock")
        PROVE  RunnerInv' /\ CallsInv' /\ StageInv'
    <3>1. Does(th, "lock", what) /\ at[th] = "idle"
      BY <1>1, <2>3, Done DEF Begins, WholeInv, StackInv, ThreadInv, StepsInv
    <3>2. RunnerInv' /\ (Alive' <=> Alive)
      BY <1>1, <2>1, <3>1, ElsewhereKeepsRunner DEF WholeInv, Does, Moves, Callers
    <3>3. CallsInv'
      <4>1. CallAs("lock", what)
        BY <2>3 DEF CallAs, Starting, Leaving, Closing
      <4>2. QED
        BY <1>1, <3>1, <4>1, DoesKeepsCalls DEF WholeInv
    <3>4. ASSUME Tame'
          PROVE  /\ stack.owner = "nobody" => (Full \/ Empty)'
                 /\ \A a \in Apps : StageAs(at[a], call[a])'
      <4>1. /\ stack.owner = "nobody" => Full \/ Empty
            /\ \A a \in Apps : StageAs(at[a], call[a])
        BY <2>1, <3>4 DEF StageInv, Tame, WholeInv
      <4>2. (Full' <=> Full) /\ (Empty' <=> Empty)
        BY <2>1, <3>2 DEF Full, Empty
      <4>3. ASSUME NEW a \in Apps PROVE StageAs(at[a], call[a])'
        <5>1. CASE a = th
          BY <1>1, <3>1, <5>1 DEF StageAs, Does, Moves, Starting, Closing
        <5>2. CASE a # th
          <6>1. at'[a] = at[a] /\ call'[a] = call[a] /\ StageAs(at[a], call[a])
            BY <3>1, <4>1, <5>2 DEF Does, Moves, Callers
          <6>2. QED
            BY <2>1, <3>2, <4>2, <6>1 DEF StageAs
        <5>3. QED
          BY <5>1, <5>2
      <4>4. QED
        BY <4>1, <4>2, <4>3
    <3>5. HeldInv'
      BY <2>1, <3>1 DEF HeldInv, WholeInv, StageInv, StackInv, ThreadInv, LockInv, Does, Moves,
         Callers
    <3>6. QED
      BY <2>1, <3>2, <3>3, <3>4, <3>5 DEF StageInv
  <2>4. QED
    BY <1>3, <2>2, <2>3 DEF StartTest, StopCalled
<1>4. QED
  BY <1>1, <1>2, <1>3 DEF Call, SessionStart

\* The stack starts and stops its timers.
LEMMA TimersKeepStage ==
  ASSUME WholeInv, GivenInv', NEW th \in Apps, GlobalTimers(th)
  PROVE  RunnerInv' /\ CallsInv' /\ StageInv'
<1> USE DEF timerVars, eventVars
<1>1. th \in Callers /\ th \notin Sessions /\ User(th) = "stack" /\ th # "nobody"
  BY SipStackAssumption DEF Callers, User
<1>2. UNCHANGED <<stack, runnable>> /\ races \subseteq races'
  BY <1>1 DEF GlobalTimers, AfterTimers, Happens,
         GlobalStartTest, GlobalStartManager, GlobalStartCount, GlobalStopTest,
         GlobalStopLast, GlobalStopManager, GlobalStopJoin, GlobalStopCount
<1>3. at[th] \in Starting \cup Leaving
  BY DEF GlobalTimers, Starting, Leaving,
         GlobalStartTest, GlobalStartManager, GlobalStartCount, GlobalStopTest,
         GlobalStopLast, GlobalStopManager, GlobalStopJoin, GlobalStopCount
<1>4. at[th] \notin {"idle", "lock", "join thread"} /\ stack.owner = th
  BY <1>3 DEF Starting, Leaving, WholeInv, StackInv, ThreadInv, LockInv
<1>5. Tame' => Tame /\ StageAs(at[th], call[th])
  BY <1>2 DEF Tame, WholeInv, StageInv
<1>6. CallAs(at[th], call[th])
  BY DEF WholeInv, CallsInv
<1>7. ASSUME NEW step, NEW what, Does(th, step, what), CallAs(step, what),
             step \notin {"idle", "lock"}, Tame' => StageAs(step, what)'
      PROVE  RunnerInv' /\ CallsInv' /\ StageInv'
  <2>1. RunnerInv'
    BY <1>2, <1>4, <1>7, ElsewhereKeepsRunner DEF WholeInv, Does, Moves, Callers
  <2>2. stack'.owner = th /\ th # "nobody"
    BY <1>1, <1>2, <1>4
  <2>3. QED
    BY <1>4, <1>7, <2>1, <2>2, OwnerKeepsStage
<1>8. Alive' <=> Alive
  BY <1>2 DEF Alive
<1>9. CASE GlobalStartTest(th)
  <2>1. at[th] = "start timers" /\ users' = users
    BY <1>9 DEF GlobalStartTest
  <2>b. PICK step \in {"start manager", "count in"} : Goes(th, step)
    BY <1>9 DEF GlobalStartTest
  <2>2. Does(th, step, call[th])
    BY <1>1, <2>b, Done DEF WholeInv
  <2>3. call[th] = "start"
    BY <1>6, <2>1 DEF CallAs, Starting
  <2>4. CallAs(step, "start")
    BY DEF CallAs, Starting, Leaving, Closing
  <2>5. ASSUME Tame' PROVE StageAs(step, "start")'
    <3>1. Empty /\ ~stack.started
      BY <1>5, <2>1, <2>5 DEF StageAs, Starting, Empty
    <3>2. Empty'
      BY <1>2, <1>8, <2>1, <3>1 DEF Empty, Given
    <3>3. QED
      BY <1>2, <3>1, <3>2 DEF StageAs, Closing
  <2>6. QED
    BY <1>7, <2>2, <2>3, <2>4, <2>5
<1>10. CASE GlobalStartManager(th)
  <2>1. at[th] = "start manager" /\ users' = users
    BY <1>10 DEF GlobalStartManager
  <2>2. call[th] = "start"
    BY <1>6, <2>1 DEF CallAs, Starting
  <2>3. ASSUME Tame' PROVE ~stack.started /\ Empty'
    <3>1. Empty
      BY <1>5, <2>1, <2>3 DEF StageAs, Starting
    <3>2. QED
      BY <1>2, <1>8, <2>1, <3>1 DEF Empty, Given
  <2>4. CASE Goes(th, "count in")
    <3>1. Does(th, "count in", "start")
      BY <1>1, <2>2, <2>4, Done DEF WholeInv
    <3>2. CallAs("count in", "start")
      BY DEF CallAs, Starting, Leaving, Closing
    <3>3. Tame' => StageAs("count in", "start")'
      BY <1>2, <2>3 DEF StageAs, Closing, Starting
    <3>4. QED
      BY <1>7, <3>1, <3>2, <3>3
  <2>5. CASE Becomes(th, "failed", "signal failure")
    <3>1. Does(th, "signal failure", "failed")
      BY <1>1, <2>5, Done DEF WholeInv
    <3>2. CallAs("signal failure", "failed")
      BY DEF CallAs, Starting, Leaving, Closing
    <3>3. Tame' => StageAs("signal failure", "failed")'
      BY <1>2, <2>3 DEF StageAs, Closing, Starting
    <3>4. QED
      BY <1>7, <3>1, <3>2, <3>3
  <2>6. QED
    BY <1>1, <1>10, <2>4, <2>5 DEF GlobalStartManager
<1>11. CASE GlobalStartCount(th)
  <2>1. at[th] = "count in" /\ users' = users \cup {User(th)} /\ Goes(th, "start events")
    BY <1>1, <1>11 DEF GlobalStartCount
  <2>2. call[th] = "start"
    BY <1>6, <2>1 DEF CallAs, Starting
  <2>3. Does(th, "start events", "start")
    BY <1>1, <2>1, <2>2, Done DEF WholeInv
  <2>4. CallAs("start events", "start")
    BY DEF CallAs, Starting, Leaving, Closing
  <2>5. ASSUME Tame' PROVE StageAs("start events", "start")'
    <3>1. Empty
      BY <1>5, <2>1, <2>5 DEF StageAs, Starting
    <3>2. Given'
      BY <1>1, <2>1 DEF Given
    <3>3. QED
      BY <1>2, <1>8, <3>1, <3>2 DEF StageAs, Closing, Starting, Empty
  <2>6. QED
    BY <1>7, <2>3, <2>4, <2>5
<1>12. CASE at[th] \in Leaving
  <2>1. \E step \in Leaving \cup {"close transports"} : Goes(th, step)
    BY <1>1, <1>12 DEF GlobalTimers, AfterTimers, Leaving,
         GlobalStartTest, GlobalStartManager, GlobalStartCount, GlobalStopTest,
         GlobalStopLast, GlobalStopManager, GlobalStopJoin, GlobalStopCount
  <2>2. PICK step \in Leaving \cup {"close transports"} : Does(th, step, call[th])
    BY <1>1, <2>1, Done DEF WholeInv
  <2>3. PICK what : what = call[th]
    OBVIOUS
  <2>4. what \in {"failed", "stop"}
    BY <1>6, <1>12, <2>3 DEF CallAs
  <2>5. CallAs(step, what)
    BY <2>4 DEF CallAs, Starting, Leaving, Closing
  <2>6. ASSUME Tame' PROVE StageAs(step, what)'
    <3>1. what = "failed" => ~stack.started
      BY <1>5, <2>3, <2>6 DEF StageAs
    <3>2. QED
      BY <1>2, <2>4, <3>1 DEF StageAs, Closing, Starting, Leaving
  <2>7. QED
    BY <1>7, <2>2, <2>3, <2>5, <2>6 DEF Leaving
<1>13. QED
  BY <1>9, <1>10, <1>11, <1>12 DEF GlobalTimers, GlobalStopTest, GlobalStopLast,
     GlobalStopManager, GlobalStopJoin, GlobalStopCount, Leaving

\* The stack stops its runnable.
LEMMA RunnableStopKeepsStage ==
  ASSUME WholeInv, GivenInv', NEW th \in Callers, RunnableStop(th)
  PROVE  CallsInv' /\ StageInv'
<1> USE DEF timerVars, eventVars
<1>1. /\ at[th] \in {"stop events", "sleep", "tell thread", "join thread"}
      /\ users' = users /\ races \subseteq races'
  BY DEF RunnableStop, RunnableStopTest, RunnableStopSleeps, RunnableStopTells,
         RunnableStopJoins, Happens
<1>2. th \in Apps /\ at[th] \notin {"idle", "lock"} /\ th # "nobody"
  BY <1>1, AppHere, SipStackAssumption DEF WholeInv, SessionSteps, Leaving
<1>3. stack.owner = th
      /\ stack \in [started : BOOLEAN, open : BOOLEAN, owner : Apps \cup {"nobody"}]
  BY <1>2 DEF WholeInv, StackInv, ThreadInv, LockInv
<1>4. Tame' => Tame /\ StageAs(at[th], call[th])
  BY <1>1, <1>2 DEF Tame, WholeInv, StageInv
<1>5. ~Given /\ ~Given'
  BY <1>1, <1>2 DEF WholeInv, GivenInv, Closing, Given
<1>6. PICK what : what = call[th]
  OBVIOUS
<1>7. what \in {"failed", "stop"}
  BY <1>1, <1>2, <1>6 DEF WholeInv, CallsInv, CallAs, Closing
<1>8. Tame' => ~stack.open /\ (what = "failed" => ~stack.started)
  BY <1>1, <1>4, <1>6 DEF StageAs, Closing
<1>9. ASSUME NEW step \in {"sleep", "tell thread", "join thread"}, Goes(th, step),
             UNCHANGED stack
      PROVE  CallsInv' /\ StageInv'
  <2>1. Does(th, step, what)
    BY <1>2, <1>6, <1>9, Done DEF WholeInv, Callers
  <2>2. CallAs(step, what)
    BY <1>7 DEF CallAs, Starting, Leaving
  <2>3. Tame' => StageAs(step, what)'
    BY <1>7, <1>8, <1>9 DEF StageAs, Starting, Closing
  <2>4. QED
    BY <1>1, <1>2, <1>3, <1>9, <2>1, <2>2, <2>3, OwnerKeepsStage
<1>10. ASSUME NEW ok \in BOOLEAN, AfterEvents(th, ok), Tame' => ok /\ ~Alive'
       PROVE  CallsInv' /\ StageInv'
  <2>1. Does(th, "idle", "none")
    BY <1>2, <1>10, Done DEF AfterEvents, WholeInv, Callers
  <2>2. CallAs("idle", "none") /\ StageAs("idle", "none")'
    BY DEF CallAs, StageAs, Starting, Leaving, Closing
  <2>3. /\ stack'.open <=> stack.open
        /\ stack'.started <=> stack.started /\ (call[th] = "failed" \/ ~ok)
        /\ stack'.owner = "nobody"
    <3> DEFINE s == stack.started /\ (call[th] = "failed" \/ ~ok)
    <3>1. stack' = [stack EXCEPT !.started = s, !.owner = "nobody"]
      BY <1>10 DEF AfterEvents
    <3> HIDE DEF s
    <3>2. (stack'.open <=> stack.open) /\ (stack'.started <=> s) /\ stack'.owner = "nobody"
      BY <1>3, <3>1
    <3>3. QED
      BY <3>2 DEF s
  <2>4. ASSUME Tame' PROVE Empty'
    <3>1. ~stack'.started /\ ~stack'.open
      BY <1>6, <1>7, <1>8, <1>10, <2>3, <2>4
    <3>2. QED
      BY <1>5, <1>10, <2>4, <3>1 DEF Empty
  <2>5. QED
    BY <1>1, <1>2, <2>1, <2>2, <2>3, <2>4, OwnerKeepsStage
<1>11. CASE RunnableStopTest(th)
  <2> DEFINE idle == ~runnable.running /\ ~(runnable.initialized /\ runnable.started)
  <2>1. runnable' = runnable
    BY <1>11 DEF RunnableStopTest
  <2>2. CASE idle
    <3>1. ~runnable.initialized
      BY <2>2 DEF WholeInv, RunnerInv
    <3>2. ~Alive'
      BY <2>1, <3>1 DEF WholeInv, RunnerInv, Alive
    <3>3. AfterEvents(th, TRUE)
      BY <1>11, <2>2 DEF RunnableStopTest
    <3>4. QED
      BY <1>10, <3>2, <3>3
  <2>3. CASE ~idle
    <3>1. UNCHANGED stack /\ (Goes(th, "tell thread") \/ Goes(th, "sleep"))
      BY <1>11, <2>3 DEF RunnableStopTest
    <3>2. QED
      BY <1>9, <3>1
  <2>4. QED
    BY <2>2, <2>3
<1>12. CASE RunnableStopSleeps(th)
  <2>1. CASE AfterEvents(th, FALSE) /\ Happens("impatient", TRUE)
    <3>1. ~Tame'
      BY <2>1 DEF Tame, Happens
    <3>2. QED
      BY <1>10, <2>1, <3>1
  <2>2. CASE Goes(th, "tell thread") /\ UNCHANGED stack
    BY <1>9, <2>2
  <2>3. QED
    BY <1>12, <2>1, <2>2 DEF RunnableStopSleeps
<1>13. CASE RunnableStopTells(th)
  BY <1>9, <1>13 DEF RunnableStopTells
<1>14. CASE RunnableStopJoins(th)
  <2>1. AfterEvents(th, TRUE) /\ runnable' = Dead
    BY <1>14 DEF RunnableStopJoins
  <2>2. ~Alive'
    BY <2>1 DEF Alive, Dead
  <2>3. QED
    BY <1>10, <2>1, <2>2
<1>15. QED
  BY <1>11, <1>12, <1>13, <1>14 DEF RunnableStop

\* The stack's own steps.
LEMMA StackStepsKeepStage ==
  ASSUME WholeInv, GivenInv', NEW th \in Callers, Stack(th)
  PROVE  RunnerInv' /\ CallsInv' /\ StageInv'
<1> USE DEF timerVars, eventVars
<1>1. users' = users /\ (Given' <=> Given) /\ races \subseteq races'
  <2> USE DEF Pushed, Enqueued, Happens
  <2>1. CASE StartLock(th) \/ StartEvents(th) \/ StartTransports(th)
    BY <2>1 DEF StartLock, StartEvents, StartTransports, Given
  <2>2. CASE StartDone(th) \/ StartFails(th)
    BY <2>2 DEF StartDone, StartFails, Given
  <2>3. CASE CloseTransports(th)
    BY <2>3 DEF CloseTransports, Given
  <2>4. CASE StopLock(th)
    BY <2>4 DEF StopLock, Given
  <2>5. QED
    BY <2>1, <2>2, <2>3, <2>4 DEF Stack
<1>2. at[th] \in {"lock", "start events", "open transports", "all is ok", "signal failure",
                  "close transports"}
  BY DEF Stack, StartLock, StartEvents, StartTransports, StartDone, StartFails,
         CloseTransports, StopLock
<1>3. th \in Apps /\ th # "nobody"
  BY <1>2, AppHere, SipStackAssumption DEF WholeInv, SessionSteps, Leaving
<1>4. /\ stack \in [started : BOOLEAN, open : BOOLEAN, owner : Apps \cup {"nobody"}]
      /\ at[th] # "lock" => stack.owner = th
  BY <1>2, <1>3 DEF WholeInv, StackInv, ThreadInv, LockInv
<1>5. Tame' => Tame /\ StageAs(at[th], call[th]) /\ (stack.owner = "nobody" => Full \/ Empty)
  BY <1>1, <1>3 DEF Tame, WholeInv, StageInv
<1>6. CallAs(at[th], call[th])
  BY <1>3 DEF WholeInv, CallsInv
<1>7. ASSUME NEW step, NEW what, Does(th, step, what), SameRunner
      PROVE  RunnerInv' /\ (Alive' <=> Alive)
  <2>1. \A a \in Apps : at[a] = "join thread" => at'[a] = "join thread"
    BY <1>2, <1>7 DEF Does, Moves, Callers
  <2>2. QED
    BY <1>7, <2>1, SameKeepsRunner DEF WholeInv, SameRunner, Alive
<1>8. CASE StartLock(th)
  <2>1. /\ at[th] = "lock" /\ call[th] = "start" /\ stack.owner = "nobody"
        /\ stack' = [stack EXCEPT !.owner = th] /\ runnable' = runnable
        /\ stack.started => "twice" \in races'
    BY <1>8 DEF StartLock, Happens
  <2>2. Does(th, "start timers", "start")
    BY <1>8, <2>1, Done DEF StartLock, WholeInv
  <2>3. RunnerInv' /\ (Alive' <=> Alive)
    BY <1>7, <2>1, <2>2 DEF SameRunner
  <2>4. CallAs("start timers", "start")
    BY DEF CallAs, Leaving, Closing
  <2>5. (stack'.started <=> stack.started) /\ (stack'.open <=> stack.open) /\ stack'.owner = th
    BY <1>4, <2>1
  <2>6. ASSUME Tame' PROVE Empty'
    <3>1. Empty
      BY <1>5, <2>1, <2>6 DEF Tame, Full
    <3>2. QED
      BY <1>1, <2>3, <2>5, <3>1 DEF Empty
  <2>7. Tame' => StageAs("start timers", "start")'
    BY <2>6 DEF StageAs, Starting, Closing, Empty
  <2>8. QED
    BY <1>1, <1>3, <2>1, <2>2, <2>3, <2>4, <2>5, <2>7, OwnerKeepsStage
<1>9. CASE StopLock(th)
  <2>1. at[th] = "lock" /\ call[th] = "stop" /\ stack.owner = "nobody"
    BY <1>9 DEF StopLock
  <2>2. CASE stack.started
    <3>1. /\ stack' = [stack EXCEPT !.owner = th] /\ Enqueued("stopping")
          /\ Goes(th, "stop timers") \/ Goes(th, "close transports")
      BY <1>9, <2>2 DEF StopLock
    <3>2. PICK step \in {"stop timers", "close transports"} : Goes(th, step)
      BY <3>1
    <3>3. Does(th, step, "stop")
      BY <2>1, <3>2, Done DEF WholeInv
    <3>4. SameRunner
      BY <3>1, EnqueuedIsSame DEF WholeInv
    <3>5. RunnerInv'
      BY <1>7, <3>3, <3>4
    <3>6. CallAs(step, "stop") /\ StageAs(step, "stop")'
      BY DEF CallAs, StageAs, Starting, Leaving, Closing
    <3>7. stack'.owner = th
      BY <1>4, <3>1
    <3>8. QED
      BY <1>1, <1>3, <2>1, <3>3, <3>5, <3>6, <3>7, OwnerKeepsStage
  <2>3. CASE ~stack.started
    <3>1. UNCHANGED <<stack, runnable>> /\ Returns(th)
      BY <1>9, <2>3 DEF StopLock
    <3>2. Does(th, "idle", "none")
      BY <3>1, Done DEF WholeInv
    <3>3. RunnerInv' /\ (Alive' <=> Alive)
      BY <1>7, <3>1, <3>2 DEF SameRunner
    <3>4. CallAs("idle", "none") /\ StageAs("idle", "none")'
      BY DEF CallAs, StageAs, Starting, Leaving, Closing
    <3>5. Tame' => (Full \/ Empty)'
      BY <1>1, <1>5, <2>1, <3>1, <3>3 DEF Full, Empty
    <3>6. stack'.owner = "nobody"
      BY <2>1, <3>1
    <3>7. QED
      BY <1>1, <1>3, <2>1, <3>2, <3>3, <3>4, <3>5, <3>6, OwnerKeepsStage
  <2>4. QED
    BY <2>2, <2>3
<1>10. CASE StartEvents(th)
  <2>1. at[th] = "start events" /\ UNCHANGED stack
    BY <1>10 DEF StartEvents
  <2>2. call[th] = "start"
    BY <1>6, <2>1 DEF CallAs
  <2>3. ASSUME Tame' PROVE Given' /\ ~stack.started /\ ~stack.open
    BY <1>1, <1>5, <2>1, <2>2, <2>3 DEF StageAs
  <2>4. CASE runnable.running \/ runnable.initialized
    <3>1. Becomes(th, "failed", "signal failure") /\ UNCHANGED runnable
      BY <1>10, <2>4 DEF StartEvents
    <3>2. Does(th, "signal failure", "failed")
      BY <3>1, Done DEF WholeInv
    <3>3. RunnerInv' /\ (Alive' <=> Alive)
      BY <1>7, <3>1, <3>2 DEF SameRunner
    <3>4. CallAs("signal failure", "failed")
      BY DEF CallAs, Starting, Leaving, Closing
    <3>5. Tame' => StageAs("signal failure", "failed")'
      BY <2>1, <2>3 DEF StageAs, Starting, Closing
    <3>6. QED
      BY <1>1, <1>3, <1>4, <2>1, <3>2, <3>3, <3>4, <3>5, OwnerKeepsStage
  <2>5. CASE ~(runnable.running \/ runnable.initialized)
    <3>1. /\ runnable' = [Dead EXCEPT !.initialized = TRUE, !.started = TRUE, !.thread = "new",
                                      !.sem = 1]
          /\ Goes(th, "open transports")
      BY <1>10, <2>5 DEF StartEvents
    <3>2. Does(th, "open transports", "start")
      BY <2>2, <3>1, Done DEF WholeInv
    <3>3. runnable'.thread = "new" /\ runnable'.initialized /\ runnable'.started
      BY <3>1 DEF Dead
    <3>4. RunnerInv' /\ Alive'
      BY <3>3 DEF RunnerInv, Alive
    <3>5. CallAs("open transports", "start")
      BY DEF CallAs, Starting, Leaving, Closing
    <3>6. Tame' => StageAs("open transports", "start")'
      BY <2>1, <2>3, <3>4 DEF StageAs, Starting, Closing
    <3>7. QED
      BY <1>1, <1>3, <1>4, <2>1, <3>2, <3>4, <3>5, <3>6, OwnerKeepsStage
  <2>6. QED
    BY <2>4, <2>5
<1>11. CASE StartTransports(th)
  <2>1. at[th] = "open transports" /\ UNCHANGED runnable
    BY <1>11 DEF StartTransports
  <2>2. call[th] = "start"
    BY <1>6, <2>1 DEF CallAs
  <2>3. ASSUME Tame' PROVE Given' /\ Alive /\ ~stack.started
    BY <1>1, <1>5, <2>1, <2>2, <2>3 DEF StageAs
  <2>4. CASE stack' = [stack EXCEPT !.open = TRUE] /\ Goes(th, "all is ok")
    <3>1. Does(th, "all is ok", "start")
      BY <2>2, <2>4, Done DEF WholeInv
    <3>2. RunnerInv' /\ (Alive' <=> Alive)
      BY <1>7, <2>1, <3>1 DEF SameRunner
    <3>3. stack'.open /\ (stack'.started <=> stack.started) /\ stack'.owner = th
      BY <1>4, <2>1, <2>4
    <3>4. CallAs("all is ok", "start")
      BY DEF CallAs, Starting, Leaving, Closing
    <3>5. Tame' => StageAs("all is ok", "start")'
      BY <2>3, <3>2, <3>3 DEF StageAs, Starting, Closing
    <3>6. QED
      BY <1>1, <1>3, <2>1, <3>1, <3>2, <3>3, <3>4, <3>5, OwnerKeepsStage
  <2>5. CASE \E some \in BOOLEAN : /\ stack' = [stack EXCEPT !.open = @ \/ some]
                                   /\ Becomes(th, "failed", "signal failure")
    <3>1. Does(th, "signal failure", "failed")
      BY <2>5, Done DEF WholeInv
    <3>2. RunnerInv' /\ (Alive' <=> Alive)
      BY <1>7, <2>1, <3>1 DEF SameRunner
    <3>3. (stack'.started <=> stack.started) /\ stack'.owner = th
      <4>1. PICK some : stack' = [stack EXCEPT !.open = @ \/ some]
        BY <2>5
      <4> DEFINE o == stack.open \/ some
      <4>2. stack' = [stack EXCEPT !.open = o]
        BY <4>1
      <4> HIDE DEF o
      <4>3. QED
        BY <1>4, <2>1, <4>2
    <3>4. CallAs("signal failure", "failed")
      BY DEF CallAs, Starting, Leaving, Closing
    <3>5. Tame' => StageAs("signal failure", "failed")'
      BY <2>3, <3>3 DEF StageAs, Starting, Closing
    <3>6. QED
      BY <1>1, <1>3, <2>1, <3>1, <3>2, <3>3, <3>4, <3>5, OwnerKeepsStage
  <2>6. QED
    BY <1>11, <2>4, <2>5 DEF StartTransports
<1>12. CASE StartDone(th)
  <2>1. /\ at[th] = "all is ok" /\ Enqueued("started") /\ Returns(th)
        /\ stack' = [stack EXCEPT !.started = TRUE, !.owner = "nobody"]
    BY <1>12 DEF StartDone
  <2>2. Does(th, "idle", "none")
    BY <2>1, Done DEF WholeInv
  <2>3. RunnerInv' /\ (Alive' <=> Alive)
    BY <1>7, <2>1, <2>2, EnqueuedIsSame DEF WholeInv
  <2>4. CallAs("idle", "none") /\ StageAs("idle", "none")'
    BY DEF CallAs, StageAs, Starting, Leaving, Closing
  <2>5. stack'.started /\ (stack'.open <=> stack.open) /\ stack'.owner = "nobody"
    BY <1>4, <2>1
  <2>6. ASSUME Tame' PROVE Full'
    <3>1. Given /\ Alive /\ stack.open
      BY <1>5, <2>1, <2>6 DEF StageAs
    <3>2. QED
      BY <1>1, <2>3, <2>5, <3>1 DEF Full
  <2>7. QED
    BY <1>1, <1>3, <2>1, <2>2, <2>3, <2>4, <2>5, <2>6, OwnerKeepsStage
<1>13. CASE StartFails(th)
  <2>1. at[th] = "signal failure" /\ Enqueued("failed") /\ UNCHANGED stack
    BY <1>13 DEF StartFails
  <2>2. PICK step \in {"stop timers", "close transports"} : Goes(th, step)
    BY <1>13 DEF StartFails
  <2>3. PICK what : what = call[th]
    OBVIOUS
  <2>4. Does(th, step, what)
    BY <2>2, <2>3, Done DEF WholeInv
  <2>5. RunnerInv'
    BY <1>7, <2>1, <2>4, EnqueuedIsSame DEF WholeInv
  <2>6. what \in {"failed", "stop"} /\ (Tame' => (what = "failed" => ~stack.started))
    BY <1>5, <1>6, <2>1, <2>3 DEF CallAs, StageAs
  <2>7. CallAs(step, what)
    BY <2>6 DEF CallAs, Starting, Leaving, Closing
  <2>8. Tame' => StageAs(step, what)'
    BY <2>1, <2>6 DEF StageAs, Starting, Closing
  <2>9. QED
    BY <1>1, <1>3, <1>4, <2>1, <2>4, <2>5, <2>7, <2>8, OwnerKeepsStage
<1>14. CASE CloseTransports(th)
  <2> DEFINE told == call[th] = "failed" /\ ~runnable.running
  <2>1. at[th] = "close transports"
    BY <1>14 DEF CloseTransports
  <2>2. PICK what : what = call[th]
    OBVIOUS
  <2>3. what \in {"failed", "stop"} /\ (Tame' => (what = "failed" => ~stack.started))
    BY <1>5, <1>6, <2>1, <2>2 DEF CallAs, StageAs, Closing
  <2>4. SameRunner
    <3>1. Enqueued("stopped") \/ UNCHANGED runnable
      BY <1>14 DEF CloseTransports
    <3>2. QED
      BY <3>1, EnqueuedIsSame DEF WholeInv, SameRunner
  <2>5. ~Given'
    BY <1>1, <1>3, <2>1 DEF WholeInv, GivenInv, Closing
  <2>6. ~stack'.open /\ (stack'.started <=> stack.started)
        /\ stack'.owner = IF told THEN "nobody" ELSE th
    <3> DEFINE shut == FALSE
               owner == IF told THEN "nobody" ELSE th
    <3>1. stack' = [stack EXCEPT !.open = shut, !.owner = owner] /\ ~shut
      BY <1>4, <1>14, <2>1 DEF CloseTransports
    <3> HIDE DEF shut, owner
    <3>2. ~stack'.open /\ (stack'.started <=> stack.started) /\ stack'.owner = owner
      BY <1>4, <3>1
    <3>3. QED
      BY <3>2 DEF owner
  <2>7. CASE told
    <3>1. Does(th, "idle", "none")
      BY <1>14, <2>7, Done DEF CloseTransports, WholeInv
    <3>2. RunnerInv' /\ (Alive' <=> Alive)
      BY <1>7, <2>4, <3>1
    <3>3. CallAs("idle", "none") /\ StageAs("idle", "none")'
      BY DEF CallAs, StageAs, Starting, Leaving, Closing
    <3>4. ASSUME Tame' PROVE Empty'
      <4>1. ~Alive
        <5>1. Happens("unborn", told /\ runnable.thread # "none")
          BY <1>14, <2>7 DEF CloseTransports
        <5>2. QED
          BY <2>7, <3>4, <5>1 DEF Happens, Tame, Alive
      <4>2. ~stack.started
        BY <2>2, <2>3, <2>7, <3>4
      <4>3. QED
        BY <2>5, <2>6, <3>2, <4>1, <4>2 DEF Empty
    <3>5. QED
      BY <1>1, <1>3, <2>1, <2>6, <2>7, <3>1, <3>2, <3>3, <3>4, OwnerKeepsStage
  <2>8. CASE ~told
    <3>1. Does(th, "stop events", what)
      BY <1>14, <2>2, <2>8, Done DEF CloseTransports, WholeInv
    <3>2. RunnerInv'
      BY <1>7, <2>4, <3>1
    <3>3. CallAs("stop events", what)
      BY <2>3 DEF CallAs, Starting, Leaving, Closing
    <3>4. Tame' => StageAs("stop events", what)'
      BY <2>3, <2>6 DEF StageAs, Starting, Closing
    <3>5. QED
      BY <1>1, <1>3, <2>1, <2>6, <2>8, <3>1, <3>2, <3>3, <3>4, OwnerKeepsStage
  <2>9. QED
    BY <2>7, <2>8
<1>15. QED
  BY <1>8, <1>9, <1>10, <1>11, <1>12, <1>13, <1>14 DEF Stack

LEMMA StepKeepsWhole ==
  ASSUME WholeInv, [Next]_vars
  PROVE  WholeInv'
<1>1. StackInv' /\ GivenInv' /\ EventsInv'
  BY StepKeepsStackInv, StepKeepsGiven, StepKeepsEvents DEF WholeInv
<1>2. ASSUME UNCHANGED <<at, call, users, stack, runnable, races>>
      PROVE  RunnerInv' /\ CallsInv' /\ StageInv'
  <2>1. RunnerInv' /\ (Alive' <=> Alive)
    BY <1>2, ElsewhereKeepsRunner DEF WholeInv
  <2>2. QED
    BY <1>2, <2>1, QuietKeepsStage DEF Given
<1>3. CASE UNCHANGED vars
  BY <1>1, <1>2, <1>3 DEF vars, threadVars, timerVars, eventVars, WholeInv
<1>4. CASE ManagerRuns
  BY <1>1, <1>2, <1>4 DEF ManagerRuns, threadVars, eventVars, WholeInv
<1>5. CASE Events
  BY <1>1, <1>5, EventsKeepRunner, EventsKeepStage DEF WholeInv
<1>6. ASSUME NEW th \in Callers, Call(th) \/ Step(th)
      PROVE  RunnerInv' /\ CallsInv' /\ StageInv'
  <2>1. CASE Call(th) \/ GlobalTimers(th)
    BY <1>1, <2>1, SessionKeepsStage, CallsKeepStage, TimersKeepStage DEF Callers
  <2>2. CASE RunnableStop(th)
    BY <1>1, <2>2, RunnableStopKeepsRunner, RunnableStopKeepsStage DEF WholeInv
  <2>3. CASE Stack(th)
    BY <1>1, <2>3, StackStepsKeepStage
  <2>4. QED
    BY <1>6, <2>1, <2>2, <2>3 DEF Step
<1>7. QED
  BY <1>1, <1>3, <1>4, <1>5, <1>6 DEF WholeInv, Next

\* tsip_stack_start and tsip_stack_stop (tsip.c:396, 520) leave nothing half way:
\* with any number of threads that start and stop one stack, whatever step of a
\* start fails, and while sessions share its timer manager, a stack nobody is
\* at has everything a start gives it or nothing, unless two starts met, a
\* failed start found its thread not running yet, or a stop tired of waiting.
THEOREM EverythingOrNothing == Spec => []AllOrNothing
<1>1. Init => WholeInv
  <2> SUFFICES ASSUME Init PROVE WholeInv
    OBVIOUS
  <2>1. \A th \in Callers : at[th] = "idle" /\ call[th] = "none"
    BY DEF Init
  <2>2. GivenInv
    BY <2>1 DEF Init, GivenInv, Given, Leaving, Closing, Starting, Callers
  <2>3. EventsInv /\ RunnerInv
    BY DEF Init, EventsInv, RunnableType, Dead, Thread, RunnerInv, Alive
  <2>4. CallsInv
    BY <2>1 DEF CallsInv, CallAs, Leaving, Closing, Starting, Callers
  <2>5. Empty
    BY DEF Init, Empty, Given, Alive, Dead
  <2>6. StageInv
    <3>1. stack.owner = "nobody"
      BY DEF Init
    <3>2. QED
      BY <2>1, <2>5, <3>1 DEF StageInv, HeldInv, StageAs, Closing, Starting, Callers
  <2>7. QED
    BY <2>2, <2>3, <2>4, <2>6, StackBegins DEF WholeInv
<1>2. WholeInv => AllOrNothing
  <2> SUFFICES ASSUME WholeInv, Tame, \A th \in Apps : at[th] = "idle"
               PROVE  Full \/ Empty
    BY DEF AllOrNothing, Tame, Full, Empty, Given, Alive, Thread
  <2>1. stack.owner = "nobody"
    BY DEF WholeInv, StageInv, HeldInv, StackInv, ThreadInv, LockInv
  <2>2. QED
    BY <2>1 DEF WholeInv, StageInv
<1>3. QED
  BY <1>1, StepKeepsWhole, <1>2, PTL DEF Spec
=============================================================================
