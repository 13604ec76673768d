------------------------- MODULE TimerManagerProofs -------------------------
(***************************************************************************)
(* Proofs about TimerManager for any number of callers and timers: the     *)
(* list and the semaphore always agree well enough that no timer is left   *)
(* behind, a completed stop leaves no thread, and what the threads do      *)
(* together is a TimerService.                                             *)
(***************************************************************************)
EXTENDS TimerManager, SequenceTheorems, FiniteSetTheorems,
        WellFoundedInduction, TLAPS

USE DEF None, timerVars, runnableVars, callerVars, ownerVars, mainVars, runVars

(***************************************************************************)
(* Lists: an ordered insertion and a removal by position, as tsk_list.c    *)
(* does them.                                                              *)
(***************************************************************************)

\* An insertion puts the element at its place and moves what follows by one.
LEMMA InsertAtPlaces ==
  ASSUME NEW S, NEW s \in Seq(S), NEW e \in S, NEW i \in 1..Len(s)
  PROVE  /\ InsertAt(s, i, e) \in Seq(S)
         /\ Len(InsertAt(s, i, e)) = Len(s) + 1
         /\ \A j \in 1..Len(s) + 1 :
              InsertAt(s, i, e)[j] = IF j < i THEN s[j] ELSE IF j = i THEN e ELSE s[j - 1]
<1> DEFINE a == SubSeq(s, 1, i - 1)
           b == SubSeq(s, i, Len(s))
<1>1. \A j \in 1..Len(s) : s[j] \in S
  BY ElementOfSeq
<1>2. /\ a \in Seq(S) /\ Len(a) = i - 1
      /\ \A j \in 1..(i - 1) : a[j] = s[j]
  BY <1>1, SubSeqProperties
<1>3. /\ b \in Seq(S) /\ Len(b) = Len(s) - i + 1
      /\ \A j \in 1..(Len(s) - i + 1) : b[j] = s[i + j - 1]
  BY <1>1, SubSeqProperties
<1> HIDE DEF a, b
<1>4. /\ Append(a, e) \in Seq(S) /\ Len(Append(a, e)) = i
      /\ \A j \in 1..(i - 1) : Append(a, e)[j] = s[j]
      /\ Append(a, e)[i] = e
  BY <1>2, AppendProperties
<1>5. a \o <<e>> = Append(a, e)
  BY <1>2, AppendIsConcat
<1>6. InsertAt(s, i, e) = Append(a, e) \o b
  BY <1>5 DEF InsertAt, a, b
<1> DEFINE c == Append(a, e)
<1> HIDE DEF c
<1>7. /\ c \o b \in Seq(S) /\ Len(c \o b) = Len(c) + Len(b)
      /\ \A j \in 1..(Len(c) + Len(b)) :
           (c \o b)[j] = IF j <= Len(c) THEN c[j] ELSE b[j - Len(c)]
  BY <1>3, <1>4, ConcatProperties DEF c
<1>8. /\ InsertAt(s, i, e) \in Seq(S) /\ Len(InsertAt(s, i, e)) = Len(s) + 1
      /\ \A j \in 1..(Len(s) + 1) : InsertAt(s, i, e)[j] =
           IF j <= i THEN Append(a, e)[j] ELSE b[j - i]
  BY <1>3, <1>4, <1>6, <1>7 DEF c
<1>9. ASSUME NEW j \in 1..Len(s) + 1, j > i
      PROVE  b[j - i] = s[j - 1]
  <2>1. j - i \in 1..(Len(s) - i + 1) /\ i + (j - i) - 1 = j - 1
    BY <1>9
  <2>2. QED
    BY <2>1, <1>3
<1>10. ASSUME NEW j \in 1..Len(s) + 1
       PROVE  InsertAt(s, i, e)[j] = IF j < i THEN s[j] ELSE IF j = i THEN e ELSE s[j - 1]
  <2>1. CASE j < i
    BY <1>4, <1>8, <2>1
  <2>2. CASE j = i
    BY <1>4, <1>8, <2>2
  <2>3. CASE j > i
    BY <1>8, <1>9, <2>3
  <2> QED BY <2>1, <2>2, <2>3
<1> QED BY <1>8, <1>10

\* A removal takes the element at its place out and moves what follows by one.
LEMMA RemoveAtPlaces ==
  ASSUME NEW S, NEW s \in Seq(S), NEW i \in 1..Len(s)
  PROVE  /\ RemoveAt(s, i) \in Seq(S) /\ Len(RemoveAt(s, i)) = Len(s) - 1
         /\ \A j \in 1..(Len(s) - 1) :
              RemoveAt(s, i)[j] = IF j < i THEN s[j] ELSE s[j + 1]
<1> DEFINE a == SubSeq(s, 1, i - 1)
           b == SubSeq(s, i + 1, Len(s))
<1>1. \A j \in 1..Len(s) : s[j] \in S
  BY ElementOfSeq
<1>2. a \in Seq(S) /\ Len(a) = i - 1 /\ \A j \in 1..(i - 1) : a[j] = s[j]
  BY <1>1, SubSeqProperties
<1>3. /\ b \in Seq(S) /\ Len(b) = Len(s) - i
      /\ \A j \in 1..(Len(s) - i) : b[j] = s[i + j]
  BY <1>1, SubSeqProperties
<1> HIDE DEF a, b
<1>4. RemoveAt(s, i) = a \o b
  BY DEF RemoveAt, a, b
<1>5. /\ a \o b \in Seq(S) /\ Len(a \o b) = Len(a) + Len(b)
      /\ \A j \in 1..(Len(a) + Len(b)) :
           (a \o b)[j] = IF j <= Len(a) THEN a[j] ELSE b[j - Len(a)]
  BY <1>2, <1>3, ConcatProperties
<1>6. ASSUME NEW j \in 1..(Len(s) - 1), j >= i
      PROVE  b[j - (i - 1)] = s[j + 1]
  <2>1. j - (i - 1) \in 1..(Len(s) - i) /\ i + (j - (i - 1)) = j + 1
    BY <1>6
  <2>2. QED
    BY <2>1, <1>3
<1>7. QED
  BY <1>2, <1>3, <1>4, <1>5, <1>6

\* Removing an element makes the list shorter by one.
LEMMA RemoveAtFacts ==
  ASSUME NEW S, NEW s \in Seq(S), NEW i \in 1..Len(s)
  PROVE  RemoveAt(s, i) \in Seq(S) /\ Len(RemoveAt(s, i)) = Len(s) - 1
BY RemoveAtPlaces

\* A nonempty set of indices has a least one.
LEMMA LeastIndex ==
  ASSUME NEW n \in Nat, NEW I \in SUBSET (1..n), I # {}
  PROVE  LET l == CHOOSE i \in I : \A j \in I : i <= j
         IN  l \in I /\ \A j \in I : l <= j
<1> DEFINE Less == {p \in Nat \X Nat : p[1] < p[2]}
<1>1. IsWellFoundedOn(Less, Nat)
  BY NatLessThanWellFounded, Zenon DEF OpToRel
<1>2. \A x, y \in Nat : y < x => <<y, x>> \in Less
  OBVIOUS
<1> HIDE DEF Less
<1>3. I \subseteq Nat
  OBVIOUS
<1>4. \E x \in I : \A y \in I : ~(<<y, x>> \in Less)
  BY <1>1, <1>3, WFMin
<1>5. \E i \in I : \A j \in I : i <= j
  <2>1. PICK x \in I : \A y \in I : ~(<<y, x>> \in Less)
    BY <1>4
  <2>2. \A y \in I : ~(y < x)
    BY <1>2, <1>3, <2>1
  <2>3. QED
    BY <1>3, <2>2
<1>6. QED
  BY <1>5

(***************************************************************************)
(* The list operations of the manager.                                     *)
(***************************************************************************)

\* A timer compares equal to itself whatever the width of the comparison.
LEMMA TimerCmpRefl ==
  ASSUME TypeOK, NEW t \in TimerId
  PROVE  TimerCmp(t, t) = 0
<1>1. timeout[t] \in Int /\ HalfRange \in Int /\ HalfRange > 0
  BY TimerAssumption DEF TypeOK
<1>2. timeout[t] - timeout[t] + HalfRange = HalfRange
  BY <1>1
<1>3. HalfRange % (2 * HalfRange) = HalfRange
  BY <1>1
<1>4. QED
  BY <1>1, <1>2, <1>3 DEF TimerCmp

\* The insertion of schedule adds one timer and loses none.
LEMMA PushAscendingFacts ==
  ASSUME TypeOK, NEW t \in TimerId
  PROVE  /\ PushAscending(timers, t) \in Seq(TimerId)
         /\ Len(PushAscending(timers, t)) = Len(timers) + 1
         /\ \A i \in DOMAIN timers : \E k \in DOMAIN PushAscending(timers, t) :
              PushAscending(timers, t)[k] = timers[i]
<1> DEFINE later == {i \in DOMAIN timers : TimerCmp(t, timers[i]) < 0}
           first == CHOOSE i \in later : \A j \in later : i <= j
<1>1. timers \in Seq(TimerId) /\ DOMAIN timers = 1..Len(timers) /\ Len(timers) \in Nat
  BY DEF TypeOK
<1>2. CASE later = {}
  <2>1. PushAscending(timers, t) = Append(timers, t)
    BY <1>2 DEF PushAscending
  <2>2. QED
    BY <1>1, <2>1, AppendProperties
<1>3. CASE later # {}
  <2>1. PushAscending(timers, t) = InsertAt(timers, first, t)
    BY <1>3 DEF PushAscending
  <2>2. first \in later
    BY <1>1, <1>3, LeastIndex
  <2>3. first \in 1..Len(timers)
    BY <1>1, <2>2
  <2> HIDE DEF first
  <2> DEFINE new == PushAscending(timers, t)
  <2>4. new = InsertAt(timers, first, t) /\ timers \in Seq(TimerId)
    BY <1>1, <2>1
  <2> HIDE DEF new
  <2>5. new \in Seq(TimerId) /\ Len(new) = Len(timers) + 1
        /\ \A j \in 1..Len(timers) : \E k \in 1..Len(timers) + 1 : new[k] = timers[j]
    <3>1. /\ new \in Seq(TimerId) /\ Len(new) = Len(timers) + 1
          /\ \A j \in 1..Len(timers) + 1 :
               new[j] = IF j < first THEN timers[j] ELSE IF j = first THEN t ELSE timers[j - 1]
      BY <2>3, <2>4, InsertAtPlaces
    <3>2. ASSUME NEW j \in 1..Len(timers)
          PROVE  \E k \in 1..Len(timers) + 1 : new[k] = timers[j]
      <4>1. CASE j < first
        <5>1. j \in 1..Len(timers) + 1
          BY <1>1
        <5> QED BY <3>1, <4>1, <5>1
      <4>2. CASE ~(j < first)
        <5>1. j + 1 \in 1..Len(timers) + 1 /\ ~(j + 1 < first) /\ j + 1 # first /\ (j + 1) - 1 = j
          BY <1>1, <2>3, <4>2
        <5> QED BY <3>1, <5>1
      <4> QED BY <4>1, <4>2
    <3> QED BY <3>1, <3>2
  <2>6. DOMAIN new = 1..Len(timers) + 1
    BY <2>5
  <2>7. PushAscending(timers, t) = new
    BY DEF new
  <2>8. QED
    BY <1>1, <2>5, <2>6, <2>7
<1>4. QED
  BY <1>2, <1>3

\* The removal by mainthread takes one timer out of a list that holds `t`.
LEMMA RemoveByDataFacts ==
  ASSUME TypeOK, NEW t \in TimerId
  PROVE  /\ RemoveByData(timers, t) \in Seq(TimerId)
         /\ (\E i \in DOMAIN timers : timers[i] = t) =>
              Len(RemoveByData(timers, t)) = Len(timers) - 1
<1> DEFINE same == {i \in DOMAIN timers : TimerCmp(timers[i], t) = 0}
           first == CHOOSE i \in same : \A j \in same : i <= j
<1>1. timers \in Seq(TimerId) /\ DOMAIN timers = 1..Len(timers) /\ Len(timers) \in Nat
  BY DEF TypeOK
<1>2. CASE same = {}
  <2>1. ~ \E i \in DOMAIN timers : timers[i] = t
    BY <1>2, TimerCmpRefl
  <2>2. RemoveByData(timers, t) = timers
    BY <1>2 DEF RemoveByData
  <2>3. QED
    BY <1>1, <2>1, <2>2
<1>3. CASE same # {}
  <2>1. RemoveByData(timers, t) = RemoveAt(timers, first)
    BY <1>3 DEF RemoveByData
  <2>2. first \in same
    BY <1>1, <1>3, LeastIndex
  <2>3. first \in 1..Len(timers)
    BY <1>1, <2>2
  <2> HIDE DEF first
  <2>4. QED
    BY <1>1, <2>1, <2>3, RemoveAtFacts
<1>4. QED
  BY <1>2, <1>3

(***************************************************************************)
(* Type correctness.  A step from a well-typed state may need CurrInv: the *)
(* timer pushed to a list is a timer.                                      *)
(***************************************************************************)

LEMMA FlagsStep ==
  ASSUME FlagsOK, Next
  PROVE  FlagsOK'
<1> USE DEF FlagsOK
<1>1. ASSUME NEW c \in Callers, NEW d \in Delays, ScheduleCreate(c, d)
      PROVE  FlagsOK'
  BY <1>1, Zenon DEF ScheduleCreate, Signal, MayStop
<1>2. ASSUME NEW c \in Callers, SchedulePush(c)
      PROVE  FlagsOK'
  BY <1>2, Zenon DEF SchedulePush, Signal, MayStop
<1>3. ASSUME NEW c \in Callers, ScheduleSignal(c)
      PROVE  FlagsOK'
  BY <1>3, Zenon DEF ScheduleSignal, Signal, MayStop
<1>4. ASSUME NEW c \in Callers, SchedulePost(c)
      PROVE  FlagsOK'
  BY <1>4, Zenon DEF SchedulePost, Signal, MayStop
<1>5. ASSUME NEW c \in Callers, NEW t \in TimerId, Cancel(c, t)
      PROVE  FlagsOK'
  BY <1>5, Zenon DEF Cancel, Signal, MayStop
<1>6. CASE MainWhile
  BY <1>6, Zenon DEF MainWhile, Signal, MayStop
<1>7. CASE MainDec
  BY <1>7, Zenon DEF MainDec, Signal, MayStop
<1>8. CASE MainPeek
  BY <1>8, Zenon DEF MainPeek, Signal, MayStop
<1>9. CASE MainTest
  BY <1>9, Zenon DEF MainTest, Signal, MayStop
<1>10. CASE MainEnqueue
  BY <1>10, Zenon DEF MainEnqueue, Signal, MayStop
<1>11. CASE MainPush
  BY <1>11, Zenon DEF MainPush, Signal, MayStop
<1>12. CASE MainPost
  BY <1>12, Zenon DEF MainPost, Signal, MayStop
<1>13. CASE MainRemove
  BY <1>13, Zenon DEF MainRemove, Signal, MayStop
<1>14. CASE MainArm
  BY <1>14, Zenon DEF MainArm, Signal, MayStop
<1>15. CASE MainTimedOut
  BY <1>15, Zenon DEF MainTimedOut, Signal, MayStop
<1>16. CASE MainSpuriousWake
  BY <1>16, Zenon DEF MainSpuriousWake, Signal, MayStop
<1>17. CASE RunEnter
  BY <1>17, Zenon DEF RunEnter, Signal, MayStop
<1>18. CASE RunSpawn
  BY <1>18, Zenon DEF RunSpawn, Signal, MayStop
<1>19. CASE RunBegin
  BY <1>19, Zenon DEF RunBegin, Signal, MayStop
<1>20. CASE RunDec
  BY <1>20, Zenon DEF RunDec, Signal, MayStop
<1>21. CASE RunPop
  BY <1>21, Zenon DEF RunPop, Signal, MayStop
<1>22. CASE RunLoad
  BY <1>22, Zenon DEF RunLoad, Signal, MayStop
<1>23. CASE RunCall
  BY <1>23, Zenon DEF RunCall, Signal, MayStop
<1>24. CASE RunEnd
  BY <1>24, Zenon DEF RunEnd, Signal, MayStop
<1>25. CASE StartThreads
  BY <1>25, Zenon DEF StartThreads, Signal, MayStop
<1>26. CASE StartDone
  BY <1>26, Zenon DEF StartDone, Signal, MayStop
<1>27. CASE StopNotRunning
  BY <1>27, Zenon DEF StopNotRunning, Signal, MayStop
<1>28. CASE StopRunning
  BY <1>28, Zenon DEF StopRunning, Signal, MayStop
<1>29. CASE StopPost
  BY <1>29, Zenon DEF StopPost, Signal, MayStop
<1>30. CASE StopJoinRun
  BY <1>30, Zenon DEF StopJoinRun, Signal, MayStop
<1>31. CASE StopMainSem
  BY <1>31, Zenon DEF StopMainSem, Signal, MayStop
<1>32. CASE StopMainSignal
  BY <1>32, Zenon DEF StopMainSignal, Signal, MayStop
<1>33. CASE StopJoinMain
  BY <1>33, Zenon DEF StopJoinMain, Signal, MayStop
<1>34. CASE StopClear
  BY <1>34, Zenon DEF StopClear, Signal, MayStop
<1>35. CASE Tick
  BY <1>35, Zenon DEF Tick, Signal, MayStop
<1>36. QED
  BY <1>1, <1>2, <1>3, <1>4, <1>5, <1>6, <1>7, <1>8, <1>9, <1>10, <1>11, <1>12, <1>13, <1>14, <1>15, <1>16, <1>17, <1>18, <1>19, <1>20, <1>21, <1>22, <1>23, <1>24, <1>25, <1>26, <1>27, <1>28, <1>29, <1>30, <1>31, <1>32, <1>33, <1>34, <1>35
     DEF Next, CallerStep, MainStep, RunStep, OwnerStep, StopStep

LEMMA TypeStep ==
  ASSUME TypeOK, FlagsOK', CurrInv, Next
  PROVE  TypeOK'
<1> USE TimerAssumption DEF TypeOK, CallerState, OwnerState, MainState, RunState, TimerId
<1>1. ASSUME NEW c \in Callers, NEW d \in Delays, ScheduleCreate(c, d)
      PROVE  TypeOK'
  BY <1>1 DEF ScheduleCreate, Signal, MayStop
<1>2. ASSUME NEW c \in Callers, SchedulePush(c)
      PROVE  TypeOK'
  <2>1. callerArg[c] \in TimerId
    BY <1>2 DEF SchedulePush, CurrInv
  <2>2. timers' \in Seq(TimerId)
    BY <1>2, <2>1, PushAscendingFacts DEF SchedulePush
  <2>3. QED
    BY <1>2, <2>2 DEF SchedulePush
<1>3. ASSUME NEW c \in Callers, ScheduleSignal(c)
      PROVE  TypeOK'
  BY <1>3 DEF ScheduleSignal, Signal, MayStop
<1>4. ASSUME NEW c \in Callers, SchedulePost(c)
      PROVE  TypeOK'
  BY <1>4 DEF SchedulePost, Signal, MayStop
<1>5. ASSUME NEW c \in Callers, NEW t \in TimerId, Cancel(c, t)
      PROVE  TypeOK'
  <2>1. mainAt' \in MainState
    <3>1. mainAt' \in {mainAt, "peek"}
      BY <1>5 DEF Cancel, Signal
    <3>2. QED
      BY <3>1
  <2>2. UNCHANGED <<now, created, timeout, timers, sem, runnableVars, callerVars,
                    ownerVars, curr, runVars>>
    BY <1>5, Zenon DEF Cancel
  <2>3. QED
    BY <2>1, <2>2
<1>6. CASE MainWhile
  BY <1>6 DEF MainWhile, Signal, MayStop
<1>7. CASE MainDec
  BY <1>7 DEF MainDec, Signal, MayStop
<1>8. CASE MainPeek
  <2>1. curr' \in TimerId \cup {None}
    <3>1. curr' = curr \/ curr' = (IF timers = <<>> THEN None ELSE Head(timers))
      BY <1>8, Zenon DEF MainPeek
    <3>2. timers # <<>> => Head(timers) \in TimerId
      BY HeadTailProperties
    <3>3. QED
      BY <3>1, <3>2
  <2>2. QED
    BY <1>8, <2>1 DEF MainPeek
<1>9. CASE MainTest
  BY <1>9 DEF MainTest, Signal, MayStop
<1>10. CASE MainEnqueue
  BY <1>10 DEF MainEnqueue, Signal, MayStop
<1>11. CASE MainPush
  <2>1. curr \in TimerId
    BY <1>11 DEF MainPush, CurrInv
  <2>2. objects' \in Seq(TimerId)
    BY <1>11, <2>1, AppendProperties DEF MainPush
  <2>3. QED
    BY <1>11, <2>2 DEF MainPush
<1>12. CASE MainPost
  BY <1>12 DEF MainPost, Signal, MayStop
<1>13. CASE MainRemove
  <2>1. curr \in TimerId
    BY <1>13 DEF MainRemove, CurrInv
  <2>2. timers' \in Seq(TimerId)
    BY <1>13, <2>1, RemoveByDataFacts DEF MainRemove
  <2>3. QED
    BY <1>13, <2>2 DEF MainRemove
<1>14. CASE MainArm
  BY <1>14 DEF MainArm, Signal, MayStop
<1>15. CASE MainTimedOut
  BY <1>15 DEF MainTimedOut, Signal, MayStop
<1>16. CASE MainSpuriousWake
  BY <1>16 DEF MainSpuriousWake, Signal, MayStop
<1>17. CASE RunEnter
  BY <1>17 DEF RunEnter, Signal, MayStop
<1>18. CASE RunSpawn
  BY <1>18 DEF RunSpawn, Signal, MayStop
<1>19. CASE RunBegin
  BY <1>19 DEF RunBegin, Signal, MayStop
<1>20. CASE RunDec
  BY <1>20 DEF RunDec, Signal, MayStop
<1>21. CASE RunPop
  <2>1. CASE objects = <<>>
    BY <1>21, <2>1 DEF RunPop
  <2>2. CASE objects # <<>>
    <3>1. /\ objects' = Tail(objects) /\ popped' = Head(objects) /\ runAt' = "load"
          /\ UNCHANGED <<now, timerVars, initialized, started, running, semaphore,
                         callerVars, ownerVars, mainVars, fires, crashed>>
      BY <1>21, <2>2 DEF RunPop
    <3>2. Tail(objects) \in Seq(TimerId) /\ Head(objects) \in TimerId
      BY <2>2, HeadTailProperties
    <3>3. QED
      BY <3>1, <3>2
  <2>3. QED
    BY <2>1, <2>2
<1>22. CASE RunLoad
  BY <1>22 DEF RunLoad, Signal, MayStop
<1>23. CASE RunCall
  <2>1. popped \in TimerId
    BY <1>23 DEF RunCall, CurrInv
  <2>2. \/ fires' = fires
        \/ fires' = [fires EXCEPT ![popped] = fires[popped] + 1]
    BY <1>23, Zenon DEF RunCall
  <2>3. fires' \in [TimerId -> Nat]
    <3> HIDE DEF TimerId
    <3>1. fires[popped] + 1 \in Nat
      BY <2>1
    <3>2. [fires EXCEPT ![popped] = fires[popped] + 1] \in [TimerId -> Nat]
      BY <3>1
    <3>3. QED
      BY <2>2, <3>2, Zenon
  <2>4. QED
    BY <1>23, <2>3 DEF RunCall
<1>24. CASE RunEnd
  BY <1>24 DEF RunEnd, Signal, MayStop
<1>25. CASE StartThreads
  BY <1>25 DEF StartThreads, Signal, MayStop
<1>26. CASE StartDone
  BY <1>26 DEF StartDone, Signal, MayStop
<1>27. CASE StopNotRunning
  BY <1>27 DEF StopNotRunning, Signal, MayStop
<1>28. CASE StopRunning
  BY <1>28 DEF StopRunning, Signal, MayStop
<1>29. CASE StopPost
  BY <1>29 DEF StopPost, Signal, MayStop
<1>30. CASE StopJoinRun
  BY <1>30 DEF StopJoinRun, Signal, MayStop
<1>31. CASE StopMainSem
  BY <1>31 DEF StopMainSem, Signal, MayStop
<1>32. CASE StopMainSignal
  BY <1>32 DEF StopMainSignal, Signal, MayStop
<1>33. CASE StopJoinMain
  BY <1>33 DEF StopJoinMain, Signal, MayStop
<1>34. CASE StopClear
  BY <1>34 DEF StopClear, Signal, MayStop
<1>35. CASE Tick
  BY <1>35 DEF Tick, Signal, MayStop
<1>36. QED
  BY <1>1, <1>2, <1>3, <1>4, <1>5, <1>6, <1>7, <1>8, <1>9, <1>10, <1>11, <1>12, <1>13, <1>14, <1>15, <1>16, <1>17, <1>18, <1>19, <1>20, <1>21, <1>22, <1>23, <1>24, <1>25, <1>26, <1>27, <1>28, <1>29, <1>30, <1>31, <1>32, <1>33, <1>34, <1>35
     DEF Next, CallerStep, MainStep, RunStep, OwnerStep, StopStep

(***************************************************************************)
(* The threads exist when the owner's progress says so.                    *)
(***************************************************************************)

LEMMA ThreadStep ==
  ASSUME TypeOK, ThreadInv, Next
  PROVE  ThreadInv'
<1> USE DEF ThreadInv, Stopping
<1>1. ASSUME NEW c \in Callers, NEW d \in Delays, ScheduleCreate(c, d)
      PROVE  ThreadInv'
  BY <1>1 DEF ScheduleCreate, Signal, MayStop
<1>2. ASSUME NEW c \in Callers, SchedulePush(c)
      PROVE  ThreadInv'
  BY <1>2 DEF SchedulePush, Signal, MayStop
<1>3. ASSUME NEW c \in Callers, ScheduleSignal(c)
      PROVE  ThreadInv'
  BY <1>3 DEF ScheduleSignal, Signal, MayStop
<1>4. ASSUME NEW c \in Callers, SchedulePost(c)
      PROVE  ThreadInv'
  BY <1>4 DEF SchedulePost, Signal, MayStop
<1>5. ASSUME NEW c \in Callers, NEW t \in TimerId, Cancel(c, t)
      PROVE  ThreadInv'
  BY <1>5 DEF Cancel, Signal, MayStop
<1>6. CASE MainWhile
  BY <1>6 DEF MainWhile, Signal, MayStop
<1>7. CASE MainDec
  BY <1>7 DEF MainDec, Signal, MayStop
<1>8. CASE MainPeek
  BY <1>8 DEF MainPeek, Signal, MayStop
<1>9. CASE MainTest
  BY <1>9 DEF MainTest, Signal, MayStop
<1>10. CASE MainEnqueue
  BY <1>10 DEF MainEnqueue, Signal, MayStop
<1>11. CASE MainPush
  BY <1>11 DEF MainPush, Signal, MayStop
<1>12. CASE MainPost
  BY <1>12 DEF MainPost, Signal, MayStop
<1>13. CASE MainRemove
  BY <1>13 DEF MainRemove, Signal, MayStop
<1>14. CASE MainArm
  BY <1>14 DEF MainArm, Signal, MayStop
<1>15. CASE MainTimedOut
  BY <1>15 DEF MainTimedOut, Signal, MayStop
<1>16. CASE MainSpuriousWake
  BY <1>16 DEF MainSpuriousWake, Signal, MayStop
<1>17. CASE RunEnter
  BY <1>17 DEF RunEnter, Signal, MayStop
<1>18. CASE RunSpawn
  BY <1>18 DEF RunSpawn, Signal, MayStop
<1>19. CASE RunBegin
  BY <1>19 DEF RunBegin, Signal, MayStop
<1>20. CASE RunDec
  BY <1>20 DEF RunDec, Signal, MayStop
<1>21. CASE RunPop
  BY <1>21 DEF RunPop, Signal, MayStop
<1>22. CASE RunLoad
  BY <1>22 DEF RunLoad, Signal, MayStop
<1>23. CASE RunCall
  BY <1>23 DEF RunCall, Signal, MayStop
<1>24. CASE RunEnd
  BY <1>24 DEF RunEnd, Signal, MayStop
<1>25. CASE StartThreads
  BY <1>25 DEF StartThreads, Signal, MayStop
<1>26. CASE StartDone
  BY <1>26 DEF StartDone, Signal, MayStop
<1>27. CASE StopNotRunning
  BY <1>27 DEF StopNotRunning, Signal, MayStop
<1>28. CASE StopRunning
  BY <1>28 DEF StopRunning, Signal, MayStop
<1>29. CASE StopPost
  BY <1>29 DEF StopPost, Signal, MayStop
<1>30. CASE StopJoinRun
  BY <1>30 DEF StopJoinRun, Signal, MayStop
<1>31. CASE StopMainSem
  BY <1>31 DEF StopMainSem, Signal, MayStop
<1>32. CASE StopMainSignal
  BY <1>32 DEF StopMainSignal, Signal, MayStop
<1>33. CASE StopJoinMain
  BY <1>33 DEF StopJoinMain, Signal, MayStop
<1>34. CASE StopClear
  BY <1>34 DEF StopClear, Signal, MayStop
<1>35. CASE Tick
  BY <1>35 DEF Tick, Signal, MayStop
<1>36. QED
  BY <1>1, <1>2, <1>3, <1>4, <1>5, <1>6, <1>7, <1>8, <1>9, <1>10, <1>11, <1>12, <1>13, <1>14, <1>15, <1>16, <1>17, <1>18, <1>19, <1>20, <1>21, <1>22, <1>23, <1>24, <1>25, <1>26, <1>27, <1>28, <1>29, <1>30, <1>31, <1>32, <1>33, <1>34, <1>35
     DEF Next, CallerStep, MainStep, RunStep, OwnerStep, StopStep

(***************************************************************************)
(* The timer mainthread works on is in the list.                           *)
(***************************************************************************)

LEMMA CurrStep ==
  ASSUME TypeOK, ThreadInv, CurrInv, Next
  PROVE  CurrInv'
<1> USE DEF CurrInv
<1>1. ASSUME NEW c \in Callers, NEW d \in Delays, ScheduleCreate(c, d)
      PROVE  CurrInv'
  BY <1>1, TimerAssumption DEF ScheduleCreate, TypeOK
<1>2. ASSUME NEW c \in Callers, SchedulePush(c)
      PROVE  CurrInv'
  <2>1. callerArg[c] \in TimerId
    BY <1>2 DEF SchedulePush, TypeOK
  <2>2. \A i \in DOMAIN timers : \E k \in DOMAIN timers' : timers'[k] = timers[i]
    BY <1>2, <2>1, PushAscendingFacts DEF SchedulePush
  <2>3. QED
    BY <1>2, <2>2 DEF SchedulePush, TypeOK
<1>3. ASSUME NEW c \in Callers, ScheduleSignal(c)
      PROVE  CurrInv'
  BY <1>3 DEF ScheduleSignal, Signal, TypeOK
<1>4. ASSUME NEW c \in Callers, SchedulePost(c)
      PROVE  CurrInv'
  BY <1>4 DEF SchedulePost, TypeOK
<1>5. ASSUME NEW c \in Callers, NEW t \in TimerId, Cancel(c, t)
      PROVE  CurrInv'
  BY <1>5 DEF Cancel, Signal, MayStop
<1>6. CASE MainWhile
  BY <1>6 DEF MainWhile, Signal, MayStop
<1>7. CASE MainDec
  BY <1>7 DEF MainDec, Signal, MayStop
<1>8. CASE MainPeek
  <2>1. CASE timers = <<>>
    BY <1>8, <2>1 DEF MainPeek
  <2>2. CASE timers # <<>>
    <3>1. 1 \in DOMAIN timers /\ Head(timers) = timers[1] /\ timers[1] \in TimerId
      BY <2>2 DEF TypeOK
    <3>2. timers[1] # None
      BY <3>1 DEF TimerId
    <3>3. QED
      BY <1>8, <2>2, <3>1, <3>2 DEF MainPeek
  <2>3. QED
    BY <2>1, <2>2
<1>9. CASE MainTest
  BY <1>9 DEF MainTest, TypeOK
<1>10. CASE MainEnqueue
  BY <1>10 DEF MainEnqueue, Signal, MayStop
<1>11. CASE MainPush
  BY <1>11 DEF MainPush, Signal, MayStop
<1>12. CASE MainPost
  BY <1>12 DEF MainPost, Signal, MayStop
<1>13. CASE MainRemove
  BY <1>13 DEF MainRemove, Signal, MayStop
<1>14. CASE MainArm
  BY <1>14 DEF MainArm, Signal, MayStop
<1>15. CASE MainTimedOut
  BY <1>15 DEF MainTimedOut, Signal, MayStop
<1>16. CASE MainSpuriousWake
  BY <1>16 DEF MainSpuriousWake, Signal, MayStop
<1>17. CASE RunEnter
  BY <1>17 DEF RunEnter, Signal, MayStop
<1>18. CASE RunSpawn
  BY <1>18 DEF RunSpawn, Signal, MayStop
<1>19. CASE RunBegin
  BY <1>19 DEF RunBegin, Signal, MayStop
<1>20. CASE RunDec
  BY <1>20 DEF RunDec, Signal, MayStop
<1>21. CASE RunPop
  <2>1. CASE objects = <<>>
    BY <1>21, <2>1 DEF RunPop
  <2>2. CASE objects # <<>>
    <3>1. /\ popped' = Head(objects)
          /\ UNCHANGED <<timerVars, callerVars, mainVars>>
      BY <1>21, <2>2 DEF RunPop
    <3>2. Head(objects) \in TimerId
      BY <2>2, HeadTailProperties DEF TypeOK
    <3>3. popped' # None
      BY <3>1, <3>2 DEF TimerId
    <3>4. QED
      BY <3>1, <3>3
  <2>3. QED
    BY <2>1, <2>2
<1>22. CASE RunLoad
  BY <1>22 DEF RunLoad, Signal, MayStop
<1>23. CASE RunCall
  BY <1>23 DEF RunCall, Signal, MayStop
<1>24. CASE RunEnd
  BY <1>24 DEF RunEnd, Signal, MayStop
<1>25. CASE StartThreads
  BY <1>25 DEF StartThreads, Signal, MayStop
<1>26. CASE StartDone
  BY <1>26 DEF StartDone, Signal, MayStop
<1>27. CASE StopNotRunning
  BY <1>27 DEF StopNotRunning, MayStop, ThreadInv, Stopping
<1>28. CASE StopRunning
  BY <1>28 DEF StopRunning, Signal, MayStop
<1>29. CASE StopPost
  BY <1>29 DEF StopPost, Signal, MayStop
<1>30. CASE StopJoinRun
  BY <1>30 DEF StopJoinRun, Signal, MayStop
<1>31. CASE StopMainSem
  BY <1>31 DEF StopMainSem, Signal, MayStop
<1>32. CASE StopMainSignal
  BY <1>32 DEF StopMainSignal, Signal, MayStop
<1>33. CASE StopJoinMain
  BY <1>33 DEF StopJoinMain, Signal, MayStop
<1>34. CASE StopClear
  BY <1>34 DEF StopClear, ThreadInv
<1>35. CASE Tick
  BY <1>35 DEF Tick, Signal, MayStop
<1>36. QED
  BY <1>1, <1>2, <1>3, <1>4, <1>5, <1>6, <1>7, <1>8, <1>9, <1>10, <1>11, <1>12, <1>13, <1>14, <1>15, <1>16, <1>17, <1>18, <1>19, <1>20, <1>21, <1>22, <1>23, <1>24, <1>25, <1>26, <1>27, <1>28, <1>29, <1>30, <1>31, <1>32, <1>33, <1>34, <1>35
     DEF Next, CallerStep, MainStep, RunStep, OwnerStep, StopStep

(***************************************************************************)
(* The permits.                                                            *)
(***************************************************************************)

LEMMA IncomingFinite == IsFiniteSet(Incoming) /\ Cardinality(Incoming) \in Nat
<1>1. IsFiniteSet(Callers)
  BY TimerAssumption
<1>2. Incoming \subseteq Callers
  BY DEF Incoming
<1>3. QED
  BY <1>1, <1>2, FS_Subset, FS_CardinalityType

LEMMA PermitStep ==
  ASSUME TypeOK, ThreadInv, CurrInv, PermitInv, Next
  PROVE  PermitInv'
<1> USE IncomingFinite
<1> DEFINE n == Cardinality(Incoming)
<1>0. /\ sem \in Nat /\ Len(timers) \in Nat /\ n \in Nat
      /\ timers \in Seq(TimerId)
      /\ mainAt \in MainState /\ ownerAt \in OwnerState
  BY DEF TypeOK
<1>1. ASSUME NEW c \in Callers, NEW d \in Delays, ScheduleCreate(c, d)
      PROVE  PermitInv'
  <2>1. Incoming' = Incoming
    BY <1>1 DEF ScheduleCreate, Incoming, TypeOK
  <2>2. QED
    BY <1>1, <1>0, <2>1 DEF ScheduleCreate, PermitInv, Permits, Spare, MainHolds, MainMayHaveTaken, MainState, OwnerState
<1>2. ASSUME NEW c \in Callers, SchedulePush(c)
      PROVE  PermitInv'
  <2>1. Incoming' = Incoming \cup {c} /\ c \notin Incoming
    BY <1>2 DEF SchedulePush, Incoming, TypeOK
  <2>2. Cardinality(Incoming') = n + 1
    BY <2>1, FS_AddElement
  <2>3. callerArg[c] \in TimerId
    BY <1>2 DEF SchedulePush, TypeOK, CurrInv
  <2>4. Len(timers') = Len(timers) + 1
    BY <1>2, <2>3, PushAscendingFacts DEF SchedulePush
  <2>5. UNCHANGED <<sem, ownerAt, mainAt, curr>>
    BY <1>2 DEF SchedulePush
  <2>6. QED
    BY <1>0, <2>2, <2>4, <2>5 DEF PermitInv, Permits, Spare, MainHolds, MainMayHaveTaken, MainState, OwnerState
<1>3. ASSUME NEW c \in Callers, ScheduleSignal(c)
      PROVE  PermitInv'
  <2>1. Incoming' = Incoming
    BY <1>3 DEF ScheduleSignal, Incoming, TypeOK
  <2>2. QED
    BY <1>3, <1>0, <2>1 DEF ScheduleSignal, PermitInv, Permits, Spare, MainHolds, MainMayHaveTaken, MainState, OwnerState, Signal
<1>4. ASSUME NEW c \in Callers, SchedulePost(c)
      PROVE  PermitInv'
  <2>1. Incoming' = Incoming \ {c} /\ c \in Incoming
    BY <1>4 DEF SchedulePost, Incoming, TypeOK
  <2>2. Cardinality(Incoming') = n - 1
    BY <2>1, FS_RemoveElement
  <2>3. sem' = sem + 1 /\ UNCHANGED <<timers, ownerAt, mainAt, curr>>
    BY <1>4 DEF SchedulePost
  <2>4. QED
    BY <1>0, <2>2, <2>3 DEF PermitInv, Permits, Spare, MainHolds, MainMayHaveTaken, MainState, OwnerState
<1>5. ASSUME NEW c \in Callers, NEW t \in TimerId, Cancel(c, t)
      PROVE  PermitInv'
  <2>1. Incoming' = Incoming
    BY <1>5 DEF Cancel, Incoming
  <2>2. QED
    BY <1>5, <1>0, <2>1 DEF Cancel, PermitInv, Permits, Spare, MainHolds, MainMayHaveTaken, MainState, OwnerState, Signal
<1>6. CASE MainWhile
  <2>1. Incoming' = Incoming
    BY <1>6 DEF MainWhile, Incoming
  <2>2. QED
    BY <1>6, <1>0, <2>1 DEF MainWhile, PermitInv, Permits, Spare, MainHolds, MainMayHaveTaken, MainState, OwnerState
<1>7. CASE MainDec
  <2>1. Incoming' = Incoming
    BY <1>7 DEF MainDec, Incoming
  <2>2. QED
    BY <1>7, <1>0, <2>1 DEF MainDec, PermitInv, Permits, Spare, MainHolds, MainMayHaveTaken, MainState, OwnerState
<1>8. CASE MainPeek
  <2>1. Incoming' = Incoming
    BY <1>8 DEF MainPeek, Incoming
  <2>2. mainAt = "peek" /\ UNCHANGED <<timers, sem, ownerAt>>
    BY <1>8 DEF MainPeek
  <2>3. CASE ~running /\ mainAt' = "exit"
    <3>1. ownerAt \in Stopping
      BY <2>2, <2>3 DEF ThreadInv
    <3>2. QED
      BY <1>0, <2>1, <2>2, <2>3, <3>1 DEF Stopping, PermitInv, Permits, Spare, MainHolds, MainMayHaveTaken, MainState, OwnerState
  <2>4. CASE /\ running /\ mainAt' = "test"
             /\ curr' = IF timers = <<>> THEN None ELSE Head(timers)
    <3>1. ownerAt \notin {"mainSignal", "joinMain"}
      BY <2>4 DEF ThreadInv
    <3>2. timers = <<>> => Len(timers) = 0
      OBVIOUS
    <3>3. timers # <<>> => curr' # None
      <4>1. timers # <<>> => Head(timers) \in TimerId
        BY <1>0, HeadTailProperties
      <4>2. QED
        BY <2>4, <4>1 DEF TimerId
    <3>4. QED
      BY <1>0, <2>1, <2>2, <2>4, <3>1, <3>2, <3>3 DEF PermitInv, Permits, Spare, MainHolds, MainMayHaveTaken, MainState, OwnerState
  <2>5. QED
    BY <1>8, <2>3, <2>4 DEF MainPeek
<1>9. CASE MainTest
  <2>1. Incoming' = Incoming
    BY <1>9 DEF MainTest, Incoming
  <2>2. QED
    BY <1>9, <1>0, <2>1 DEF MainTest, PermitInv, Permits, Spare, MainHolds, MainMayHaveTaken, MainState, OwnerState, CurrInv
<1>10. CASE MainEnqueue
  <2>1. Incoming' = Incoming
    BY <1>10 DEF MainEnqueue, Incoming
  <2>2. QED
    BY <1>10, <1>0, <2>1 DEF MainEnqueue, PermitInv, Permits, Spare, MainHolds, MainMayHaveTaken, MainState, OwnerState
<1>11. CASE MainPush
  <2>1. Incoming' = Incoming
    BY <1>11 DEF MainPush, Incoming
  <2>2. QED
    BY <1>11, <1>0, <2>1 DEF MainPush, PermitInv, Permits, Spare, MainHolds, MainMayHaveTaken, MainState, OwnerState
<1>12. CASE MainPost
  <2>1. Incoming' = Incoming
    BY <1>12 DEF MainPost, Incoming
  <2>2. QED
    BY <1>12, <1>0, <2>1 DEF MainPost, PermitInv, Permits, Spare, MainHolds, MainMayHaveTaken, MainState, OwnerState
<1>13. CASE MainRemove
  <2>1. Incoming' = Incoming
    BY <1>13 DEF MainRemove, Incoming
  <2>2. curr \in TimerId /\ \E i \in DOMAIN timers : timers[i] = curr
    BY <1>13 DEF MainRemove, CurrInv, TypeOK
  <2>3. Len(timers') = Len(timers) - 1
    BY <1>13, <2>2, RemoveByDataFacts DEF MainRemove
  <2>4. QED
    BY <1>13, <1>0, <2>1, <2>3 DEF MainRemove, PermitInv, Permits, Spare, MainHolds, MainMayHaveTaken, MainState, OwnerState
<1>14. CASE MainArm
  <2>1. Incoming' = Incoming
    BY <1>14 DEF MainArm, Incoming
  <2>2. QED
    BY <1>14, <1>0, <2>1 DEF MainArm, PermitInv, Permits, Spare, MainHolds, MainMayHaveTaken, MainState, OwnerState
<1>15. CASE MainTimedOut
  <2>1. Incoming' = Incoming
    BY <1>15 DEF MainTimedOut, Incoming
  <2>2. QED
    BY <1>15, <1>0, <2>1 DEF MainTimedOut, PermitInv, Permits, Spare, MainHolds, MainMayHaveTaken, MainState, OwnerState
<1>16. CASE MainSpuriousWake
  <2>1. Incoming' = Incoming
    BY <1>16 DEF MainSpuriousWake, Incoming
  <2>2. QED
    BY <1>16, <1>0, <2>1 DEF MainSpuriousWake, PermitInv, Permits, Spare, MainHolds, MainMayHaveTaken, MainState, OwnerState
<1>17. CASE RunEnter
  <2>1. Incoming' = Incoming
    BY <1>17 DEF RunEnter, Incoming
  <2>2. QED
    BY <1>17, <1>0, <2>1 DEF RunEnter, PermitInv, Permits, Spare, MainHolds, MainMayHaveTaken, MainState, OwnerState, ThreadInv
<1>18. CASE RunSpawn
  <2>1. Incoming' = Incoming
    BY <1>18 DEF RunSpawn, Incoming
  <2>2. QED
    BY <1>18, <1>0, <2>1 DEF RunSpawn, PermitInv, Permits, Spare, MainHolds, MainMayHaveTaken, MainState, OwnerState, ThreadInv
<1>19. CASE RunBegin
  <2>1. Incoming' = Incoming
    BY <1>19 DEF RunBegin, Incoming
  <2>2. QED
    BY <1>19, <1>0, <2>1 DEF RunBegin, PermitInv, Permits, Spare, MainHolds, MainMayHaveTaken, MainState, OwnerState
<1>20. CASE RunDec
  <2>1. Incoming' = Incoming
    BY <1>20 DEF RunDec, Incoming
  <2>2. QED
    BY <1>20, <1>0, <2>1 DEF RunDec, PermitInv, Permits, Spare, MainHolds, MainMayHaveTaken, MainState, OwnerState
<1>21. CASE RunPop
  <2>1. Incoming' = Incoming
    BY <1>21 DEF RunPop, Incoming
  <2>2. QED
    BY <1>21, <1>0, <2>1 DEF RunPop, PermitInv, Permits, Spare, MainHolds, MainMayHaveTaken, MainState, OwnerState
<1>22. CASE RunLoad
  <2>1. Incoming' = Incoming
    BY <1>22 DEF RunLoad, Incoming
  <2>2. QED
    BY <1>22, <1>0, <2>1 DEF RunLoad, PermitInv, Permits, Spare, MainHolds, MainMayHaveTaken, MainState, OwnerState
<1>23. CASE RunCall
  <2>1. Incoming' = Incoming
    BY <1>23 DEF RunCall, Incoming
  <2>2. QED
    BY <1>23, <1>0, <2>1 DEF RunCall, PermitInv, Permits, Spare, MainHolds, MainMayHaveTaken, MainState, OwnerState
<1>24. CASE RunEnd
  <2>1. Incoming' = Incoming
    BY <1>24 DEF RunEnd, Incoming
  <2>2. QED
    BY <1>24, <1>0, <2>1 DEF RunEnd, PermitInv, Permits, Spare, MainHolds, MainMayHaveTaken, MainState, OwnerState
<1>25. CASE StartThreads
  <2>1. Incoming' = Incoming
    BY <1>25 DEF StartThreads, Incoming
  <2>2. QED
    BY <1>25, <1>0, <2>1 DEF StartThreads, PermitInv, Permits, Spare, MainHolds, MainMayHaveTaken, MainState, OwnerState, ThreadInv
<1>26. CASE StartDone
  <2>1. Incoming' = Incoming
    BY <1>26 DEF StartDone, Incoming
  <2>2. QED
    BY <1>26, <1>0, <2>1 DEF StartDone, PermitInv, Permits, Spare, MainHolds, MainMayHaveTaken, MainState, OwnerState
<1>27. CASE StopNotRunning
  <2>1. Incoming' = Incoming
    BY <1>27 DEF StopNotRunning, Incoming
  <2>2. Len(timers') = 0
    BY <1>27 DEF StopNotRunning
  <2>3. mainAt = "none"
    BY <1>27, <1>0 DEF StopNotRunning, ThreadInv, Stopping, MayStop
  <2>4. QED
    BY <1>27, <1>0, <2>1, <2>2, <2>3 DEF StopNotRunning, PermitInv, Permits, Spare, MainHolds, MainMayHaveTaken, MainState, OwnerState, MayStop
<1>28. CASE StopRunning
  <2>1. Incoming' = Incoming
    BY <1>28 DEF StopRunning, Incoming
  <2>2. QED
    BY <1>28, <1>0, <2>1 DEF StopRunning, PermitInv, Permits, Spare, MainHolds, MainMayHaveTaken, MainState, OwnerState, ThreadInv, MayStop
<1>29. CASE StopPost
  <2>1. Incoming' = Incoming
    BY <1>29 DEF StopPost, Incoming
  <2>2. QED
    BY <1>29, <1>0, <2>1 DEF StopPost, PermitInv, Permits, Spare, MainHolds, MainMayHaveTaken, MainState, OwnerState
<1>30. CASE StopJoinRun
  <2>1. Incoming' = Incoming
    BY <1>30 DEF StopJoinRun, Incoming
  <2>2. QED
    BY <1>30, <1>0, <2>1 DEF StopJoinRun, PermitInv, Permits, Spare, MainHolds, MainMayHaveTaken, MainState, OwnerState, ThreadInv
<1>31. CASE StopMainSem
  <2>1. Incoming' = Incoming
    BY <1>31 DEF StopMainSem, Incoming
  <2>2. QED
    BY <1>31, <1>0, <2>1 DEF StopMainSem, PermitInv, Permits, Spare, MainHolds, MainMayHaveTaken, MainState, OwnerState
<1>32. CASE StopMainSignal
  <2>1. Incoming' = Incoming
    BY <1>32 DEF StopMainSignal, Incoming
  <2>2. QED
    BY <1>32, <1>0, <2>1 DEF StopMainSignal, PermitInv, Permits, Spare, MainHolds, MainMayHaveTaken, MainState, OwnerState, Signal
<1>33. CASE StopJoinMain
  <2>1. Incoming' = Incoming
    BY <1>33 DEF StopJoinMain, Incoming
  <2>2. QED
    BY <1>33, <1>0, <2>1 DEF StopJoinMain, PermitInv, Permits, Spare, MainHolds, MainMayHaveTaken, MainState, OwnerState
<1>34. CASE StopClear
  <2>1. Incoming' = Incoming
    BY <1>34 DEF StopClear, Incoming
  <2>2. Len(timers') = 0
    BY <1>34 DEF StopClear
  <2>3. mainAt = "none"
    BY <1>34, <1>0 DEF StopClear, ThreadInv, Stopping
  <2>4. QED
    BY <1>34, <1>0, <2>1, <2>2, <2>3 DEF StopClear, PermitInv, Permits, Spare, MainHolds, MainMayHaveTaken, MainState, OwnerState
<1>35. CASE Tick
  <2>1. Incoming' = Incoming
    BY <1>35 DEF Tick, Incoming
  <2>2. QED
    BY <1>35, <1>0, <2>1 DEF Tick, PermitInv, Permits, Spare, MainHolds, MainMayHaveTaken, MainState, OwnerState
<1>36. QED
  BY <1>1, <1>2, <1>3, <1>4, <1>5, <1>6, <1>7, <1>8, <1>9, <1>10, <1>11, <1>12, <1>13, <1>14, <1>15, <1>16, <1>17, <1>18, <1>19, <1>20, <1>21, <1>22, <1>23, <1>24, <1>25, <1>26, <1>27, <1>28, <1>29, <1>30, <1>31, <1>32, <1>33, <1>34, <1>35
     DEF Next, CallerStep, MainStep, RunStep, OwnerStep, StopStep

(***************************************************************************)
(* The theorems.                                                           *)
(***************************************************************************)

LEMMA TimerInvInit == Init => TimerInv
<1> SUFFICES ASSUME Init PROVE TimerInv
  OBVIOUS
<1>1. FlagsOK
  BY DEF Init, FlagsOK
<1>2. TypeOK
  BY <1>1, TimerAssumption
     DEF Init, TypeOK, TimerId, CallerState, OwnerState, MainState, RunState
<1>3. ThreadInv
  BY DEF Init, ThreadInv, Stopping
<1>4. CurrInv
  BY DEF Init, CurrInv
<1>5. Incoming = {}
  BY DEF Init, Incoming
<1>6. Cardinality(Incoming) = 0
  BY <1>5, FS_EmptySet
<1>7. PermitInv
  BY <1>6 DEF Init, PermitInv, Permits, Spare, MainHolds, MainMayHaveTaken
<1>8. QED
  BY <1>2, <1>3, <1>4, <1>7 DEF TimerInv

LEMMA TimerInvStutter == TimerInv /\ UNCHANGED vars => TimerInv'
<1> SUFFICES ASSUME TimerInv, UNCHANGED vars PROVE TimerInv'
  OBVIOUS
<1>1. FlagsOK'
  BY Zenon DEF TimerInv, TypeOK, FlagsOK, vars
<1>2. TypeOK'
  BY <1>1 DEF TimerInv, TypeOK, vars
<1>3. ThreadInv'
  BY DEF TimerInv, ThreadInv, vars
<1>4. CurrInv'
  BY DEF TimerInv, CurrInv, vars
<1>5. PermitInv'
  BY DEF TimerInv, PermitInv, Permits, Spare, MainHolds, MainMayHaveTaken,
         Incoming, vars
<1>6. QED
  BY <1>2, <1>3, <1>4, <1>5 DEF TimerInv

\* The inductive invariant: types, which threads exist, what mainthread holds,
\* and the count of permits.
THEOREM TimerInvariance == Spec => []TimerInv
<1>1. TimerInv /\ Next => TimerInv'
  <2> SUFFICES ASSUME TimerInv, Next PROVE TimerInv'
    OBVIOUS
  <2>1. TypeOK /\ FlagsOK /\ ThreadInv /\ CurrInv /\ PermitInv
    BY DEF TimerInv, TypeOK
  <2>2. FlagsOK'
    BY <2>1, FlagsStep
  <2>3. TypeOK'
    BY <2>1, <2>2, TypeStep
  <2>4. ThreadInv' /\ CurrInv' /\ PermitInv'
    BY <2>1, ThreadStep, CurrStep, PermitStep
  <2>5. QED
    BY <2>3, <2>4 DEF TimerInv
<1>2. QED
  BY <1>1, TimerInvInit, TimerInvStutter, PTL DEF Spec

\* tsk_timer.c never strands a timer: whatever the callers, mainthread, run()
\* and a stop do and in whichever order, each listed timer has its permit.
THEOREM NoTimerStranded == Spec => []NoStrandedTimer
<1>1. TimerInv => NoStrandedTimer
  <2> SUFFICES ASSUME TimerInv PROVE NoStrandedTimer
    OBVIOUS
  <2>1. Len(timers) \in Nat /\ sem \in Nat /\ Cardinality(Incoming) \in Nat
    BY IncomingFinite DEF TimerInv, TypeOK
  <2>2. Spare \in Nat
    BY DEF Spare
  <2>3. Len(timers) + Spare <= Permits /\ Permits \in Nat
    BY <2>1 DEF TimerInv, PermitInv, Permits
  <2>4. QED
    BY <2>1, <2>2, <2>3 DEF NoStrandedTimer
<1>2. QED
  BY <1>1, TimerInvariance, PTL

\* Once stop has returned and the runnable is no longer started, run() and
\* mainthread are gone, so no callback can start any more.
THEOREM StopLeavesNoThread == Spec => []StopQuiesces
<1>1. TimerInv => StopQuiesces
  BY DEF TimerInv, ThreadInv, StopQuiesces
<1>2. QED
  BY <1>1, TimerInvariance, PTL

(***************************************************************************)
(* The queue between mainthread and run().                                 *)
(***************************************************************************)

LEMMA ObjectStep ==
  ASSUME TypeOK, ThreadInv, NoStrandedObject, Next
  PROVE  NoStrandedObject'
<1>0. /\ objects \in Seq(TimerId) /\ Len(objects) \in Nat /\ semaphore \in Nat
  BY DEF TypeOK
<1>1. ASSUME UNCHANGED <<objects, semaphore, initialized, runAt>>,
             mainAt' = "post" <=> mainAt = "post"
      PROVE  NoStrandedObject'
  BY <1>1 DEF NoStrandedObject
<1>2. ASSUME NEW c \in Callers, CallerStep(c)
      PROVE  NoStrandedObject'
  BY <1>1, <1>2
     DEF CallerStep, ScheduleCreate, SchedulePush, ScheduleSignal, SchedulePost, Cancel, Signal
<1>3. CASE \/ MainWhile \/ MainDec \/ MainPeek \/ MainTest \/ MainEnqueue
           \/ MainRemove \/ MainArm \/ MainTimedOut \/ MainSpuriousWake
  BY <1>1, <1>3
     DEF MainWhile, MainDec, MainPeek, MainTest, MainEnqueue, MainRemove, MainArm,
         MainTimedOut, MainSpuriousWake
<1>4. CASE MainPush
  <2>1. initialized => Len(objects') = Len(objects) + 1
    BY <1>0, <1>4 DEF MainPush, TypeOK
  <2>2. QED
    BY <1>0, <1>4, <2>1 DEF MainPush, NoStrandedObject
<1>5. CASE MainPost
  BY <1>0, <1>5 DEF MainPost, NoStrandedObject
<1>6. CASE RunEnter \/ RunBegin \/ RunLoad \/ RunCall
  BY <1>0, <1>6 DEF RunEnter, RunBegin, RunLoad, RunCall, NoStrandedObject
<1>7. CASE RunSpawn
  BY <1>0, <1>7 DEF RunSpawn, NoStrandedObject, ThreadInv
<1>8. CASE RunDec
  BY <1>0, <1>8 DEF RunDec, NoStrandedObject
<1>9. CASE RunPop
  <2>1. CASE objects = <<>>
    <3>1. Len(objects') = 0 /\ semaphore' = semaphore
      BY <1>9, <2>1 DEF RunPop
    <3>2. QED
      BY <1>0, <3>1 DEF NoStrandedObject
  <2>2. CASE objects # <<>>
    <3>1. Len(objects') = Len(objects) - 1
      BY <1>0, <1>9, <2>2, HeadTailProperties DEF RunPop
    <3>2. QED
      BY <1>0, <1>9, <2>2, <3>1 DEF RunPop, NoStrandedObject
  <2>3. QED
    BY <2>1, <2>2
<1>10. CASE RunEnd
  BY <1>10 DEF RunEnd, NoStrandedObject
<1>11. CASE StartThreads
  <2>1. Len(objects') = 0 /\ semaphore' = 0
    BY <1>11 DEF StartThreads
  <2>2. QED
    BY <2>1 DEF NoStrandedObject
<1>12. CASE StartDone \/ StopNotRunning \/ StopRunning \/ StopMainSem \/ StopMainSignal
            \/ StopClear \/ Tick
  BY <1>1, <1>12
     DEF StartDone, StopNotRunning, StopRunning, StopMainSem, StopMainSignal, StopClear,
         Tick, Signal
<1>13. CASE StopPost
  BY <1>0, <1>13 DEF StopPost, NoStrandedObject
<1>14. CASE StopJoinRun \/ StopJoinMain
  BY <1>14 DEF StopJoinRun, StopJoinMain, NoStrandedObject
<1>15. QED
  BY <1>2, <1>3, <1>4, <1>5, <1>6, <1>7, <1>8, <1>9, <1>10, <1>11, <1>12, <1>13, <1>14
     DEF Next, MainStep, RunStep, OwnerStep, StopStep

\* Each timer handed to run() has a permit of the runnable that brings run() to
\* it, as long as run() is in its loop: none waits in the queue unseen.
THEOREM NoObjectStranded == Spec => []NoStrandedObject
<1>1. Init => NoStrandedObject
  BY DEF Init, NoStrandedObject
<1>2. TimerInv /\ NoStrandedObject /\ [Next]_vars => NoStrandedObject'
  <2>1. CASE Next
    BY <2>1, ObjectStep DEF TimerInv
  <2>2. CASE UNCHANGED vars
    BY <2>2 DEF vars, NoStrandedObject
  <2>3. QED
    BY <2>1, <2>2
<1>3. QED
  BY <1>1, <1>2, TimerInvariance, PTL DEF Spec

(***************************************************************************)
(* The order of the list.                                                  *)
(***************************************************************************)

\* Within half of the range of int the comparison is that of the instants.
LEMMA TimerCmpExact ==
  ASSUME TypeOK, MaxNow < HalfRange, NEW a \in TimerId, NEW b \in TimerId
  PROVE  TimerCmp(a, b) = timeout[a] - timeout[b]
<1>1. timeout[a] \in 0..MaxNow /\ timeout[b] \in 0..MaxNow
  BY DEF TypeOK
<1> DEFINE d == timeout[a] - timeout[b]
<1>2. /\ d \in Int /\ HalfRange \in Nat /\ HalfRange > 0
      /\ 0 <= d + HalfRange /\ d + HalfRange < 2 * HalfRange
  BY <1>1, TimerAssumption
<1> HIDE DEF d
<1>3. (d + HalfRange) % (2 * HalfRange) = d + HalfRange
  BY <1>2
<1>4. QED
  BY <1>2, <1>3 DEF TimerCmp, d

\* What the order of the list needs besides: a listed timer was created, so
\* that no later schedule sets its instant.
Created ==
  /\ \A i \in DOMAIN timers : timers[i] <= created
  /\ \A c \in Callers : callerArg[c] <= created

LEMMA PushKeepsSorted ==
  ASSUME TypeOK, MaxNow < HalfRange, SortedByTimeout, NEW t \in TimerId
  PROVE  LET r == PushAscending(timers, t)
         IN  /\ \A i, j \in DOMAIN r : i < j => timeout[r[i]] <= timeout[r[j]]
             /\ \A i \in DOMAIN r : r[i] = t \/ \E k \in DOMAIN timers : r[i] = timers[k]
<1> DEFINE later == {i \in DOMAIN timers : TimerCmp(t, timers[i]) < 0}
           r == PushAscending(timers, t)
           n == Len(timers)
<1>1. timers \in Seq(TimerId) /\ n \in Nat /\ DOMAIN timers = 1..n /\ later \in SUBSET (1..n)
  BY LenProperties DEF TypeOK
<1>2. \A i \in 1..n : timers[i] \in TimerId
  BY <1>1, ElementOfSeq
<1>3. \A i \in 1..n : timeout[timers[i]] \in Int
  BY <1>2 DEF TypeOK
<1>4. timeout[t] \in Int
  BY DEF TypeOK
<1>5. \A i \in 1..n : i \in later <=> timeout[t] < timeout[timers[i]]
  BY <1>1, <1>2, <1>3, <1>4, TimerCmpExact
<1>6. \A i, j \in 1..n : i < j => timeout[timers[i]] <= timeout[timers[j]]
  BY <1>1 DEF SortedByTimeout
<1> HIDE DEF later
<1>7. CASE later = {}
  <2>1. r = Append(timers, t)
    BY <1>7 DEF PushAscending, later
  <2>2. /\ r \in Seq(TimerId) /\ Len(r) = n + 1 /\ r[n + 1] = t
        /\ \A i \in 1..n : r[i] = timers[i]
    BY <1>1, <2>1, AppendProperties
  <2>3. DOMAIN r = 1..(n + 1)
    BY <2>2, LenProperties
  <2> HIDE DEF r, n
  <2>4. ASSUME NEW i \in 1..(n + 1), NEW j \in 1..(n + 1), i < j
        PROVE  timeout[r[i]] <= timeout[r[j]]
    <3>1. i \in 1..n /\ r[i] = timers[i]
      BY <1>1, <2>2, <2>4
    <3>2. CASE j = n + 1
      BY <1>3, <1>4, <1>5, <1>7, <2>2, <3>1, <3>2
    <3>3. CASE j \in 1..n
      BY <1>6, <2>2, <2>4, <3>1, <3>3
    <3>4. QED
      BY <1>1, <3>2, <3>3
  <2>5. QED
    BY <1>1, <2>2, <2>3, <2>4 DEF r
<1>8. CASE later # {}
  <2> DEFINE l == CHOOSE i \in later : \A j \in later : i <= j
  <2>1. l \in later /\ \A j \in later : l <= j
    BY <1>1, <1>8, LeastIndex
  <2>2. r = InsertAt(timers, l, t)
    BY <1>8 DEF PushAscending, later
  <2> HIDE DEF l
  <2>3. l \in 1..n /\ timeout[t] < timeout[timers[l]]
    BY <1>1, <1>5, <2>1
  <2>4. /\ r \in Seq(TimerId) /\ Len(r) = n + 1
        /\ \A j \in 1..n + 1 :
             r[j] = IF j < l THEN timers[j] ELSE IF j = l THEN t ELSE timers[j - 1]
    <3> DEFINE new == InsertAt(timers, l, t)
    <3>1. l \in 1..Len(timers) /\ timers \in Seq(TimerId)
      BY <1>1, <2>3
    <3>2. /\ new \in Seq(TimerId) /\ Len(new) = Len(timers) + 1
          /\ \A j \in 1..Len(timers) + 1 :
               new[j] = IF j < l THEN timers[j] ELSE IF j = l THEN t ELSE timers[j - 1]
      BY <3>1, InsertAtPlaces
    <3>3. r = new
      BY <2>2
    <3> HIDE DEF new, r
    <3>4. QED
      BY <3>2, <3>3
  <2>5. DOMAIN r = 1..(n + 1)
    BY <2>4, LenProperties
  <2> HIDE DEF r, n
  <2>6. ASSUME NEW i \in 1..(n + 1), NEW j \in 1..(n + 1), i < j
        PROVE  timeout[r[i]] <= timeout[r[j]]
    <3>1. CASE j < l
      <4>1. i \in 1..n /\ j \in 1..n /\ r[i] = timers[i] /\ r[j] = timers[j]
        BY <1>1, <2>3, <2>4, <2>6, <3>1
      <4>2. QED
        BY <1>6, <2>6, <4>1
    <3>2. CASE j = l
      <4>1. i \in 1..n /\ r[i] = timers[i] /\ r[j] = t
        BY <1>1, <2>3, <2>4, <2>6, <3>2
      <4>2. i \notin later
        BY <1>1, <2>1, <2>3, <2>6, <3>2
      <4>3. QED
        BY <1>3, <1>4, <1>5, <4>1, <4>2
    <3>3. CASE j > l
      <4>1. j - 1 \in 1..n /\ r[j] = timers[j - 1]
        BY <1>1, <2>3, <2>4, <2>6, <3>3
      <4>2. CASE i < l
        <5>1. i \in 1..n /\ r[i] = timers[i] /\ i < j - 1
          BY <1>1, <2>3, <2>4, <2>6, <3>3, <4>2
        <5>2. QED
          BY <1>6, <4>1, <5>1
      <4>3. CASE i = l
        <5>1. r[i] = t
          BY <2>4, <4>3
        <5>2. timeout[timers[l]] <= timeout[timers[j - 1]]
          <6>1. l < j - 1 \/ l = j - 1
            BY <2>3, <3>3
          <6>2. QED
            BY <1>3, <1>6, <2>3, <4>1, <6>1
        <5>3. QED
          BY <1>3, <1>4, <2>3, <4>1, <5>1, <5>2
      <4>4. CASE i > l
        <5>1. i - 1 \in 1..n /\ r[i] = timers[i - 1] /\ i - 1 < j - 1
          BY <1>1, <2>3, <2>4, <2>6, <4>4
        <5>2. QED
          BY <1>6, <4>1, <5>1
      <4>5. QED
        BY <2>3, <4>2, <4>3, <4>4
    <3>4. QED
      BY <2>3, <3>1, <3>2, <3>3
  <2>7. ASSUME NEW j \in 1..(n + 1)
        PROVE  r[j] = t \/ \E k \in 1..n : r[j] = timers[k]
    <3>1. CASE j < l
      BY <1>1, <2>3, <2>4, <3>1
    <3>2. CASE j = l
      BY <2>4, <3>2
    <3>3. CASE j > l
      <4>1. j - 1 \in 1..n /\ r[j] = timers[j - 1]
        BY <1>1, <2>3, <2>4, <3>3
      <4>2. QED
        BY <4>1
    <3>4. QED
      BY <2>3, <3>1, <3>2, <3>3
  <2>8. QED
    BY <1>1, <2>5, <2>6, <2>7 DEF r
<1>9. QED
  BY <1>7, <1>8

LEMMA RemoveKeepsSorted ==
  ASSUME TypeOK, SortedByTimeout, NEW t \in TimerId
  PROVE  LET r == RemoveByData(timers, t)
         IN  /\ \A i, j \in DOMAIN r : i < j => timeout[r[i]] <= timeout[r[j]]
             /\ \A i \in DOMAIN r : \E k \in DOMAIN timers : r[i] = timers[k]
<1> DEFINE same == {i \in DOMAIN timers : TimerCmp(timers[i], t) = 0}
           r == RemoveByData(timers, t)
           n == Len(timers)
<1>1. timers \in Seq(TimerId) /\ n \in Nat /\ DOMAIN timers = 1..n /\ same \in SUBSET (1..n)
  BY LenProperties DEF TypeOK
<1>2. \A i, j \in 1..n : i < j => timeout[timers[i]] <= timeout[timers[j]]
  BY <1>1 DEF SortedByTimeout
<1>3. CASE same = {}
  <2>1. r = timers
    BY <1>3 DEF RemoveByData
  <2>2. QED
    BY <1>1, <1>2, <2>1
<1>4. CASE same # {}
  <2> DEFINE l == CHOOSE i \in same : \A j \in same : i <= j
  <2>1. l \in same
    BY <1>1, <1>4, LeastIndex
  <2>2. r = RemoveAt(timers, l)
    BY <1>4 DEF RemoveByData
  <2> HIDE DEF l
  <2>3. l \in 1..n
    BY <1>1, <2>1
  <2>4. /\ r \in Seq(TimerId) /\ Len(r) = n - 1
        /\ \A j \in 1..(n - 1) : r[j] = IF j < l THEN timers[j] ELSE timers[j + 1]
    BY <1>1, <2>2, <2>3, RemoveAtPlaces
  <2>5. DOMAIN r = 1..(n - 1)
    BY <2>4, LenProperties
  <2> HIDE DEF r, n
  <2>6. ASSUME NEW i \in 1..(n - 1), NEW j \in 1..(n - 1), i < j
        PROVE  timeout[r[i]] <= timeout[r[j]]
    <3> DEFINE p == IF i < l THEN i ELSE i + 1
               q == IF j < l THEN j ELSE j + 1
    <3>1. r[i] = timers[p] /\ r[j] = timers[q]
      BY <2>4
    <3>2. p \in 1..n /\ q \in 1..n /\ p < q
      BY <1>1, <2>3, <2>6
    <3>3. QED
      BY <1>2, <3>1, <3>2
  <2>7. ASSUME NEW j \in 1..(n - 1)
        PROVE  \E k \in 1..n : r[j] = timers[k]
    <3>1. j \in 1..n /\ j + 1 \in 1..n
      BY <1>1
    <3>2. QED
      BY <2>4, <3>1
  <2>8. QED
    BY <1>1, <2>5, <2>6, <2>7 DEF r
<1>5. QED
  BY <1>3, <1>4

LEMMA SortStep ==
  ASSUME TypeOK, CurrInv, MaxNow < HalfRange, SortedByTimeout, Created, Next
  PROVE  SortedByTimeout' /\ Created'
<1>0. /\ timers \in Seq(TimerId) /\ DOMAIN timers = 1..Len(timers) /\ Len(timers) \in Nat
      /\ \A i \in DOMAIN timers : timers[i] \in TimerId
      /\ created \in Nat /\ \A c \in Callers : callerArg[c] \in Nat
  <2>1. timers \in Seq(TimerId) /\ Len(timers) \in Nat /\ DOMAIN timers = 1..Len(timers)
    BY LenProperties DEF TypeOK
  <2>2. \A i \in DOMAIN timers : timers[i] \in TimerId
    BY <2>1, ElementOfSeq
  <2>3. created \in Nat /\ \A c \in Callers : callerArg[c] \in Nat
    BY TimerAssumption DEF TypeOK, TimerId
  <2> QED BY <2>1, <2>2, <2>3
<1>1. ASSUME UNCHANGED <<timers, timeout, created, callerArg>>
      PROVE  SortedByTimeout' /\ Created'
  BY <1>1 DEF SortedByTimeout, Created
<1>2. ASSUME timers' = <<>>, UNCHANGED <<created, callerArg>>
      PROVE  SortedByTimeout' /\ Created'
  BY <1>2 DEF SortedByTimeout, Created
<1>3. ASSUME NEW c \in Callers, NEW d \in Delays, ScheduleCreate(c, d)
      PROVE  SortedByTimeout' /\ Created'
  <2>1. /\ timeout' = [timeout EXCEPT ![created + 1] = now + d] /\ timers' = timers
        /\ created' = created + 1 /\ callerArg' = [callerArg EXCEPT ![c] = created + 1]
    BY <1>3 DEF ScheduleCreate
  <2>2. \A i \in DOMAIN timers : timeout'[timers[i]] = timeout[timers[i]]
    BY <1>0, <2>1 DEF Created, TypeOK
  <2>3. SortedByTimeout'
    BY <2>1, <2>2 DEF SortedByTimeout
  <2>4. \A i \in DOMAIN timers : timers[i] <= created + 1
    BY <1>0 DEF Created, TimerId
  <2>5. \A b \in Callers : callerArg'[b] <= created + 1
    BY <1>0, <2>1 DEF Created, TypeOK
  <2>6. QED
    BY <2>1, <2>3, <2>4, <2>5 DEF Created
<1>4. ASSUME NEW c \in Callers, SchedulePush(c)
      PROVE  SortedByTimeout' /\ Created'
  <2>1. callerArg[c] \in TimerId
    BY <1>4 DEF SchedulePush, CurrInv, TypeOK
  <2>2. /\ timers' = PushAscending(timers, callerArg[c])
        /\ UNCHANGED <<timeout, created, callerArg>>
    BY <1>4 DEF SchedulePush
  <2>3. /\ \A i, j \in DOMAIN timers' : i < j => timeout[timers'[i]] <= timeout[timers'[j]]
        /\ \A i \in DOMAIN timers' :
             timers'[i] = callerArg[c] \/ \E k \in DOMAIN timers : timers'[i] = timers[k]
    BY <2>1, <2>2, PushKeepsSorted
  <2>4. SortedByTimeout'
    BY <2>2, <2>3 DEF SortedByTimeout
  <2>5. Created'
    BY <2>2, <2>3 DEF Created
  <2>6. QED
    BY <2>4, <2>5
<1>5. ASSUME NEW c \in Callers, SchedulePost(c)
      PROVE  SortedByTimeout' /\ Created'
  <2>1. /\ callerArg' = [callerArg EXCEPT ![c] = None]
        /\ UNCHANGED <<timers, timeout, created>>
    BY <1>5 DEF SchedulePost
  <2>2. \A b \in Callers : callerArg'[b] <= created
    BY <1>0, <2>1 DEF Created, TypeOK
  <2>3. QED
    BY <2>1, <2>2 DEF SortedByTimeout, Created
<1>6. CASE MainRemove
  <2>1. curr \in TimerId
    BY <1>6 DEF MainRemove, CurrInv, TypeOK
  <2>2. timers' = RemoveByData(timers, curr) /\ UNCHANGED <<timeout, created, callerArg>>
    BY <1>6 DEF MainRemove
  <2>3. /\ \A i, j \in DOMAIN timers' : i < j => timeout[timers'[i]] <= timeout[timers'[j]]
        /\ \A i \in DOMAIN timers' : \E k \in DOMAIN timers : timers'[i] = timers[k]
    BY <2>1, <2>2, RemoveKeepsSorted
  <2>4. QED
    BY <2>2, <2>3 DEF SortedByTimeout, Created
<1>7. CASE StopNotRunning \/ StopClear
  BY <1>2, <1>7 DEF StopNotRunning, StopClear
<1>8. ASSUME NEW c \in Callers, ScheduleSignal(c) \/ \E t \in TimerId : Cancel(c, t)
      PROVE  SortedByTimeout' /\ Created'
  BY <1>1, <1>8 DEF ScheduleSignal, Cancel
<1>9. CASE \/ MainWhile \/ MainDec \/ MainPeek \/ MainTest \/ MainEnqueue \/ MainPush
           \/ MainPost \/ MainArm \/ MainTimedOut \/ MainSpuriousWake
  BY <1>1, <1>9
     DEF MainWhile, MainDec, MainPeek, MainTest, MainEnqueue, MainPush, MainPost,
         MainArm, MainTimedOut, MainSpuriousWake
<1>10. CASE RunStep
  BY <1>1, <1>10
     DEF RunStep, RunEnter, RunSpawn, RunBegin, RunDec, RunPop, RunLoad, RunCall, RunEnd
<1>11. CASE \/ StartThreads \/ StartDone \/ StopRunning \/ StopPost \/ StopJoinRun
            \/ StopMainSem \/ StopMainSignal \/ StopJoinMain \/ Tick
  BY <1>1, <1>11
     DEF StartThreads, StartDone, StopRunning, StopPost, StopJoinRun, StopMainSem,
         StopMainSignal, StopJoinMain, Tick
<1>12. QED
  BY <1>3, <1>4, <1>5, <1>6, <1>7, <1>8, <1>9, <1>10, <1>11
     DEF Next, CallerStep, MainStep, OwnerStep, StopStep

\* Mainthread, which waits on the head of the list, waits on the timer due first:
\* the list stays in due order, whatever is pushed and removed, as long as all
\* instants fit in half of the range of the int tsk_timer_cmp returns.
THEOREM ListStaysSorted ==
  ASSUME MaxNow < HalfRange
  PROVE  Spec => []SortedByTimeout
<1>1. Init => SortedByTimeout /\ Created
  BY DEF Init, SortedByTimeout, Created
<1>2. TimerInv /\ SortedByTimeout /\ Created /\ [Next]_vars => (SortedByTimeout /\ Created)'
  <2>1. CASE Next
    BY <2>1, SortStep DEF TimerInv
  <2>2. CASE UNCHANGED vars
    BY <2>2 DEF vars, SortedByTimeout, Created
  <2>3. QED
    BY <2>1, <2>2
<1>3. QED
  BY <1>1, <1>2, TimerInvariance, PTL DEF Spec

(***************************************************************************)
(* A timer is in one place at a time: with its caller, in the list, in the *)
(* queue of the runnable, in the hands of run(), or fired.  So run() never *)
(* calls a callback twice, and a callback it finds null was canceled after *)
(* its test.                                                               *)
(***************************************************************************)

In(list, t) == \E i \in DOMAIN list : list[i] = t
Distinct(list) == \A i, j \in DOMAIN list : list[i] = list[j] => i = j

\* Mainthread has passed the timer on to run().
Handed(t) == In(objects, t) \/ popped = t \/ fires[t] > 0

\* The timer mainthread works on is listed, and is the first that compares
\* equal to itself: the one that a removal by comparison takes.
CurrIsFirst ==
  /\ curr # None => In(timers, curr)
  /\ \A i, j \in DOMAIN timers :
       timers[i] = curr /\ j < i => timeout[timers[j]] # timeout[curr]

CallersApart ==
  /\ \A c \in Callers : callerAt[c] = "push" =>
       ~In(timers, callerArg[c]) /\ ~Handed(callerArg[c])
  /\ \A b, c \in Callers : b # c /\ callerArg[b] = callerArg[c] => callerArg[b] = None

HandedOnce ==
  /\ Distinct(objects)
  /\ \A t \in TimerId : Handed(t) => t <= created
  /\ \A t \in TimerId : Handed(t) /\ In(timers, t) =>
       curr = t /\ mainAt \in {"post", "remove"}
  /\ \A t \in TimerId : In(objects, t) => popped # t /\ fires[t] = 0
  /\ popped # None => fires[popped] = 0
  /\ \A t \in TimerId : fires[t] \in {0, 1}

OnePlace == Distinct(timers) /\ CurrIsFirst /\ CallersApart /\ HandedOnce

\* What a start finds and a stop leaves, and what the test of the clock said.
Settled ==
  /\ ownerAt \notin {"idle", "starting"} => stops > 0
  /\ mainAt = "none" => curr = None
  /\ popped # None => runAt \in {"load", "call"}
  /\ ~initialized => objects = <<>>
  /\ mainAt \in {"enqueue", "push"} => now >= timeout[curr]
  /\ \A t \in TimerId : canceled[t] => t <= created

OnceInv == OnePlace /\ Settled

(***************************************************************************)
(* The two operations on the list.                                         *)
(***************************************************************************)

\* An ordered insertion: the place, and what is behind it is due later.
LEMMA PushPlace ==
  ASSUME TypeOK, MaxNow < HalfRange, SortedByTimeout, NEW t \in TimerId
  PROVE  LET r == PushAscending(timers, t)
             n == Len(timers)
         IN  /\ r \in Seq(TimerId) /\ Len(r) = n + 1
             /\ \E l \in 1..(n + 1) :
                  /\ \A j \in 1..(n + 1) :
                       r[j] = IF j < l THEN timers[j] ELSE IF j = l THEN t ELSE timers[j - 1]
                  /\ \A j \in 1..n : l <= j => timeout[t] < timeout[timers[j]]
<1> DEFINE later == {i \in DOMAIN timers : TimerCmp(t, timers[i]) < 0}
           r == PushAscending(timers, t)
           n == Len(timers)
<1>1. timers \in Seq(TimerId) /\ n \in Nat /\ DOMAIN timers = 1..n /\ later \in SUBSET (1..n)
  BY LenProperties DEF TypeOK
<1>2. \A i \in 1..n : timers[i] \in TimerId
  BY <1>1, ElementOfSeq
<1>3. timeout[t] \in Int /\ \A i \in 1..n : timeout[timers[i]] \in Int
  BY <1>2 DEF TypeOK
<1>4. \A i \in 1..n : i \in later <=> timeout[t] < timeout[timers[i]]
  BY <1>1, <1>2, <1>3, TimerCmpExact
<1>5. \A i, j \in 1..n : i < j => timeout[timers[i]] <= timeout[timers[j]]
  BY <1>1 DEF SortedByTimeout
<1> HIDE DEF later
<1>6. CASE later = {}
  <2>1. r = Append(timers, t)
    BY <1>6 DEF PushAscending, later
  <2>2. /\ r \in Seq(TimerId) /\ Len(r) = n + 1 /\ r[n + 1] = t
        /\ \A i \in 1..n : r[i] = timers[i]
    BY <1>1, <2>1, AppendProperties
  <2> HIDE DEF r, n
  <2>3. \A j \in 1..(n + 1) :
          r[j] = IF j < n + 1 THEN timers[j] ELSE IF j = n + 1 THEN t ELSE timers[j - 1]
    BY <1>1, <2>2
  <2>4. \A j \in 1..n : ~(n + 1 <= j)
    BY <1>1
  <2>5. n + 1 \in 1..(n + 1)
    BY <1>1
  <2> QED BY <2>2, <2>3, <2>4, <2>5 DEF r, n
<1>7. CASE later # {}
  <2> DEFINE l == CHOOSE i \in later : \A j \in later : i <= j
  <2>1. l \in later /\ \A j \in later : l <= j
    BY <1>1, <1>7, LeastIndex
  <2>2. r = InsertAt(timers, l, t)
    BY <1>7 DEF PushAscending, later
  <2> HIDE DEF l
  <2>3. l \in 1..n /\ timeout[t] < timeout[timers[l]]
    BY <1>1, <1>4, <2>1
  <2>4. /\ r \in Seq(TimerId) /\ Len(r) = n + 1
        /\ \A j \in 1..n + 1 :
             r[j] = IF j < l THEN timers[j] ELSE IF j = l THEN t ELSE timers[j - 1]
    <3>1. l \in 1..Len(timers) /\ timers \in Seq(TimerId) /\ t \in TimerId
      BY <1>1, <2>3
    <3> HIDE DEF r
    <3> QED BY <2>2, <3>1, InsertAtPlaces
  <2> HIDE DEF r, n
  <2>5. \A j \in 1..n : l <= j => timeout[t] < timeout[timers[j]]
    <3>1. ASSUME NEW j \in 1..n, l <= j
          PROVE  timeout[t] < timeout[timers[j]]
      <4>1. l = j \/ l < j
        BY <2>3, <3>1
      <4>2. l < j => timeout[timers[l]] <= timeout[timers[j]]
        BY <1>5, <2>3, <3>1
      <4> QED BY <1>3, <2>3, <4>1, <4>2
    <3> QED BY <3>1
  <2>6. l \in 1..(n + 1)
    BY <1>1, <2>3
  <2> QED BY <2>4, <2>5, <2>6 DEF r, n
<1> QED BY <1>6, <1>7

\* A timer that is not listed goes in behind those due at its instant: all
\* stay apart, and the one mainthread works on stays the first of its instant.
LEMMA PushKeepsApart ==
  ASSUME TypeOK, MaxNow < HalfRange, SortedByTimeout, NEW t \in TimerId, ~In(timers, t),
         Distinct(timers), CurrIsFirst
  PROVE  LET r == PushAscending(timers, t)
         IN  /\ Distinct(r) /\ \A u : In(r, u) <=> u = t \/ In(timers, u)
             /\ \A i, j \in DOMAIN r :
                  r[i] = curr /\ j < i => timeout[r[j]] # timeout[curr]
<1> DEFINE r == PushAscending(timers, t)
           n == Len(timers)
<1>1. timers \in Seq(TimerId) /\ n \in Nat /\ DOMAIN timers = 1..n
  BY LenProperties DEF TypeOK
<1>2. /\ r \in Seq(TimerId) /\ Len(r) = n + 1
      /\ \E l \in 1..(n + 1) :
           /\ \A j \in 1..(n + 1) :
                r[j] = IF j < l THEN timers[j] ELSE IF j = l THEN t ELSE timers[j - 1]
           /\ \A j \in 1..n : l <= j => timeout[t] < timeout[timers[j]]
  BY PushPlace
<1>3. DOMAIN r = 1..(n + 1)
  BY <1>2, LenProperties
<1> HIDE DEF r
<1>4. PICK l \in 1..(n + 1) :
        /\ \A j \in 1..(n + 1) :
             r[j] = IF j < l THEN timers[j] ELSE IF j = l THEN t ELSE timers[j - 1]
        /\ \A j \in 1..n : l <= j => timeout[t] < timeout[timers[j]]
  BY <1>2
<1> DEFINE old(j) == IF j < l THEN j ELSE j - 1
<1>5. \A j \in 1..(n + 1) : j # l => old(j) \in 1..n /\ r[j] = timers[old(j)]
  BY <1>1, <1>4
<1>6. \A i, j \in 1..(n + 1) : i # l /\ j # l =>
        /\ old(i) = old(j) => i = j
        /\ j < i => old(j) < old(i)
  BY <1>1
<1>7. \A i \in 1..n : timers[i] # t
  BY <1>1 DEF In
<1> HIDE DEF old, n
<1>8. r[l] = t
  BY <1>4
<1>9. Distinct(r)
  <2>1. ASSUME NEW i \in 1..(n + 1), NEW j \in 1..(n + 1), r[i] = r[j]
        PROVE  i = j
    <3>1. i = l <=> j = l
      BY <1>5, <1>7, <1>8, <2>1
    <3>2. CASE i # l /\ j # l
      BY <1>1, <1>5, <1>6, <2>1, <3>2 DEF Distinct
    <3> QED BY <3>1, <3>2
  <2> QED BY <1>3, <2>1 DEF Distinct
<1>10. \A u : In(r, u) <=> u = t \/ In(timers, u)
  <2>1. ASSUME NEW u, In(timers, u)
        PROVE  In(r, u)
    <3>1. PICK k \in 1..n : timers[k] = u
      BY <1>1, <2>1 DEF In
    <3>2. CASE k < l
      <4>1. k \in 1..(n + 1) /\ r[k] = timers[k]
        BY <1>1, <1>4, <3>2
      <4> QED BY <1>3, <3>1, <4>1 DEF In
    <3>3. CASE l <= k
      <4>1. k + 1 \in 1..(n + 1) /\ r[k + 1] = timers[k]
        BY <1>1, <1>4, <3>3
      <4> QED BY <1>3, <3>1, <4>1 DEF In
    <3> QED BY <1>1, <3>2, <3>3
  <2>2. ASSUME NEW u, In(r, u)
        PROVE  u = t \/ In(timers, u)
    BY <1>1, <1>3, <1>5, <1>8, <2>2 DEF In
  <2> QED BY <1>3, <1>8, <2>1, <2>2 DEF In
<1>11. ASSUME NEW i \in 1..(n + 1), NEW j \in 1..(n + 1), r[i] = curr, j < i
       PROVE  timeout[r[j]] # timeout[curr]
  <2>1. i # l
    <3>1. CASE i = l
      <4>1. curr = t /\ curr # None
        BY <1>8, <1>11, <3>1, TimerAssumption DEF TimerId, None
      <4> QED BY <4>1 DEF CurrIsFirst
    <3> QED BY <3>1
  <2>2. old(i) \in 1..n /\ timers[old(i)] = curr
    BY <1>5, <1>11, <2>1
  <2>3. CASE j = l
    <3>1. l <= old(i)
      BY <1>1, <1>11, <2>1, <2>3 DEF old
    <3>2. timeout[t] < timeout[curr]
      BY <1>4, <2>2, <3>1
    <3>3. timeout[t] \in Int /\ timeout[curr] \in Int
      BY <1>1, <2>2, ElementOfSeq DEF TypeOK
    <3> QED BY <1>8, <2>3, <3>2, <3>3
  <2>4. CASE j # l
    <3>1. old(j) \in 1..n /\ r[j] = timers[old(j)] /\ old(j) < old(i)
      BY <1>5, <1>6, <1>11, <2>1, <2>4
    <3> QED BY <1>1, <2>2, <3>1 DEF CurrIsFirst
  <2> QED BY <2>3, <2>4
<1> QED BY <1>3, <1>9, <1>10, <1>11 DEF r

\* A removal by comparison takes the timer itself, and no other of its instant.
LEMMA RemoveTakesCurr ==
  ASSUME TypeOK, MaxNow < HalfRange, Distinct(timers), CurrIsFirst, curr # None
  PROVE  LET r == RemoveByData(timers, curr)
         IN  Distinct(r) /\ \A u : In(r, u) <=> In(timers, u) /\ u # curr
<1> DEFINE same == {i \in DOMAIN timers : TimerCmp(timers[i], curr) = 0}
           r == RemoveByData(timers, curr)
           n == Len(timers)
<1>1. timers \in Seq(TimerId) /\ n \in Nat /\ DOMAIN timers = 1..n /\ same \in SUBSET (1..n)
  BY LenProperties DEF TypeOK
<1>2. \A i \in 1..n : timers[i] \in TimerId
  BY <1>1, ElementOfSeq
<1>3. curr \in TimerId
  BY DEF TypeOK
<1>4. timeout[curr] \in Int /\ \A i \in 1..n : timeout[timers[i]] \in Int
  BY <1>2, <1>3 DEF TypeOK
<1>5. \A i \in 1..n : i \in same <=> timeout[timers[i]] = timeout[curr]
  BY <1>1, <1>2, <1>3, <1>4, TimerCmpExact
<1> HIDE DEF same
<1>6. PICK k \in 1..n : timers[k] = curr
  BY <1>1 DEF CurrIsFirst, In
<1> DEFINE l == CHOOSE i \in same : \A j \in same : i <= j
<1>7. l \in same /\ l <= k
  <2>1. k \in same
    BY <1>5, <1>6
  <2> QED BY <1>1, <2>1, LeastIndex
<1>8. r = RemoveAt(timers, l)
  BY <1>7 DEF RemoveByData, same
<1> HIDE DEF l
<1>9. l \in 1..n /\ timers[l] = curr
  <2>1. l \in 1..n /\ timeout[timers[l]] = timeout[curr]
    BY <1>1, <1>5, <1>7
  <2>2. ~(l < k)
    BY <1>1, <1>6, <2>1 DEF CurrIsFirst
  <2>3. l = k
    BY <1>1, <1>7, <2>1, <2>2
  <2> QED BY <1>6, <2>1, <2>3
<1>10. /\ r \in Seq(TimerId) /\ Len(r) = n - 1
       /\ \A j \in 1..(n - 1) : r[j] = IF j < l THEN timers[j] ELSE timers[j + 1]
  <2>1. timers \in Seq(TimerId) /\ l \in 1..Len(timers)
    BY <1>1, <1>9
  <2> HIDE DEF r
  <2> QED BY <1>8, <2>1, RemoveAtPlaces
<1>11. DOMAIN r = 1..(n - 1)
  BY <1>10, LenProperties
<1> HIDE DEF r, n
<1> DEFINE old(j) == IF j < l THEN j ELSE j + 1
<1>12. /\ \A j \in 1..(n - 1) : old(j) \in 1..n /\ old(j) # l /\ r[j] = timers[old(j)]
       /\ \A i, j \in 1..(n - 1) : old(i) = old(j) => i = j
  BY <1>1, <1>9, <1>10
<1> HIDE DEF old
<1>13. Distinct(r)
  BY <1>1, <1>11, <1>12 DEF Distinct
<1>14. \A u : In(r, u) => In(timers, u) /\ u # curr
  BY <1>1, <1>9, <1>11, <1>12 DEF In, Distinct
<1>15. ASSUME NEW u, In(timers, u), u # curr
       PROVE  In(r, u)
  <2>1. PICK i \in 1..n : timers[i] = u /\ i # l
    BY <1>1, <1>9, <1>15 DEF In
  <2>2. PICK j \in 1..(n - 1) : old(j) = i
    <3>1. CASE i < l
      <4>1. i \in 1..(n - 1) /\ old(i) = i
        BY <1>1, <1>9, <3>1 DEF old
      <4> QED BY <4>1
    <3>2. CASE ~(i < l)
      <4>1. i - 1 \in 1..(n - 1) /\ old(i - 1) = i
        BY <1>1, <1>9, <2>1, <3>2 DEF old
      <4> QED BY <4>1
    <3> QED BY <3>1, <3>2
  <2> QED BY <1>11, <1>12, <2>1, <2>2 DEF In
<1> QED BY <1>13, <1>14, <1>15 DEF r

(***************************************************************************)
(* The steps.                                                              *)
(***************************************************************************)

\* What leaves the timers where they are leaves them apart.
LEMMA PlaceFrame ==
  ASSUME TypeOK, OnePlace,
         UNCHANGED <<created, timeout, timers, objects, popped, fires, curr>>,
         \A c \in Callers : /\ callerAt'[c] = "push" => callerAt[c] = "push"
                            /\ callerArg'[c] \in {callerArg[c], None}
                            /\ callerAt[c] = "push" => callerArg'[c] = callerArg[c],
         mainAt \in {"post", "remove"} => mainAt' \in {"post", "remove"}
  PROVE  OnePlace'
<1>1. \A t : (Handed(t)' <=> Handed(t)) /\ (In(timers, t)' <=> In(timers, t))
             /\ (In(objects, t)' <=> In(objects, t))
  BY DEF Handed, In
<1>2. Distinct(timers)' /\ CurrIsFirst'
  BY <1>1 DEF OnePlace, Distinct, CurrIsFirst
<1>3. CallersApart'
  BY <1>1 DEF OnePlace, CallersApart
<1>4. HandedOnce'
  BY <1>1 DEF OnePlace, HandedOnce, Distinct
<1> QED BY <1>2, <1>3, <1>4 DEF OnePlace

\* A timer that has just been created is nowhere.
LEMMA CreateStep ==
  ASSUME TypeOK, Created, OnePlace, NEW c \in Callers, NEW d \in Delays, ScheduleCreate(c, d)
  PROVE  OnePlace'
<1> DEFINE new == created + 1
<1>1. /\ timeout' = [timeout EXCEPT ![new] = now + d] /\ created' = new
      /\ callerAt' = [callerAt EXCEPT ![c] = "push"]
      /\ callerArg' = [callerArg EXCEPT ![c] = new]
      /\ UNCHANGED <<timers, objects, popped, fires, curr, mainAt>> /\ created < MaxTimers
  BY DEF ScheduleCreate, mainVars, runVars, runnableVars
<1>2. /\ created \in Nat /\ new \in TimerId /\ new # None /\ new > created
      /\ \A i \in DOMAIN timers : timers[i] \in TimerId /\ timers[i] # new
      /\ \A b \in Callers : callerArg[b] # new
  <2>1. created \in Nat /\ MaxTimers \in Nat
    BY TimerAssumption DEF TypeOK
  <2>2. \A i \in DOMAIN timers : timers[i] \in TimerId /\ timers[i] <= created
    BY ElementOfSeq, LenProperties DEF TypeOK, Created
  <2>3. \A b \in Callers : callerArg[b] \in TimerId \union {None} /\ callerArg[b] <= created
    BY DEF TypeOK, Created
  <2> QED BY <1>1, <2>1, <2>2, <2>3 DEF TimerId, None
<1> HIDE DEF new
<1>3. \A t : (Handed(t)' <=> Handed(t)) /\ (In(timers, t)' <=> In(timers, t))
             /\ (In(objects, t)' <=> In(objects, t))
  BY <1>1 DEF Handed, In
<1>4. ~Handed(new) /\ ~In(timers, new)
  <2>1. Handed(new) => new <= created
    BY <1>2 DEF OnePlace, HandedOnce
  <2>2. ~(new <= created)
    BY <1>2, TimerAssumption DEF TimerId
  <2> QED BY <1>2, <2>1, <2>2 DEF In
<1>5. \A t \in TimerId : t # new => timeout'[t] = timeout[t]
  BY <1>1 DEF TypeOK
<1>6. \A b \in Callers : /\ b # c => callerAt'[b] = callerAt[b] /\ callerArg'[b] = callerArg[b]
                         /\ callerArg'[c] = new
  BY <1>1 DEF TypeOK
<1>7. Distinct(timers)' /\ CurrIsFirst'
  <2>1. curr # None => In(timers, curr)'
    BY <1>1, <1>3 DEF OnePlace, CurrIsFirst
  <2>2. ASSUME NEW i \in DOMAIN timers, NEW j \in DOMAIN timers, timers[i] = curr, j < i
        PROVE  timeout'[timers[j]] # timeout'[curr]
    <3>1. timeout[timers[j]] # timeout[curr]
      BY <2>2 DEF OnePlace, CurrIsFirst
    <3> QED BY <1>2, <1>5, <2>2, <3>1
  <2> QED BY <1>1, <2>1, <2>2 DEF OnePlace, Distinct, CurrIsFirst
<1>8. CallersApart'
  <2>1. ASSUME NEW b \in Callers, callerAt'[b] = "push"
        PROVE  ~In(timers, callerArg[b])' /\ ~Handed(callerArg[b])'
    <3>1. CASE b = c
      BY <1>1, <1>4, <1>6, <3>1 DEF In, Handed
    <3>2. CASE b # c
      <4>1. callerAt[b] = "push" /\ callerArg'[b] = callerArg[b]
        BY <1>6, <2>1, <3>2
      <4>2. ~In(timers, callerArg[b]) /\ ~Handed(callerArg[b])
        BY <4>1 DEF OnePlace, CallersApart
      <4> QED BY <1>1, <4>1, <4>2 DEF In, Handed
    <3> QED BY <3>1, <3>2
  <2>2. ASSUME NEW a \in Callers, NEW b \in Callers, a # b, callerArg'[a] = callerArg'[b]
        PROVE  callerArg'[a] = None
    BY <1>2, <1>6, <2>2 DEF OnePlace, CallersApart
  <2> QED BY <2>1, <2>2 DEF CallersApart
<1>9. HandedOnce'
  <2>1. \A t \in TimerId : Handed(t) => t <= new
    <3>1. ASSUME NEW t \in TimerId, Handed(t)
          PROVE  t <= new
      <4>1. t <= created /\ t \in Int
        BY <3>1 DEF OnePlace, HandedOnce, TimerId
      <4> QED BY <1>2, <4>1 DEF TimerId
    <3> QED BY <3>1
  <2> QED BY <1>1, <1>3, <2>1 DEF OnePlace, HandedOnce, Distinct
<1> QED BY <1>7, <1>8, <1>9 DEF OnePlace

\* The timer pushed comes from one caller, and was nowhere else.
LEMMA PushStep ==
  ASSUME TypeOK, CurrInv, MaxNow < HalfRange, SortedByTimeout, OnePlace,
         NEW c \in Callers, SchedulePush(c)
  PROVE  OnePlace'
<1> DEFINE t == callerArg[c]
<1>1. /\ callerAt[c] = "push" /\ callerAt' = [callerAt EXCEPT ![c] = "signal"]
      /\ timers' = PushAscending(timers, t)
      /\ UNCHANGED <<created, timeout, callerArg, objects, popped, fires, curr, mainAt>>
  BY DEF SchedulePush, mainVars, runVars, runnableVars
<1>2. t \in TimerId /\ t # None /\ ~In(timers, t) /\ ~Handed(t)
  BY <1>1 DEF CurrInv, TypeOK, OnePlace, CallersApart
<1> HIDE DEF t
<1>3. /\ Distinct(timers') /\ \A u : In(timers', u) <=> u = t \/ In(timers, u)
      /\ \A i, j \in DOMAIN timers' :
           timers'[i] = curr /\ j < i => timeout[timers'[j]] # timeout[curr]
  BY <1>1, <1>2, PushKeepsApart DEF OnePlace
<1>4. \A u : (Handed(u)' <=> Handed(u)) /\ (In(objects, u)' <=> In(objects, u))
  BY <1>1 DEF Handed, In
<1>5. \A u : In(timers, u)' <=> u = t \/ In(timers, u)
  BY <1>3 DEF In
<1>6. Distinct(timers)' /\ CurrIsFirst'
  BY <1>1, <1>3, <1>5 DEF OnePlace, Distinct, CurrIsFirst
<1>7. CallersApart'
  <2>1. ASSUME NEW b \in Callers, callerAt'[b] = "push"
        PROVE  ~In(timers, callerArg[b])' /\ ~Handed(callerArg[b])'
    <3>1. b # c /\ callerAt[b] = "push"
      BY <1>1, <2>1 DEF TypeOK
    <3>2. callerArg[b] # t
      BY <1>2, <3>1 DEF OnePlace, CallersApart, t
    <3>3. ~In(timers, callerArg[b]) /\ ~Handed(callerArg[b])
      BY <3>1 DEF OnePlace, CallersApart
    <3>4. ~In(timers', callerArg[b])
      BY <1>3, <3>2, <3>3
    <3> QED BY <1>1, <3>3, <3>4 DEF In, Handed
  <2> QED BY <1>1, <2>1 DEF OnePlace, CallersApart
<1>8. HandedOnce'
  BY <1>1, <1>2, <1>4, <1>5 DEF OnePlace, HandedOnce, Distinct
<1> QED BY <1>6, <1>7, <1>8 DEF OnePlace

\* Ids start at one, so no timer is the null id.
LEMMA TimerNotNone == \A t \in TimerId : t # None
BY TimerAssumption DEF TimerId, None

\* What run() and a new start do to the queue: fewer timers are handed over.
LEMMA HandedFrame ==
  ASSUME TypeOK, CurrInv, OnePlace,
         UNCHANGED <<created, timeout, timers, curr, callerAt, callerArg, mainAt>>,
         \A t \in TimerId : Handed(t)' => Handed(t), Distinct(objects)',
         \A t \in TimerId : In(objects, t)' => popped' # t /\ fires'[t] = 0,
         popped' # None => fires'[popped'] = 0,
         \A t \in TimerId : fires'[t] \in {0, 1}
  PROVE  OnePlace'
<1>1. \A t : In(timers, t)' <=> In(timers, t)
  BY DEF In
<1>2. Distinct(timers)' /\ CurrIsFirst'
  BY <1>1 DEF OnePlace, Distinct, CurrIsFirst
<1>3. CallersApart'
  <2>1. \A c \in Callers : callerAt[c] = "push" => callerArg[c] \in TimerId
    BY DEF TypeOK, CurrInv
  <2> QED BY <1>1, <2>1 DEF OnePlace, CallersApart
<1>4. HandedOnce'
  BY <1>1 DEF OnePlace, HandedOnce
<1> QED BY <1>2, <1>3, <1>4 DEF OnePlace

\* The head of the list is the first of its instant.
LEMMA PeekStep ==
  ASSUME TypeOK, OnePlace, MainPeek
  PROVE  OnePlace'
<1>1. /\ mainAt = "peek"
      /\ UNCHANGED <<created, timeout, timers, objects, popped, fires, callerAt, callerArg>>
      /\ curr' \in {curr, IF timers = <<>> THEN None ELSE Head(timers)}
  BY DEF MainPeek
<1>2. timers \in Seq(TimerId) /\ Len(timers) \in Nat /\ DOMAIN timers = 1..Len(timers)
  BY LenProperties DEF TypeOK
<1>3. \A t : (Handed(t)' <=> Handed(t)) /\ (In(timers, t)' <=> In(timers, t))
             /\ (In(objects, t)' <=> In(objects, t))
  BY <1>1 DEF Handed, In
<1>4. CurrIsFirst'
  <2>1. CASE curr' = curr
    BY <1>1, <1>3, <2>1 DEF OnePlace, CurrIsFirst
  <2>2. CASE timers = <<>> /\ curr' = None
    <3>1. DOMAIN timers = {}
      BY <2>2
    <3> QED BY <1>1, <2>2, <3>1 DEF CurrIsFirst
  <2>3. CASE timers # <<>> /\ curr' = Head(timers)
    <3>1. 1 \in DOMAIN timers /\ curr' = timers[1]
      BY <1>2, <2>3
    <3>2. \A i \in DOMAIN timers : timers[i] = curr' => i = 1
      BY <3>1 DEF OnePlace, Distinct
    <3>3. \A j \in DOMAIN timers : ~(j < 1)
      BY <1>2
    <3>4. In(timers, curr)'
      BY <1>1, <3>1 DEF In
    <3> QED BY <1>1, <3>2, <3>3, <3>4 DEF CurrIsFirst
  <2> QED BY <1>1, <2>1, <2>2, <2>3
<1>5. Distinct(timers)' /\ CallersApart'
  BY <1>1, <1>3 DEF OnePlace, Distinct, CallersApart
<1>6. HandedOnce'
  BY <1>1, <1>3 DEF OnePlace, HandedOnce, Distinct
<1> QED BY <1>4, <1>5, <1>6 DEF OnePlace

\* What is appended to a queue is in it once if it was not there.
LEMMA AppendKeepsApart ==
  ASSUME objects \in Seq(TimerId), Distinct(objects), NEW t \in TimerId, ~In(objects, t)
  PROVE  LET r == Append(objects, t)
         IN  Distinct(r) /\ \A u : In(r, u) <=> u = t \/ In(objects, u)
<1> DEFINE r == Append(objects, t)
           n == Len(objects)
<1>1. n \in Nat /\ DOMAIN objects = 1..n
  BY LenProperties
<1>2. /\ r \in Seq(TimerId) /\ Len(r) = n + 1 /\ r[n + 1] = t
      /\ \A i \in 1..n : r[i] = objects[i]
  BY <1>1, AppendProperties
<1>3. DOMAIN r = 1..(n + 1)
  BY <1>2, LenProperties
<1> HIDE DEF r, n
<1>4. \A i \in 1..(n + 1) : i = n + 1 \/ i \in 1..n
  BY <1>1
<1>5. n + 1 \in 1..(n + 1) /\ \A i \in 1..n : i \in 1..(n + 1)
  BY <1>1
<1>6. Distinct(r)
  BY <1>1, <1>2, <1>3, <1>4 DEF Distinct, In
<1>7. \A u : In(r, u) <=> u = t \/ In(objects, u)
  BY <1>1, <1>2, <1>3, <1>4, <1>5 DEF In
<1> QED BY <1>6, <1>7 DEF r

\* Mainthread hands over the timer it works on, which is still listed.
LEMMA HandOverStep ==
  ASSUME TypeOK, CurrInv, Created, OnePlace, MainPush
  PROVE  OnePlace'
<1>1. /\ mainAt = "push" /\ mainAt' = "post" /\ objects' \in {objects, Append(objects, curr)}
      /\ UNCHANGED <<created, timeout, timers, popped, fires, curr, callerAt, callerArg>>
  BY DEF MainPush
<1>2. CASE objects' = objects
  <2>1. \A t : (Handed(t)' <=> Handed(t)) /\ (In(timers, t)' <=> In(timers, t))
               /\ (In(objects, t)' <=> In(objects, t))
    BY <1>1, <1>2 DEF Handed, In
  <2>2. Distinct(timers)' /\ CurrIsFirst' /\ CallersApart'
    BY <1>1, <2>1 DEF OnePlace, Distinct, CurrIsFirst, CallersApart
  <2>3. HandedOnce'
    BY <1>1, <1>2, <2>1 DEF OnePlace, HandedOnce, Distinct
  <2> QED BY <2>2, <2>3 DEF OnePlace
<1>3. CASE objects' = Append(objects, curr)
  <2>1. curr # None /\ curr \in TimerId /\ In(timers, curr)
    BY <1>1 DEF CurrInv, TypeOK, In
  <2>2. ~Handed(curr)
    BY <1>1, <2>1 DEF OnePlace, HandedOnce
  <2>3. curr <= created
    BY <2>1 DEF In, Created
  <2>4. /\ Distinct(objects')
        /\ \A u : In(objects', u) <=> u = curr \/ In(objects, u)
    <3>1. objects \in Seq(TimerId) /\ Distinct(objects) /\ ~In(objects, curr)
      BY <2>2 DEF TypeOK, OnePlace, HandedOnce, Handed
    <3> QED BY <1>3, <2>1, <3>1, AppendKeepsApart
  <2>5. \A u : In(objects, u)' <=> u = curr \/ In(objects, u)
    BY <2>4 DEF In
  <2>6. \A u : /\ Handed(u)' <=> u = curr \/ Handed(u)
               /\ In(timers, u)' <=> In(timers, u)
    BY <1>1, <2>5 DEF Handed, In
  <2>7. Distinct(timers)' /\ CurrIsFirst'
    BY <1>1, <2>6 DEF OnePlace, Distinct, CurrIsFirst
  <2>8. CallersApart'
    BY <1>1, <2>1, <2>6 DEF OnePlace, CallersApart
  <2>9. HandedOnce'
    <3>1. popped # curr /\ fires[curr] \in {0, 1} /\ ~(fires[curr] > 0)
      BY <2>1, <2>2 DEF Handed, OnePlace, HandedOnce
    <3>2. fires[curr] = 0
      BY <3>1
    <3>3. Distinct(objects)'
      BY <2>4 DEF Distinct
    <3>4. \A t \in TimerId : Handed(t)' => t <= created'
      BY <1>1, <2>3, <2>6 DEF OnePlace, HandedOnce
    <3>5. \A t \in TimerId : Handed(t)' /\ In(timers, t)' =>
             curr' = t /\ mainAt' \in {"post", "remove"}
      BY <1>1, <2>6 DEF OnePlace, HandedOnce
    <3>6. \A t \in TimerId : In(objects, t)' => popped' # t /\ fires'[t] = 0
      BY <1>1, <2>5, <3>1, <3>2 DEF OnePlace, HandedOnce
    <3> QED BY <1>1, <3>3, <3>4, <3>5, <3>6 DEF OnePlace, HandedOnce
  <2> QED BY <2>7, <2>8, <2>9 DEF OnePlace
<1> QED BY <1>1, <1>2, <1>3

\* The timer removed is the one handed over or canceled, and no other.
LEMMA RemoveStep ==
  ASSUME TypeOK, CurrInv, MaxNow < HalfRange, OnePlace, MainRemove
  PROVE  OnePlace'
<1>1. /\ mainAt = "remove" /\ timers' = RemoveByData(timers, curr) /\ curr' = None
      /\ UNCHANGED <<created, timeout, objects, popped, fires, callerAt, callerArg>>
  BY DEF MainRemove
<1>2. Distinct(timers') /\ \A u : In(timers', u) => In(timers, u) /\ u # curr
  BY <1>1, RemoveTakesCurr DEF CurrInv, OnePlace
<1>3. \A u : /\ (Handed(u)' <=> Handed(u)) /\ (In(objects, u)' <=> In(objects, u))
             /\ In(timers, u)' => In(timers, u) /\ u # curr
  BY <1>1, <1>2 DEF Handed, In
<1>4. timers' \in Seq(TimerId)
  <2>1. curr \in TimerId
    BY <1>1 DEF CurrInv, TypeOK
  <2> QED BY <1>1, <2>1, RemoveByDataFacts
<1>5. \A i \in DOMAIN timers' : timers'[i] # None
  <2>1. DOMAIN timers' = 1..Len(timers')
    BY <1>4, LenProperties
  <2>2. \A i \in DOMAIN timers' : timers'[i] \in TimerId
    BY <1>4, <2>1, ElementOfSeq
  <2> QED BY <2>2, TimerNotNone
<1>6. Distinct(timers)' /\ CurrIsFirst'
  BY <1>1, <1>2, <1>5 DEF Distinct, CurrIsFirst
<1>7. CallersApart'
  BY <1>1, <1>3 DEF OnePlace, CallersApart
<1>8. HandedOnce'
  BY <1>1, <1>3 DEF OnePlace, HandedOnce, Distinct
<1> QED BY <1>6, <1>7, <1>8 DEF OnePlace

\* run() takes the head of its queue, ...
LEMMA PopStep ==
  ASSUME TypeOK, CurrInv, OnePlace, RunPop
  PROVE  OnePlace'
<1>1. UNCHANGED <<created, timeout, timers, curr, callerAt, callerArg, mainAt, fires>>
  BY DEF RunPop
<1>2. CASE objects = <<>>
  <2>1. UNCHANGED <<objects, popped>>
    BY <1>2 DEF RunPop
  <2> QED BY <1>1, <2>1, PlaceFrame
<1>3. CASE objects # <<>>
  <2> DEFINE n == Len(objects)
  <2>1. popped' = Head(objects) /\ objects' = Tail(objects)
    BY <1>3 DEF RunPop
  <2>2. n \in Nat \ {0} /\ DOMAIN objects = 1..n
    BY <1>3, LenProperties, EmptySeq DEF TypeOK
  <2>3. /\ popped' = objects[1] /\ objects' \in Seq(TimerId) /\ Len(objects') = n - 1
        /\ \A i \in 1..(n - 1) : objects'[i] = objects[i + 1]
    BY <1>3, <2>1, HeadTailProperties DEF TypeOK
  <2>4. DOMAIN objects' = 1..(n - 1)
    BY <2>3, LenProperties
  <2> HIDE DEF n
  <2>5. \A i \in 1..(n - 1) : i + 1 \in 1..n /\ i + 1 # 1
    BY <2>2
  <2>6. 1 \in 1..n
    BY <2>2
  <2>7. \A i, j \in DOMAIN objects : objects[i] = objects[j] => i = j
    BY DEF OnePlace, HandedOnce, Distinct
  <2>8. Distinct(objects)'
    <3>1. ASSUME NEW i \in 1..(n - 1), NEW j \in 1..(n - 1), objects'[i] = objects'[j]
          PROVE  i = j
      <4>1. i + 1 = j + 1
        BY <2>2, <2>3, <2>5, <2>7, <3>1
      <4> QED BY <4>1
    <3> QED BY <2>4, <3>1 DEF Distinct
  <2>9. In(objects, popped')
    BY <2>2, <2>3, <2>6 DEF In
  <2>10. \A t : In(objects, t)' => In(objects, t) /\ popped' # t
    BY <2>2, <2>3, <2>4, <2>5, <2>6, <2>7 DEF In
  <2>11. \A t : Handed(t)' => Handed(t)
    BY <1>1, <2>9, <2>10 DEF Handed
  <2>12. popped' \in TimerId
    BY <2>2, <2>3, <2>6, ElementOfSeq DEF TypeOK
  <2>13. fires'[popped'] = 0 /\ \A t \in TimerId : fires'[t] \in {0, 1}
    BY <1>1, <2>9, <2>12 DEF OnePlace, HandedOnce
  <2>14. \A t \in TimerId : In(objects, t)' => popped' # t /\ fires'[t] = 0
    BY <1>1, <2>10 DEF OnePlace, HandedOnce
  <2> QED BY <1>1, <2>8, <2>11, <2>13, <2>14, HandedFrame
<1> QED BY <1>2, <1>3

\* ... drops it if it was canceled, and calls its callback for the first time.
LEMMA CallStep ==
  ASSUME TypeOK, CurrInv, OnePlace, RunLoad \/ RunCall
  PROVE  OnePlace'
<1>1. /\ UNCHANGED <<created, timeout, timers, curr, callerAt, callerArg, mainAt, objects>>
      /\ runAt \in {"load", "call"} /\ popped' \in {popped, None}
  BY DEF RunLoad, RunCall
<1>2. popped \in TimerId /\ popped # None /\ fires[popped] = 0
  BY <1>1 DEF CurrInv, TypeOK, OnePlace, HandedOnce
<1>3. \A t : In(objects, t)' <=> In(objects, t)
  BY <1>1 DEF In
<1>4. CASE fires' = fires
  <2>1. \A t \in TimerId : Handed(t)' => Handed(t)
    BY <1>1, <1>2, <1>3, <1>4, TimerNotNone DEF Handed
  <2>2. \A t \in TimerId : In(objects, t)' => popped' # t /\ fires'[t] = 0
    BY <1>1, <1>2, <1>3, <1>4, TimerNotNone DEF OnePlace, HandedOnce
  <2>3. popped' # None => fires'[popped'] = 0
    BY <1>1, <1>2, <1>4
  <2>4. Distinct(objects)' /\ \A t \in TimerId : fires'[t] \in {0, 1}
    BY <1>1, <1>4 DEF OnePlace, HandedOnce, Distinct
  <2> QED BY <1>1, <2>1, <2>2, <2>3, <2>4, HandedFrame
<1>5. CASE fires' = [fires EXCEPT ![popped] = @ + 1] /\ popped' = None
  <2>1. /\ fires'[popped] = 1
        /\ \A t \in TimerId : t # popped => fires'[t] = fires[t]
    BY <1>2, <1>5 DEF TypeOK
  <2>2. \A t \in TimerId : In(objects, t)' => popped' # t /\ fires'[t] = 0
    BY <1>2, <1>3, <1>5, <2>1, TimerNotNone DEF OnePlace, HandedOnce
  <2>3. \A t \in TimerId : Handed(t)' => Handed(t)
    BY <1>2, <1>3, <1>5, <2>1, TimerNotNone DEF Handed
  <2>4. Distinct(objects)' /\ \A t \in TimerId : fires'[t] \in {0, 1}
    BY <1>1, <2>1 DEF OnePlace, HandedOnce, Distinct
  <2> QED BY <1>1, <1>5, <2>2, <2>3, <2>4, HandedFrame
<1> QED BY <1>1, <1>4, <1>5 DEF RunLoad, RunCall

\* The list is cleared, and mainthread joined, when it works on no timer.
LEMMA ClearStep ==
  ASSUME TypeOK, ThreadInv, OnePlace, Settled, StopNotRunning \/ StopClear \/ StopJoinMain
  PROVE  OnePlace'
<1>1. /\ UNCHANGED <<created, timeout, objects, popped, fires, callerAt, callerArg>>
      /\ timers' \in {timers, <<>>} /\ curr' = None /\ mainAt \notin {"post", "remove"}
  <2>1. CASE StopNotRunning
    <3>1. mainAt = "none"
      BY <2>1 DEF StopNotRunning, MayStop, ThreadInv, Stopping
    <3> QED BY <2>1, <3>1 DEF StopNotRunning, Settled
  <2>2. CASE StopClear
    <3>1. mainAt = "none"
      BY <2>2 DEF StopClear, ThreadInv
    <3> QED BY <2>2, <3>1 DEF StopClear, Settled
  <2> QED BY <2>1, <2>2 DEF StopJoinMain
<1>2. /\ \A i \in DOMAIN timers : timers[i] # None
      /\ DOMAIN <<>> = {}
  <2>1. \A i \in DOMAIN timers : timers[i] \in TimerId
    BY ElementOfSeq, LenProperties DEF TypeOK
  <2> QED BY <2>1, TimerNotNone
<1>3. \A t : /\ (Handed(t)' <=> Handed(t)) /\ (In(objects, t)' <=> In(objects, t))
             /\ In(timers, t)' => In(timers, t)
  BY <1>1, <1>2 DEF Handed, In
<1>4. Distinct(timers)' /\ CurrIsFirst'
  BY <1>1, <1>2 DEF OnePlace, Distinct, CurrIsFirst
<1>5. CallersApart'
  BY <1>1, <1>3 DEF OnePlace, CallersApart
<1>6. HandedOnce'
  BY <1>1, <1>3 DEF OnePlace, HandedOnce, Distinct
<1> QED BY <1>4, <1>5, <1>6 DEF OnePlace

\* Every step leaves each timer in one place, those of a stop and of a new start
\* included.
LEMMA PlaceStep ==
  ASSUME TimerInv, MaxNow < HalfRange, SortedByTimeout, Created, OnceInv, Next
  PROVE  OnePlace'
<1>1. TypeOK /\ ThreadInv /\ CurrInv /\ OnePlace /\ Settled
  BY DEF TimerInv, OnceInv
<1>2. ASSUME NEW c \in Callers, ScheduleSignal(c) \/ SchedulePost(c) \/ \E t \in TimerId : Cancel(c, t)
      PROVE  OnePlace'
  <2>1. UNCHANGED <<created, timeout, timers, objects, popped, fires, curr>>
    BY <1>2 DEF ScheduleSignal, SchedulePost, Cancel
  <2>2. mainAt \in {"post", "remove"} => mainAt' \in {"post", "remove"}
    BY <1>2 DEF ScheduleSignal, SchedulePost, Cancel, Signal
  <2>3. \A b \in Callers :
          /\ callerAt'[b] = "push" => callerAt[b] = "push"
          /\ callerArg'[b] \in {callerArg[b], None}
          /\ callerAt[b] = "push" => callerArg'[b] = callerArg[b]
    BY <1>1, <1>2 DEF ScheduleSignal, SchedulePost, Cancel, TypeOK
  <2> QED BY <1>1, <2>1, <2>2, <2>3, PlaceFrame
<1>3. CASE \/ MainWhile \/ MainDec \/ MainTest \/ MainEnqueue \/ MainPost \/ MainArm
           \/ MainTimedOut \/ MainSpuriousWake
  <2>1. UNCHANGED <<created, timeout, timers, objects, popped, fires, curr,
                    callerAt, callerArg>>
    BY <1>3 DEF MainWhile, MainDec, MainTest, MainEnqueue, MainPost, MainArm,
                MainTimedOut, MainSpuriousWake
  <2>2. mainAt \in {"post", "remove"} => mainAt' \in {"post", "remove"}
    BY <1>3 DEF MainWhile, MainDec, MainTest, MainEnqueue, MainPost, MainArm,
                MainTimedOut, MainSpuriousWake
  <2> QED BY <1>1, <2>1, <2>2, PlaceFrame
<1>4. CASE RunEnter \/ RunSpawn \/ RunBegin \/ RunDec \/ RunEnd \/ StartDone \/ Tick
  <2>1. UNCHANGED <<created, timeout, timers, objects, popped, fires, curr,
                    callerAt, callerArg>>
    BY <1>4 DEF RunEnter, RunSpawn, RunBegin, RunDec, RunEnd, StartDone, Tick
  <2>2. mainAt \in {"post", "remove"} => mainAt' \in {"post", "remove"}
    BY <1>1, <1>4 DEF RunEnter, RunSpawn, RunBegin, RunDec, RunEnd, StartDone, Tick, ThreadInv
  <2> QED BY <1>1, <2>1, <2>2, PlaceFrame
<1>5. CASE StopRunning \/ StopPost \/ StopMainSem \/ StopMainSignal
  <2>1. UNCHANGED <<created, timeout, timers, objects, popped, fires, curr,
                    callerAt, callerArg>>
    BY <1>5 DEF StopRunning, StopPost, StopMainSem, StopMainSignal
  <2>2. mainAt \in {"post", "remove"} => mainAt' \in {"post", "remove"}
    BY <1>5 DEF StopRunning, StopPost, StopMainSem, StopMainSignal, Signal
  <2> QED BY <1>1, <2>1, <2>2, PlaceFrame
<1>6. CASE StartThreads \/ StopJoinRun
  <2>1. /\ UNCHANGED <<created, timeout, timers, curr, callerAt, callerArg, mainAt, popped, fires>>
        /\ objects' = <<>>
    BY <1>6 DEF StartThreads, StopJoinRun
  <2>2. DOMAIN objects' = {}
    BY <2>1
  <2>3. Distinct(objects)' /\ \A t : ~In(objects, t)'
    BY <2>2 DEF Distinct, In
  <2>4. \A t \in TimerId : Handed(t)' => Handed(t)
    BY <2>1, <2>3 DEF Handed
  <2>5. /\ popped' # None => fires'[popped'] = 0
        /\ \A t \in TimerId : fires'[t] \in {0, 1}
    BY <1>1, <2>1 DEF OnePlace, HandedOnce
  <2> QED BY <1>1, <2>1, <2>3, <2>4, <2>5, HandedFrame
<1>7. ASSUME NEW c \in Callers, NEW d \in Delays, ScheduleCreate(c, d)
      PROVE  OnePlace'
  BY <1>1, <1>7, CreateStep
<1>8. ASSUME NEW c \in Callers, SchedulePush(c)
      PROVE  OnePlace'
  BY <1>1, <1>8, PushStep
<1>9. CASE MainPeek \/ MainPush \/ MainRemove
  BY <1>1, <1>9, PeekStep, HandOverStep, RemoveStep
<1>10. CASE RunPop \/ RunLoad \/ RunCall
  BY <1>1, <1>10, PopStep, CallStep
<1>11. CASE StopNotRunning \/ StopClear \/ StopJoinMain
  BY <1>1, <1>11, ClearStep
<1> QED
  BY <1>2, <1>3, <1>4, <1>5, <1>6, <1>7, <1>8, <1>9, <1>10, <1>11
     DEF Next, CallerStep, MainStep, RunStep, OwnerStep, StopStep

\* The instant of the timer mainthread works on, and of any created, is fixed.
LEMMA CurrIsCreated ==
  ASSUME TimerInv, Created, OnceInv, curr # None
  PROVE  curr \in TimerId /\ curr <= created
<1>1. PICK i \in DOMAIN timers : timers[i] = curr
  BY DEF OnceInv, OnePlace, CurrIsFirst, In
<1> QED BY <1>1 DEF TimerInv, TypeOK, Created

LEMMA SettledStep ==
  ASSUME TimerInv, Created, OnceInv, Next
  PROVE  Settled'
<1>1. TypeOK /\ ThreadInv /\ CurrInv /\ OnePlace /\ Settled
  BY DEF TimerInv, OnceInv
<1>2. ASSUME NEW c \in Callers, NEW d \in Delays, ScheduleCreate(c, d)
      PROVE  Settled'
  <2>1. /\ timeout' = [timeout EXCEPT ![created + 1] = now + d] /\ created' = created + 1
        /\ UNCHANGED <<ownerAt, stops, mainAt, curr, popped, runAt, initialized, objects, now,
                       canceled>>
    BY <1>2 DEF ScheduleCreate
  <2>2. created \in Int /\ TimerId \subseteq Int
    BY <1>1, TimerAssumption DEF TypeOK, TimerId
  <2>3. mainAt \in {"enqueue", "push"} => timeout'[curr] = timeout[curr]
    <3>1. mainAt \in {"enqueue", "push"} => curr \in TimerId /\ curr <= created
      BY <1>1, CurrIsCreated DEF CurrInv
    <3> QED BY <1>1, <2>1, <2>2, <3>1 DEF TypeOK
  <2>4. \A t \in TimerId : canceled[t] => t <= created + 1
    BY <1>1, <2>2 DEF Settled
  <2> QED BY <1>1, <2>1, <2>3, <2>4 DEF Settled
<1>3. ASSUME NEW c \in Callers, NEW t \in TimerId, Cancel(c, t)
      PROVE  Settled'
  <2>1. /\ canceled' = [canceled EXCEPT ![t] = TRUE] /\ mainAt' \in {mainAt, "peek"}
        /\ mainAt' = "none" => mainAt = "none"
        /\ UNCHANGED <<ownerAt, stops, curr, popped, runAt, initialized, objects, now, timeout, created>>
    BY <1>3 DEF Cancel, Signal
  <2>2. t <= created
    BY <1>3 DEF Cancel, Created
  <2>3. \A u \in TimerId : canceled'[u] => u <= created
    BY <1>1, <2>1, <2>2 DEF TypeOK, FlagsOK, Settled
  <2> QED BY <1>1, <2>1, <2>3 DEF Settled
<1>4. ASSUME NEW c \in Callers, SchedulePush(c) \/ ScheduleSignal(c) \/ SchedulePost(c)
      PROVE  Settled'
  BY <1>1, <1>4 DEF SchedulePush, ScheduleSignal, SchedulePost, Signal, Settled
<1>5. CASE MainWhile \/ MainDec \/ MainPeek \/ MainTest \/ MainEnqueue
  BY <1>1, <1>5 DEF MainWhile, MainDec, MainPeek, MainTest, MainEnqueue, Settled
<1>6. CASE MainPush
  BY <1>1, <1>6 DEF MainPush, Settled
<1>7. CASE MainPost \/ MainRemove \/ MainArm \/ MainTimedOut \/ MainSpuriousWake
  BY <1>1, <1>7 DEF MainPost, MainRemove, MainArm, MainTimedOut, MainSpuriousWake, Settled
<1>8. CASE RunEnter \/ RunSpawn \/ RunBegin \/ RunDec \/ RunEnd
  BY <1>1, <1>8 DEF RunEnter, RunSpawn, RunBegin, RunDec, RunEnd, Settled
<1>9. CASE RunPop
  <2>1. objects = <<>> => objects' = <<>>
    BY <1>9 DEF RunPop
  <2> QED BY <1>1, <1>9, <2>1 DEF RunPop, Settled
<1>10. CASE RunLoad \/ RunCall
  BY <1>1, <1>10 DEF RunLoad, RunCall, Settled
<1>11. CASE StartThreads \/ StartDone
  BY <1>1, <1>11 DEF StartThreads, StartDone, Settled, ThreadInv
<1>12. CASE StopNotRunning \/ StopRunning
  <2>1. stops' > 0
    BY <1>1, <1>12 DEF StopNotRunning, StopRunning, TypeOK
  <2> QED BY <1>1, <1>12, <2>1 DEF StopNotRunning, StopRunning, Settled
<1>13. CASE StopStep
  <2>1. CASE StopJoinMain
    BY <1>1, <2>1 DEF StopJoinMain, Settled, ThreadInv
  <2>2. CASE StopPost \/ StopJoinRun \/ StopMainSem \/ StopMainSignal \/ StopClear
    BY <1>1, <2>2 DEF StopPost, StopJoinRun, StopMainSem, StopMainSignal, StopClear, Signal, Settled
  <2> QED BY <1>13, <2>1, <2>2 DEF StopStep
<1>14. CASE Tick
  <2>1. /\ now' = now + 1
        /\ UNCHANGED <<ownerAt, stops, mainAt, curr, popped, runAt, initialized, objects, timeout,
                       canceled, created>>
    BY <1>14 DEF Tick
  <2>2. mainAt \in {"enqueue", "push"} => now + 1 >= timeout[curr]
    <3>1. mainAt \in {"enqueue", "push"} => curr \in TimerId
      BY <1>1, CurrIsCreated DEF CurrInv
    <3>2. mainAt \in {"enqueue", "push"} => timeout[curr] \in Int
      BY <1>1, <3>1 DEF TypeOK
    <3> QED BY <1>1, <3>2 DEF TypeOK, Settled
  <2> QED BY <1>1, <2>1, <2>2 DEF Settled
<1> QED
  BY <1>2, <1>3, <1>4, <1>5, <1>6, <1>7, <1>8, <1>9, <1>10, <1>11, <1>12, <1>13, <1>14
     DEF Next, CallerStep, MainStep, RunStep, OwnerStep

\* A step that ends the process is one of the two named.
LEMMA CrashStep ==
  ASSUME TimerInv, OnceInv, CrashOnlyByLateCancelOrStop, Next
  PROVE  CrashOnlyByLateCancelOrStop'
<1>1. TypeOK /\ ThreadInv /\ CurrInv
  BY DEF TimerInv
<1>2. ~crashed /\ (crashed' => MainPush \/ MainPost \/ RunCall)
  <2>1. ASSUME NEW c \in Callers, CallerStep(c)
        PROVE  crashed' = crashed
    BY <2>1 DEF CallerStep, ScheduleCreate, SchedulePush, ScheduleSignal, SchedulePost, Cancel
  <2>2. ASSUME MainStep \/ MainSpuriousWake, ~MainPush, ~MainPost
        PROVE  crashed' = crashed
    BY <2>2 DEF MainStep, MainWhile, MainDec, MainPeek, MainTest, MainEnqueue, MainRemove,
                MainArm, MainTimedOut, MainSpuriousWake
  <2>3. ASSUME RunStep, ~RunCall
        PROVE  crashed' = crashed
    BY <2>3 DEF RunStep, RunEnter, RunSpawn, RunBegin, RunDec, RunPop, RunLoad, RunEnd
  <2>4. ASSUME OwnerStep \/ Tick
        PROVE  crashed' = crashed
    BY <2>4 DEF OwnerStep, StopStep, StartThreads, StartDone, StopNotRunning, StopRunning,
                StopPost, StopJoinRun, StopMainSem, StopMainSignal, StopJoinMain, StopClear, Tick
  <2> QED BY <2>1, <2>2, <2>3, <2>4 DEF Next
<1>3. CASE crashed' /\ (MainPush \/ MainPost)
  <2>1. ~initialized /\ mainAt \in {"push", "post"} /\ stops' = stops
    BY <1>2, <1>3 DEF MainPush, MainPost
  <2>2. ownerAt \notin {"idle", "starting"}
    BY <1>1, <2>1 DEF ThreadInv
  <2>3. stops # 0 /\ stops \in Nat
    BY <1>1, <2>2 DEF OnceInv, Settled, TypeOK
  <2> QED BY <2>1, <2>3 DEF CrashOnlyByLateCancelOrStop
<1>4. CASE crashed' /\ RunCall
  <2>1. /\ canceled[popped] /\ runAt = "call"
        /\ UNCHANGED <<stops, fires, canceled>>
    BY <1>2, <1>4 DEF RunCall
  <2>2. popped # None /\ popped \in TimerId
    BY <1>1, <2>1 DEF CurrInv, TypeOK
  <2>3. fires[popped] = 0
    BY <2>2 DEF OnceInv, OnePlace, HandedOnce
  <2> QED BY <2>1, <2>2, <2>3 DEF CrashOnlyByLateCancelOrStop
<1> QED BY <1>2, <1>3, <1>4 DEF CrashOnlyByLateCancelOrStop

(***************************************************************************)
(* The results.                                                            *)
(***************************************************************************)

OnceTogether == SortedByTimeout /\ Created /\ OnceInv /\ CrashOnlyByLateCancelOrStop

\* The order of the list and the places of the timers hold together: a removal
\* takes the right timer only if the list is in order.
LEMMA OnceInvariance ==
  ASSUME MaxNow < HalfRange
  PROVE  Spec => []OnceTogether
<1>1. Init => OnceTogether
  <2> SUFFICES ASSUME Init
               PROVE  OnceTogether
    OBVIOUS
  <2>1. /\ timers = <<>> /\ objects = <<>> /\ popped = None /\ curr = None
        /\ callerAt = [c \in Callers |-> "idle"] /\ callerArg = [c \in Callers |-> None]
        /\ fires = [t \in TimerId |-> 0] /\ ownerAt = "idle" /\ ~crashed /\ created = 0
        /\ mainAt = "none" /\ canceled = [t \in TimerId |-> FALSE]
    BY DEF Init
  <2>2. DOMAIN timers = {} /\ DOMAIN objects = {}
    BY <2>1
  <2>3. \A t : ~In(timers, t) /\ ~In(objects, t)
    BY <2>2 DEF In
  <2>4. \A t \in TimerId : ~Handed(t) /\ fires[t] = 0
    BY <2>1, <2>3, TimerNotNone DEF Handed
  <2>5. HandedOnce
    BY <2>1, <2>2, <2>3, <2>4 DEF HandedOnce, Distinct
  <2>6. Distinct(timers) /\ CurrIsFirst /\ CallersApart
    BY <2>1, <2>2 DEF Distinct, CurrIsFirst, CallersApart
  <2>7. SortedByTimeout /\ Created
    BY <2>1, <2>2 DEF SortedByTimeout, Created, None
  <2> QED BY <2>1, <2>5, <2>6, <2>7 DEF OnceTogether, OnceInv, OnePlace, Settled,
                                                 CrashOnlyByLateCancelOrStop
<1>2. TimerInv /\ OnceTogether /\ [Next]_vars => OnceTogether'
  <2>1. ASSUME TimerInv, OnceTogether, Next
        PROVE  OnceTogether'
    BY <2>1, SortStep, PlaceStep, SettledStep, CrashStep DEF TimerInv, OnceTogether, OnceInv
  <2>2. ASSUME OnceTogether, UNCHANGED vars
        PROVE  OnceTogether'
    <3>1. \A t : (Handed(t)' <=> Handed(t)) /\ (In(timers, t)' <=> In(timers, t))
                 /\ (In(objects, t)' <=> In(objects, t))
      BY <2>2 DEF Handed, In, vars
    <3>2. OnceInv'
      BY <2>2, <3>1 DEF OnceTogether, OnceInv, OnePlace, Distinct, CurrIsFirst, CallersApart,
                        HandedOnce, Settled, vars
    <3> QED BY <2>2, <3>2 DEF OnceTogether, SortedByTimeout, Created,
                              CrashOnlyByLateCancelOrStop, vars
  <2> QED BY <2>1, <2>2
<1> QED BY <1>1, <1>2, TimerInvariance, PTL DEF Spec

\* The process ends in only two ways: run() finds the callback of a timer null
\* that was canceled since its test, or a stop freed the queue of the runnable
\* under mainthread.  All instants fit in half of the range of int.
THEOREM CrashesAreNamed ==
  ASSUME MaxNow < HalfRange
  PROVE  Spec => []CrashOnlyByLateCancelOrStop
<1>1. OnceTogether => CrashOnlyByLateCancelOrStop
  BY DEF OnceTogether
<1> QED BY <1>1, OnceInvariance, PTL

\* No callback is called twice, although mainthread removes by comparison and not by
\* identity what it has handed over, and whatever a stop interrupts.
CalledOnce == \A t \in TimerId : fires[t] <= 1

THEOREM NobodyIsCalledTwice ==
  ASSUME MaxNow < HalfRange
  PROVE  Spec => []CalledOnce
<1>1. OnceTogether => CalledOnce
  BY DEF OnceTogether, OnceInv, OnePlace, HandedOnce, CalledOnce
<1> QED BY <1>1, OnceInvariance, PTL

(***************************************************************************)
(* The refinement.  The phase of a timer in terms of where it is: called,  *)
(* waiting for run(), about to be removed, or listed or with its caller.   *)
(***************************************************************************)

Called(t) == runAt = "call" /\ popped = t
Waits(t) == popped = t \/ In(objects, t)
Goes(t) == curr = t /\ mainAt \in {"post", "remove"}
Brought(t) == \E c \in Callers : callerArg[c] = t /\ callerAt[c] = "push"
Listed(t) == In(timers, t) \/ Brought(t)

Life(t) ==
  IF t > created THEN "free"
  ELSE IF fires[t] > 0 THEN (IF fires[t] = 1 THEN "fired" ELSE "firedAgain")
  ELSE IF Called(t) THEN "raised"
  ELSE IF canceled[t] THEN "void"
  ELSE IF Waits(t) THEN "raised"
  ELSE IF Goes(t) THEN "void"
  ELSE IF Listed(t) THEN "armed"
  ELSE "void"

LEMMA PhaseIsLife == \A t : Phase(t) = Life(t) /\ Phase(t)' = Life(t)'
<1>1. \A list, t : t \in ToSet(list) <=> In(list, t)
  BY DEF ToSet, In
<1>2. \A t : /\ (t \in ToSet(objects) <=> In(objects, t)) /\ (t \in ToSet(timers) <=> In(timers, t))
             /\ (t \in ToSet(objects') <=> In(objects', t)) /\ (t \in ToSet(timers') <=> In(timers', t))
  BY <1>1
<1>3. ASSUME NEW t
      PROVE  Phase(t) = Life(t)
  BY <1>2 DEF Phase, Life, Called, Waits, Goes, Listed, Brought
<1>4. ASSUME NEW t
      PROVE  Phase(t)' = Life(t)'
  <2>1. (In(objects, t)' <=> t \in ToSet(objects')) /\ (In(timers, t)' <=> t \in ToSet(timers'))
    BY <1>2 DEF In
  <2> QED BY <2>1 DEF Phase, Life, Called, Waits, Goes, Listed, Brought
<1> QED BY <1>3, <1>4

\* Everything the phase depends on.
Same(t) ==
  /\ created' = created /\ fires'[t] = fires[t] /\ canceled'[t] = canceled[t]
  /\ Called(t)' <=> Called(t)
  /\ Waits(t)' <=> Waits(t)
  /\ Goes(t)' <=> Goes(t)
  /\ Listed(t)' <=> Listed(t)

LEMMA SameLife == \A t : Same(t) => Life(t)' = Life(t)
BY DEF Same, Life

Unmoved == now' = now /\ timeout' = timeout

\* A step of the service that leaves everything as it is.
LEMMA Stutters ==
  ASSUME Unmoved, stops' = stops, \A t \in TimerId : Life(t)' = Life(t)
  PROVE  UNCHANGED Service!vars
<1>1. \A t \in TimerId : Phase(t)' = Phase(t)
  BY PhaseIsLife
<1> QED BY <1>1 DEF Unmoved, Service!vars

LEMMA Drops ==
  ASSUME Unmoved, stops' \in {stops, stops + 1}, stops' > 0,
         \A t \in TimerId : Life(t)' = Life(t) \/ (Life(t) \in {"armed", "raised"} /\ Life(t)' = "void")
  PROVE  Service!Drop
<1> DEFINE lost == {t \in TimerId : Life(t) \in {"armed", "raised"} /\ Life(t)' = "void"}
<1>1. \A t \in TimerId : Phase(t)' = IF t \in lost THEN "void" ELSE Phase(t)
  BY PhaseIsLife
<1>2. lost \in SUBSET {t \in TimerId : Phase(t) \in {"armed", "raised"}}
  BY PhaseIsLife
<1> HIDE DEF lost
<1> DEFINE phase == [t \in TimerId |-> Phase(t)]
<1>3. phase' = [t \in TimerId |-> IF t \in lost THEN "void" ELSE phase[t]]
  BY <1>1
<1>4. {t \in TimerId : phase[t] \in {"armed", "raised"}} = {t \in TimerId : Phase(t) \in {"armed", "raised"}}
  OBVIOUS
<1> QED BY <1>2, <1>3, <1>4 DEF Unmoved, Service!Drop

\* One timer passes from one phase to the next.
LEMMA Passes ==
  ASSUME NEW t \in TimerId, NEW new, Life(t)' = new, \A u \in TimerId \ {t} : Life(u)' = Life(u)
  PROVE  [u \in TimerId |-> Phase(u)]' = [[u \in TimerId |-> Phase(u)] EXCEPT ![t] = new]
BY PhaseIsLife

\* The steps of the threads that concern no timer: its phase stays.
LEMMA QuietCaller ==
  ASSUME TypeOK, NEW c \in Callers, ScheduleSignal(c) \/ SchedulePost(c)
  PROVE  UNCHANGED Service!vars
<1>1. /\ Unmoved /\ stops' = stops
      /\ UNCHANGED <<created, fires, canceled, runAt, popped, objects, timers, curr>>
      /\ mainAt \in {"post", "remove"} <=> mainAt' \in {"post", "remove"}
  BY DEF ScheduleSignal, SchedulePost, Signal, Unmoved
<1>2. \A b \in Callers : /\ callerAt'[b] = "push" <=> callerAt[b] = "push"
                         /\ callerAt[b] = "push" => callerArg'[b] = callerArg[b]
  BY DEF ScheduleSignal, SchedulePost, TypeOK
<1>3. \A t \in TimerId : Brought(t)' <=> Brought(t)
  BY <1>2 DEF Brought
<1>4. \A t \in TimerId : Same(t)
  BY <1>1, <1>3 DEF Same, Called, Waits, Goes, Listed, In
<1> QED BY <1>1, <1>4, SameLife, Stutters

LEMMA QuietStep ==
  ASSUME TypeOK, ThreadInv,
         \/ MainWhile \/ MainDec \/ MainPeek \/ MainPost \/ MainArm \/ MainTimedOut
         \/ MainSpuriousWake
         \/ RunEnter \/ RunSpawn \/ RunBegin \/ RunDec \/ RunEnd
         \/ StartDone \/ StopPost \/ StopMainSem \/ StopMainSignal \/ StopJoinMain
  PROVE  UNCHANGED Service!vars
<1>1. /\ Unmoved /\ stops' = stops
      /\ UNCHANGED <<created, fires, canceled, popped, objects, timers, callerAt, callerArg>>
  BY DEF MainWhile, MainDec, MainPeek, MainPost, MainArm, MainTimedOut, MainSpuriousWake,
         RunEnter, RunSpawn, RunBegin, RunDec, RunEnd, StartDone, StopPost, StopMainSem,
         StopMainSignal, StopJoinMain, Unmoved
<1>2. /\ runAt = "call" <=> runAt' = "call"
      /\ mainAt \in {"post", "remove"} <=> mainAt' \in {"post", "remove"}
      /\ mainAt \in {"post", "remove"} => curr' = curr
  BY DEF MainWhile, MainDec, MainPeek, MainPost, MainArm, MainTimedOut, MainSpuriousWake,
         RunEnter, RunSpawn, RunBegin, RunDec, RunEnd, StartDone, StopPost, StopMainSem,
         StopMainSignal, StopJoinMain, Signal, ThreadInv
<1>3. \A t \in TimerId : Same(t)
  BY <1>1, <1>2 DEF Same, Called, Waits, Goes, Listed, Brought, In
<1> QED BY <1>1, <1>3, SameLife, Stutters

\* run() takes a timer from the queue, and tests it: it stays raised, or void.
LEMMA TakenStep ==
  ASSUME TypeOK, CurrInv, OnceInv, RunPop \/ RunLoad
  PROVE  UNCHANGED Service!vars
<1>1. /\ Unmoved /\ stops' = stops
      /\ UNCHANGED <<created, fires, canceled, timers, callerAt, callerArg, mainAt, curr>>
      /\ runAt \in {"pop", "load"}
  BY DEF RunPop, RunLoad, Unmoved
<1>2. CASE RunPop
  <2>1. popped = None /\ runAt = "pop" /\ runAt' # "call"
    BY <1>2 DEF RunPop, OnceInv, Settled
  <2>2. \A t \in TimerId : Waits(t)' <=> Waits(t)
    <3>1. CASE objects = <<>>
      BY <1>2, <3>1 DEF RunPop, Waits, In
    <3>2. CASE objects # <<>>
      <4> DEFINE n == Len(objects)
      <4>1. n \in Nat \ {0} /\ DOMAIN objects = 1..n
        BY <3>2, LenProperties, EmptySeq DEF TypeOK
      <4>2. /\ popped' = objects[1] /\ objects' \in Seq(TimerId) /\ Len(objects') = n - 1
            /\ \A i \in 1..(n - 1) : objects'[i] = objects[i + 1]
        <5>1. popped' = Head(objects) /\ objects' = Tail(objects)
          BY <1>2, <3>2 DEF RunPop
        <5> QED BY <3>2, <5>1, HeadTailProperties DEF TypeOK
      <4>3. DOMAIN objects' = 1..(n - 1)
        BY <4>2, LenProperties
      <4> HIDE DEF n
      <4>4. ASSUME NEW i \in 1..n, i # 1
            PROVE  i - 1 \in 1..(n - 1) /\ objects'[i - 1] = objects[i]
        <5>1. i - 1 \in 1..(n - 1) /\ (i - 1) + 1 = i
          BY <4>1, <4>4
        <5> QED BY <4>2, <5>1
      <4>5. 1 \in 1..n /\ \A i \in 1..(n - 1) : i + 1 \in 1..n
        BY <4>1
      <4>6. \A t \in TimerId : In(objects, t) => popped' = t \/ In(objects, t)'
        BY <4>1, <4>2, <4>3, <4>4 DEF In
      <4>7. \A t \in TimerId : popped' = t \/ In(objects, t)' => In(objects, t)
        BY <4>1, <4>2, <4>3, <4>5 DEF In
      <4> QED BY <2>1, <4>6, <4>7, TimerNotNone DEF Waits
    <3> QED BY <3>1, <3>2
  <2>3. \A t \in TimerId : Same(t)
    BY <1>1, <2>1, <2>2 DEF Same, Called, Goes, Listed, Brought, In
  <2> QED BY <1>1, <2>3, SameLife, Stutters
<1>3. CASE RunLoad
  <2>1. objects' = objects /\ runAt = "load" /\ popped \in TimerId
    BY <1>3 DEF RunLoad, CurrInv, TypeOK
  <2>2. CASE canceled[popped]
    <3>1. runAt' = "dec" /\ popped' = None
      BY <1>3, <2>2 DEF RunLoad
    <3>2. \A t \in TimerId : Life(t)' = Life(t)
      BY <1>1, <2>1, <2>2, <3>1, TimerNotNone DEF Life, Called, Waits, Goes, Listed, Brought, In
    <3> QED BY <1>1, <3>2, Stutters
  <2>3. CASE ~canceled[popped]
    <3>1. runAt' = "call" /\ popped' = popped
      BY <1>3, <2>3 DEF RunLoad
    <3>2. \A t \in TimerId : Life(t)' = Life(t)
      BY <1>1, <2>1, <2>3, <3>1, TimerNotNone DEF Life, Called, Waits, Goes, Listed, Brought, In
    <3> QED BY <1>1, <3>2, Stutters
  <2> QED BY <2>2, <2>3
<1> QED BY <1>2, <1>3

\* Mainthread finds a timer canceled, or not: that raises none.
LEMMA TestStep ==
  ASSUME TypeOK, MainTest
  PROVE  UNCHANGED Service!vars
<1>1. /\ Unmoved /\ stops' = stops
      /\ UNCHANGED <<created, fires, canceled, timers, callerAt, callerArg, curr, runAt, popped, objects>>
      /\ mainAt = "test" /\ mainAt' # "post"
      /\ mainAt' = "remove" => canceled[curr]
  BY DEF MainTest, Unmoved
<1>2. \A t \in TimerId : Life(t)' = Life(t)
  BY <1>1 DEF Life, Called, Waits, Goes, Listed, Brought, In
<1> QED BY <1>1, <1>2, Stutters

\* A queue that is freed with timers in it loses them, as the list that is cleared.
LEMMA StopsDrop ==
  ASSUME TimerInv, OnceInv,
         StartThreads \/ StopNotRunning \/ StopRunning \/ StopJoinRun \/ StopClear
  PROVE  UNCHANGED Service!vars \/ Service!Drop
<1>1. TypeOK /\ ThreadInv /\ CurrInv /\ OnePlace /\ Settled /\ stops \in Nat
  BY DEF TimerInv, OnceInv, TypeOK
<1>2. CASE StartThreads
  <2>1. /\ Unmoved /\ stops' = stops /\ objects' = objects
        /\ UNCHANGED <<created, fires, canceled, timers, callerAt, callerArg, curr, mainAt, popped>>
        /\ runAt # "call" /\ runAt' # "call"
    BY <1>1, <1>2 DEF StartThreads, Unmoved, Settled, ThreadInv
  <2>2. \A t \in TimerId : Same(t)
    BY <2>1 DEF Same, Called, Waits, Goes, Listed, Brought, In
  <2> QED BY <2>1, <2>2, SameLife, Stutters
<1>3. CASE StopRunning
  <2>1. /\ Unmoved /\ stops' = stops + 1
        /\ UNCHANGED <<created, fires, canceled, timers, callerAt, callerArg, curr, mainAt, popped,
                       objects, runAt>>
    BY <1>3 DEF StopRunning, Unmoved
  <2>2. \A t \in TimerId : Same(t)
    BY <2>1 DEF Same, Called, Waits, Goes, Listed, Brought, In
  <2>3. stops' > 0
    BY <1>1, <2>1
  <2> QED BY <2>1, <2>2, <2>3, SameLife, Drops
<1>4. CASE StopNotRunning \/ StopClear
  <2>1. /\ Unmoved /\ stops' \in {stops, stops + 1} /\ timers' = <<>>
        /\ UNCHANGED <<created, fires, canceled, callerAt, callerArg, curr, mainAt, popped,
                       objects, runAt>>
    BY <1>4 DEF StopNotRunning, StopClear, Unmoved
  <2>2. stops' > 0
    BY <1>1, <1>4 DEF StopNotRunning, StopClear, Settled
  <2>3. DOMAIN timers' = {}
    BY <2>1
  <2>4. \A t \in TimerId : Life(t)' = Life(t) \/ (Life(t) = "armed" /\ Life(t)' = "void")
    BY <2>1, <2>3 DEF Life, Called, Waits, Goes, Listed, Brought, In
  <2> QED BY <2>1, <2>2, <2>4, Drops
<1>5. CASE StopJoinRun
  <2>1. /\ Unmoved /\ stops' = stops /\ objects' = <<>>
        /\ UNCHANGED <<created, fires, canceled, callerAt, callerArg, curr, mainAt, popped, timers, runAt>>
    BY <1>5 DEF StopJoinRun, Unmoved
  <2>2. stops' > 0
    BY <1>1, <1>5, <2>1 DEF StopJoinRun, Settled
  <2>3. DOMAIN objects' = {}
    BY <2>1
  <2>4. ASSUME NEW t \in TimerId, In(objects, t)
        PROVE  ~Brought(t) /\ (In(timers, t) => Goes(t))
    <3>1. Handed(t)
      BY <2>4 DEF Handed
    <3> QED BY <1>1, <3>1 DEF Brought, Goes, OnePlace, CallersApart, HandedOnce
  <2>5. \A t \in TimerId : Life(t)' = Life(t) \/ (Life(t) = "raised" /\ Life(t)' = "void")
    BY <2>1, <2>3, <2>4 DEF Life, Called, Waits, Goes, Listed, Brought, In
  <2> QED BY <2>1, <2>2, <2>5, Drops
<1> QED BY <1>2, <1>3, <1>4, <1>5

\* A timer is armed by its creation, ...
LEMMA ScheduleArms ==
  ASSUME TimerInv, Created, OnceInv, NEW c \in Callers, NEW d \in Delays, ScheduleCreate(c, d)
  PROVE  \E t \in TimerId : Service!Schedule(t)
<1>1. TypeOK /\ OnePlace /\ Settled
  BY DEF TimerInv, OnceInv
<1>2. PICK new \in TimerId : new = created + 1
  <2>1. created \in Nat /\ created < MaxTimers
    BY <1>1 DEF ScheduleCreate, TypeOK
  <2> QED BY <2>1, TimerAssumption DEF TimerId
<1>3. /\ timeout' = [timeout EXCEPT ![new] = now + d] /\ created' = new
      /\ callerAt[c] = "idle"
      /\ callerAt' = [callerAt EXCEPT ![c] = "push"]
      /\ callerArg' = [callerArg EXCEPT ![c] = new]
      /\ UNCHANGED <<now, stops, timers, objects, popped, fires, curr, mainAt, canceled, runAt>>
      /\ created \in Nat /\ TimerId \subseteq Nat
  BY <1>1, <1>2, TimerAssumption DEF ScheduleCreate, TypeOK, TimerId
<1>4. \A t \in TimerId : /\ t > created <=> (t = new \/ t > new)
                         /\ t = new => ~(t <= created) /\ ~(t > new)
  BY <1>2, <1>3
<1>5. ~Handed(new) /\ ~canceled[new] /\ fires[new] \in {0, 1}
  BY <1>1, <1>3, <1>4 DEF OnePlace, HandedOnce, Settled
<1>6. ~In(timers, new) /\ ~Goes(new)
  <2>1. ~In(timers, new)
    BY <1>3, <1>4 DEF Created, In
  <2>2. curr = new => new <= created
    BY <1>3, CurrIsCreated, TimerNotNone
  <2> QED BY <1>3, <1>4, <2>1, <2>2 DEF Goes
<1>7. \A b \in Callers : /\ callerAt'[b] = IF b = c THEN "push" ELSE callerAt[b]
                         /\ callerArg'[b] = IF b = c THEN new ELSE callerArg[b]
  BY <1>1, <1>3 DEF TypeOK
<1>8. \A t \in TimerId : Brought(t)' <=> t = new \/ Brought(t)
  <2>1. ASSUME NEW t \in TimerId, Brought(t)
        PROVE  Brought(t)'
    <3>1. PICK b \in Callers : callerArg[b] = t /\ callerAt[b] = "push"
      BY <2>1 DEF Brought
    <3> QED BY <1>3, <1>7, <3>1 DEF Brought
  <2>2. ASSUME NEW t \in TimerId, Brought(t)'
        PROVE  t = new \/ Brought(t)
    <3>1. PICK b \in Callers : callerArg'[b] = t /\ callerAt'[b] = "push"
      BY <2>2 DEF Brought
    <3> QED BY <1>7, <3>1 DEF Brought
  <2>3. Brought(new)'
    BY <1>7 DEF Brought
  <2> QED BY <2>1, <2>2, <2>3
<1>9. Life(new) = "free" /\ Life(new)' = "armed"
  <2>1. new > created /\ ~(new > new)
    BY <1>3, <1>4
  <2>2. ~(fires[new] > 0) /\ ~Waits(new)
    BY <1>5 DEF Handed, Waits
  <2> QED BY <1>3, <1>5, <1>6, <1>8, <2>1, <2>2
             DEF Life, Called, Waits, Goes, Listed, In
<1>10. \A t \in TimerId \ {new} : Life(t)' = Life(t)
  BY <1>3, <1>4, <1>8 DEF Life, Called, Waits, Goes, Listed, In
<1> DEFINE phase == [t \in TimerId |-> Phase(t)]
<1>11. phase' = [phase EXCEPT ![new] = "armed"]
  BY <1>3, <1>9, <1>10, Passes
<1>12. phase[new] = "free"
  BY <1>3, <1>9, PhaseIsLife
<1> QED BY <1>3, <1>11, <1>12 DEF Service!Schedule

\* ... and stays so when it is pushed.
LEMMA PushStaysArmed ==
  ASSUME TimerInv, MaxNow < HalfRange, SortedByTimeout, OnceInv, NEW c \in Callers, SchedulePush(c)
  PROVE  UNCHANGED Service!vars
<1> DEFINE t == callerArg[c]
<1>1. TypeOK /\ CurrInv /\ OnePlace
  BY DEF TimerInv, OnceInv
<1>2. /\ callerAt[c] = "push" /\ callerAt' = [callerAt EXCEPT ![c] = "signal"]
      /\ timers' = PushAscending(timers, t) /\ Unmoved /\ stops' = stops
      /\ UNCHANGED <<created, callerArg, objects, popped, fires, curr, mainAt, canceled, runAt>>
  BY DEF SchedulePush, Unmoved
<1>3. t \in TimerId /\ ~In(timers, t)
  BY <1>1, <1>2 DEF CurrInv, TypeOK, OnePlace, CallersApart
<1>4. \A u : In(timers', u) <=> u = t \/ In(timers, u)
  <2> HIDE DEF t
  <2> QED BY <1>1, <1>2, <1>3, PushKeepsApart DEF OnePlace
<1>5. \A u \in TimerId : Listed(u)' <=> Listed(u)
  <2>1. \A b \in Callers : b # c => (callerAt'[b] = "push" <=> callerAt[b] = "push")
    BY <1>2
  <2>2. \A b \in Callers : callerAt'[b] = "push" => b # c
    BY <1>1, <1>2 DEF TypeOK
  <2>3. \A u \in TimerId : Brought(u)' => Brought(u)
    BY <1>2, <2>1, <2>2 DEF Brought
  <2>4. \A u \in TimerId : Brought(u) => u = t \/ Brought(u)'
    BY <1>2, <2>1 DEF Brought
  <2>5. Brought(t)
    BY <1>2 DEF Brought
  <2>6. \A u : In(timers, u)' <=> In(timers', u)
    BY DEF In
  <2> QED BY <1>4, <2>3, <2>4, <2>5, <2>6 DEF Listed
<1>6. \A u \in TimerId : Same(u)
  BY <1>2, <1>5 DEF Same, Called, Waits, Goes, In
<1> QED BY <1>2, <1>6, SameLife, Stutters

\* A cancel makes void what is not yet in the hands of its callback.
LEMMA CancelVoids ==
  ASSUME TimerInv, Created, NEW c \in Callers, NEW t \in TimerId, Cancel(c, t)
  PROVE  UNCHANGED Service!vars \/ Service!Cancel(t)
<1>1. TypeOK
  BY DEF TimerInv
<1>2. /\ canceled' = [canceled EXCEPT ![t] = TRUE] /\ Unmoved /\ stops' = stops
      /\ UNCHANGED <<created, callerArg, callerAt, objects, popped, fires, curr, timers, runAt>>
      /\ mainAt \in {"post", "remove"} <=> mainAt' \in {"post", "remove"}
  BY DEF Cancel, Signal, Unmoved
<1>3. /\ canceled'[t] /\ \A u \in TimerId \ {t} : canceled'[u] = canceled[u]
      /\ In(timers, t)
  BY <1>1, <1>2 DEF TypeOK, FlagsOK, Cancel, In
<1>4. \A u \in TimerId \ {t} : Life(u)' = Life(u)
  <2>1. \A u \in TimerId \ {t} : Same(u)
    BY <1>2, <1>3 DEF Same, Called, Waits, Goes, Listed, Brought, In
  <2> QED BY <2>1, SameLife
<1>5. Life(t)' = Life(t) \/ (Life(t) \in {"armed", "raised"} /\ Life(t)' = "void")
  BY <1>2, <1>3 DEF Life, Called, Waits, Goes, Listed, Brought, In
<1>6. CASE Life(t)' = Life(t)
  BY <1>2, <1>4, <1>6, Stutters
<1>7. CASE Life(t) \in {"armed", "raised"} /\ Life(t)' = "void"
  <2> DEFINE phase == [u \in TimerId |-> Phase(u)]
  <2>1. phase' = [phase EXCEPT ![t] = "void"]
    BY <1>4, <1>7, Passes
  <2>2. phase[t] \in {"armed", "raised"}
    BY <1>7, PhaseIsLife
  <2> QED BY <1>2, <2>1, <2>2 DEF Unmoved, Service!Cancel
<1> QED BY <1>5, <1>6, <1>7

\* Where the runnable's queue is already freed, a stop is under way.
LEMMA FreedByStop ==
  ASSUME ThreadInv, Settled, mainAt # "none", ~initialized
  PROVE  stops > 0
BY DEF ThreadInv, Settled

\* What is handed over is raised, and its instant has come; if a stop was faster, it
\* is lost.
LEMMA HandOverRaises ==
  ASSUME TimerInv, Created, OnceInv, MainEnqueue \/ MainPush
  PROVE  UNCHANGED Service!vars \/ Service!Drop \/ \E t \in TimerId : Service!Raise(t)
<1>1. TypeOK /\ ThreadInv /\ CurrInv /\ OnePlace /\ Settled
  BY DEF TimerInv, OnceInv
<1>2. /\ Unmoved /\ stops' = stops /\ mainAt \in {"enqueue", "push"}
      /\ UNCHANGED <<created, callerArg, callerAt, popped, fires, curr, timers, runAt, canceled>>
      /\ ~initialized => objects' = objects
  BY DEF MainEnqueue, MainPush, Unmoved
<1>3. \A t \in TimerId \ {curr} : Goes(t)' <=> Goes(t)
  BY <1>2 DEF Goes
<1>4. CASE ~initialized
  <2>1. stops' > 0
    BY <1>1, <1>2, <1>4, FreedByStop
  <2>2. \A t \in TimerId : Life(t)' = Life(t) \/ (Life(t) = "armed" /\ Life(t)' = "void")
    BY <1>2, <1>4 DEF Life, Called, Waits, Goes, Listed, Brought, In
  <2> QED BY <1>2, <2>1, <2>2, Drops
<1>5. CASE initialized /\ MainEnqueue
  <2>1. objects' = objects /\ mainAt' = "push"
    BY <1>5 DEF MainEnqueue
  <2>2. \A t \in TimerId : Same(t)
    BY <1>2, <2>1 DEF Same, Called, Waits, Goes, Listed, Brought, In
  <2> QED BY <1>2, <2>2, SameLife, Stutters
<1>6. CASE initialized /\ MainPush
  <2>1. objects' = Append(objects, curr) /\ mainAt = "push" /\ mainAt' = "post"
    BY <1>6 DEF MainPush
  <2>2. curr \in TimerId /\ curr <= created /\ In(timers, curr) /\ now >= timeout[curr]
    BY <1>1, <2>1, CurrIsCreated DEF CurrInv, Settled, In
  <2>3. ~Handed(curr)
    BY <1>1, <2>1, <2>2 DEF OnePlace, HandedOnce
  <2>4. \A u : In(objects', u) <=> u = curr \/ In(objects, u)
    <3>1. objects \in Seq(TimerId) /\ Distinct(objects) /\ ~In(objects, curr)
      BY <1>1, <2>3 DEF TypeOK, OnePlace, HandedOnce, Handed
    <3> QED BY <2>1, <2>2, <3>1, AppendKeepsApart
  <2>5. \A u : /\ In(objects, u)' <=> u = curr \/ In(objects, u)
               /\ In(timers, u)' <=> In(timers, u)
    BY <1>2, <2>4 DEF In
  <2>6. \A t \in TimerId \ {curr} : Life(t)' = Life(t)
    <3>1. \A t \in TimerId \ {curr} : Same(t)
      BY <1>2, <1>3, <2>5 DEF Same, Called, Waits, Listed, Brought
    <3> QED BY <3>1, SameLife
  <2>7. CASE canceled[curr]
    <3>1. \A t \in TimerId : t = curr => Life(t)' = Life(t)
      BY <1>2, <2>2, <2>7 DEF Life, Called
    <3>2. \A t \in TimerId : Life(t)' = Life(t)
      BY <2>6, <3>1
    <3> QED BY <1>2, <3>2, Stutters
  <2>8. CASE ~canceled[curr]
    <3> DEFINE phase == [u \in TimerId |-> Phase(u)]
    <3>1. PICK t \in TimerId : t = curr
      BY <2>2
    <3>2. created \in Int /\ ~(t > created) /\ ~(fires[t] > 0) /\ ~Called(t) /\ ~Waits(t)
      BY <1>1, <2>2, <2>3, <3>1, TimerAssumption DEF TypeOK, TimerId, Handed, Called, Waits
    <3>3. Life(t) = "armed"
      BY <2>1, <2>2, <2>8, <3>1, <3>2 DEF Life, Goes, Listed
    <3>4. Waits(t)' /\ ~Called(t)'
      BY <1>2, <2>5, <3>1, <3>2 DEF Waits, Called
    <3>5. Life(t)' = "raised"
      BY <1>2, <2>8, <3>1, <3>2, <3>4 DEF Life
    <3>6. phase' = [phase EXCEPT ![t] = "raised"]
      BY <2>6, <3>1, <3>5, Passes
    <3>7. phase[t] = "armed"
      BY <3>3, PhaseIsLife
    <3> QED BY <1>2, <2>2, <3>1, <3>6, <3>7 DEF Unmoved, Service!Raise
  <2> QED BY <2>7, <2>8
<1> QED BY <1>4, <1>5, <1>6

\* The removal is of the timer handed over or void, and leaves the others armed.
LEMMA RemovalIsSilent ==
  ASSUME TimerInv, MaxNow < HalfRange, OnceInv, MainRemove
  PROVE  UNCHANGED Service!vars
<1>1. TypeOK /\ CurrInv /\ OnePlace
  BY DEF TimerInv, OnceInv
<1>2. /\ mainAt = "remove" /\ mainAt' = "while"
      /\ timers' = RemoveByData(timers, curr) /\ Unmoved /\ stops' = stops
      /\ UNCHANGED <<created, callerArg, callerAt, popped, fires, objects, runAt, canceled>>
  BY DEF MainRemove, Unmoved
<1>3. curr # None /\ curr \in TimerId /\ In(timers, curr)
  BY <1>1, <1>2 DEF CurrInv, TypeOK, In
<1>4. \A u : In(timers', u) <=> In(timers, u) /\ u # curr
  BY <1>1, <1>2, <1>3, RemoveTakesCurr DEF OnePlace
<1>6. \A u : In(timers, u)' <=> In(timers', u)
  BY DEF In
<1>7. ~Brought(curr)
  BY <1>1, <1>3 DEF Brought, OnePlace, CallersApart
<1>8. \A u \in TimerId : (Brought(u)' <=> Brought(u)) /\ (Waits(u)' <=> Waits(u)) /\ (Called(u)' <=> Called(u))
  BY <1>2 DEF Brought, Waits, Called, In
<1>9. \A u \in TimerId \ {curr} : Life(u)' = Life(u)
  <2>1. \A u \in TimerId \ {curr} : Same(u)
    BY <1>2, <1>4, <1>6, <1>8 DEF Same, Goes, Listed
  <2> QED BY <2>1, SameLife
<1>10. \A u \in TimerId : u = curr => Life(u)' = Life(u)
  BY <1>2, <1>4, <1>6, <1>7, <1>8 DEF Life, Goes, Listed
<1> QED BY <1>2, <1>9, <1>10, Stutters

\* A callback is called once, and only of a timer that was raised.
LEMMA CallFires ==
  ASSUME TimerInv, OnceInv, RunCall
  PROVE  \E t \in TimerId : Service!Fire(t) \/ Service!Cancel(t)
<1>1. TypeOK /\ CurrInv /\ OnePlace
  BY DEF TimerInv, OnceInv
<1>2. /\ runAt = "call" /\ runAt' = "dec" /\ popped' = None /\ Unmoved /\ stops' = stops
      /\ UNCHANGED <<created, callerArg, callerAt, timers, objects, mainAt, curr, canceled>>
      /\ \/ fires' = [fires EXCEPT ![popped] = @ + 1]
         \/ canceled[popped] /\ fires' = fires
  BY DEF RunCall, Unmoved
<1>3. PICK t \in TimerId : t = popped
  BY <1>1, <1>2 DEF CurrInv, TypeOK
<1>4. fires[t] = 0 /\ t <= created /\ created \in Int /\ ~(t > created) /\ t # None
  <2>1. t # None
    BY <1>3, TimerNotNone
  <2>2. Handed(t) /\ fires[t] = 0
    BY <1>1, <1>3, <2>1 DEF Handed, OnePlace, HandedOnce
  <2>3. t <= created /\ created \in Int /\ t \in Int
    BY <1>1, <2>2, TimerAssumption DEF OnePlace, HandedOnce, TypeOK, TimerId
  <2> QED BY <2>1, <2>2, <2>3
<1>5. Life(t) = "raised"
  BY <1>2, <1>3, <1>4 DEF Life, Called
<1>6. \A u \in TimerId \ {t} : fires'[u] = fires[u]
  BY <1>1, <1>2, <1>3 DEF TypeOK
<1>7. \A u \in TimerId \ {t} : Life(u)' = Life(u)
  <2>1. \A u \in TimerId \ {t} : Same(u)
    BY <1>2, <1>3, <1>6, TimerNotNone DEF Same, Called, Waits, Goes, Listed, Brought, In
  <2> QED BY <2>1, SameLife
<1> DEFINE phase == [u \in TimerId |-> Phase(u)]
<1>8. phase[t] = "raised"
  BY <1>5, PhaseIsLife
<1>9. CASE fires' = [fires EXCEPT ![popped] = @ + 1]
  <2>1. fires'[t] = 1
    BY <1>1, <1>3, <1>4, <1>9 DEF TypeOK
  <2>2. Life(t)' = "fired"
    BY <1>2, <1>4, <2>1 DEF Life
  <2>3. phase' = [phase EXCEPT ![t] = "fired"]
    BY <1>7, <2>2, Passes
  <2> QED BY <1>2, <1>8, <2>3 DEF Unmoved, Service!Fire
<1>10. CASE canceled[popped] /\ fires' = fires
  <2>1. Life(t)' = "void"
    BY <1>2, <1>3, <1>4, <1>10 DEF Life, Called
  <2>2. phase' = [phase EXCEPT ![t] = "void"]
    BY <1>7, <2>1, Passes
  <2> QED BY <1>2, <1>8, <2>2 DEF Unmoved, Service!Cancel
<1> QED BY <1>2, <1>9, <1>10

LEMMA TickIsTick ==
  ASSUME Tick
  PROVE  Service!Tick
<1>1. /\ now' = now + 1
      /\ UNCHANGED <<timeout, stops, created, callerArg, callerAt, popped, fires, objects, runAt,
                     canceled, timers, curr, mainAt>>
  BY DEF Tick
<1>2. \A t \in TimerId : Same(t)
  BY <1>1 DEF Same, Called, Waits, Goes, Listed, Brought, In
<1>3. \A t \in TimerId : Phase(t)' = Phase(t)
  BY <1>2, SameLife, PhaseIsLife
<1> QED BY <1>1, <1>3 DEF Service!Tick

\* Each step of the threads is a step of the service, or none of its.
LEMMA ServiceStep ==
  ASSUME TimerInv, MaxNow < HalfRange, SortedByTimeout, Created, OnceInv, Next
  PROVE  [Service!Next]_(Service!vars)
<1>1. TypeOK /\ ThreadInv /\ CurrInv
  BY DEF TimerInv
<1>2. ASSUME NEW c \in Callers, CallerStep(c)
      PROVE  [Service!Next]_(Service!vars)
  <2>1. ASSUME NEW d \in Delays, ScheduleCreate(c, d)
        PROVE  Service!Next
    BY <2>1, ScheduleArms DEF Service!Next
  <2>2. ASSUME NEW t \in TimerId, Cancel(c, t)
        PROVE  [Service!Next]_(Service!vars)
    <3>1. UNCHANGED Service!vars \/ Service!Cancel(t)
      BY <2>2, CancelVoids
    <3> QED BY <3>1 DEF Service!Next
  <2>3. SchedulePush(c) => UNCHANGED Service!vars
    BY PushStaysArmed
  <2>4. ScheduleSignal(c) \/ SchedulePost(c) => UNCHANGED Service!vars
    BY <1>1, QuietCaller
  <2> QED BY <1>2, <2>1, <2>2, <2>3, <2>4 DEF CallerStep
<1>3. CASE MainStep \/ MainSpuriousWake
  <2>1. CASE MainTest \/ MainRemove
    BY <1>1, <2>1, TestStep, RemovalIsSilent
  <2>2. CASE MainEnqueue \/ MainPush
    BY <2>2, HandOverRaises DEF Service!Next
  <2>3. CASE \/ MainWhile \/ MainDec \/ MainPeek \/ MainPost \/ MainArm \/ MainTimedOut
             \/ MainSpuriousWake
    BY <1>1, <2>3, QuietStep
  <2> QED BY <1>3, <2>1, <2>2, <2>3 DEF MainStep
<1>4. CASE RunStep
  <2>1. CASE RunPop \/ RunLoad
    BY <1>1, <2>1, TakenStep
  <2>2. CASE RunCall
    BY <2>2, CallFires DEF Service!Next
  <2>3. CASE RunEnter \/ RunSpawn \/ RunBegin \/ RunDec \/ RunEnd
    BY <1>1, <2>3, QuietStep
  <2> QED BY <1>4, <2>1, <2>2, <2>3 DEF RunStep
<1>5. CASE OwnerStep
  <2>1. CASE StartThreads \/ StopNotRunning \/ StopRunning \/ StopJoinRun \/ StopClear
    BY <2>1, StopsDrop DEF Service!Next
  <2>2. CASE StartDone \/ StopPost \/ StopMainSem \/ StopMainSignal \/ StopJoinMain
    BY <1>1, <2>2, QuietStep
  <2> QED BY <1>5, <2>1, <2>2 DEF OwnerStep, StopStep
<1>6. CASE Tick
  BY <1>6, TickIsTick DEF Service!Next
<1> QED BY <1>2, <1>3, <1>4, <1>5, <1>6 DEF Next

\* The threads, the list, the queue and the semaphores implement the timer service
\* (TimerService): a timer is raised no earlier than it is due, called at most once
\* and never when a cancel reached it first, and only a stop loses one.
THEOREM TimersImplementService ==
  ASSUME MaxNow < HalfRange
  PROVE  Spec => ImplementsService
<1>1. Init => Service!Init
  <2>1. ASSUME Init
        PROVE  \A t \in TimerId : Phase(t) = "free"
    <3>1. created = 0 /\ \A t \in TimerId : t > 0
      BY <2>1, TimerAssumption DEF Init, TimerId
    <3> QED BY <3>1 DEF Phase
  <2> QED BY <2>1 DEF Init, Service!Init
<1>2. TimerInv /\ OnceTogether /\ [Next]_vars => [Service!Next]_(Service!vars)
  <2>1. ASSUME TimerInv, OnceTogether, Next
        PROVE  [Service!Next]_(Service!vars)
    BY <2>1, ServiceStep DEF OnceTogether
  <2>2. ASSUME UNCHANGED vars
        PROVE  UNCHANGED Service!vars
    <3>1. \A t \in TimerId : Same(t)
      BY <2>2 DEF vars, Same, Called, Waits, Goes, Listed, Brought, In
    <3> QED BY <2>2, <3>1, SameLife, Stutters DEF vars, Unmoved
  <2> QED BY <2>1, <2>2
<1> QED BY <1>1, <1>2, TimerInvariance, OnceInvariance, PTL DEF Spec, ImplementsService, Service!Spec
=============================================================================
