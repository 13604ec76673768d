------------------------------ MODULE FsmProofs ------------------------------
(***************************************************************************)
(* Proofs about Fsm for any table, any threads and any depth of nested     *)
(* calls: handlers exclude each other, and a transition for any state is   *)
(* only taken where the state has none of its own.                         *)
(***************************************************************************)
EXTENDS Fsm, SequenceTheorems, WellFoundedInduction, TLAPS

USE DEF Term, Wild, None

(***************************************************************************)
(* Lists.                                                                  *)
(***************************************************************************)

\* An insertion puts the element at its place and moves what follows by one.
LEMMA InsertAtPlaces ==
  ASSUME NEW S, NEW s \in Seq(S), NEW e \in S, NEW i \in 1..Len(s)
  PROVE  /\ InsertAt(s, i, e) \in Seq(S)
         /\ Len(InsertAt(s, i, e)) = Len(s) + 1
         /\ \A j \in 1..Len(s) + 1 :
              InsertAt(s, i, e)[j] = IF j < i THEN s[j] ELSE IF j = i THEN e ELSE s[j - 1]
<1> DEFINE a == SubSeq(s, 1, i - 1)
           b == SubSeq(s, i, Len(s))
<1>1. \A j \in 1..Len(s) : s[j] \in S
  BY ElementOfSeq
<1>2. /\ a \in Seq(S) /\ Len(a) = i - 1
      /\ \A j \in 1..(i - 1) : a[j] = s[j]
  BY <1>1, SubSeqProperties
<1>3. /\ b \in Seq(S) /\ Len(b) = Len(s) - i + 1
      /\ \A j \in 1..(Len(s) - i + 1) : b[j] = s[i + j - 1]
  BY <1>1, SubSeqProperties
<1> HIDE DEF a, b
<1>4. /\ Append(a, e) \in Seq(S) /\ Len(Append(a, e)) = i
      /\ \A j \in 1..(i - 1) : Append(a, e)[j] = s[j]
      /\ Append(a, e)[i] = e
  BY <1>2, AppendProperties
<1>5. a \o <<e>> = Append(a, e)
  BY <1>2, AppendIsConcat
<1>6. InsertAt(s, i, e) = Append(a, e) \o b
  BY <1>5 DEF InsertAt, a, b
<1> DEFINE c == Append(a, e)
<1> HIDE DEF c
<1>7. /\ c \o b \in Seq(S) /\ Len(c \o b) = Len(c) + Len(b)
      /\ \A j \in 1..(Len(c) + Len(b)) :
           (c \o b)[j] = IF j <= Len(c) THEN c[j] ELSE b[j - Len(c)]
  BY <1>3, <1>4, ConcatProperties DEF c
<1>8. /\ InsertAt(s, i, e) \in Seq(S) /\ Len(InsertAt(s, i, e)) = Len(s) + 1
      /\ \A j \in 1..(Len(s) + 1) : InsertAt(s, i, e)[j] =
           IF j <= i THEN Append(a, e)[j] ELSE b[j - i]
  BY <1>3, <1>4, <1>6, <1>7 DEF c
<1>9. ASSUME NEW j \in 1..Len(s) + 1, j > i
      PROVE  b[j - i] = s[j - 1]
  <2>1. j - i \in 1..(Len(s) - i + 1) /\ i + (j - i) - 1 = j - 1
    BY <1>9
  <2>2. QED
    BY <2>1, <1>3
<1>10. ASSUME NEW j \in 1..Len(s) + 1
       PROVE  InsertAt(s, i, e)[j] = IF j < i THEN s[j] ELSE IF j = i THEN e ELSE s[j - 1]
  <2>1. CASE j < i
    BY <1>4, <1>8, <2>1
  <2>2. CASE j = i
    BY <1>4, <1>8, <2>2
  <2>3. CASE j > i
    BY <1>8, <1>9, <2>3
  <2> QED BY <2>1, <2>2, <2>3
<1> QED BY <1>8, <1>10

\* A nonempty set of indices has a least one.
LEMMA LeastIndex ==
  ASSUME NEW n \in Nat, NEW I \in SUBSET (1..n), I # {}
  PROVE  LET l == CHOOSE i \in I : \A j \in I : i <= j
         IN  l \in I /\ \A j \in I : l <= j
<1> DEFINE Less == {p \in Nat \X Nat : p[1] < p[2]}
<1>1. IsWellFoundedOn(Less, Nat)
  BY NatLessThanWellFounded, Zenon DEF OpToRel
<1>2. \A x, y \in Nat : y < x => <<y, x>> \in Less
  OBVIOUS
<1> HIDE DEF Less
<1>3. I \subseteq Nat
  OBVIOUS
<1>4. \E x \in I : \A y \in I : ~(<<y, x>> \in Less)
  BY <1>1, <1>3, WFMin
<1>5. \E i \in I : \A j \in I : i <= j
  <2>1. PICK x \in I : \A y \in I : ~(<<y, x>> \in Less)
    BY <1>4
  <2>2. \A y \in I : ~(y < x)
    BY <1>2, <1>3, <2>1
  <2>3. QED
    BY <1>3, <2>2
<1>6. QED
  BY <1>5

(***************************************************************************)
(* Stacks of frames.                                                       *)
(***************************************************************************)

\* The innermost call of a stack, and what is left when it returns.
LEMMA FrontFacts ==
  ASSUME NEW S, NEW s \in Seq(S), s # <<>>
  PROVE  /\ Len(s) \in Nat \ {0} /\ Last(s) = s[Len(s)] /\ Last(s) \in S
         /\ Front(s) \in Seq(S) /\ Len(Front(s)) = Len(s) - 1
         /\ \A i \in 1..(Len(s) - 1) : Front(s)[i] = s[i]
<1>1. Len(s) \in Nat \ {0}
  BY EmptySeq, LenProperties
<1>2. \A j \in 1..Len(s) : s[j] \in S
  BY ElementOfSeq
<1> DEFINE n == Len(s) - 1
<1>3. n \in Nat /\ n <= Len(s)
  BY <1>1
<1>4. Front(s) = SubSeq(s, 1, n)
  BY DEF Front
<1>5. \A j \in 1..n : s[j] \in S
  BY <1>1, <1>2
<1> HIDE DEF n
<1>6. /\ SubSeq(s, 1, n) \in Seq(S) /\ Len(SubSeq(s, 1, n)) = n
      /\ \A j \in 1..n : SubSeq(s, 1, n)[j] = s[j]
  BY <1>3, <1>5, SubSeqProperties
<1>7. QED
  BY <1>1, <1>2, <1>4, <1>6 DEF n, Last

\* The innermost call changes.
LEMMA BecomeFacts ==
  ASSUME NEW S, NEW s \in Seq(S), s # <<>>, NEW f \in S
  PROVE  LET r == Append(Front(s), f) IN
           /\ r \in Seq(S) /\ r # <<>> /\ Len(r) = Len(s)
           /\ Last(r) = f /\ r[Len(s)] = f
           /\ \A i \in 1..(Len(s) - 1) : r[i] = s[i]
<1> DEFINE r == Append(Front(s), f)
<1>1. r \in Seq(S) /\ Len(r) = Len(s) /\ r[Len(s)] = f
      /\ \A i \in 1..(Len(s) - 1) : r[i] = s[i]
  BY FrontFacts, AppendProperties
<1>2. r # <<>>
  BY AppendProperties, FrontFacts
<1> HIDE DEF r
<1>3. Last(r) = f
  BY <1>1 DEF Last
<1>4. QED
  BY <1>1, <1>2, <1>3 DEF r

\* A call is added.
LEMMA CallFacts ==
  ASSUME NEW S, NEW s \in Seq(S), NEW f \in S
  PROVE  LET r == Append(s, f) IN
           /\ r \in Seq(S) /\ r # <<>> /\ Len(r) = Len(s) + 1
           /\ Last(r) = f /\ r[Len(s) + 1] = f
           /\ \A i \in 1..Len(s) : r[i] = s[i]
<1> DEFINE r == Append(s, f)
<1>1. r \in Seq(S) /\ r # <<>> /\ Len(r) = Len(s) + 1 /\ r[Len(s) + 1] = f
      /\ \A i \in 1..Len(s) : r[i] = s[i]
  BY AppendProperties
<1> HIDE DEF r
<1>2. Last(r) = f
  BY <1>1 DEF Last
<1>3. QED
  BY <1>1, <1>2 DEF r

(***************************************************************************)
(* What a call's steps do to the stacks.                                   *)
(***************************************************************************)

\* The innermost call goes to another point: the lock is held once for each
\* call that is in its handler or about to release it.
LEMMA BecomeStep ==
  ASSUME TypeOK, CallsNest, NEW t \in Threads, stack[t] # <<>>,
         NEW f \in Frame, Become(t, f)
  PROVE  /\ stack' \in [Threads -> Seq(Frame)] /\ CallsNest'
         /\ Taken(t)' = IF f.at \in {"exec", "unlock"} THEN Len(stack[t])
                        ELSE Len(stack[t]) - 1
         /\ \A u \in Threads : u # t => Taken(u)' = Taken(u)
         /\ (entries' = entries /\ SpecificStateFirst /\ MostSpecific(f))
              => SpecificStateFirst'
<1> DEFINE s == stack[t]
           r == Append(Front(s), f)
<1>1. s \in Seq(Frame) /\ s # <<>>
  BY DEF TypeOK
<1>2. Len(s) \in Nat \ {0}
  BY <1>1, FrontFacts
<1>3. /\ r \in Seq(Frame) /\ r # <<>> /\ Len(r) = Len(s)
      /\ Last(r) = f /\ r[Len(s)] = f
      /\ \A i \in 1..(Len(s) - 1) : r[i] = s[i]
  BY <1>1, BecomeFacts
<1>4. stack' = [stack EXCEPT ![t] = r]
  BY DEF Become
<1> HIDE DEF r
<1>5. stack' \in [Threads -> Seq(Frame)] /\ stack'[t] = r
      /\ \A u \in Threads : u # t => stack'[u] = stack[u]
  BY <1>3, <1>4 DEF TypeOK
<1>6. CallsNest'
  BY <1>2, <1>3, <1>5 DEF CallsNest
<1>7. Taken(t)' = IF f.at \in {"exec", "unlock"} THEN Len(s) ELSE Len(s) - 1
  BY <1>3, <1>5 DEF Taken, Top
<1>8. \A u \in Threads : u # t => Taken(u)' = Taken(u)
  BY <1>5 DEF Taken, Top
<1>9. ASSUME entries' = entries, SpecificStateFirst, MostSpecific(f)
      PROVE  SpecificStateFirst'
  <2> SUFFICES ASSUME NEW u \in Threads, NEW k \in (DOMAIN stack[u])'
               PROVE  MostSpecific(stack[u][k])'
    BY DEF SpecificStateFirst
  <2>1. CASE u # t
    BY <2>1, <1>5, <1>9 DEF SpecificStateFirst, MostSpecific, Matches
  <2>2. CASE u = t
    <3>1. k \in 1..Len(s) /\ DOMAIN s = 1..Len(s)
      BY <2>2, <1>1, <1>3, <1>5, LenProperties
    <3>2. stack'[u][k] = f \/ (k \in DOMAIN s /\ stack'[u][k] = s[k])
      BY <3>1, <2>2, <1>2, <1>3, <1>5
    <3>3. QED
      BY <3>2, <1>9 DEF SpecificStateFirst, MostSpecific, Matches
  <2>3. QED
    BY <2>1, <2>2
<1>10. QED
  BY <1>5, <1>6, <1>7, <1>8, <1>9

\* The innermost call returns.
LEMMA LeaveStep ==
  ASSUME TypeOK, CallsNest, NEW t \in Threads, stack[t] # <<>>, Leave(t)
  PROVE  /\ stack' \in [Threads -> Seq(Frame)] /\ CallsNest'
         /\ Taken(t)' = Len(stack[t]) - 1
         /\ \A u \in Threads : u # t => Taken(u)' = Taken(u)
         /\ (entries' = entries /\ SpecificStateFirst) => SpecificStateFirst'
<1> DEFINE s == stack[t]
           r == Front(s)
<1>1. s \in Seq(Frame) /\ s # <<>>
  BY DEF TypeOK
<1>2. /\ Len(s) \in Nat \ {0} /\ r \in Seq(Frame) /\ Len(r) = Len(s) - 1
      /\ \A i \in 1..(Len(s) - 1) : r[i] = s[i]
  BY <1>1, FrontFacts
<1>3. stack' = [stack EXCEPT ![t] = r]
  BY DEF Leave
<1> HIDE DEF r
<1>4. stack' \in [Threads -> Seq(Frame)] /\ stack'[t] = r
      /\ \A u \in Threads : u # t => stack'[u] = stack[u]
  BY <1>2, <1>3 DEF TypeOK
<1>5. CallsNest'
  BY <1>2, <1>4 DEF CallsNest
<1>6. Taken(t)' = Len(s) - 1
  <2>1. CASE r = <<>>
    <3>1. Len(r) = 0
      BY <2>1, EmptySeq
    <3>2. QED
      BY <2>1, <3>1, <1>2, <1>4 DEF Taken
  <2>2. CASE r # <<>>
    <3> DEFINE m == Len(s) - 1
    <3>1. Last(r) = r[Len(r)] /\ Len(r) \in Nat \ {0} /\ Len(r) = m
      BY <2>2, <1>2, FrontFacts
    <3> HIDE DEF m
    <3>2. Len(r) \in 1..m
      BY <3>1
    <3>3. Last(r).at = "exec"
      <4>1. r[Len(r)] = s[Len(r)]
        BY <3>2, <1>2 DEF m
      <4>2. s[Len(r)].at = "exec"
        BY <3>2 DEF CallsNest, m
      <4>3. QED
        BY <3>1, <4>1, <4>2
    <3>4. QED
      BY <2>2, <3>3, <1>2, <1>4 DEF Taken, Top
  <2>3. QED
    BY <2>1, <2>2
<1>7. \A u \in Threads : u # t => Taken(u)' = Taken(u)
  BY <1>4 DEF Taken, Top
<1>8. ASSUME entries' = entries, SpecificStateFirst
      PROVE  SpecificStateFirst'
  <2> SUFFICES ASSUME NEW u \in Threads, NEW k \in (DOMAIN stack[u])'
               PROVE  MostSpecific(stack[u][k])'
    BY DEF SpecificStateFirst
  <2>1. CASE u # t
    BY <2>1, <1>4, <1>8 DEF SpecificStateFirst, MostSpecific, Matches
  <2>2. CASE u = t
    <3>1. k \in 1..(Len(s) - 1) /\ DOMAIN s = 1..Len(s)
      BY <2>2, <1>1, <1>2, <1>4, LenProperties
    <3>2. k \in DOMAIN s /\ stack'[u][k] = s[k]
      BY <3>1, <2>2, <1>2, <1>4
    <3>3. QED
      BY <3>2, <1>8 DEF SpecificStateFirst, MostSpecific, Matches
  <2>3. QED
    BY <2>1, <2>2
<1>9. QED
  BY <1>4, <1>5, <1>6, <1>7, <1>8

\* A call is made, by a thread outside the machine or by the handler it is in.
LEMMA CallStep ==
  ASSUME FsmInv, NEW t \in Threads, NEW action \in Actions, Call(t, action)
  PROVE  FsmInv'
<1> DEFINE s == stack[t]
           f == [at |-> "test", action |-> action, entry |-> <<>>,
                 state |-> current, terminates |-> FALSE]
           r == Append(s, f)
<1> USE DEF FsmInv
<1>1. s \in Seq(Frame) /\ f \in Frame
  BY DEF TypeOK, Frame
<1>2. /\ Len(s) \in Nat /\ DOMAIN s = 1..Len(s)
      /\ r \in Seq(Frame) /\ r # <<>> /\ Len(r) = Len(s) + 1 /\ DOMAIN r = 1..Len(r)
      /\ Last(r) = f /\ r[Len(s) + 1] = f /\ \A i \in 1..Len(s) : r[i] = s[i]
  BY <1>1, CallFacts, LenProperties
<1>3. stack' = [stack EXCEPT ![t] = r]
  BY DEF Call
<1>4. f.at = "test" /\ f.entry = <<>>
  OBVIOUS
<1> HIDE DEF r, f
<1>5. stack' \in [Threads -> Seq(Frame)] /\ stack'[t] = r
      /\ \A u \in Threads : u # t => stack'[u] = stack[u]
  BY <1>2, <1>3 DEF TypeOK
<1>6. s = <<>> \/ (s # <<>> /\ Top(t).at = "exec")
  BY DEF Call, At
<1>7. TypeOK'
  BY <1>5 DEF TypeOK, Call
<1>8. CallsNest'
  <2> SUFFICES ASSUME NEW u \in Threads, NEW k \in 1..(Len(stack'[u]) - 1)
               PROVE  stack'[u][k].at = "exec"
    BY DEF CallsNest
  <2>1. CASE u # t
    BY <2>1, <1>5 DEF CallsNest
  <2>2. CASE u = t
    <3>1. k \in 1..Len(s) /\ stack'[u][k] = s[k]
      BY <2>2, <1>2, <1>5
    <3>2. s # <<>>
      BY <3>1, <1>1, EmptySeq
    <3>3. Top(t) = s[Len(s)]
      BY <3>2, <1>1, FrontFacts DEF Top
    <3>4. QED
      BY <3>1, <3>2, <3>3, <1>2, <1>6 DEF CallsNest
  <2>3. QED
    BY <2>1, <2>2
<1>9. LockCounts'
  <2>1. Taken(t)' = Len(s)
    BY <1>2, <1>4, <1>5 DEF Taken, Top
  <2>2. Taken(t) = Len(s)
    BY <1>1, <1>6, EmptySeq DEF Taken
  <2>3. \A u \in Threads : u # t => Taken(u)' = Taken(u)
    BY <1>5 DEF Taken, Top
  <2>4. QED
    BY <2>1, <2>2, <2>3 DEF LockCounts, Call
<1>10. WildAtBottom' /\ BuiltFirst'
  BY DEF WildAtBottom, BuiltFirst, Call
<1>11. SpecificStateFirst'
  <2> SUFFICES ASSUME NEW u \in Threads, NEW k \in (DOMAIN stack[u])'
               PROVE  MostSpecific(stack[u][k])'
    BY DEF SpecificStateFirst
  <2>1. entries' = entries
    BY DEF Call
  <2>2. CASE u # t
    BY <2>1, <2>2, <1>5 DEF SpecificStateFirst, MostSpecific, Matches
  <2>3. CASE u = t
    <3>1. stack'[u][k] = f \/ (k \in DOMAIN s /\ stack'[u][k] = s[k])
      BY <2>3, <1>2, <1>5
    <3>2. QED
      BY <3>1, <2>1, <1>4 DEF SpecificStateFirst, MostSpecific, Matches
  <2>4. QED
    BY <2>2, <2>3
<1>12. QED
  BY <1>7, <1>8, <1>9, <1>10, <1>11

(***************************************************************************)
(* The table.                                                              *)
(***************************************************************************)

\* An entry added goes above those for any state unless it is one of them.
LEMMA PushKeepsOrder ==
  ASSUME NEW list \in Seq(Entry), NEW e \in Entry,
         \A i, j \in DOMAIN list : i < j /\ list[i].from = Wild => list[j].from = Wild
  PROVE  LET r == PushDescending(list, e)
         IN  /\ r \in Seq(Entry)
             /\ \A i, j \in DOMAIN r : i < j /\ r[i].from = Wild => r[j].from = Wild
<1> DEFINE below == {i \in DOMAIN list : EntryCmp(e, list[i]) > 0}
           r == PushDescending(list, e)
<1>1. /\ Len(list) \in Nat /\ DOMAIN list = 1..Len(list)
      /\ below \in SUBSET (1..Len(list))
  BY LenProperties
<1>2. \A i \in DOMAIN list : i \in below <=> e.from # Wild /\ list[i].from = Wild
  BY DEF EntryCmp
<1> HIDE DEF below
<1>3. CASE below = {}
  <2>1. r = Append(list, e)
    BY <1>3 DEF PushDescending, below
  <2>2. /\ r \in Seq(Entry) /\ Len(r) = Len(list) + 1 /\ r[Len(list) + 1] = e
        /\ \A i \in 1..Len(list) : r[i] = list[i]
    BY <2>1, AppendProperties
  <2> HIDE DEF r
  <2>3. DOMAIN r = 1..(Len(list) + 1)
    BY <2>2, LenProperties
  <2>4. ASSUME NEW i \in DOMAIN r, NEW j \in DOMAIN r, i < j, r[i].from = Wild
        PROVE  r[j].from = Wild
    <3>1. i \in DOMAIN list /\ r[i] = list[i]
      BY <1>1, <2>2, <2>3, <2>4
    <3>2. CASE j = Len(list) + 1
      BY <1>2, <1>3, <2>2, <2>4, <3>1, <3>2
    <3>3. CASE j \in 1..Len(list)
      BY <1>1, <2>2, <2>4, <3>1, <3>3
    <3>4. QED
      BY <1>1, <2>3, <3>2, <3>3
  <2>5. QED
    BY <2>2, <2>4 DEF r
<1>4. CASE below # {}
  <2> DEFINE l == CHOOSE i \in below : \A j \in below : i <= j
  <2>1. l \in below /\ \A j \in below : l <= j
    BY <1>1, <1>4, LeastIndex
  <2>2. r = InsertAt(list, l, e)
    BY <1>4 DEF PushDescending, below
  <2> HIDE DEF r, l
  <2>3. l \in 1..Len(list) /\ e.from # Wild /\ list[l].from = Wild
    BY <1>1, <1>2, <2>1
  <2>4. /\ r \in Seq(Entry) /\ Len(r) = Len(list) + 1
        /\ \A j \in 1..Len(list) + 1 :
             r[j] = IF j < l THEN list[j] ELSE IF j = l THEN e ELSE list[j - 1]
    BY <2>2, <2>3, InsertAtPlaces
  <2>5. DOMAIN r = 1..(Len(list) + 1)
    BY <2>4, LenProperties
  <2>6. ASSUME NEW i \in DOMAIN r, NEW j \in DOMAIN r, i < j, r[i].from = Wild
        PROVE  r[j].from = Wild
    <3>1. ~(i < l)
      <4>1. SUFFICES ASSUME i < l PROVE FALSE
        OBVIOUS
      <4>2. i \in DOMAIN list /\ list[i].from = Wild
        BY <1>1, <2>3, <2>4, <2>5, <2>6, <4>1
      <4>3. QED
        BY <1>1, <1>2, <2>1, <2>3, <4>1, <4>2
    <3>2. i # l
      BY <2>3, <2>4, <2>5, <2>6
    <3>3. j - 1 \in 1..Len(list) /\ l < j - 1 /\ r[j] = list[j - 1]
      BY <1>1, <2>3, <2>4, <2>5, <2>6, <3>1, <3>2
    <3>4. QED
      BY <1>1, <2>3, <3>3
  <2>7. QED
    BY <2>4, <2>6 DEF r
<1>5. QED
  BY <1>3, <1>4

(***************************************************************************)
(* The steps of a call.                                                    *)
(***************************************************************************)

\* Where a thread's innermost call is, as the other lemmas use it.
LEMMA TopFacts ==
  ASSUME TypeOK, NEW t \in Threads, stack[t] # <<>>
  PROVE  /\ Top(t) \in Frame /\ Len(stack[t]) \in Nat \ {0}
         /\ SpecificStateFirst => MostSpecific(Top(t))
<1>1. stack[t] \in Seq(Frame)
  BY DEF TypeOK
<1>2. /\ Top(t) = stack[t][Len(stack[t])] /\ Top(t) \in Frame
      /\ Len(stack[t]) \in Nat \ {0}
  BY <1>1, FrontFacts DEF Top
<1>3. Len(stack[t]) \in DOMAIN stack[t]
  BY <1>1, <1>2, LenProperties
<1>4. SpecificStateFirst => MostSpecific(Top(t))
  BY <1>2, <1>3 DEF SpecificStateFirst
<1>5. QED
  BY <1>2, <1>4

\* The innermost call keeps the transition it found when it goes on.
LEMMA TopMoves ==
  ASSUME TypeOK, SpecificStateFirst, NEW t \in Threads, stack[t] # <<>>,
         NEW at \in {"test", "lock", "exec", "unlock", "final", "callback"}
  PROVE  LET f == [Top(t) EXCEPT !.at = at]
         IN  f \in Frame /\ f.at = at /\ MostSpecific(f)
<1> DEFINE f == [Top(t) EXCEPT !.at = at]
<1>1. Top(t) \in Frame /\ MostSpecific(Top(t))
  BY TopFacts
<1>2. f \in Frame /\ f.at = at
  BY <1>1 DEF Frame
<1>3. f.entry = Top(t).entry /\ f.state = Top(t).state /\ f.action = Top(t).action
  BY <1>1 DEF Frame
<1> HIDE DEF f
<1>4. MostSpecific(f)
  BY <1>1, <1>3 DEF MostSpecific
<1>5. QED
  BY <1>2, <1>4 DEF f

\* The call that has the lock keeps the thread that has it.
LEMMA LockTaken ==
  ASSUME FsmInv, NEW t \in Threads, At(t, "lock"), LockFree(t)
  PROVE  /\ held = Len(stack[t]) - 1
         /\ \A u \in Threads : u # t => Taken(u) = 0
<1>1. Taken(t) = Len(stack[t]) - 1
  BY DEF Taken, At
<1>2. QED
  BY <1>1, FsmAssumption DEF FsmInv, TypeOK, LockCounts, LockFree

LEMMA TestStep ==
  ASSUME FsmInv, NEW t \in Threads, Test(t)
  PROVE  FsmInv'
<1> USE DEF FsmInv
<1>1. stack[t] # <<>> /\ Top(t).at = "test" /\ Taken(t) = Len(stack[t]) - 1
  BY DEF Test, At, Taken
<1>2. WildAtBottom' /\ BuiltFirst'
  BY <1>1 DEF Test, WildAtBottom, BuiltFirst
<1>3. CASE current = Term
  <2>1. Leave(t)
    BY <1>3 DEF Test
  <2>2. /\ stack' \in [Threads -> Seq(Frame)] /\ CallsNest' /\ SpecificStateFirst'
        /\ \A u \in Threads : Taken(u)' = Taken(u)
    BY <1>1, <2>1, LeaveStep DEF Test
  <2>3. QED
    BY <1>2, <2>2 DEF Test, TypeOK, LockCounts
<1>4. CASE current # Term
  <2> DEFINE f == [Top(t) EXCEPT !.at = "lock"]
  <2>1. Become(t, f)
    BY <1>4 DEF Test
  <2>2. f \in Frame /\ f.at = "lock" /\ MostSpecific(f)
    BY <1>1, TopMoves
  <2> HIDE DEF f
  <2>3. /\ stack' \in [Threads -> Seq(Frame)] /\ CallsNest' /\ SpecificStateFirst'
        /\ \A u \in Threads : Taken(u)' = Taken(u)
    BY <1>1, <2>1, <2>2, BecomeStep DEF Test
  <2>4. QED
    BY <1>2, <2>3 DEF Test, TypeOK, LockCounts
<1>5. QED
  BY <1>3, <1>4

\* The transition found is the most specific: what any state shares is below
\* what the state has of its own, so a transition of its own would come first.
LEMMA FoundIsMostSpecific ==
  ASSUME FsmInv, NEW action \in Actions, NEW i \in Candidates(current, action),
         entries[i].from = Wild,
         NEW j \in DOMAIN entries, entries[j].from = current,
         entries[j].cond = "always", Matches(entries[j], current, action)
  PROVE  FALSE
<1>1. DOMAIN entries = 1..Len(entries) /\ Len(entries) \in Nat
  BY LenProperties DEF FsmInv, TypeOK
<1>2. i \in DOMAIN entries /\ \A k \in 1..(i - 1) :
        Matches(entries[k], current, action) => entries[k].cond # "always"
  BY DEF Candidates
<1>3. current # Wild
  BY FsmAssumption DEF FsmInv, TypeOK
<1>4. ~(i < j)
  BY <1>2, <1>3 DEF FsmInv, WildAtBottom
<1>5. i # j
  BY <1>3
<1>6. j \in 1..(i - 1)
  BY <1>1, <1>2, <1>4, <1>5
<1>7. QED
  BY <1>2, <1>6

LEMMA FoundStep ==
  ASSUME FsmInv, NEW t \in Threads, Found(t)
  PROVE  FsmInv'
<1> USE DEF FsmInv
<1>1. stack[t] # <<>> /\ Top(t).at = "lock" /\ At(t, "lock") /\ LockFree(t)
  BY DEF Found, At
<1>2. WildAtBottom' /\ BuiltFirst'
  BY <1>1 DEF Found, WildAtBottom, BuiltFirst
<1>3. PICK i \in Candidates(current, Top(t).action) :
        /\ current' = IF entries[i].to = Wild THEN current ELSE entries[i].to
        /\ Become(t, [Top(t) EXCEPT !.at = "exec", !.entry = entries[i],
                                    !.state = current])
  BY DEF Found
<1> DEFINE f == [Top(t) EXCEPT !.at = "exec", !.entry = entries[i], !.state = current]
<1>4. i \in DOMAIN entries /\ entries[i] \in Entry
  <2>1. i \in DOMAIN entries
    BY DEF Candidates
  <2>2. QED
    BY <2>1, ElementOfSeq, LenProperties DEF TypeOK
<1>5. Top(t) \in Frame /\ Len(stack[t]) \in Nat \ {0}
  BY <1>1, TopFacts
<1>6. /\ f \in Frame /\ f.at = "exec" /\ f.entry = entries[i]
      /\ f.state = current /\ f.action = Top(t).action /\ Top(t).action \in Actions
  BY <1>4, <1>5 DEF Frame, TypeOK
<1> HIDE DEF f
<1>7. MostSpecific(f)
  BY <1>6, FoundIsMostSpecific DEF MostSpecific
<1>8. Become(t, f)
  BY <1>3 DEF f
<1>9. /\ stack' \in [Threads -> Seq(Frame)] /\ CallsNest' /\ SpecificStateFirst'
      /\ Taken(t)' = Len(stack[t]) /\ \A u \in Threads : u # t => Taken(u)' = Taken(u)
  BY <1>1, <1>6, <1>7, <1>8, BecomeStep DEF Found
<1>10. LockCounts'
  <2>1. held = Len(stack[t]) - 1 /\ \A u \in Threads : u # t => Taken(u) = 0
    BY <1>1, LockTaken
  <2>2. owner' = t /\ held' = Len(stack[t]) /\ held' # 0
    BY <1>5, <2>1 DEF Found
  <2>3. QED
    BY <1>9, <2>1, <2>2, FsmAssumption DEF LockCounts
<1>11. TypeOK'
  BY <1>3, <1>4, <1>9 DEF Found, TypeOK, Entry
<1>12. QED
  BY <1>2, <1>9, <1>10, <1>11

LEMMA NotFoundStep ==
  ASSUME FsmInv, NEW t \in Threads, NotFound(t)
  PROVE  FsmInv'
<1> USE DEF FsmInv
<1> DEFINE f == [Top(t) EXCEPT !.at = "unlock"]
<1>1. stack[t] # <<>> /\ Top(t).at = "lock" /\ At(t, "lock") /\ LockFree(t)
  BY DEF NotFound, At
<1>2. WildAtBottom' /\ BuiltFirst'
  BY <1>1 DEF NotFound, WildAtBottom, BuiltFirst
<1>3. Become(t, f)
  BY DEF NotFound
<1>4. f \in Frame /\ f.at = "unlock" /\ MostSpecific(f) /\ Len(stack[t]) \in Nat \ {0}
  BY <1>1, TopMoves, TopFacts
<1> HIDE DEF f
<1>5. /\ stack' \in [Threads -> Seq(Frame)] /\ CallsNest' /\ SpecificStateFirst'
      /\ Taken(t)' = Len(stack[t]) /\ \A u \in Threads : u # t => Taken(u)' = Taken(u)
  BY <1>1, <1>3, <1>4, BecomeStep DEF NotFound
<1>6. LockCounts'
  <2>1. held = Len(stack[t]) - 1 /\ \A u \in Threads : u # t => Taken(u) = 0
    BY <1>1, LockTaken
  <2>2. owner' = t /\ held' = Len(stack[t]) /\ held' # 0
    BY <1>4, <2>1 DEF NotFound
  <2>3. QED
    BY <1>5, <2>1, <2>2, FsmAssumption DEF LockCounts
<1>7. TypeOK'
  BY <1>5 DEF NotFound, TypeOK
<1>8. QED
  BY <1>2, <1>5, <1>6, <1>7

LEMMA ExecReturnsStep ==
  ASSUME FsmInv, NEW t \in Threads, ExecReturns(t)
  PROVE  FsmInv'
<1> USE DEF FsmInv
<1>1. stack[t] # <<>> /\ Top(t).at = "exec" /\ Taken(t) = Len(stack[t])
  BY DEF ExecReturns, At, Taken
<1>2. WildAtBottom' /\ BuiltFirst'
  BY <1>1 DEF ExecReturns, WildAtBottom, BuiltFirst
<1>3. PICK ret \in {0, -1} :
        Become(t, [Top(t) EXCEPT !.at = "unlock", !.terminates = ret # 0 \/ current = Term])
  BY DEF ExecReturns
<1> DEFINE b == ret # 0 \/ current = Term
           f == [Top(t) EXCEPT !.at = "unlock", !.terminates = b]
<1>4. b \in BOOLEAN /\ Become(t, f)
  BY <1>3
<1> HIDE DEF b
<1>5. f \in Frame /\ f.at = "unlock" /\ MostSpecific(f)
  <2>1. Top(t) \in Frame /\ MostSpecific(Top(t))
    BY <1>1, TopFacts
  <2>2. f \in Frame /\ f.at = "unlock"
    BY <1>4, <2>1 DEF Frame
  <2>3. f.entry = Top(t).entry /\ f.state = Top(t).state /\ f.action = Top(t).action
    BY <2>1 DEF Frame
  <2> HIDE DEF f
  <2> QED BY <2>1, <2>2, <2>3 DEF MostSpecific
<1> HIDE DEF f
<1>6. /\ stack' \in [Threads -> Seq(Frame)] /\ CallsNest' /\ SpecificStateFirst'
      /\ \A u \in Threads : Taken(u)' = Taken(u)
  BY <1>1, <1>4, <1>5, BecomeStep DEF ExecReturns
<1>7. QED
  BY <1>2, <1>6 DEF ExecReturns, TypeOK, LockCounts

LEMMA UnlockStep ==
  ASSUME FsmInv, NEW t \in Threads, Unlock(t)
  PROVE  FsmInv'
<1> USE DEF FsmInv
<1>1. stack[t] # <<>> /\ Top(t).at = "unlock" /\ Taken(t) = Len(stack[t])
  BY DEF Unlock, At, Taken
<1>2. WildAtBottom' /\ BuiltFirst'
  BY <1>1 DEF Unlock, WildAtBottom, BuiltFirst
<1>3. Len(stack[t]) \in Nat \ {0}
  BY <1>1, TopFacts
<1>4. owner = t /\ held = Len(stack[t]) /\ \A u \in Threads : u # t => Taken(u) = 0
  BY <1>1, <1>3 DEF LockCounts
<1>5. /\ stack' \in [Threads -> Seq(Frame)] /\ CallsNest' /\ SpecificStateFirst'
      /\ Taken(t)' = Len(stack[t]) - 1 /\ \A u \in Threads : u # t => Taken(u)' = Taken(u)
  <2>1. CASE Top(t).terminates
    <3> DEFINE f == [Top(t) EXCEPT !.at = "final"]
    <3>1. Become(t, f)
      BY <2>1 DEF Unlock
    <3>2. f \in Frame /\ f.at = "final" /\ MostSpecific(f)
      BY <1>1, TopMoves
    <3> HIDE DEF f
    <3>3. QED
      BY <1>1, <3>1, <3>2, BecomeStep DEF Unlock
  <2>2. CASE ~Top(t).terminates
    <3>1. Leave(t)
      BY <2>2 DEF Unlock
    <3>2. QED
      BY <1>1, <3>1, LeaveStep DEF Unlock
  <2>3. QED
    BY <2>1, <2>2
<1>6. LockCounts'
  <2>1. held' = Len(stack[t]) - 1 /\ owner' = IF held' = 0 THEN None ELSE t
    BY <1>3, <1>4 DEF Unlock
  <2>2. held' \in Nat /\ t # None
    BY <1>3, <2>1, FsmAssumption
  <2>3. owner' = None <=> held' = 0
    BY <2>1, <2>2
  <2>4. \A u \in Threads : Taken(u)' = IF owner' = u THEN held' ELSE 0
    BY <1>4, <1>5, <2>1, <2>2, FsmAssumption
  <2>5. QED
    BY <2>3, <2>4 DEF LockCounts
<1>7. TypeOK'
  BY <1>3, <1>4, <1>5 DEF Unlock, TypeOK
<1>8. QED
  BY <1>2, <1>5, <1>6, <1>7

LEMMA FinalStep ==
  ASSUME FsmInv, NEW t \in Threads, SetFinal(t) \/ CallbackTerm(t)
  PROVE  FsmInv'
<1> USE DEF FsmInv
<1>1. stack[t] # <<>> /\ Top(t).at \in {"final", "callback"}
      /\ Taken(t) = Len(stack[t]) - 1
  BY DEF SetFinal, CallbackTerm, At, Taken
<1>2. WildAtBottom' /\ BuiltFirst'
  BY <1>1 DEF SetFinal, CallbackTerm, WildAtBottom, BuiltFirst
<1>3. CASE SetFinal(t)
  <2> DEFINE f == [Top(t) EXCEPT !.at = "callback"]
  <2>1. Become(t, f)
    BY <1>3 DEF SetFinal
  <2>2. f \in Frame /\ f.at = "callback" /\ MostSpecific(f)
    BY <1>1, TopMoves
  <2> HIDE DEF f
  <2>3. /\ stack' \in [Threads -> Seq(Frame)] /\ CallsNest' /\ SpecificStateFirst'
        /\ \A u \in Threads : Taken(u)' = Taken(u)
    BY <1>1, <1>3, <2>1, <2>2, BecomeStep DEF SetFinal
  <2>4. QED
    BY <1>2, <1>3, <2>3 DEF SetFinal, TypeOK, LockCounts
<1>4. CASE CallbackTerm(t)
  <2>1. /\ stack' \in [Threads -> Seq(Frame)] /\ CallsNest' /\ SpecificStateFirst'
        /\ \A u \in Threads : Taken(u)' = Taken(u)
    BY <1>1, <1>4, LeaveStep DEF CallbackTerm
  <2>2. QED
    BY <1>2, <1>4, <2>1 DEF CallbackTerm, TypeOK, LockCounts
<1>5. QED
  BY <1>3, <1>4

(***************************************************************************)
(* The theorems.                                                           *)
(***************************************************************************)

LEMMA InitInv == Init => FsmInv
<1> SUFFICES ASSUME Init PROVE FsmInv
  OBVIOUS
<1>1. stack \in [Threads -> Seq(Frame)] /\ \A t \in Threads : stack[t] = <<>> /\ Len(stack[t]) = 0
  BY EmptySeq DEF Init
<1>2. entries \in Seq(Entry) /\ DOMAIN entries = {}
  BY EmptySeq DEF Init
<1>3. TypeOK
  BY <1>1, <1>2, FsmAssumption DEF Init, TypeOK
<1>4. CallsNest
  BY <1>1 DEF CallsNest
<1>5. LockCounts
  BY <1>1, FsmAssumption DEF Init, LockCounts, Taken
<1>6. WildAtBottom /\ BuiltFirst
  BY <1>1, <1>2 DEF WildAtBottom, BuiltFirst
<1>7. SpecificStateFirst
  BY <1>1 DEF SpecificStateFirst
<1>8. QED
  BY <1>3, <1>4, <1>5, <1>6, <1>7 DEF FsmInv

\* While the table is being built nobody is in a call.
LEMMA BuildStep ==
  ASSUME FsmInv, (\E e \in Entry : Set(e)) \/ SetDone
  PROVE  FsmInv'
<1> USE DEF FsmInv
<1>1. /\ stack' = stack /\ ~built /\ UNCHANGED <<current, owner, held, acts, calls>>
      /\ \A t \in Threads : stack[t] = <<>>
  BY DEF Set, SetDone, BuiltFirst
<1>2. /\ entries' \in Seq(Entry)
      /\ \A i, j \in DOMAIN entries' :
           i < j /\ entries'[i].from = Wild => entries'[j].from = Wild
  <2>1. CASE SetDone
    BY <2>1 DEF SetDone, TypeOK, WildAtBottom
  <2>2. ASSUME NEW e \in Entry, Set(e)
        PROVE  /\ entries' \in Seq(Entry)
               /\ \A i, j \in DOMAIN entries' :
                    i < j /\ entries'[i].from = Wild => entries'[j].from = Wild
    <3>1. entries' = PushDescending(entries, e)
      BY <2>2 DEF Set
    <3>2. QED
      BY <3>1, PushKeepsOrder DEF TypeOK, WildAtBottom
  <2>3. QED
    BY <2>1, <2>2
<1>3. TypeOK'
  BY <1>1, <1>2 DEF TypeOK, Set, SetDone
<1>4. CallsNest' /\ LockCounts' /\ BuiltFirst'
  BY <1>1 DEF CallsNest, LockCounts, BuiltFirst, Taken, Top
<1>5. WildAtBottom'
  BY <1>2 DEF WildAtBottom
<1>6. SpecificStateFirst'
  <2>1. \A t \in Threads : DOMAIN stack'[t] = {}
    BY <1>1
  <2>2. QED
    BY <2>1 DEF SpecificStateFirst
<1>7. QED
  BY <1>3, <1>4, <1>5, <1>6

LEMMA NextInv == FsmInv /\ [Next]_vars => FsmInv'
<1> SUFFICES ASSUME FsmInv, [Next]_vars PROVE FsmInv'
  OBVIOUS
<1>1. CASE (\E e \in Entry : Set(e)) \/ SetDone
  BY <1>1, BuildStep
<1>2. ASSUME NEW t \in Threads, Step(t)
      PROVE  FsmInv'
  BY <1>2, TestStep, FoundStep, NotFoundStep, ExecReturnsStep, UnlockStep, FinalStep
  DEF Step
<1>3. ASSUME NEW t \in Threads, NEW action \in Actions, Call(t, action)
      PROVE  FsmInv'
  BY <1>3, CallStep
<1>4. CASE UNCHANGED vars
  BY <1>4 DEF vars, FsmInv, TypeOK, CallsNest, LockCounts, Taken, Top, WildAtBottom,
              BuiltFirst, SpecificStateFirst, MostSpecific, Matches
<1>5. QED
  BY <1>1, <1>2, <1>3, <1>4 DEF Next

\* Whatever table a program builds and whatever its threads do, the machine's
\* stacks, its lock and its table agree.
THEOREM FsmCorrect == Spec => []FsmInv
  BY InitInv, NextInv, PTL DEF Spec

\* The handlers of two threads never run at the same time, however deep they
\* call the machine again: the recursive lock is released as often as taken.
THEOREM HandlersExclude == Spec => []OneHandlerAtATime
<1>1. ASSUME FsmInv, NEW t \in Threads, InExec(t)
      PROVE  owner = t
  <2>1. stack[t] \in Seq(Frame)
    BY <1>1 DEF FsmInv, TypeOK
  <2>2. PICK i \in DOMAIN stack[t] : stack[t][i].at = "exec"
    BY <1>1 DEF InExec
  <2>3. i \in 1..Len(stack[t]) /\ Len(stack[t]) \in Nat
    BY <2>1, LenProperties
  <2>4. stack[t] # <<>>
    BY <2>1, <2>3, EmptySeq
  <2>5. Top(t) = stack[t][Len(stack[t])]
    BY <2>1, <2>4, FrontFacts DEF Top
  <2>6. Taken(t) # 0
    <3>1. CASE i = Len(stack[t])
      BY <3>1, <2>2, <2>3, <2>4, <2>5 DEF Taken
    <3>2. CASE i < Len(stack[t])
      <4> DEFINE n == Len(stack[t])
      <4>1. i \in 1..n /\ n \in Nat /\ i < n
        BY <3>2, <2>3
      <4> HIDE DEF n
      <4>2. n # 0 /\ n - 1 # 0
        BY <4>1
      <4>3. QED
        BY <2>4, <4>2 DEF Taken, n
    <3>3. QED
      BY <2>3, <3>1, <3>2
  <2>7. QED
    BY <1>1, <2>6 DEF FsmInv, LockCounts
<1>2. FsmInv => OneHandlerAtATime
  BY <1>1 DEF OneHandlerAtATime
<1>3. QED
  BY <1>2, FsmCorrect, PTL

\* A transition for any state is never run where the state has one of its own
\* that holds, in whatever order the two were added.
THEOREM SpecificFirst == Spec => []SpecificStateFirst
<1>1. FsmInv => SpecificStateFirst
  BY DEF FsmInv
<1>2. QED
  BY <1>1, FsmCorrect, PTL
=============================================================================
