--------------------------- MODULE SipLayersProofs ---------------------------
(***************************************************************************)
(* What holds of SipLayers for any number of dialogs, transactions and     *)
(* calls: its type invariant with one owner of each lock, that a dialog in *)
(* use is kept, that what has ended leaves the lists, and that threads     *)
(* which wait only for each other are caught in one of the two inversions. *)
(*                                                                         *)
(* The argument is one invariant, LayersInv.  A thread's stack has one of  *)
(* five shapes: nothing; what the thread does first (Base); that and the   *)
(* dialog it calls (Over); these and the transaction that dialog uses      *)
(* (Within); or a new dialog's push over its transaction's start.  The     *)
(* shapes say what is locked and what is waited for.  EndInv says of each  *)
(* listed dialog or transaction that has ended which thread owes its       *)
(* removal.  A step moves one stack; the lemmas say once what it leaves    *)
(* alone, and each action shows the rest.                                  *)
(***************************************************************************)
EXTENDS SipLayers, SequenceTheorems, FiniteSetTheorems, WellFoundedInduction, TLAPS

\* A transaction that was created, and a dialog that has been pushed.
Made(t) == transac[t] # NoTransac
Known(d) == dialog[d] \in {"alive", "ended"}

\* What a thread does first: a transaction's function, a call, the shutdown.
Base(th, b) ==
  \/ /\ b.of = "transac" /\ b.at \in {"start", "event", "starting", "running", "failed", "remove"}
     /\ b.id \in Transacs /\ Made(b.id) /\ Known(transac[b.id].dialog)
     /\ b.at = "start" => th = "net"
  \/ /\ b.of = "call" /\ b.at \in {"found", "held", "timer", "crashed"}
     /\ b.id \in Dialogs /\ Known(b.id)
  \/ /\ b.of = "call" /\ b.at = "create" /\ th = "net"
     /\ b.id \in Dialogs /\ dialog[b.id] # "none"
  \/ b.of = "shutdown" /\ b.at \in ShutdownAt /\ b.id = "all" /\ th = "main"

\* Where a dialog is in OnTerminated.
Leaves == {"cancel", "cancelling", "remove"}

\* The dialog it calls, ...
Over(d, at, b) ==
  /\ \/ b.of = "transac" /\ b.at \in {"starting", "running"} /\ transac[b.id].dialog = d
     \/ b.of = "call" /\ b.at \in {"held", "timer"} /\ b.id = d
     \/ b.of = "shutdown" /\ b.at \in {"tell1", "tell2", "tell3"}
  /\ Known(d)
  /\ at \in {"run", "new", "find"} => dialog[d] = "alive"
  /\ at \in Leaves => dialog[d] = "ended"

\* ... and the transaction that is used by that dialog.
Within(t, has, d, at) ==
  /\ has \in {"respond", "cancel", "remove"} /\ Made(t) /\ transac[t].dialog = d
  /\ at \in {"run", "cancelling"} /\ (has = "respond" => at = "run") /\ (has = "cancel" => at = "cancelling")

\* The stacks a thread may have.
Shape(th, s) ==
  \/ s = <<>>
  \/ \E b \in Frame : Base(th, b) /\ s = <<b>>
  \/ \E b \in Frame, d \in Dialogs, at \in DialogAt :
       Base(th, b) /\ Over(d, at, b) /\ s = <<F("dialog", d, at), b>>
  \/ \E b \in Frame, d \in Dialogs, at \in DialogAt, t \in Transacs, has \in TransacAt :
       Base(th, b) /\ Over(d, at, b) /\ Within(t, has, d, at)
         /\ s = <<F("transac", t, has), F("dialog", d, at), b>>
  \/ \E d \in Dialogs, t \in Transacs :
       /\ th = "net" /\ dialog[d] = "new" /\ Made(t) /\ transac[t].dialog = d
       /\ s = <<F("call", d, "push"), F("transac", t, "start")>>

ShapeInv == \A th \in Threads : Shape(th, stack[th])

\* Each lock has one owner.
LockInv == \A a, b \in Threads : a # b => Held(a) \cap Held(b) = {}

\* The types, with stacks and lists as sequences.
DataOK ==
  /\ stack \in [Threads -> Seq(Frame)]
  /\ cast \in Casts /\ calls \in [Threads -> Nat]
  /\ dialogs \in Seq(Dialogs) /\ transacs \in Seq(Transacs)
  /\ dialog \in [Dialogs -> {"none", "new", "alive", "ended"}]
  /\ transac \in [Transacs -> {NoTransac} \cup
       [fsm : {"started", "going", "terminated"}, dialog : Dialogs, role : {"client", "server"}]]
  /\ shutdown \in [phase2 : BOOLEAN, told : SUBSET Dialogs, wait : BOOLEAN, signaled : BOOLEAN]

\* Nothing is listed twice, or before it is there.
ListInv ==
  /\ IsInjective(dialogs) /\ IsInjective(transacs)
  /\ \A d \in ToSet(dialogs) : Known(d)
  /\ \A t \in ToSet(transacs) : Made(t)

\* Frames and Held of any stack.
FramesIn(s) == {s[i] : i \in DOMAIN s}
HeldIn(s) == UNION {Holds(f) : f \in FramesIn(s)}

\* What a stack of frames has yet to do: start t, end d, leave its list,
\* remove t, let t's delivery fail.
StartsIn(t, s) == F("transac", t, "start") \in FramesIn(s)
EndsIn(d, s) ==
  F("dialog", d, "cancel") \in FramesIn(s) \/ F("dialog", d, "cancelling") \in FramesIn(s)
LeavesIn(d, s) == EndsIn(d, s) \/ F("dialog", d, "remove") \in FramesIn(s)
RemovesIn(t, s) == F("transac", t, "remove") \in FramesIn(s)
FailsIn(t, d, s) ==
  \/ s = <<F("transac", t, "failed")>>
  \/ \E at \in {"starting", "running"} : s = <<F("dialog", d, "enter"), F("transac", t, at)>>

\* A transaction that has not started yet is about to be, and the others have a dialog.
StartedOK(t) ==
  Made(t) =>
    /\ transac[t].fsm = "started" => StartsIn(t, stack["net"])
    /\ transac[t].fsm # "started" => Known(transac[t].dialog)

\* A listed dialog that has ended is about to leave.
DialogListed(d) ==
  dialog[d] = "ended" => \E th \in Threads : LeavesIn(d, stack[th])

\* A listed transaction of such a dialog is about to be canceled or to fail, and one that has
\* ended is about to be removed.
TransacListed(t) ==
  LET d == transac[t].dialog IN
  /\ transac[t].fsm = "going" /\ dialog[d] = "ended" =>
       \E th \in Threads : EndsIn(d, stack[th]) \/ FailsIn(t, d, stack[th])
  /\ transac[t].fsm = "terminated" => \E th \in Threads : RemovesIn(t, stack[th])

EndInv ==
  /\ \A t \in Transacs : StartedOK(t)
  /\ \A d \in ToSet(dialogs) : DialogListed(d)
  /\ \A t \in ToSet(transacs) : TransacListed(t)

LayersInv == DataOK /\ ShapeInv /\ LockInv /\ ListInv /\ EndInv

-----------------------------------------------------------------------------
\* How a step turns a stack into another.

\* A step gives one thread another stack.
Turned(th, s) == stack' = [stack EXCEPT ![th] = s]

\* A sequence that agrees with both parts of a concatenation is the concatenation.
LEMMA JoinedAre ==
  ASSUME NEW S, NEW s \in Seq(S), NEW r \in Seq(S), NEW t \in Seq(S), Len(t) = Len(s) + Len(r),
         \A i \in 1..Len(s) : t[i] = s[i], \A i \in 1..Len(r) : t[Len(s) + i] = r[i]
  PROVE  s \o r = t
<1>1. /\ s \o r \in Seq(S) /\ Len(s \o r) = Len(s) + Len(r)
      /\ \A i \in 1..(Len(s) + Len(r)) : (s \o r)[i] = IF i <= Len(s) THEN s[i] ELSE r[i - Len(s)]
  BY ConcatProperties
<1>2. Len(s) \in Nat /\ Len(r) \in Nat
  BY LenProperties
<1>3. ASSUME NEW i \in 1..(Len(s) + Len(r))
      PROVE  (s \o r)[i] = t[i]
  <2>1. CASE i <= Len(s)
    BY <1>1, <1>2, <2>1
  <2>2. CASE ~(i <= Len(s))
    <3>1. i - Len(s) \in 1..Len(r) /\ Len(s) + (i - Len(s)) = i
      BY <1>2, <2>2
    <3> QED BY <1>1, <2>2, <3>1
  <2> QED BY <2>1, <2>2
<1> QED BY <1>1, <1>2, <1>3, SeqEqual

\* The concatenations that the moves of a stack are made of.
LEMMA Joined ==
  ASSUME NEW a, NEW b, NEW c
  PROVE  /\ <<a>> \o <<>> = <<a>> /\ <<>> \o <<a>> = <<a>> /\ <<a, b>> \o <<>> = <<a, b>>
         /\ <<a>> \o <<b>> = <<a, b>> /\ <<a, b>> \o <<c>> = <<a, b, c>>
         /\ <<a>> \o <<b, c>> = <<a, b, c>>
<1> DEFINE S == {a, b, c}
<1>1. /\ <<>> \in Seq(S) /\ <<a>> \in Seq(S) /\ <<b>> \in Seq(S) /\ <<c>> \in Seq(S)
      /\ <<a, b>> \in Seq(S) /\ <<b, c>> \in Seq(S) /\ <<a, b, c>> \in Seq(S)
  OBVIOUS
<1>2. /\ Len(<<>>) = 0 /\ Len(<<a>>) = 1 /\ Len(<<b>>) = 1 /\ Len(<<c>>) = 1
      /\ Len(<<a, b>>) = 2 /\ Len(<<b, c>>) = 2 /\ Len(<<a, b, c>>) = 3
      /\ \A i \in 1..1 : i = 1
      /\ \A i \in 1..2 : i = 1 \/ i = 2
      /\ \A i \in 1..0 : FALSE
      /\ 1 + 1 = 2 /\ 1 + 2 = 3 /\ 2 + 1 = 3 /\ 0 + 1 = 1 /\ 1 + 0 = 1
  OBVIOUS
<1>3. /\ <<a>>[1] = a /\ <<b>>[1] = b /\ <<c>>[1] = c
      /\ <<a, b>>[1] = a /\ <<a, b>>[2] = b /\ <<b, c>>[1] = b /\ <<b, c>>[2] = c
      /\ <<a, b, c>>[1] = a /\ <<a, b, c>>[2] = b /\ <<a, b, c>>[3] = c
  OBVIOUS
<1> DEFINE s0 == <<>>
           sa == <<a>>
           sb == <<b>>
           sc == <<c>>
           sab == <<a, b>>
           sbc == <<b, c>>
           sabc == <<a, b, c>>
<1>4. /\ s0 \in Seq(S) /\ sa \in Seq(S) /\ sb \in Seq(S) /\ sc \in Seq(S)
      /\ sab \in Seq(S) /\ sbc \in Seq(S) /\ sabc \in Seq(S)
      /\ Len(s0) = 0 /\ Len(sa) = 1 /\ Len(sb) = 1 /\ Len(sc) = 1
      /\ Len(sab) = 2 /\ Len(sbc) = 2 /\ Len(sabc) = 3
      /\ sa[1] = a /\ sb[1] = b /\ sc[1] = c
      /\ sab[1] = a /\ sab[2] = b /\ sbc[1] = b /\ sbc[2] = c
      /\ sabc[1] = a /\ sabc[2] = b /\ sabc[3] = c
  BY <1>1, <1>2, <1>3
<1> HIDE DEF S, s0, sa, sb, sc, sab, sbc, sabc
<1>5. sa \o s0 = sa
  <2>1. \A i \in 1..Len(s0) : sa[Len(sa) + i] = s0[i]
    BY <1>2, <1>4
  <2>2. Len(sa) = Len(sa) + Len(s0)
    BY <1>2, <1>4
  <2> QED BY <1>4, <2>1, <2>2, JoinedAre, Zenon
<1>10. sab \o s0 = sab
  <2>1. \A i \in 1..Len(s0) : sab[Len(sab) + i] = s0[i]
    BY <1>2, <1>4
  <2>2. Len(sab) = Len(sab) + Len(s0)
    BY <1>2, <1>4
  <2> QED BY <1>4, <2>1, <2>2, JoinedAre, Zenon
<1>6. s0 \o sa = sa
  <2>1. \A i \in 1..Len(s0) : sa[i] = s0[i]
    BY <1>2, <1>4
  <2>2. \A i \in 1..Len(sa) : sa[Len(s0) + i] = sa[i]
    BY <1>2, <1>4
  <2>3. Len(sa) = Len(s0) + Len(sa)
    BY <1>2, <1>4
  <2> QED BY <1>4, <2>1, <2>2, <2>3, JoinedAre, Zenon
<1>7. sa \o sb = sab
  <2>1. \A i \in 1..Len(sa) : sab[i] = sa[i]
    BY <1>2, <1>4
  <2>2. \A i \in 1..Len(sb) : sab[Len(sa) + i] = sb[i]
    BY <1>2, <1>4
  <2>3. Len(sab) = Len(sa) + Len(sb)
    BY <1>2, <1>4
  <2> QED BY <1>4, <2>1, <2>2, <2>3, JoinedAre, Zenon
<1>8. sab \o sc = sabc
  <2>1. \A i \in 1..Len(sab) : sabc[i] = sab[i]
    BY <1>2, <1>4
  <2>2. \A i \in 1..Len(sc) : sabc[Len(sab) + i] = sc[i]
    BY <1>2, <1>4
  <2>3. Len(sabc) = Len(sab) + Len(sc)
    BY <1>2, <1>4
  <2> QED BY <1>4, <2>1, <2>2, <2>3, JoinedAre, Zenon
<1>9. sa \o sbc = sabc
  <2>1. \A i \in 1..Len(sa) : sabc[i] = sa[i]
    BY <1>2, <1>4
  <2>2. \A i \in 1..Len(sbc) : sabc[Len(sa) + i] = sbc[i]
    BY <1>2, <1>4
  <2>3. Len(sabc) = Len(sa) + Len(sbc)
    BY <1>2, <1>4
  <2> QED BY <1>4, <2>1, <2>2, <2>3, JoinedAre, Zenon
<1> QED BY <1>5, <1>6, <1>7, <1>8, <1>9, <1>10 DEF s0, sa, sb, sc, sab, sbc, sabc

\* The fields of a frame.
LEMMA Fields ==
  ASSUME NEW of, NEW id, NEW was
  PROVE  /\ F(of, id, was).of = of /\ F(of, id, was).id = id /\ F(of, id, was).at = was
         /\ \A at : [F(of, id, was) EXCEPT !.at = at] = F(of, id, at)
BY DEF F

\* The function on top goes on, with one frame, two or three.
LEMMA GoesOne ==
  ASSUME NEW th, NEW of, NEW id, NEW was, NEW at,
         stack' = Goes(th, at), stack[th] = <<F(of, id, was)>>
  PROVE  Turned(th, <<F(of, id, at)>>)
<1> DEFINE a == F(of, id, was)
           n == F(of, id, at)
           top == [stack[th][1] EXCEPT !.at = at]
<1>1. stack' = [stack EXCEPT ![th] = [stack[th] EXCEPT ![1] = top]]
  BY Zenon DEF Goes
<1>2. [a EXCEPT !.at = at] = n
  BY Fields
<1> HIDE DEF a, n
<1>3. <<a>>[1] = a
  OBVIOUS
<1>4. top = n
  BY <1>2, <1>3, Zenon DEF a
<1>5. [<<a>> EXCEPT ![1] = n] = <<n>>
  OBVIOUS
<1> HIDE DEF top
<1> QED BY <1>1, <1>4, <1>5, Zenon DEF Turned, a, n

\* The same where a call is below it.
LEMMA GoesTwo ==
  ASSUME NEW th, NEW of, NEW id, NEW was, NEW at, NEW b,
         stack' = Goes(th, at), stack[th] = <<F(of, id, was), b>>
  PROVE  Turned(th, <<F(of, id, at), b>>)
<1> DEFINE a == F(of, id, was)
           n == F(of, id, at)
           top == [stack[th][1] EXCEPT !.at = at]
<1>1. stack' = [stack EXCEPT ![th] = [stack[th] EXCEPT ![1] = top]]
  BY Zenon DEF Goes
<1>2. [a EXCEPT !.at = at] = n
  BY Fields
<1> HIDE DEF a, n
<1>3. <<a, b>>[1] = a
  OBVIOUS
<1>4. top = n
  BY <1>2, <1>3, Zenon DEF a
<1>5. [<<a, b>> EXCEPT ![1] = n] = <<n, b>>
  OBVIOUS
<1> HIDE DEF top
<1> QED BY <1>1, <1>4, <1>5, Zenon DEF Turned, a, n

\* The same where two calls are below it.
LEMMA GoesThree ==
  ASSUME NEW th, NEW of, NEW id, NEW was, NEW at, NEW b, NEW c,
         stack' = Goes(th, at), stack[th] = <<F(of, id, was), b, c>>
  PROVE  Turned(th, <<F(of, id, at), b, c>>)
<1> DEFINE a == F(of, id, was)
           n == F(of, id, at)
           top == [stack[th][1] EXCEPT !.at = at]
<1>1. stack' = [stack EXCEPT ![th] = [stack[th] EXCEPT ![1] = top]]
  BY Zenon DEF Goes
<1>2. [a EXCEPT !.at = at] = n
  BY Fields
<1> HIDE DEF a, n
<1>3. <<a, b, c>>[1] = a
  OBVIOUS
<1>4. top = n
  BY <1>2, <1>3, Zenon DEF a
<1>5. [<<a, b, c>> EXCEPT ![1] = n] = <<n, b, c>>
  OBVIOUS
<1> HIDE DEF top
<1> QED BY <1>1, <1>4, <1>5, Zenon DEF Turned, a, n

\* It calls another, from a stack of one frame or two.
LEMMA CallsOne ==
  ASSUME NEW th, NEW f, NEW b, stack' = Calls(th, f), stack[th] = <<b>>
  PROVE  Turned(th, <<f, b>>)
<1>1. stack' = [stack EXCEPT ![th] = <<f>> \o stack[th]]
  BY Zenon DEF Calls
<1>2. <<f>> \o <<b>> = <<f, b>>
  BY Joined, Zenon
<1> QED BY <1>1, <1>2, Zenon DEF Turned

\* The same where two are under way.
LEMMA CallsTwo ==
  ASSUME NEW th, NEW f, NEW b, NEW c, stack' = Calls(th, f), stack[th] = <<b, c>>
  PROVE  Turned(th, <<f, b, c>>)
<1>1. stack' = [stack EXCEPT ![th] = <<f>> \o stack[th]]
  BY Zenon DEF Calls
<1>2. <<f>> \o <<b, c>> = <<f, b, c>>
  BY Joined, Zenon
<1> QED BY <1>1, <1>2, Zenon DEF Turned

\* It goes on and calls another.
LEMMA GoesAndCallsOne ==
  ASSUME NEW th, NEW of, NEW id, NEW was, NEW at, NEW f,
         stack' = GoesAndCalls(th, at, f), stack[th] = <<F(of, id, was)>>
  PROVE  Turned(th, <<f, F(of, id, at)>>)
<1> DEFINE a == F(of, id, was)
           n == F(of, id, at)
           top == [Head(stack[th]) EXCEPT !.at = at]
<1>1. stack' = [stack EXCEPT ![th] = <<f, top>> \o Tail(stack[th])]
  BY Zenon DEF GoesAndCalls
<1>2. [a EXCEPT !.at = at] = n
  BY Fields
<1> HIDE DEF a, n
<1>3. Head(<<a>>) = a /\ Tail(<<a>>) = <<>>
  OBVIOUS
<1>4. top = n /\ Tail(stack[th]) = <<>>
  BY <1>2, <1>3, Zenon DEF a
<1>5. <<f, n>> \o <<>> = <<f, n>>
  BY Joined, Zenon
<1> HIDE DEF top
<1> QED BY <1>1, <1>4, <1>5, Zenon DEF Turned, n

\* The same where a call is below it.
LEMMA GoesAndCallsTwo ==
  ASSUME NEW th, NEW of, NEW id, NEW was, NEW at, NEW f, NEW b,
         stack' = GoesAndCalls(th, at, f), stack[th] = <<F(of, id, was), b>>
  PROVE  Turned(th, <<f, F(of, id, at), b>>)
<1> DEFINE a == F(of, id, was)
           n == F(of, id, at)
           top == [Head(stack[th]) EXCEPT !.at = at]
<1>1. stack' = [stack EXCEPT ![th] = <<f, top>> \o Tail(stack[th])]
  BY Zenon DEF GoesAndCalls
<1>2. [a EXCEPT !.at = at] = n
  BY Fields
<1> HIDE DEF a, n
<1>3. Head(<<a, b>>) = a /\ Tail(<<a, b>>) = <<b>>
  OBVIOUS
<1>4. top = n /\ Tail(stack[th]) = <<b>>
  BY <1>2, <1>3, Zenon DEF a
<1>5. <<f, n>> \o <<b>> = <<f, n, b>>
  BY Joined, Zenon
<1> HIDE DEF top
<1> QED BY <1>1, <1>4, <1>5, Zenon DEF Turned, n

\* It returns.
LEMMA ReturnsOne ==
  ASSUME NEW th, NEW a, stack' = Returns(th), stack[th] = <<a>>
  PROVE  Turned(th, <<>>)
<1>1. stack' = [stack EXCEPT ![th] = Tail(stack[th])]
  BY Zenon DEF Returns
<1>2. Tail(<<a>>) = <<>>
  OBVIOUS
<1> QED BY <1>1, <1>2, Zenon DEF Turned

\* The return to the one call below.
LEMMA ReturnsTwo ==
  ASSUME NEW th, NEW a, NEW b, stack' = Returns(th), stack[th] = <<a, b>>
  PROVE  Turned(th, <<b>>)
<1>1. stack' = [stack EXCEPT ![th] = Tail(stack[th])]
  BY Zenon DEF Returns
<1>2. Tail(<<a, b>>) = <<b>>
  OBVIOUS
<1> QED BY <1>1, <1>2, Zenon DEF Turned

\* The return with two calls below.
LEMMA ReturnsThree ==
  ASSUME NEW th, NEW a, NEW b, NEW c, stack' = Returns(th), stack[th] = <<a, b, c>>
  PROVE  Turned(th, <<b, c>>)
<1>1. stack' = [stack EXCEPT ![th] = Tail(stack[th])]
  BY Zenon DEF Returns
<1>2. Tail(<<a, b, c>>) = <<b, c>>
  OBVIOUS
<1> QED BY <1>1, <1>2, Zenon DEF Turned

\* A dialog that has ended refuses: a transaction below it fails, any other caller goes on.
LEMMA RefusesTwo ==
  ASSUME NEW th, NEW a, NEW b, stack' = Refuses(th), stack[th] = <<a, b>>
  PROVE  /\ b.of = "transac" => Turned(th, <<[b EXCEPT !.at = "failed"]>>)
         /\ b.of # "transac" => Turned(th, <<b>>)
<1> DEFINE n == [b EXCEPT !.at = "failed"]
           turned == IF Len(stack[th]) > 1 /\ stack[th][2].of = "transac"
                     THEN <<[stack[th][2] EXCEPT !.at = "failed"]>> \o Tail(Tail(stack[th]))
                     ELSE Tail(stack[th])
<1>1. stack' = [stack EXCEPT ![th] = turned]
  BY Zenon DEF Refuses
<1>2. Len(stack[th]) > 1 /\ stack[th][2] = b /\ Tail(stack[th]) = <<b>> /\ Tail(<<b>>) = <<>>
  <2>1. Len(<<a, b>>) > 1 /\ <<a, b>>[2] = b /\ Tail(<<a, b>>) = <<b>> /\ Tail(<<b>>) = <<>>
    OBVIOUS
  <2> QED BY <2>1, Zenon
<1>3. ASSUME b.of = "transac" PROVE turned = <<n>>
  <2>1. turned = <<[stack[th][2] EXCEPT !.at = "failed"]>> \o Tail(Tail(stack[th]))
    BY <1>2, <1>3, Zenon
  <2>2. <<n>> \o <<>> = <<n>>
    BY Joined, Zenon
  <2> QED BY <1>2, <2>1, <2>2, Zenon
<1>4. b.of # "transac" => turned = <<b>>
  BY <1>2, Zenon
<1> HIDE DEF turned
<1> QED BY <1>1, <1>3, <1>4, Zenon DEF Turned, n

-----------------------------------------------------------------------------
\* Frames, and the locks they hold.

\* A frame is what its fields are.
LEMMA SameFrame ==
  ASSUME NEW of, NEW id, NEW at, NEW of2, NEW id2, NEW at2
  PROVE  F(of, id, at) = F(of2, id2, at2) <=> of = of2 /\ id = id2 /\ at = at2
BY DEF F

\* Every frame is made of its fields.
LEMMA FrameIs ==
  ASSUME NEW b \in Frame
  PROVE  b = F(b.of, b.id, b.at)
BY DEF Frame, F

\* The frames there are.
LEMMA FramesAre ==
  /\ \A t \in Transacs, at \in TransacAt : F("transac", t, at) \in Frame
  /\ \A d \in Dialogs, at \in DialogAt : F("dialog", d, at) \in Frame
  /\ \A d \in Dialogs, at \in CallAt : F("call", d, at) \in Frame
  /\ \A at \in ShutdownAt : F("shutdown", "all", at) \in Frame
BY DEF Frame, F

\* What each kind of frame holds.
LEMMA HoldsAre ==
  ASSUME NEW id, NEW at
  PROVE  /\ Holds(F("transac", id, at)) =
              IF at \in {"starting", "running", "failed"} THEN {TransacLock(id)} ELSE {}
         /\ Holds(F("dialog", id, at)) =
              (IF at # "enter" THEN {DialogLock(id)} ELSE {})
                \cup (IF at = "cancelling" THEN {TransacLayer} ELSE {})
         /\ Holds(F("call", id, at)) = {}
         /\ Holds(F("shutdown", id, at)) = IF at \in {"tell1", "tell2"} THEN {DialogLayer} ELSE {}
<1>1. /\ F("transac", id, at).of = "transac" /\ F("dialog", id, at).of = "dialog"
      /\ F("call", id, at).of = "call" /\ F("shutdown", id, at).of = "shutdown"
      /\ \A of : F(of, id, at).id = id /\ F(of, id, at).at = at
  BY Fields
<1>2. Holds(F("transac", id, at)) =
              IF at \in {"starting", "running", "failed"} THEN {TransacLock(id)} ELSE {}
  BY <1>1 DEF Holds, TransacHolds
<1>3. Holds(F("dialog", id, at)) = DialogHolds(F("dialog", id, at))
  BY <1>1 DEF Holds
<1>4. DialogHolds(F("dialog", id, at)) =
              (IF at # "enter" THEN {DialogLock(id)} ELSE {})
                \cup (IF at = "cancelling" THEN {TransacLayer} ELSE {})
  BY <1>1, Zenon DEF DialogHolds
<1>5. Holds(F("call", id, at)) = {}
  BY <1>1 DEF Holds
<1>6. Holds(F("shutdown", id, at)) = IF at \in {"tell1", "tell2"} THEN {DialogLayer} ELSE {}
  BY <1>1 DEF Holds, ShutdownHolds
<1> QED BY <1>2, <1>3, <1>4, <1>5, <1>6, Zenon

\* No two locks are the same.
LEMMA LocksDiffer ==
  ASSUME NEW x, NEW y
  PROVE  /\ DialogLock(x) = DialogLock(y) <=> x = y
         /\ TransacLock(x) = TransacLock(y) <=> x = y
         /\ DialogLock(x) # TransacLock(y)
         /\ DialogLock(x) # TransacLayer /\ DialogLock(x) # DialogLayer
         /\ TransacLock(x) # TransacLayer /\ TransacLock(x) # DialogLayer
         /\ TransacLayer # DialogLayer
BY DEF DialogLock, TransacLock, TransacLayer, DialogLayer

\* A stack holds what one of its frames holds.
LEMMA HeldInIs ==
  ASSUME NEW s
  PROVE  \A l : l \in HeldIn(s) <=> \E f \in FramesIn(s) : l \in Holds(f)
BY Zenon DEF HeldIn

\* The frames of a stack of each length, and what they hold.
LEMMA NoFrame == FramesIn(<<>>) = {} /\ HeldIn(<<>>) = {}
<1>1. FramesIn(<<>>) = {}
  BY DEF FramesIn
<1> QED BY <1>1, HeldInIs

\* A thread with one call under way.
LEMMA OneFrame ==
  ASSUME NEW a
  PROVE  FramesIn(<<a>>) = {a} /\ HeldIn(<<a>>) = Holds(a)
<1>1. DOMAIN <<a>> = {1} /\ <<a>>[1] = a
  OBVIOUS
<1>2. FramesIn(<<a>>) = {<<a>>[i] : i \in {1}}
  BY <1>1, Zenon DEF FramesIn
<1>3. FramesIn(<<a>>) = {a}
  BY <1>1, <1>2
<1>4. \A l : l \in HeldIn(<<a>>) <=> l \in Holds(a)
  BY <1>3, HeldInIs
<1> QED BY <1>3, <1>4

\* A thread with two.
LEMMA TwoFrames ==
  ASSUME NEW a, NEW b
  PROVE  FramesIn(<<a, b>>) = {a, b} /\ HeldIn(<<a, b>>) = Holds(a) \cup Holds(b)
<1>1. DOMAIN <<a, b>> = {1, 2} /\ <<a, b>>[1] = a /\ <<a, b>>[2] = b
  OBVIOUS
<1> DEFINE s == <<a, b>>
<1>2. FramesIn(s) = {s[i] : i \in {1, 2}}
  BY <1>1, Zenon DEF FramesIn
<1> HIDE DEF s
<1>3. {s[i] : i \in {1, 2}} = {s[1], s[2]}
  OBVIOUS
<1>4. FramesIn(s) = {a, b}
  BY <1>1, <1>2, <1>3, Zenon DEF s
<1>5. \A l : l \in HeldIn(s) <=> l \in Holds(a) \/ l \in Holds(b)
  BY <1>4, HeldInIs
<1>6. HeldIn(s) = Holds(a) \cup Holds(b)
  BY <1>5
<1> QED BY <1>4, <1>6 DEF s

\* A thread with three.
LEMMA ThreeFrames ==
  ASSUME NEW a, NEW b, NEW c
  PROVE  /\ FramesIn(<<a, b, c>>) = {a, b, c}
         /\ HeldIn(<<a, b, c>>) = Holds(a) \cup Holds(b) \cup Holds(c)
<1>1. /\ DOMAIN <<a, b, c>> = {1, 2, 3}
      /\ <<a, b, c>>[1] = a /\ <<a, b, c>>[2] = b /\ <<a, b, c>>[3] = c
  OBVIOUS
<1> DEFINE s == <<a, b, c>>
<1>2. FramesIn(s) = {s[i] : i \in {1, 2, 3}}
  BY <1>1, Zenon DEF FramesIn
<1> HIDE DEF s
<1>3. {s[i] : i \in {1, 2, 3}} = {s[1], s[2], s[3]}
  OBVIOUS
<1>4. FramesIn(s) = {a, b, c}
  BY <1>1, <1>2, <1>3, Zenon DEF s
<1>5. \A l : l \in HeldIn(s) <=> l \in Holds(a) \/ l \in Holds(b) \/ l \in Holds(c)
  BY <1>4, HeldInIs
<1>6. HeldIn(s) = Holds(a) \cup Holds(b) \cup Holds(c)
  BY <1>5
<1> QED BY <1>4, <1>6 DEF s

\* After such a step the other threads are where they were.
LEMMA TurnedIs ==
  ASSUME stack \in [Threads -> Seq(Frame)], NEW th \in Threads, NEW s, Turned(th, s)
  PROVE  /\ stack'[th] = s
         /\ \A o \in Threads \ {th} : stack'[o] = stack[o]
         /\ s \in Seq(Frame) => stack' \in [Threads -> Seq(Frame)]
BY DEF Turned

\* What a thread holds is what its stack holds.
LEMMA HeldIs ==
  /\ \A th \in Threads : Frames(th) = FramesIn(stack[th]) /\ Held(th) = HeldIn(stack[th])
  /\ \A th \in Threads : Frames(th)' = FramesIn(stack'[th]) /\ Held(th)' = HeldIn(stack'[th])
<1>1. \A th : Frames(th) = FramesIn(stack[th]) /\ Held(th) = HeldIn(stack[th])
  BY Zenon DEF Frames, Held, FramesIn, HeldIn
<1>2. \A th : Frames(th)' = FramesIn(stack'[th]) /\ Held(th)' = HeldIn(stack'[th])
  BY Zenon DEF Frames, Held, FramesIn, HeldIn
<1> QED BY <1>1, <1>2

\* Two threads never hold a lock, if none takes one that is not free.
LEMMA LocksKept ==
  ASSUME stack \in [Threads -> Seq(Frame)], NEW th \in Threads, NEW s, Turned(th, s), LockInv,
         \A l \in HeldIn(s) : l \in Held(th) \/ LockFree(th, l)
  PROVE  LockInv'
<1>1. /\ Held(th)' = HeldIn(s)
      /\ \A o \in Threads \ {th} : Held(o)' = Held(o)
  BY TurnedIs, HeldIs
<1>2. \A o \in Threads \ {th} : HeldIn(s) \cap Held(o) = {}
  BY DEF LockInv, LockFree
<1>3. SUFFICES ASSUME NEW a \in Threads, NEW b \in Threads, a # b
              PROVE  Held(a)' \cap Held(b)' = {}
  BY DEF LockInv
<1>4. CASE a = th
  BY <1>1, <1>2, <1>3, <1>4, Zenon
<1>5. CASE b = th
  BY <1>1, <1>2, <1>3, <1>5
<1>6. CASE a # th /\ b # th
  BY <1>1, <1>3, <1>6, Zenon DEF LockInv
<1> QED BY <1>4, <1>5, <1>6

-----------------------------------------------------------------------------
\* What lasts from a state to the next.

\* Stacks of different lengths differ, and equal ones have equal frames.
LEMMA Tuples ==
  ASSUME NEW a, NEW b, NEW c, NEW d, NEW e
  PROVE  /\ <<>> # <<a>> /\ <<>> # <<a, b>> /\ <<>> # <<a, b, c>>
         /\ <<a>> # <<b, c>> /\ <<a>> # <<b, c, d>> /\ <<a, b>> # <<c, d, e>>
         /\ <<a>> = <<b>> <=> a = b
         /\ <<a, b>> = <<c, d>> <=> a = c /\ b = d
         /\ Head(<<a>>) = a /\ Head(<<a, b>>) = a /\ Head(<<a, b, c>>) = a
         /\ Last(<<a>>) = a /\ Last(<<a, b>>) = b
<1>1. /\ Len(<<>>) = 0 /\ Len(<<a>>) = 1 /\ Len(<<b>>) = 1 /\ Len(<<a, b>>) = 2 /\ Len(<<b, c>>) = 2
      /\ Len(<<a, b, c>>) = 3 /\ Len(<<b, c, d>>) = 3 /\ Len(<<c, d, e>>) = 3
  OBVIOUS
<1>2. /\ <<>> # <<a>> /\ <<>> # <<a, b>> /\ <<>> # <<a, b, c>>
      /\ <<a>> # <<b, c>> /\ <<a>> # <<b, c, d>> /\ <<a, b>> # <<c, d, e>>
  BY <1>1
<1>3. /\ <<a>> = <<b>> <=> a = b
      /\ <<a, b>> = <<c, d>> <=> a = c /\ b = d
  OBVIOUS
<1>4. Head(<<a>>) = a /\ Head(<<a, b>>) = a /\ Head(<<a, b, c>>) = a
  OBVIOUS
<1>5. Last(<<a>>) = a /\ Last(<<a, b>>) = b
  <2>1. <<a>>[1] = a /\ <<a, b>>[2] = b
    OBVIOUS
  <2> QED BY <1>1, <2>1, Zenon DEF Last
<1> QED BY <1>2, <1>3, <1>4, <1>5

\* What can only be once, stays so.
Later ==
  /\ \A t \in Transacs : Made(t) => Made(t)' /\ transac'[t].dialog = transac[t].dialog
  /\ \A d \in Dialogs : /\ dialog[d] # "none" => dialog'[d] # "none"
                        /\ Known(d) => Known(d)'
                        /\ dialog[d] = "ended" => dialog'[d] = "ended"

\* The fields of a transaction that was made.
LEMMA DialogOf ==
  ASSUME DataOK, NEW t \in Transacs, Made(t)
  PROVE  /\ transac[t].dialog \in Dialogs /\ transac[t].fsm \in {"started", "going", "terminated"}
         /\ transac[t] = [fsm |-> transac[t].fsm, dialog |-> transac[t].dialog,
                          role |-> transac[t].role]
         /\ transac[t].role \in {"client", "server"}
<1>1. transac[t] \in [fsm : {"started", "going", "terminated"}, dialog : Dialogs, role : {"client", "server"}]
  BY DEF DataOK, Made
<1> QED BY <1>1

\* What a stack is built from lasts while nothing is unmade, ...
LEMMA BaseStays ==
  ASSUME DataOK, Later, NEW th, NEW b \in Frame, Base(th, b)
  PROVE  Base(th, b)'
<1>1. CASE b.of = "transac"
  <2>1. b.id \in Transacs /\ Made(b.id) /\ Known(transac[b.id].dialog)
    BY <1>1 DEF Base
  <2>2. transac[b.id].dialog \in Dialogs
    BY <2>1, DialogOf
  <2>3. Made(b.id)' /\ transac'[b.id].dialog = transac[b.id].dialog
    BY <2>1 DEF Later
  <2>4. Known(transac[b.id].dialog)'
    BY <2>1, <2>2, <2>3 DEF Later, Known
  <2> QED BY <1>1, <2>1, <2>3, <2>4 DEF Base
<1>2. CASE b.of = "call"
  BY <1>2 DEF Base, Later
<1>3. CASE b.of = "shutdown"
  BY <1>3 DEF Base
<1> QED BY <1>1, <1>2, <1>3 DEF Base

\* ... and so does the dialog it calls, ...
LEMMA OverStays ==
  ASSUME DataOK, Later, NEW th, NEW b \in Frame, Base(th, b), NEW d \in Dialogs, NEW at, Over(d, at, b),
         at \in {"run", "new", "find"} => dialog'[d] = "alive"
  PROVE  Over(d, at, b)'
<1>1. b.of = "transac" => b.id \in Transacs /\ Made(b.id)
  BY DEF Base
<1> QED BY <1>1 DEF Over, Later

\* ... and the transaction which that dialog uses.
LEMMA WithinStays ==
  ASSUME Later, NEW t \in Transacs, NEW has, NEW d, NEW at, Within(t, has, d, at)
  PROVE  Within(t, has, d, at)'
BY DEF Within, Later

\* The shapes a stack may take next.
LEMMA Shapes ==
  ASSUME NEW th
  PROVE  /\ Shape(th, <<>>)'
         /\ \A b \in Frame : Base(th, b)' => Shape(th, <<b>>)'
         /\ \A b \in Frame, d \in Dialogs, at \in DialogAt :
              Base(th, b)' /\ Over(d, at, b)' => Shape(th, <<F("dialog", d, at), b>>)'
         /\ \A b \in Frame, d \in Dialogs, at \in DialogAt, t \in Transacs, has \in TransacAt :
              Base(th, b)' /\ Over(d, at, b)' /\ Within(t, has, d, at)' =>
                Shape(th, <<F("transac", t, has), F("dialog", d, at), b>>)'
<1>1. Shape(th, <<>>)'
  BY Zenon DEF Shape
<1>2. ASSUME NEW b \in Frame, Base(th, b)'
      PROVE  Shape(th, <<b>>)'
  BY <1>2, Zenon DEF Shape
<1>3. ASSUME NEW b \in Frame, NEW d \in Dialogs, NEW at \in DialogAt, Base(th, b)', Over(d, at, b)'
      PROVE  Shape(th, <<F("dialog", d, at), b>>)'
  BY <1>3, Zenon DEF Shape
<1>4. ASSUME NEW b \in Frame, NEW d \in Dialogs, NEW at \in DialogAt, NEW t \in Transacs, NEW has \in TransacAt,
             Base(th, b)', Over(d, at, b)', Within(t, has, d, at)'
      PROVE  Shape(th, <<F("transac", t, has), F("dialog", d, at), b>>)'
  BY <1>4, Zenon DEF Shape
<1> QED BY <1>1, <1>2, <1>3, <1>4, Zenon

\* A stack of one of the shapes is a sequence of frames.
LEMMA ShapeIsSeq ==
  ASSUME NEW th, NEW s
  PROVE  /\ Shape(th, s) => s \in Seq(Frame)
         /\ Shape(th, s)' => s \in Seq(Frame)
<1>1. ASSUME NEW b \in Frame
      PROVE  <<b>> \in Seq(Frame)
  OBVIOUS
<1>2. ASSUME NEW b \in Frame, NEW f \in Frame
      PROVE  <<f, b>> \in Seq(Frame)
  OBVIOUS
<1>3. ASSUME NEW b \in Frame, NEW f \in Frame, NEW g \in Frame
      PROVE  <<g, f, b>> \in Seq(Frame)
  OBVIOUS
<1>4. ASSUME NEW b \in Frame, NEW d \in Dialogs, NEW at \in DialogAt
      PROVE  <<F("dialog", d, at), b>> \in Seq(Frame)
  BY <1>2, FramesAre
<1>5. ASSUME NEW b \in Frame, NEW d \in Dialogs, NEW at \in DialogAt, NEW t \in Transacs, NEW has \in TransacAt
      PROVE  <<F("transac", t, has), F("dialog", d, at), b>> \in Seq(Frame)
  BY <1>3, FramesAre
<1>6. ASSUME NEW d \in Dialogs, NEW t \in Transacs
      PROVE  <<F("call", d, "push"), F("transac", t, "start")>> \in Seq(Frame)
  <2>1. "push" \in CallAt /\ "start" \in TransacAt
    BY DEF CallAt, TransacAt
  <2> QED BY <1>2, <2>1, FramesAre
<1>7. <<>> \in Seq(Frame)
  OBVIOUS
<1>8. Shape(th, s) => s \in Seq(Frame)
  BY <1>1, <1>4, <1>5, <1>6, <1>7, Zenon DEF Shape
<1>9. Shape(th, s)' => s \in Seq(Frame)
  BY <1>1, <1>4, <1>5, <1>6, <1>7, Zenon DEF Shape
<1> QED BY <1>8, <1>9

\* A dialog that has been entered is locked.
LEMMA HeldByDialog ==
  ASSUME NEW d, NEW at, NEW b, NEW g, at # "enter"
  PROVE  /\ DialogLock(d) \in HeldIn(<<F("dialog", d, at), b>>)
         /\ DialogLock(d) \in HeldIn(<<g, F("dialog", d, at), b>>)
<1>1. DialogLock(d) \in Holds(F("dialog", d, at))
  BY HoldsAre
<1> QED BY <1>1, TwoFrames, ThreeFrames

\* A step of one thread leaves the others the stacks they may have.
LEMMA ShapeStays ==
  ASSUME DataOK, Later, NEW th \in Threads, NEW s, Shape(th, s),
         \A d \in Dialogs : dialog[d] = "alive" /\ DialogLock(d) \in HeldIn(s) => dialog'[d] = "alive",
         th = "net" => \A d \in Dialogs : dialog[d] = "new" => dialog'[d] = "new"
  PROVE  Shape(th, s)'
<1>1. CASE s = <<>>
  BY <1>1, Shapes
<1>2. ASSUME NEW b \in Frame, Base(th, b), s = <<b>>
      PROVE  Shape(th, s)'
  BY <1>2, BaseStays, Shapes
<1>3. ASSUME NEW b \in Frame, NEW d \in Dialogs, NEW at \in DialogAt, Base(th, b), Over(d, at, b),
             s = <<F("dialog", d, at), b>>
      PROVE  Shape(th, s)'
  <2>1. at \in {"run", "new", "find"} => dialog'[d] = "alive"
    BY <1>3, HeldByDialog DEF Over
  <2>2. Base(th, b)' /\ Over(d, at, b)'
    BY <1>3, <2>1, BaseStays, OverStays
  <2> QED BY <1>3, <2>2, Shapes
<1>4. ASSUME NEW b \in Frame, NEW d \in Dialogs, NEW at \in DialogAt, NEW t \in Transacs, NEW has \in TransacAt,
             Base(th, b), Over(d, at, b), Within(t, has, d, at),
             s = <<F("transac", t, has), F("dialog", d, at), b>>
      PROVE  Shape(th, s)'
  <2>1. at \in {"run", "new", "find"} => dialog'[d] = "alive"
    BY <1>4, HeldByDialog DEF Over
  <2>2. Base(th, b)' /\ Over(d, at, b)' /\ Within(t, has, d, at)'
    BY <1>4, <2>1, BaseStays, OverStays, WithinStays
  <2> QED BY <1>4, <2>2, Shapes
<1>5. ASSUME NEW d \in Dialogs, NEW t \in Transacs,
             th = "net", dialog[d] = "new", Made(t), transac[t].dialog = d,
             s = <<F("call", d, "push"), F("transac", t, "start")>>
      PROVE  Shape(th, s)'
  <2>1. dialog'[d] = "new" /\ Made(t)' /\ transac'[t].dialog = d
    BY <1>5 DEF Later
  <2> QED BY <1>5, <2>1, Zenon DEF Shape
<1> QED BY <1>1, <1>2, <1>3, <1>4, <1>5, Zenon DEF Shape

\* All stacks keep to the shapes when the one that moves does.
LEMMA ShapesKept ==
  ASSUME DataOK, ShapeInv, LockInv, Later, NEW th \in Threads, NEW s, Turned(th, s), Shape(th, s)',
         \A l \in HeldIn(s) : l \in Held(th) \/ LockFree(th, l),
         \A d \in Dialogs : dialog[d] = "alive" => dialog'[d] = "alive" \/ DialogLock(d) \in Held(th),
         \A d \in Dialogs : dialog[d] = "new" => dialog'[d] = "new" \/ th = "net"
  PROVE  ShapeInv' /\ LockInv' /\ stack' \in [Threads -> Seq(Frame)]
<1>1. stack \in [Threads -> Seq(Frame)]
  BY DEF DataOK
<1>2. LockInv'
  BY <1>1, LocksKept
<1>3. stack' \in [Threads -> Seq(Frame)]
  BY <1>1, ShapeIsSeq, TurnedIs
<1>4. ASSUME NEW o \in Threads
      PROVE  \E z : z = stack'[o] /\ Shape(o, z)'
  <2>1. CASE o = th
    <3>1. stack'[o] = s
      BY <1>1, <2>1, TurnedIs
    <3> QED BY <2>1, <3>1
  <2>2. CASE o # th
    <3>1. PICK z : z = stack[o]
      OBVIOUS
    <3>2. stack'[o] = z
      BY <1>1, <2>2, <3>1, TurnedIs
    <3>3. Shape(o, z)
      BY <3>1, Zenon DEF ShapeInv
    <3>4. Held(o) \cap Held(th) = {} /\ Held(o) = HeldIn(z)
      BY <2>2, <3>1, HeldIs DEF LockInv
    <3>5. \A d \in Dialogs : dialog[d] = "alive" /\ DialogLock(d) \in HeldIn(z) => dialog'[d] = "alive"
      BY <3>4
    <3>6. o = "net" => \A d \in Dialogs : dialog[d] = "new" => dialog'[d] = "new"
      BY <2>2
    <3>7. Shape(o, z)'
      BY <3>3, <3>5, <3>6, ShapeStays
    <3> QED BY <3>2, <3>7
  <2> QED BY <2>1, <2>2
<1>5. ShapeInv'
  <2>1. SUFFICES ASSUME NEW o \in Threads PROVE Shape(o, stack[o])'
    BY Zenon DEF ShapeInv
  <2>2. PICK z : z = stack'[o] /\ Shape(o, z)'
    BY <1>4
  <2> QED BY <2>2, Zenon DEF Shape
<1> QED BY <1>2, <1>3, <1>5

-----------------------------------------------------------------------------
\* What is on top of a stack, and what it stands on.

\* What Base says of each kind of frame.
LEMMA BaseIs ==
  ASSUME NEW th, NEW id, NEW at
  PROVE  /\ Base(th, F("transac", id, at)) <=>
              /\ at \in {"start", "event", "starting", "running", "failed", "remove"}
              /\ id \in Transacs /\ Made(id) /\ Known(transac[id].dialog)
              /\ at = "start" => th = "net"
         /\ Base(th, F("call", id, at)) <=>
              \/ at \in {"found", "held", "timer", "crashed"} /\ id \in Dialogs /\ Known(id)
              \/ at = "create" /\ th = "net" /\ id \in Dialogs /\ dialog[id] # "none"
         /\ Base(th, F("shutdown", id, at)) <=> at \in ShutdownAt /\ id = "all" /\ th = "main"
         /\ ~Base(th, F("dialog", id, at))
<1>1. /\ F("transac", id, at).of = "transac" /\ F("dialog", id, at).of = "dialog"
      /\ F("call", id, at).of = "call" /\ F("shutdown", id, at).of = "shutdown"
      /\ \A of : F(of, id, at).id = id /\ F(of, id, at).at = at
  BY Fields
<1>2. Base(th, F("transac", id, at)) <=>
              /\ at \in {"start", "event", "starting", "running", "failed", "remove"}
              /\ id \in Transacs /\ Made(id) /\ Known(transac[id].dialog)
              /\ at = "start" => th = "net"
  BY <1>1 DEF Base
<1>3. Base(th, F("call", id, at)) <=>
              \/ at \in {"found", "held", "timer", "crashed"} /\ id \in Dialogs /\ Known(id)
              \/ at = "create" /\ th = "net" /\ id \in Dialogs /\ dialog[id] # "none"
  BY <1>1 DEF Base
<1>4. Base(th, F("shutdown", id, at)) <=> at \in ShutdownAt /\ id = "all" /\ th = "main"
  BY <1>1 DEF Base
<1>5. ~Base(th, F("dialog", id, at))
  BY <1>1 DEF Base
<1> QED BY <1>2, <1>3, <1>4, <1>5, Zenon

\* The same in the next state.
LEMMA BaseWillBe ==
  ASSUME NEW th, NEW id, NEW at
  PROVE  /\ Base(th, F("transac", id, at))' <=>
              /\ at \in {"start", "event", "starting", "running", "failed", "remove"}
              /\ id \in Transacs /\ Made(id)' /\ Known(transac[id].dialog)'
              /\ at = "start" => th = "net"
         /\ Base(th, F("call", id, at))' <=>
              \/ at \in {"found", "held", "timer", "crashed"} /\ id \in Dialogs /\ Known(id)'
              \/ at = "create" /\ th = "net" /\ id \in Dialogs /\ dialog'[id] # "none"
         /\ Base(th, F("shutdown", id, at))' <=> at \in ShutdownAt /\ id = "all" /\ th = "main"
<1>1. /\ F("transac", id, at).of = "transac" /\ F("dialog", id, at).of = "dialog"
      /\ F("call", id, at).of = "call" /\ F("shutdown", id, at).of = "shutdown"
      /\ \A of : F(of, id, at).id = id /\ F(of, id, at).at = at
  BY Fields
<1>2. Base(th, F("transac", id, at))' <=>
              /\ at \in {"start", "event", "starting", "running", "failed", "remove"}
              /\ id \in Transacs /\ Made(id)' /\ Known(transac[id].dialog)'
              /\ at = "start" => th = "net"
  BY <1>1 DEF Base
<1>3. Base(th, F("call", id, at))' <=>
              \/ at \in {"found", "held", "timer", "crashed"} /\ id \in Dialogs /\ Known(id)'
              \/ at = "create" /\ th = "net" /\ id \in Dialogs /\ dialog'[id] # "none"
  BY <1>1 DEF Base
<1>4. Base(th, F("shutdown", id, at))' <=> at \in ShutdownAt /\ id = "all" /\ th = "main"
  BY <1>1 DEF Base
<1> QED BY <1>2, <1>3, <1>4, Zenon

\* What Over says of each kind of caller.
LEMMA OverIs ==
  ASSUME NEW id, NEW has, NEW d, NEW at
  PROVE  /\ Over(d, at, F("transac", id, has)) <=>
              /\ has \in {"starting", "running"} /\ transac[id].dialog = d /\ Known(d)
              /\ at \in {"run", "new", "find"} => dialog[d] = "alive"
              /\ at \in Leaves => dialog[d] = "ended"
         /\ Over(d, at, F("call", id, has)) <=>
              /\ has \in {"held", "timer"} /\ id = d /\ Known(d)
              /\ at \in {"run", "new", "find"} => dialog[d] = "alive"
              /\ at \in Leaves => dialog[d] = "ended"
         /\ Over(d, at, F("shutdown", id, has)) <=>
              /\ has \in {"tell1", "tell2", "tell3"} /\ Known(d)
              /\ at \in {"run", "new", "find"} => dialog[d] = "alive"
              /\ at \in Leaves => dialog[d] = "ended"
<1>1. /\ F("transac", id, has).of = "transac"
      /\ F("call", id, has).of = "call" /\ F("shutdown", id, has).of = "shutdown"
      /\ \A of : F(of, id, has).id = id /\ F(of, id, has).at = has
  BY Fields
<1>2. Over(d, at, F("transac", id, has)) <=>
              /\ has \in {"starting", "running"} /\ transac[id].dialog = d /\ Known(d)
              /\ at \in {"run", "new", "find"} => dialog[d] = "alive"
              /\ at \in Leaves => dialog[d] = "ended"
  BY <1>1 DEF Over
<1>3. Over(d, at, F("call", id, has)) <=>
              /\ has \in {"held", "timer"} /\ id = d /\ Known(d)
              /\ at \in {"run", "new", "find"} => dialog[d] = "alive"
              /\ at \in Leaves => dialog[d] = "ended"
  BY <1>1 DEF Over
<1>4. Over(d, at, F("shutdown", id, has)) <=>
              /\ has \in {"tell1", "tell2", "tell3"} /\ Known(d)
              /\ at \in {"run", "new", "find"} => dialog[d] = "alive"
              /\ at \in Leaves => dialog[d] = "ended"
  BY <1>1 DEF Over
<1> QED BY <1>2, <1>3, <1>4, Zenon

\* A call reaches a dialog from the same place as it goes on.
LEMMA OverMoves ==
  ASSUME NEW d, NEW b, NEW was, NEW at, Over(d, was, b), UNCHANGED transac,
         Known(d)', at \in {"run", "new", "find"} => dialog'[d] = "alive",
         at \in Leaves => dialog'[d] = "ended"
  PROVE  Over(d, at, b)'
BY DEF Over

\* Where a thread is: at the top of a stack of one of the shapes.
LEMMA Tops ==
  ASSUME ShapeInv, NEW th \in Threads, NEW of, NEW at, Runs(th, of, at)
  PROVE  \/ \E b \in Frame : b.of = of /\ b.at = at /\ Base(th, b) /\ stack[th] = <<b>>
         \/ /\ of = "dialog"
            /\ \E b \in Frame, d \in Dialogs :
                 at \in DialogAt /\ Base(th, b) /\ Over(d, at, b) /\ stack[th] = <<F("dialog", d, at), b>>
         \/ /\ of = "transac"
            /\ \E b \in Frame, d \in Dialogs, dat \in DialogAt, t \in Transacs :
                 /\ at \in TransacAt /\ Base(th, b) /\ Over(d, dat, b) /\ Within(t, at, d, dat)
                 /\ stack[th] = <<F("transac", t, at), F("dialog", d, dat), b>>
         \/ /\ of = "call" /\ at = "push" /\ th = "net"
            /\ \E d \in Dialogs, t \in Transacs :
                 /\ dialog[d] = "new" /\ Made(t) /\ transac[t].dialog = d
                 /\ stack[th] = <<F("call", d, "push"), F("transac", t, "start")>>
<1>1. stack[th] # <<>> /\ Head(stack[th]).at = at /\ Head(stack[th]).of = of
  BY Zenon DEF Runs, Now
<1>2. Shape(th, stack[th])
  BY Zenon DEF ShapeInv
<1>3. ASSUME NEW b \in Frame, Base(th, b), stack[th] = <<b>>
      PROVE  b.of = of /\ b.at = at
  <2>1. Head(stack[th]) = b
    BY <1>3, Tuples
  <2> QED BY <1>1, <2>1
<1>4. ASSUME NEW b \in Frame, NEW d \in Dialogs, NEW dat \in DialogAt, stack[th] = <<F("dialog", d, dat), b>>
      PROVE  of = "dialog" /\ at = dat
  <2>1. Head(stack[th]) = F("dialog", d, dat)
    BY <1>4, Tuples
  <2> QED BY <1>1, <2>1, Fields
<1>5. ASSUME NEW b \in Frame, NEW d \in Dialogs, NEW dat \in DialogAt, NEW t \in Transacs, NEW has \in TransacAt,
             stack[th] = <<F("transac", t, has), F("dialog", d, dat), b>>
      PROVE  of = "transac" /\ at = has
  <2>1. Head(stack[th]) = F("transac", t, has)
    BY <1>5, Tuples
  <2> QED BY <1>1, <2>1, Fields
<1>6. ASSUME NEW d \in Dialogs, NEW t \in Transacs, stack[th] = <<F("call", d, "push"), F("transac", t, "start")>>
      PROVE  of = "call" /\ at = "push"
  <2>1. Head(stack[th]) = F("call", d, "push")
    BY <1>6, Tuples
  <2> QED BY <1>1, <2>1, Fields
<1> QED BY <1>1, <1>2, <1>3, <1>4, <1>5, <1>6, Zenon DEF Shape

\* The same for each kind of function: a transaction's, ...
LEMMA TransacTop ==
  ASSUME ShapeInv, NEW th \in Threads, NEW at, Runs(th, "transac", at)
  PROVE  \/ \E t \in Transacs :
              Base(th, F("transac", t, at)) /\ stack[th] = <<F("transac", t, at)>>
         \/ \E b \in Frame, d \in Dialogs, dat \in DialogAt, t \in Transacs :
              /\ at \in TransacAt /\ Base(th, b) /\ Over(d, dat, b) /\ Within(t, at, d, dat)
              /\ stack[th] = <<F("transac", t, at), F("dialog", d, dat), b>>
<1>1. ASSUME NEW b \in Frame, b.of = "transac", b.at = at, Base(th, b)
      PROVE  b.id \in Transacs /\ b = F("transac", b.id, at)
  BY <1>1, FrameIs DEF Base
<1> QED BY <1>1, Tops

\* ... a dialog's, ...
LEMMA DialogTop ==
  ASSUME ShapeInv, NEW th \in Threads, NEW at, Runs(th, "dialog", at)
  PROVE  \E b \in Frame, d \in Dialogs :
           at \in DialogAt /\ Base(th, b) /\ Over(d, at, b) /\ stack[th] = <<F("dialog", d, at), b>>
<1>1. ASSUME NEW b \in Frame, b.of = "dialog", Base(th, b)
      PROVE  FALSE
  BY <1>1 DEF Base
<1> QED BY <1>1, Tops

\* ... a call, ...
LEMMA CallTop ==
  ASSUME ShapeInv, NEW th \in Threads, NEW at, Runs(th, "call", at), at # "push"
  PROVE  \E d \in Dialogs : Base(th, F("call", d, at)) /\ stack[th] = <<F("call", d, at)>>
<1>1. ASSUME NEW b \in Frame, b.of = "call", b.at = at, Base(th, b)
      PROVE  b.id \in Dialogs /\ b = F("call", b.id, at)
  BY <1>1, FrameIs DEF Base
<1> QED BY <1>1, Tops

\* ... the call that is about to push a new dialog, ...
LEMMA PushTop ==
  ASSUME ShapeInv, NEW th \in Threads, Runs(th, "call", "push")
  PROVE  /\ th = "net"
         /\ \E d \in Dialogs, t \in Transacs :
              /\ dialog[d] = "new" /\ Made(t) /\ transac[t].dialog = d
              /\ stack[th] = <<F("call", d, "push"), F("transac", t, "start")>>
<1>1. ASSUME NEW b \in Frame, b.of = "call", b.at = "push", Base(th, b)
      PROVE  FALSE
  BY <1>1 DEF Base
<1> QED BY <1>1, Tops

\* ... the shutdown.
LEMMA ShutdownTop ==
  ASSUME ShapeInv, NEW th \in Threads, NEW at, Runs(th, "shutdown", at)
  PROVE  at \in ShutdownAt /\ th = "main" /\ stack[th] = <<F("shutdown", "all", at)>>
<1>1. ASSUME NEW b \in Frame, b.of = "shutdown", b.at = at, Base(th, b)
      PROVE  at \in ShutdownAt /\ th = "main" /\ b = F("shutdown", "all", at)
  BY <1>1, FrameIs DEF Base
<1> QED BY <1>1, Tops

-----------------------------------------------------------------------------
\* What a stack owes.

\* What a thread had to do it still has to, or it has done it.
StillOwes(r, s) ==
  /\ \A t \in Transacs : StartsIn(t, r) => StartsIn(t, s) \/ transac'[t].fsm # "started"
  /\ \A d \in Dialogs : EndsIn(d, r) =>
       EndsIn(d, s) \/ \A t \in ToSet(transacs') : transac'[t].dialog = d => transac'[t].fsm # "going"
  /\ \A d \in Dialogs : LeavesIn(d, r) => LeavesIn(d, s) \/ d \notin ToSet(dialogs')
  /\ \A t \in Transacs : RemovesIn(t, r) => RemovesIn(t, s) \/ t \notin ToSet(transacs')
  /\ \A t \in Transacs, d \in Dialogs : FailsIn(t, d, r) /\ dialog'[d] = "ended" =>
       FailsIn(t, d, s) \/ transac'[t].fsm # "going"

\* What is new to do, it has to do.
Owes(th, s) ==
  /\ \A t \in Transacs : Made(t)' =>
       /\ transac'[t].fsm = "started" =>
            (Made(t) /\ transac[t].fsm = "started") \/ (th = "net" /\ StartsIn(t, s))
       /\ transac'[t].fsm # "started" => Known(transac[t].dialog)'
  /\ \A d \in ToSet(dialogs') : dialog'[d] = "ended" =>
       (d \in ToSet(dialogs) /\ dialog[d] = "ended") \/ LeavesIn(d, s)
  /\ \A t \in ToSet(transacs') : transac'[t].fsm = "going" /\ dialog'[transac'[t].dialog] = "ended" =>
       \/ /\ t \in ToSet(transacs) /\ transac[t].fsm = "going" /\ dialog[transac[t].dialog] = "ended"
          /\ transac'[t].dialog = transac[t].dialog
       \/ EndsIn(transac'[t].dialog, s) \/ FailsIn(t, transac'[t].dialog, s)
  /\ \A t \in ToSet(transacs') : transac'[t].fsm = "terminated" =>
       (t \in ToSet(transacs) /\ transac[t].fsm = "terminated") \/ RemovesIn(t, s)

\* EndInv lasts when the thread that moves still owes what it owed.
LEMMA EndKept ==
  ASSUME DataOK, EndInv, NEW th \in Threads, NEW r, NEW s, r = stack[th], Turned(th, s),
         ToSet(dialogs') \subseteq Dialogs, ToSet(transacs') \subseteq Transacs,
         \A t \in ToSet(transacs') : transac'[t].dialog \in Dialogs,
         StillOwes(r, s), Owes(th, s)
  PROVE  EndInv'
<1>1. stack'[th] = s /\ \A o \in Threads \ {th} : stack'[o] = stack[o]
  BY TurnedIs DEF DataOK
<1>2. ASSUME NEW t \in Transacs
      PROVE  StartedOK(t)'
  <2>1. SUFFICES ASSUME Made(t)', transac'[t].fsm = "started"
                 PROVE  StartsIn(t, stack'["net"])
    BY Zenon DEF Owes, StartedOK, StartsIn
  <2>2. CASE th = "net" /\ StartsIn(t, s)
    BY <1>1, <2>2
  <2>3. CASE Made(t) /\ transac[t].fsm = "started"
    <3>1. StartsIn(t, stack["net"])
      BY <2>3, Zenon DEF EndInv, StartedOK
    <3>2. CASE th = "net"
      BY <1>1, <2>1, <3>1, <3>2 DEF StillOwes
    <3>3. CASE th # "net"
      <4>1. stack'["net"] = stack["net"]
        BY <1>1, <3>3 DEF Threads
      <4> QED BY <3>1, <4>1
    <3> QED BY <3>2, <3>3
  <2> QED BY <2>1, <2>2, <2>3, Zenon DEF Owes
<1>3. ASSUME NEW d \in ToSet(dialogs')
      PROVE  DialogListed(d)'
  <2>1. SUFFICES ASSUME dialog'[d] = "ended"
                 PROVE  \E o \in Threads : LeavesIn(d, stack'[o])
    BY Zenon DEF DialogListed, LeavesIn, EndsIn
  <2>2. CASE LeavesIn(d, s)
    BY <1>1, <2>2
  <2>3. CASE d \in ToSet(dialogs) /\ dialog[d] = "ended"
    <3>1. PICK o \in Threads : LeavesIn(d, stack[o])
      BY <2>3, Zenon DEF EndInv, DialogListed
    <3>2. CASE o = th
      BY <1>1, <3>1, <3>2 DEF StillOwes
    <3>3. CASE o # th
      BY <1>1, <3>1, <3>3
    <3> QED BY <3>2, <3>3
  <2> QED BY <2>1, <2>2, <2>3, Zenon DEF Owes
<1>4. ASSUME NEW t \in ToSet(transacs')
      PROVE  TransacListed(t)'
  <2>1. PICK d \in Dialogs : d = transac'[t].dialog
    OBVIOUS
  <2>2. ASSUME transac'[t].fsm = "going", dialog'[d] = "ended"
        PROVE  \E o \in Threads : EndsIn(d, stack'[o]) \/ FailsIn(t, d, stack'[o])
    <3>1. CASE EndsIn(d, s) \/ FailsIn(t, d, s)
      BY <1>1, <3>1
    <3>2. CASE /\ t \in ToSet(transacs) /\ transac[t].fsm = "going" /\ dialog[transac[t].dialog] = "ended"
               /\ d = transac[t].dialog
      <4>1. PICK o \in Threads : EndsIn(d, stack[o]) \/ FailsIn(t, d, stack[o])
        BY <3>2, Zenon DEF EndInv, TransacListed
      <4>2. CASE o # th
        BY <1>1, <4>1, <4>2
      <4>3. CASE o = th
        <5>1. EndsIn(d, r) => EndsIn(d, s)
          BY <2>1, <2>2, Zenon DEF StillOwes
        <5>2. FailsIn(t, d, r) => FailsIn(t, d, s)
          BY <2>1, <2>2, Zenon DEF StillOwes
        <5> QED BY <1>1, <4>1, <4>3, <5>1, <5>2
      <4> QED BY <4>2, <4>3
    <3> QED BY <2>1, <2>2, <3>1, <3>2, Zenon DEF Owes
  <2>3. ASSUME transac'[t].fsm = "terminated"
        PROVE  \E o \in Threads : RemovesIn(t, stack'[o])
    <3>1. CASE RemovesIn(t, s)
      BY <1>1, <3>1
    <3>2. CASE t \in ToSet(transacs) /\ transac[t].fsm = "terminated"
      <4>1. PICK o \in Threads : RemovesIn(t, stack[o])
        BY <3>2, Zenon DEF EndInv, TransacListed
      <4>2. CASE o # th
        BY <1>1, <4>1, <4>2
      <4>3. CASE o = th
        <5>1. RemovesIn(t, r) => RemovesIn(t, s)
          BY Zenon DEF StillOwes
        <5> QED BY <1>1, <4>1, <4>3, <5>1
      <4> QED BY <4>2, <4>3
    <3> QED BY <2>3, <3>1, <3>2, Zenon DEF Owes
  <2> QED BY <2>1, <2>2, <2>3, Zenon DEF TransacListed, EndsIn, FailsIn, RemovesIn
<1> QED BY <1>2, <1>3, <1>4, Zenon DEF EndInv

-----------------------------------------------------------------------------
\* The steps, as far as they are alike.

\* What is left to do of what has been begun.
Task(f) ==
  \/ f.of = "transac" /\ f.at \in {"start", "remove"}
  \/ f.of = "dialog" /\ f.at \in Leaves

\* What was to be done is done, or is owed in another form.
Done(f, s) ==
  \/ f.of = "transac" /\ f.at = "start" /\ transac'[f.id].fsm # "started"
  \/ f.of = "transac" /\ f.at = "remove" /\ f.id \notin ToSet(transacs')
  \/ f.of = "dialog" /\ f.at = "remove" /\ f.id \notin ToSet(dialogs')
  \/ /\ f.of = "dialog" /\ f.at \in {"cancel", "cancelling"} /\ LeavesIn(f.id, s)
     /\ EndsIn(f.id, s)
          \/ \A t \in ToSet(transacs') : transac'[t].dialog = f.id => transac'[t].fsm # "going"

\* A delivery that is bound to fail is still bound to, or the transaction has ended.
FailsStill(r, s) ==
  \A t \in Transacs, d \in Dialogs : FailsIn(t, d, r) /\ dialog'[d] = "ended" =>
    FailsIn(t, d, s) \/ transac'[t].fsm # "going"

\* The tasks, and when each is done.
LEMMA TasksAre ==
  ASSUME NEW x, NEW s
  PROVE  /\ Task(F("transac", x, "start")) /\ Task(F("transac", x, "remove"))
         /\ \A at \in Leaves : Task(F("dialog", x, at))
         /\ Done(F("transac", x, "start"), s) => transac'[x].fsm # "started"
         /\ Done(F("transac", x, "remove"), s) => x \notin ToSet(transacs')
         /\ Done(F("dialog", x, "remove"), s) => x \notin ToSet(dialogs')
         /\ \A at \in {"cancel", "cancelling"} : Done(F("dialog", x, at), s) =>
              /\ LeavesIn(x, s)
              /\ EndsIn(x, s)
                   \/ \A t \in ToSet(transacs') : transac'[t].dialog = x => transac'[t].fsm # "going"
BY Fields DEF Task, Done, Leaves

\* A stack that keeps its tasks still owes what it owed.
LEMMA OwesStill ==
  ASSUME NEW r, NEW s, \A f \in FramesIn(r) : f \in FramesIn(s) \/ ~Task(f) \/ Done(f, s),
         FailsStill(r, s)
  PROVE  StillOwes(r, s)
<1>1. ASSUME NEW t \in Transacs, StartsIn(t, r)
      PROVE  StartsIn(t, s) \/ transac'[t].fsm # "started"
  BY <1>1, TasksAre DEF StartsIn
<1>2. ASSUME NEW d \in Dialogs, EndsIn(d, r)
      PROVE  EndsIn(d, s) \/ \A t \in ToSet(transacs') : transac'[t].dialog = d => transac'[t].fsm # "going"
  <2>1. PICK at \in {"cancel", "cancelling"} : F("dialog", d, at) \in FramesIn(r)
    BY <1>2 DEF EndsIn
  <2>2. CASE F("dialog", d, at) \in FramesIn(s)
    BY <2>2 DEF EndsIn
  <2>3. CASE Done(F("dialog", d, at), s)
    BY <2>3, TasksAre
  <2>4. Task(F("dialog", d, at))
    BY TasksAre DEF Leaves
  <2> QED BY <2>1, <2>2, <2>3, <2>4
<1>3. ASSUME NEW d \in Dialogs, LeavesIn(d, r)
      PROVE  LeavesIn(d, s) \/ d \notin ToSet(dialogs')
  <2>1. PICK at \in Leaves : F("dialog", d, at) \in FramesIn(r)
    BY <1>3 DEF LeavesIn, EndsIn, Leaves
  <2>2. CASE F("dialog", d, at) \in FramesIn(s)
    BY <2>2 DEF LeavesIn, EndsIn, Leaves
  <2>3. CASE Done(F("dialog", d, at), s)
    BY <2>3, TasksAre DEF Leaves
  <2>4. Task(F("dialog", d, at))
    BY TasksAre
  <2> QED BY <2>1, <2>2, <2>3, <2>4
<1>4. ASSUME NEW t \in Transacs, RemovesIn(t, r)
      PROVE  RemovesIn(t, s) \/ t \notin ToSet(transacs')
  BY <1>4, TasksAre DEF RemovesIn
<1> QED BY <1>1, <1>2, <1>3, <1>4, Zenon DEF StillOwes, FailsStill

\* The stacks whose delivery fails.
LEMMA OneFails ==
  ASSUME NEW t, NEW d, NEW a
  PROVE  FailsIn(t, d, <<a>>) <=> a = F("transac", t, "failed")
BY Tuples DEF FailsIn

\* The same with the dialog still to be entered.
LEMMA TwoFails ==
  ASSUME NEW t, NEW d, NEW a, NEW b
  PROVE  FailsIn(t, d, <<a, b>>) <=>
           a = F("dialog", d, "enter") /\ \E at \in {"starting", "running"} : b = F("transac", t, at)
BY Tuples DEF FailsIn

\* All that a step has to show, and then the invariant holds after it.
LEMMA StepKept ==
  ASSUME LayersInv, NEW th \in Threads, NEW r, NEW s, r = stack[th], Turned(th, s), Later,
         Shape(th, s)', \A l \in HeldIn(s) : l \in Held(th) \/ LockFree(th, l),
         \A d \in Dialogs : dialog[d] = "alive" => dialog'[d] = "alive" \/ DialogLock(d) \in Held(th),
         \A d \in Dialogs : dialog[d] = "new" => dialog'[d] = "new" \/ th = "net",
         stack' \in [Threads -> Seq(Frame)] => DataOK', ListInv',
         \A f \in FramesIn(r) : f \in FramesIn(s) \/ ~Task(f) \/ Done(f, s),
         FailsStill(r, s), Owes(th, s)
  PROVE  LayersInv'
<1>1. DataOK /\ ShapeInv /\ LockInv /\ EndInv
  BY DEF LayersInv
<1>2. ShapeInv' /\ LockInv' /\ stack' \in [Threads -> Seq(Frame)]
  BY <1>1, ShapesKept
<1>3. DataOK'
  BY <1>2
<1>4. /\ ToSet(dialogs') \subseteq Dialogs /\ ToSet(transacs') \subseteq Transacs
  BY <1>3 DEF DataOK, ToSet
<1>5. \A t \in ToSet(transacs') : transac'[t].dialog \in Dialogs
  <2>1. SUFFICES ASSUME NEW t \in ToSet(transacs') PROVE transac'[t].dialog \in Dialogs
    OBVIOUS
  <2>2. t \in Transacs /\ Made(t)'
    BY <1>4, Zenon DEF ListInv, Made
  <2>3. transac'[t] \in [fsm : {"started", "going", "terminated"}, dialog : Dialogs, role : {"client", "server"}]
    BY <1>3, <2>2 DEF DataOK, Made
  <2> QED BY <2>3
<1>6. StillOwes(r, s)
  BY OwesStill
<1>7. EndInv'
  BY <1>1, <1>4, <1>5, <1>6, EndKept
<1> QED BY <1>2, <1>3, <1>7, Zenon DEF LayersInv

\* A step that moves a thread, changes no state machine, and may shorten the lists.
LEMMA Leaving ==
  ASSUME LayersInv, NEW th \in Threads, NEW r, NEW s, r = stack[th], Turned(th, s),
         UNCHANGED <<cast, dialog, transac>>,
         calls' \in [Threads -> Nat],
         shutdown' \in [phase2 : BOOLEAN, told : SUBSET Dialogs, wait : BOOLEAN, signaled : BOOLEAN],
         dialogs' \in Seq(Dialogs), IsInjective(dialogs'), ToSet(dialogs') \subseteq ToSet(dialogs),
         transacs' \in Seq(Transacs), IsInjective(transacs'), ToSet(transacs') \subseteq ToSet(transacs),
         Shape(th, s), \A l \in HeldIn(s) : l \in HeldIn(r) \/ LockFree(th, l),
         \A f \in FramesIn(r) : f \in FramesIn(s) \/ ~Task(f) \/ Done(f, s),
         FailsStill(r, s)
  PROVE  LayersInv'
<1>1. Later
  BY DEF Later, Made, Known
<1>2. stack' \in [Threads -> Seq(Frame)] => DataOK'
  BY DEF LayersInv, DataOK
<1>3. ListInv'
  BY DEF LayersInv, ListInv, Made, Known
<1>4. Owes(th, s)
  <2>1. \A t \in Transacs : Made(t)' =>
          /\ transac'[t].fsm = "started" =>
               (Made(t) /\ transac[t].fsm = "started") \/ (th = "net" /\ StartsIn(t, s))
          /\ transac'[t].fsm # "started" => Known(transac[t].dialog)'
    <3>1. SUFFICES ASSUME NEW t \in Transacs, Made(t)'
                   PROVE  /\ transac'[t].fsm = "started" =>
                               (Made(t) /\ transac[t].fsm = "started") \/ (th = "net" /\ StartsIn(t, s))
                          /\ transac'[t].fsm # "started" => Known(transac[t].dialog)'
      OBVIOUS
    <3>2. Made(t) /\ transac'[t].fsm = transac[t].fsm /\ transac'[t].dialog = transac[t].dialog
      BY <3>1 DEF Made
    <3>3. transac[t].fsm # "started" => Known(transac[t].dialog)
      BY <3>2, Zenon DEF LayersInv, EndInv, StartedOK
    <3>4. dialog' = dialog
      OBVIOUS
    <3>5. Known(transac[t].dialog) => Known(transac[t].dialog)'
      BY <3>2, <3>4, Zenon DEF Known
    <3> QED BY <3>2, <3>3, <3>5
  <2>2. dialog' = dialog /\ transac' = transac
    OBVIOUS
  <2>3. \A d \in ToSet(dialogs') : d \in ToSet(dialogs)
    OBVIOUS
  <2>4. \A t \in ToSet(transacs') : t \in ToSet(transacs)
    OBVIOUS
  <2> QED BY <2>1, <2>2, <2>3, <2>4, Zenon DEF Owes
<1>5. Shape(th, s)'
  BY <1>1, ShapeStays DEF LayersInv
<1>6. Held(th) = HeldIn(r)
  BY HeldIs
<1> QED BY <1>1, <1>2, <1>3, <1>4, <1>5, <1>6, StepKept

\* A step that moves a thread and changes no state machine and no list.
LEMMA Moves ==
  ASSUME LayersInv, NEW th \in Threads, NEW r, NEW s, r = stack[th], Turned(th, s),
         UNCHANGED <<cast, dialogs, transacs, dialog, transac>>,
         calls' \in [Threads -> Nat],
         shutdown' \in [phase2 : BOOLEAN, told : SUBSET Dialogs, wait : BOOLEAN, signaled : BOOLEAN],
         Shape(th, s), \A l \in HeldIn(s) : l \in HeldIn(r) \/ LockFree(th, l),
         \A f \in FramesIn(r) : f \in FramesIn(s) \/ ~Task(f) \/ Done(f, s),
         FailsStill(r, s)
  PROVE  LayersInv'
<1>1. /\ dialogs' \in Seq(Dialogs) /\ IsInjective(dialogs') /\ ToSet(dialogs') \subseteq ToSet(dialogs)
      /\ transacs' \in Seq(Transacs) /\ IsInjective(transacs') /\ ToSet(transacs') \subseteq ToSet(transacs)
  BY DEF LayersInv, DataOK, ListInv
<1> QED BY <1>1, Leaving

\* A step in which a transaction is started, or ends.
LEMMA FsmMoves ==
  ASSUME LayersInv, NEW th \in Threads, NEW r, NEW s, r = stack[th], Turned(th, s),
         NEW t \in Transacs, Made(t), Known(transac[t].dialog),
         NEW fsm \in {"going", "terminated"}, transac' = [transac EXCEPT ![t].fsm = fsm],
         fsm = "going" => FailsIn(t, transac[t].dialog, s),
         fsm = "terminated" => RemovesIn(t, s),
         UNCHANGED <<cast, calls, dialogs, transacs, dialog, shutdown>>,
         Shape(th, s), \A l \in HeldIn(s) : l \in HeldIn(r) \/ LockFree(th, l),
         \A f \in FramesIn(r) : f \in FramesIn(s) \/ ~Task(f) \/ Done(f, s),
         FailsStill(r, s)
  PROVE  LayersInv'
<1>1. DataOK /\ ListInv /\ EndInv
  BY DEF LayersInv
<1>2. /\ transac[t].dialog \in Dialogs
      /\ transac[t] = [fsm |-> transac[t].fsm, dialog |-> transac[t].dialog, role |-> transac[t].role]
      /\ transac[t].role \in {"client", "server"}
  BY <1>1, DialogOf
<1>3. /\ transac'[t] = [fsm |-> fsm, dialog |-> transac[t].dialog, role |-> transac[t].role]
      /\ \A u \in Transacs : u # t => transac'[u] = transac[u]
      /\ DOMAIN transac' = Transacs
  BY <1>1, <1>2 DEF DataOK
<1>4. Made(t)' /\ transac'[t].dialog = transac[t].dialog /\ transac'[t].fsm = fsm
  BY <1>3 DEF Made, NoTransac
<1>5. \A u \in Transacs : (Made(u)' <=> Made(u)) /\ transac'[u].dialog = transac[u].dialog
  BY <1>3, <1>4 DEF Made
<1>6. Later
  BY <1>5 DEF Later, Known
<1>7. stack' \in [Threads -> Seq(Frame)] => DataOK'
  <2>1. transac' \in [Transacs -> {NoTransac} \cup
       [fsm : {"started", "going", "terminated"}, dialog : Dialogs, role : {"client", "server"}]]
    <3>1. transac'[t] \in [fsm : {"started", "going", "terminated"}, dialog : Dialogs, role : {"client", "server"}]
      BY <1>2, <1>3
    <3>2. transac' = [u \in Transacs |-> transac'[u]]
      BY <1>1 DEF DataOK
    <3> QED BY <1>1, <1>3, <3>1, <3>2 DEF DataOK
  <2> QED BY <1>1, <2>1 DEF DataOK
<1>8. ToSet(transacs) \subseteq Transacs
  BY <1>1 DEF DataOK, ToSet
<1>9. ListInv'
  BY <1>1, <1>5, <1>8 DEF ListInv, Known
<1>10. Owes(th, s)
  <2>1. ASSUME NEW u \in Transacs, Made(u)'
        PROVE  /\ transac'[u].fsm = "started" =>
                    (Made(u) /\ transac[u].fsm = "started") \/ (th = "net" /\ StartsIn(u, s))
               /\ transac'[u].fsm # "started" => Known(transac[u].dialog)'
    <3>1. CASE u = t
      BY <1>4, <3>1 DEF Known
    <3>2. CASE u # t
      <4>1. Made(u) /\ transac'[u].fsm = transac[u].fsm
        BY <1>3, <1>5, <2>1, <3>2
      <4>2. transac[u].fsm # "started" => Known(transac[u].dialog)
        BY <1>1, <4>1, Zenon DEF EndInv, StartedOK
      <4>3. Known(transac[u].dialog) => Known(transac[u].dialog)'
        <5>1. transac'[u].dialog = transac[u].dialog /\ dialog' = dialog
          BY <1>5
        <5> QED BY <5>1, Zenon DEF Known
      <4> QED BY <4>1, <4>2, <4>3
    <3> QED BY <3>1, <3>2
  <2>2. ASSUME NEW u \in ToSet(transacs'), transac'[u].fsm = "going", dialog'[transac'[u].dialog] = "ended"
        PROVE  \/ /\ u \in ToSet(transacs) /\ transac[u].fsm = "going" /\ dialog[transac[u].dialog] = "ended"
                  /\ transac'[u].dialog = transac[u].dialog
               \/ EndsIn(transac'[u].dialog, s) \/ FailsIn(u, transac'[u].dialog, s)
    BY <1>3, <1>4, <1>5, <1>8, <2>2
  <2>3. ASSUME NEW u \in ToSet(transacs'), transac'[u].fsm = "terminated"
        PROVE  (u \in ToSet(transacs) /\ transac[u].fsm = "terminated") \/ RemovesIn(u, s)
    BY <1>3, <1>4, <1>8, <2>3
  <2>4. \A d \in ToSet(dialogs') : dialog'[d] = "ended" =>
          (d \in ToSet(dialogs) /\ dialog[d] = "ended") \/ LeavesIn(d, s)
    OBVIOUS
  <2> QED BY <2>1, <2>2, <2>3, <2>4, Zenon DEF Owes
<1>11. Shape(th, s)'
  BY <1>1, <1>6, ShapeStays
<1>12. Held(th) = HeldIn(r)
  BY HeldIs
<1> QED BY <1>6, <1>7, <1>9, <1>10, <1>11, <1>12, StepKept

\* Who does not fail.
NoFail(r) == \A t, d : ~FailsIn(t, d, r)

\* The stacks from which no delivery fails.
LEMMA NoFails ==
  ASSUME NEW id, NEW at, NEW b, NEW a
  PROVE  /\ NoFail(<<>>)
         /\ at # "failed" => NoFail(<<F("transac", id, at)>>)
         /\ NoFail(<<F("call", id, at)>>) /\ NoFail(<<F("shutdown", id, at)>>)
         /\ at # "enter" => NoFail(<<F("dialog", id, at), b>>)
         /\ \A x, y : NoFail(<<F("dialog", id, at), F("call", x, y)>>)
         /\ \A x, y : NoFail(<<F("dialog", id, at), F("shutdown", x, y)>>)
         /\ NoFail(<<a, F("transac", id, "start")>>)
         /\ \A c : NoFail(<<a, b, c>>)
         /\ \A r, s : NoFail(r) => FailsStill(r, s)
<1>1. NoFail(<<>>)
  BY Tuples, Zenon DEF NoFail, FailsIn
<1>2. at # "failed" => NoFail(<<F("transac", id, at)>>)
  BY OneFails, SameFrame DEF NoFail
<1>3. NoFail(<<F("call", id, at)>>)
  BY OneFails, SameFrame DEF NoFail
<1>4. NoFail(<<F("shutdown", id, at)>>)
  BY OneFails, SameFrame DEF NoFail
<1>5. at # "enter" => NoFail(<<F("dialog", id, at), b>>)
  BY TwoFails, SameFrame DEF NoFail
<1>6. \A x, y : NoFail(<<F("dialog", id, at), F("call", x, y)>>)
  BY TwoFails, SameFrame DEF NoFail
<1>7. \A x, y : NoFail(<<F("dialog", id, at), F("shutdown", x, y)>>)
  BY TwoFails, SameFrame DEF NoFail
<1>8. NoFail(<<a, F("transac", id, "start")>>)
  BY TwoFails, SameFrame DEF NoFail
<1>9. \A c : NoFail(<<a, b, c>>)
  BY Tuples, Zenon DEF NoFail, FailsIn
<1>10. \A r, s : NoFail(r) => FailsStill(r, s)
  BY Zenon DEF NoFail, FailsStill
<1> QED BY <1>1, <1>2, <1>3, <1>4, <1>5, <1>6, <1>7, <1>8, <1>9, <1>10, Zenon

\* The shapes, one lemma for all steps.
LEMMA ShapesAre ==
  ASSUME NEW th
  PROVE  /\ Shape(th, <<>>)
         /\ \A b \in Frame : Base(th, b) => Shape(th, <<b>>)
         /\ \A b \in Frame, d \in Dialogs, at \in DialogAt :
              Base(th, b) /\ Over(d, at, b) => Shape(th, <<F("dialog", d, at), b>>)
         /\ \A b \in Frame, d \in Dialogs, at \in DialogAt, t \in Transacs, has \in TransacAt :
              Base(th, b) /\ Over(d, at, b) /\ Within(t, has, d, at) =>
                Shape(th, <<F("transac", t, has), F("dialog", d, at), b>>)
<1>1. Shape(th, <<>>)
  BY Zenon DEF Shape
<1>2. ASSUME NEW b \in Frame, Base(th, b)
      PROVE  Shape(th, <<b>>)
  BY <1>2, Zenon DEF Shape
<1>3. ASSUME NEW b \in Frame, NEW d \in Dialogs, NEW at \in DialogAt, Base(th, b), Over(d, at, b)
      PROVE  Shape(th, <<F("dialog", d, at), b>>)
  BY <1>3, Zenon DEF Shape
<1>4. ASSUME NEW b \in Frame, NEW d \in Dialogs, NEW at \in DialogAt, NEW t \in Transacs, NEW has \in TransacAt,
             Base(th, b), Over(d, at, b), Within(t, has, d, at)
      PROVE  Shape(th, <<F("transac", t, has), F("dialog", d, at), b>>)
  BY <1>4, Zenon DEF Shape
<1> QED BY <1>1, <1>2, <1>3, <1>4, Zenon

-----------------------------------------------------------------------------
\* The steps of a transaction.

\* The frames that hold nothing, and the frames that are no tasks.
LEMMA Idle ==
  ASSUME NEW id, NEW at
  PROVE  /\ Holds(F("call", id, at)) = {} /\ ~Task(F("call", id, at))
         /\ ~Task(F("shutdown", id, at))
         /\ at \notin {"start", "remove"} => ~Task(F("transac", id, at))
         /\ at \notin Leaves => ~Task(F("dialog", id, at))
         /\ Holds(F("dialog", id, "enter")) = {}
         /\ at \notin {"starting", "running", "failed"} => Holds(F("transac", id, at)) = {}
BY Fields, HoldsAre DEF Task

\* Who is on top of a stack.
LEMMA HeadIs ==
  ASSUME NEW th, NEW of, NEW id, NEW at, NEW b, NEW c
  PROVE  /\ stack[th] = <<F(of, id, at)>> => Head(stack[th]).id = id
         /\ stack[th] = <<F(of, id, at), b>> => Head(stack[th]).id = id
         /\ stack[th] = <<F(of, id, at), b, c>> => Head(stack[th]).id = id
BY Tuples, Fields

\* A server transaction delivers the request that made it.
LEMMA StartKept ==
  ASSUME LayersInv, NEW th \in Threads, TransacStart(th)
  PROVE  LayersInv'
<1>1. DataOK /\ ShapeInv /\ Runs(th, "transac", "start")
  BY Zenon DEF LayersInv, TransacStart
<1>2. PICK t \in Transacs : Base(th, F("transac", t, "start")) /\ stack[th] = <<F("transac", t, "start")>>
  BY <1>1, TransacTop DEF Within
<1>3. th = "net" /\ Made(t) /\ Known(transac[t].dialog)
  BY <1>2, BaseIs
<1>4. PICK d \in Dialogs : d = transac[t].dialog
  BY <1>1, <1>3, DialogOf
<1> DEFINE b == F("transac", t, "starting")
           e == F("dialog", d, "enter")
           r == <<F("transac", t, "start")>>
           s == <<e, b>>
<1>5. Head(stack[th]).id = t
  BY <1>2, HeadIs
<1>6. /\ LockFree(th, TransacLock(t)) /\ transac' = [transac EXCEPT ![t].fsm = "going"]
      /\ stack' = GoesAndCalls(th, "starting", e)
      /\ UNCHANGED <<cast, calls, dialogs, transacs, dialog, shutdown>>
  BY <1>4, <1>5, Zenon DEF TransacStart
<1>7. Turned(th, s)
  BY <1>2, <1>6, GoesAndCallsOne
<1>8. b \in Frame /\ "enter" \in DialogAt
  BY FramesAre DEF TransacAt, DialogAt
<1>9. Base(th, b) /\ Over(d, "enter", b)
  BY <1>2, <1>3, <1>4, BaseIs, OverIs DEF Leaves
<1>10. Shape(th, s)
  BY <1>8, <1>9, ShapesAre
<1>11. HeldIn(s) = {TransacLock(t)}
  BY TwoFrames, HoldsAre
<1>12. \A f \in FramesIn(r) : f \in FramesIn(s) \/ ~Task(f) \/ Done(f, s)
  <2>1. transac'[t].fsm = "going"
    BY <1>1, <1>3, <1>6, DialogOf DEF DataOK
  <2>2. Done(F("transac", t, "start"), s)
    BY <2>1, Fields DEF Done
  <2> QED BY <2>2, OneFrame
<1>13. FailsStill(r, s)
  BY NoFails
<1>14. FailsIn(t, d, s)
  BY TwoFails
<1> HIDE DEF s, r
<1> QED BY <1>2, <1>3, <1>4, <1>6, <1>7, <1>10, <1>11, <1>12, <1>13, <1>14, FsmMoves DEF r

\* A transaction ends, and its thread goes to remove it: at the bottom of the stack, ...
LEMMA EndKeptOne ==
  ASSUME LayersInv, NEW th \in Threads, NEW t \in Transacs, NEW at \in {"event", "starting", "running", "failed"},
         Base(th, F("transac", t, at)), stack[th] = <<F("transac", t, at)>>,
         TransacEnds(t), stack' = Goes(th, "remove"),
         UNCHANGED <<cast, calls, dialogs, transacs, dialog, shutdown>>
  PROVE  LayersInv'
<1> DEFINE b == F("transac", t, "remove")
           r == <<F("transac", t, at)>>
           s == <<b>>
<1>1. Turned(th, s)
  BY GoesOne
<1>2. Made(t) /\ Known(transac[t].dialog)
  BY BaseIs
<1>3. Shape(th, s)
  <2>1. Base(th, b) /\ b \in Frame
    BY BaseIs, FramesAre DEF TransacAt
  <2> QED BY <2>1, ShapesAre
<1>4. HeldIn(s) = {}
  BY OneFrame, Idle
<1>5. \A f \in FramesIn(r) : ~Task(f)
  BY OneFrame, Idle
<1>6. FailsStill(r, s)
  <2>1. \A u, d : FailsIn(u, d, r) => u = t
    BY OneFails, SameFrame
  <2>2. transac'[t].fsm = "terminated"
    BY <1>2, DialogOf DEF LayersInv, DataOK, TransacEnds
  <2> QED BY <2>1, <2>2 DEF FailsStill
<1>7. RemovesIn(t, s)
  BY OneFrame DEF RemovesIn
<1> HIDE DEF r, s
<1>8. transac' = [transac EXCEPT ![t].fsm = "terminated"]
  BY DEF TransacEnds
<1> QED BY <1>1, <1>2, <1>3, <1>4, <1>5, <1>6, <1>7, <1>8, FsmMoves DEF r

\* ... or under the act on its dialog that made it end.
LEMMA EndKeptThree ==
  ASSUME LayersInv, NEW th \in Threads, NEW t \in Transacs, NEW has \in {"respond", "cancel"},
         NEW b \in Frame, NEW d \in Dialogs, NEW at \in DialogAt,
         Base(th, b), Over(d, at, b), Within(t, has, d, at),
         stack[th] = <<F("transac", t, has), F("dialog", d, at), b>>,
         TransacEnds(t), stack' = Goes(th, "remove"),
         UNCHANGED <<cast, calls, dialogs, transacs, dialog, shutdown>>
  PROVE  LayersInv'
<1> DEFINE e == F("dialog", d, at)
           f1 == F("transac", t, has)
           f2 == F("transac", t, "remove")
           r == <<f1, e, b>>
           s == <<f2, e, b>>
<1>1. Turned(th, s)
  BY GoesThree
<1>2. Made(t) /\ Known(transac[t].dialog)
  BY DEF Within, Over
<1>3. Shape(th, s)
  <2>1. Within(t, "remove", d, at)
    BY DEF Within
  <2> QED BY <2>1, ShapesAre DEF TransacAt
<1>4. HeldIn(s) \subseteq HeldIn(r)
  <2>1. Holds(f2) = {}
    BY Idle
  <2> HIDE DEF f1, f2, e
  <2> QED BY <2>1, ThreeFrames
<1>5. \A f \in FramesIn(r) : f \in FramesIn(s) \/ ~Task(f)
  <2>1. ~Task(f1)
    BY Idle
  <2> HIDE DEF f1, f2, e
  <2> QED BY <2>1, ThreeFrames
<1>6. FailsStill(r, s)
  BY NoFails
<1>7. RemovesIn(t, s)
  <2> HIDE DEF e
  <2> QED BY ThreeFrames DEF RemovesIn
<1> HIDE DEF r, s, e, f1, f2
<1>8. transac' = [transac EXCEPT ![t].fsm = "terminated"]
  BY DEF TransacEnds
<1> QED BY <1>1, <1>2, <1>3, <1>4, <1>5, <1>6, <1>7, <1>8, FsmMoves DEF r, e, f1

\* A thread is done with what it did first, ...
LEMMA ReturnKeptOne ==
  ASSUME LayersInv, NEW th \in Threads, NEW a, stack[th] = <<a>>, stack' = Returns(th), ~Task(a), NoFail(<<a>>),
         UNCHANGED <<cast, dialogs, transacs, dialog, transac, calls>>,
         shutdown' \in [phase2 : BOOLEAN, told : SUBSET Dialogs, wait : BOOLEAN, signaled : BOOLEAN]
  PROVE  LayersInv'
<1>1. Turned(th, <<>>)
  BY ReturnsOne
<1>2. Shape(th, <<>>) /\ HeldIn(<<>>) = {}
  BY ShapesAre, NoFrame
<1>3. FramesIn(<<a>>) = {a} /\ FailsStill(<<a>>, <<>>)
  BY OneFrame, NoFails
<1>4. calls' \in [Threads -> Nat]
  BY DEF LayersInv, DataOK
<1> DEFINE r == <<a>>
<1> HIDE DEF r
<1>5. r = stack[th] /\ FramesIn(r) = {a} /\ FailsStill(r, <<>>)
  BY <1>3 DEF r
<1> QED BY <1>1, <1>2, <1>4, <1>5, Moves

\* ... or with what the act on a dialog did.
LEMMA ReturnKeptThree ==
  ASSUME LayersInv, NEW th \in Threads, NEW a, NEW b \in Frame, NEW d \in Dialogs, NEW at \in DialogAt,
         Base(th, b), Over(d, at, b), ~Task(a),
         stack[th] = <<a, F("dialog", d, at), b>>, stack' = Returns(th),
         UNCHANGED <<cast, calls, dialogs, transacs, dialog, transac, shutdown>>
  PROVE  LayersInv'
<1> DEFINE e == F("dialog", d, at)
           r == <<a, e, b>>
           s == <<e, b>>
<1>1. Turned(th, s)
  BY ReturnsThree
<1>2. Shape(th, s)
  BY ShapesAre
<1>3. FailsStill(r, s)
  BY NoFails
<1> HIDE DEF e
<1>4. HeldIn(s) \subseteq HeldIn(r)
  BY TwoFrames, ThreeFrames
<1>5. \A f \in FramesIn(r) : f \in FramesIn(s) \/ ~Task(f)
  BY TwoFrames, ThreeFrames
<1>6. /\ calls' \in [Threads -> Nat]
      /\ shutdown' \in [phase2 : BOOLEAN, told : SUBSET Dialogs, wait : BOOLEAN, signaled : BOOLEAN]
  BY DEF LayersInv, DataOK
<1> HIDE DEF r, s
<1>7. r = stack[th]
  BY DEF r, e
<1> QED BY <1>1, <1>2, <1>3, <1>4, <1>5, <1>6, <1>7, Moves

-----------------------------------------------------------------------------
\* The lists.

\* A removal takes the element at its place out and moves what follows by one.
LEMMA RemoveAtPlaces ==
  ASSUME NEW S, NEW s \in Seq(S), NEW i \in 1..Len(s)
  PROVE  /\ RemoveAt(s, i) \in Seq(S) /\ Len(RemoveAt(s, i)) = Len(s) - 1
         /\ \A j \in 1..(Len(s) - 1) :
              RemoveAt(s, i)[j] = IF j < i THEN s[j] ELSE s[j + 1]
<1> DEFINE a == SubSeq(s, 1, i - 1)
           b == SubSeq(s, i + 1, Len(s))
<1>1. \A j \in 1..Len(s) : s[j] \in S
  BY ElementOfSeq
<1>2. a \in Seq(S) /\ Len(a) = i - 1 /\ \A j \in 1..(i - 1) : a[j] = s[j]
  BY <1>1, SubSeqProperties
<1>3. /\ b \in Seq(S) /\ Len(b) = Len(s) - i
      /\ \A j \in 1..(Len(s) - i) : b[j] = s[i + j]
  BY <1>1, SubSeqProperties
<1> HIDE DEF a, b
<1>4. RemoveAt(s, i) = a \o b
  BY DEF RemoveAt, a, b
<1>5. /\ a \o b \in Seq(S) /\ Len(a \o b) = Len(a) + Len(b)
      /\ \A j \in 1..(Len(a) + Len(b)) :
           (a \o b)[j] = IF j <= Len(a) THEN a[j] ELSE b[j - Len(a)]
  BY <1>2, <1>3, ConcatProperties
<1>6. ASSUME NEW j \in 1..(Len(s) - 1), j >= i
      PROVE  b[j - (i - 1)] = s[j + 1]
  <2>1. j - (i - 1) \in 1..(Len(s) - i) /\ i + (j - (i - 1)) = j + 1
    BY <1>6
  <2>2. QED
    BY <2>1, <1>3
<1>7. QED
  BY <1>2, <1>3, <1>4, <1>5, <1>6

\* A nonempty set of indices has a least one.
LEMMA LeastIndex ==
  ASSUME NEW n \in Nat, NEW I \in SUBSET (1..n), I # {}
  PROVE  LET l == CHOOSE i \in I : \A j \in I : i <= j
         IN  l \in I /\ \A j \in I : l <= j
<1> DEFINE Less == {p \in Nat \X Nat : p[1] < p[2]}
<1>1. IsWellFoundedOn(Less, Nat)
  BY NatLessThanWellFounded, Zenon DEF OpToRel
<1>2. \A x, y \in Nat : y < x => <<y, x>> \in Less
  OBVIOUS
<1> HIDE DEF Less
<1>3. I \subseteq Nat
  OBVIOUS
<1>4. \E x \in I : \A y \in I : ~(<<y, x>> \in Less)
  BY <1>1, <1>3, WFMin
<1>5. \E i \in I : \A j \in I : i <= j
  <2>1. PICK x \in I : \A y \in I : ~(<<y, x>> \in Less)
    BY <1>4
  <2>2. \A y \in I : ~(y < x)
    BY <1>2, <1>3, <2>1
  <2>3. QED
    BY <1>3, <2>2
<1>6. QED
  BY <1>5

\* The least of some places.
LEMMA MinPlace ==
  ASSUME NEW n \in Nat, NEW I \in SUBSET (1..n), I # {}
  PROVE  Min(I) \in I
BY LeastIndex, Zenon DEF Min

\* The search of a list finds one of the items, if there is one.
LEMMA FirstIn ==
  ASSUME NEW S, NEW s \in Seq(S), NEW items, items # {}, items \subseteq ToSet(s)
  PROVE  First(s, items) \in items
<1> DEFINE I == {i \in 1..Len(s) : s[i] \in items}
<1>1. Len(s) \in Nat /\ DOMAIN s = 1..Len(s)
  BY LenProperties
<1>2. I \in SUBSET (1..Len(s)) /\ I # {}
  BY <1>1 DEF ToSet
<1>3. Min(I) \in I
  BY <1>1, <1>2, MinPlace
<1>4. SelectInSeq(s, LAMBDA item : item \in items) = Min(I)
  BY <1>2, Zenon DEF SelectInSeq
<1> QED BY <1>3, <1>4 DEF First

\* A removal takes out the one place of an item, if it has one.
LEMMA RemoveFirstPlaces ==
  ASSUME NEW S, NEW s \in Seq(S), NEW e
  PROVE  \/ e \notin ToSet(s) /\ RemoveFirst(s, e) = s
         \/ \E i \in 1..Len(s) : s[i] = e /\ RemoveFirst(s, e) = RemoveAt(s, i)
<1> DEFINE I == {i \in 1..Len(s) : s[i] = e}
<1>1. Len(s) \in Nat /\ DOMAIN s = 1..Len(s)
  BY LenProperties
<1>2. CASE I = {}
  <2>1. ~\E i \in 1..Len(s) : s[i] = e
    BY <1>2
  <2> QED BY <1>1, <2>1 DEF RemoveFirst, ToSet
<1>3. CASE I # {}
  <2>1. Min(I) \in I
    BY <1>1, <1>3, MinPlace
  <2>2. SelectInSeq(s, LAMBDA v : v = e) = Min(I)
    BY <1>3, Zenon DEF SelectInSeq
  <2>3. \E i \in 1..Len(s) : s[i] = e
    BY <1>3
  <2>4. RemoveFirst(s, e) = RemoveAt(s, Min(I))
    BY <2>2, <2>3, Zenon DEF RemoveFirst
  <2> QED BY <2>1, <2>4
<1> QED BY <1>2, <1>3

\* A removal from a list without duplicates takes the item and nothing else.
LEMMA RemoveFirstFacts ==
  ASSUME NEW S, NEW s \in Seq(S), IsInjective(s), NEW e
  PROVE  /\ RemoveFirst(s, e) \in Seq(S) /\ IsInjective(RemoveFirst(s, e))
         /\ ToSet(RemoveFirst(s, e)) = ToSet(s) \ {e}
<1>1. Len(s) \in Nat /\ DOMAIN s = 1..Len(s)
  BY LenProperties
<1>2. CASE e \notin ToSet(s) /\ RemoveFirst(s, e) = s
  BY <1>2
<1>3. ASSUME NEW i \in 1..Len(s), s[i] = e, RemoveFirst(s, e) = RemoveAt(s, i)
      PROVE  /\ RemoveFirst(s, e) \in Seq(S) /\ IsInjective(RemoveFirst(s, e))
             /\ ToSet(RemoveFirst(s, e)) = ToSet(s) \ {e}
  <2> DEFINE r == RemoveAt(s, i)
  <2>1. r \in Seq(S) /\ Len(r) = Len(s) - 1
        /\ \A j \in 1..(Len(s) - 1) : r[j] = IF j < i THEN s[j] ELSE s[j + 1]
    BY RemoveAtPlaces
  <2> HIDE DEF r
  <2>2. DOMAIN r = 1..(Len(s) - 1)
    BY <2>1, LenProperties
  <2>3. \A j, k \in 1..Len(s) : s[j] = s[k] => j = k
    BY <1>1, Zenon DEF IsInjective
  <2>4. \A j, k \in 1..(Len(s) - 1) : r[j] = r[k] => j = k
    <3>1. SUFFICES ASSUME NEW j \in 1..(Len(s) - 1), NEW k \in 1..(Len(s) - 1), r[j] = r[k] PROVE j = k
      OBVIOUS
    <3>2. j \in 1..Len(s) /\ k \in 1..Len(s) /\ j + 1 \in 1..Len(s) /\ k + 1 \in 1..Len(s)
      BY <1>1
    <3>3. r[j] = (IF j < i THEN s[j] ELSE s[j + 1]) /\ r[k] = (IF k < i THEN s[k] ELSE s[k + 1])
      BY <2>1
    <3>4. CASE j < i /\ k < i
      BY <2>3, <3>1, <3>2, <3>3, <3>4
    <3>5. CASE j < i /\ ~(k < i)
      <4>1. s[j] = s[k + 1]
        BY <3>1, <3>3, <3>5
      <4>2. j = k + 1
        BY <2>3, <3>2, <4>1
      <4> QED BY <3>5, <4>2
    <3>6. CASE ~(j < i) /\ k < i
      <4>1. s[j + 1] = s[k]
        BY <3>1, <3>3, <3>6
      <4>2. j + 1 = k
        BY <2>3, <3>2, <4>1
      <4> QED BY <3>6, <4>2
    <3>7. CASE ~(j < i) /\ ~(k < i)
      <4>1. s[j + 1] = s[k + 1]
        BY <3>1, <3>3, <3>7
      <4>2. j + 1 = k + 1
        BY <2>3, <3>2, <4>1
      <4> QED BY <4>2
    <3> QED BY <3>4, <3>5, <3>6, <3>7
  <2>5. IsInjective(r)
    BY <2>2, <2>4, Zenon DEF IsInjective
  <2>6. ToSet(r) = {r[j] : j \in 1..(Len(s) - 1)} /\ ToSet(s) = {s[j] : j \in 1..Len(s)}
    BY <1>1, <2>2, Zenon DEF ToSet
  <2>7. ASSUME NEW x \in ToSet(r) PROVE x \in ToSet(s) /\ x # e
    <3>1. PICK j \in 1..(Len(s) - 1) : x = r[j]
      BY <2>6
    <3>2. j \in 1..Len(s) /\ j + 1 \in 1..Len(s)
      BY <1>1
    <3>3. CASE j < i
      <4>1. x = s[j] /\ j # i
        BY <2>1, <3>1, <3>3
      <4> QED BY <1>3, <2>3, <2>6, <3>2, <4>1
    <3>4. CASE ~(j < i)
      <4>1. x = s[j + 1] /\ j + 1 # i
        BY <2>1, <3>1, <3>4
      <4> QED BY <1>3, <2>3, <2>6, <3>2, <4>1
    <3> QED BY <3>3, <3>4
  <2>8. ASSUME NEW x \in ToSet(s), x # e PROVE x \in ToSet(r)
    <3>1. PICK j \in 1..Len(s) : x = s[j]
      BY <2>6
    <3>2. j # i
      BY <1>3, <2>8, <3>1
    <3>3. CASE j < i
      <4>1. j \in 1..(Len(s) - 1) /\ r[j] = x
        BY <1>1, <2>1, <3>1, <3>3
      <4> QED BY <2>6, <4>1
    <3>4. CASE j > i
      <4>1. j - 1 \in 1..(Len(s) - 1) /\ ~(j - 1 < i) /\ (j - 1) + 1 = j
        BY <1>1, <3>4
      <4>2. r[j - 1] = x
        BY <2>1, <3>1, <4>1
      <4> QED BY <2>6, <4>1, <4>2
    <3> QED BY <3>2, <3>3, <3>4
  <2>9. ToSet(r) = ToSet(s) \ {e}
    BY <2>7, <2>8
  <2> QED BY <1>3, <2>1, <2>5, <2>9 DEF r
<1> QED BY <1>2, <1>3, RemoveFirstPlaces

\* A new item keeps a list without duplicates.
LEMMA AppendFacts ==
  ASSUME NEW S, NEW s \in Seq(S), IsInjective(s), NEW e \in S, e \notin ToSet(s)
  PROVE  /\ Append(s, e) \in Seq(S) /\ IsInjective(Append(s, e))
         /\ ToSet(Append(s, e)) = ToSet(s) \cup {e}
<1> DEFINE r == Append(s, e)
<1>1. /\ r \in Seq(S) /\ Len(r) = Len(s) + 1 /\ \A j \in 1..Len(s) : r[j] = s[j]
      /\ r[Len(s) + 1] = e
  BY AppendProperties
<1> HIDE DEF r
<1>2. Len(s) \in Nat /\ DOMAIN s = 1..Len(s) /\ DOMAIN r = 1..(Len(s) + 1)
  BY <1>1, LenProperties
<1>3. /\ ToSet(r) = {r[j] : j \in 1..(Len(s) + 1)} /\ ToSet(s) = {s[j] : j \in 1..Len(s)}
  BY <1>2, Zenon DEF ToSet
<1>4. \A j, k \in 1..Len(s) : s[j] = s[k] => j = k
  BY <1>2, Zenon DEF IsInjective
<1>5. \A j \in 1..(Len(s) + 1) : j \in 1..Len(s) \/ j = Len(s) + 1
  BY <1>2
<1>6. \A j, k \in 1..(Len(s) + 1) : r[j] = r[k] => j = k
  BY <1>1, <1>3, <1>4, <1>5
<1>7. IsInjective(r)
  BY <1>2, <1>6, Zenon DEF IsInjective
<1>8. ToSet(r) = ToSet(s) \cup {e}
  <2>1. \A x \in ToSet(r) : x \in ToSet(s) \cup {e}
    BY <1>1, <1>3, <1>5
  <2>2. \A x \in ToSet(s) : x \in ToSet(r)
    <3>1. \A j \in 1..Len(s) : j \in 1..(Len(s) + 1)
      BY <1>2
    <3> QED BY <1>1, <1>3, <3>1
  <2>3. e \in ToSet(r)
    <3>1. Len(s) + 1 \in 1..(Len(s) + 1)
      BY <1>2
    <3> QED BY <1>1, <1>3, <3>1
  <2> QED BY <2>1, <2>2, <2>3
<1> QED BY <1>1, <1>7, <1>8 DEF r

-----------------------------------------------------------------------------
\* The steps of a transaction, continued.

\* A transaction delivers to its dialog.
LEMMA EventKept ==
  ASSUME LayersInv, NEW th \in Threads, TransacEvent(th)
  PROVE  LayersInv'
<1>1. DataOK /\ ShapeInv /\ Runs(th, "transac", "event")
  BY Zenon DEF LayersInv, TransacEvent
<1>2. PICK t \in Transacs : Base(th, F("transac", t, "event")) /\ stack[th] = <<F("transac", t, "event")>>
  BY <1>1, TransacTop DEF Within
<1>3. Made(t) /\ Known(transac[t].dialog)
  BY <1>2, BaseIs
<1>4. PICK d \in Dialogs : d = transac[t].dialog
  BY <1>1, <1>3, DialogOf
<1>5. Head(stack[th]).id = t
  BY <1>2, HeadIs
<1> DEFINE e == F("dialog", d, "enter")
<1>6. /\ LockFree(th, TransacLock(t))
      /\ \/ UNCHANGED transac /\ stack' = GoesAndCalls(th, "running", e)
         \/ TransacEnds(t) /\ stack' = Goes(th, "remove")
         \/ stack' = Returns(th) /\ UNCHANGED transac
      /\ UNCHANGED <<cast, calls, dialogs, transacs, dialog, shutdown>>
  BY <1>4, <1>5, Zenon DEF TransacEvent
<1>7. CASE TransacEnds(t) /\ stack' = Goes(th, "remove")
  BY <1>2, <1>6, <1>7, EndKeptOne
<1>8. CASE stack' = Returns(th) /\ UNCHANGED transac
  <2>1. ~Task(F("transac", t, "event")) /\ NoFail(<<F("transac", t, "event")>>)
    BY Idle, NoFails
  <2>2. shutdown' \in [phase2 : BOOLEAN, told : SUBSET Dialogs, wait : BOOLEAN, signaled : BOOLEAN]
    BY <1>1, <1>6 DEF DataOK
  <2> QED BY <1>2, <1>6, <1>8, <2>1, <2>2, ReturnKeptOne
<1>9. CASE UNCHANGED transac /\ stack' = GoesAndCalls(th, "running", e)
  <2> DEFINE b == F("transac", t, "running")
             r == <<F("transac", t, "event")>>
             s == <<e, b>>
  <2>1. Turned(th, s)
    BY <1>2, <1>9, GoesAndCallsOne
  <2>2. b \in Frame /\ "enter" \in DialogAt
    BY FramesAre DEF TransacAt, DialogAt
  <2>3. Base(th, b) /\ Over(d, "enter", b)
    BY <1>2, <1>3, <1>4, BaseIs, OverIs DEF Leaves
  <2>4. Shape(th, s)
    BY <2>2, <2>3, ShapesAre
  <2>5. HeldIn(s) = {TransacLock(t)}
    BY TwoFrames, HoldsAre
  <2>6. \A f \in FramesIn(r) : ~Task(f)
    BY OneFrame, Idle
  <2>7. FailsStill(r, s)
    BY NoFails
  <2>8. /\ calls' \in [Threads -> Nat]
        /\ shutdown' \in [phase2 : BOOLEAN, told : SUBSET Dialogs, wait : BOOLEAN, signaled : BOOLEAN]
    BY <1>1, <1>6 DEF DataOK
  <2> HIDE DEF s, r
  <2> QED BY <1>2, <1>6, <1>9, <2>1, <2>4, <2>5, <2>6, <2>7, <2>8, Moves DEF r
<1> QED BY <1>6, <1>7, <1>8, <1>9

\* The dialog's response, from its handler; what it cancels, from its end.
LEMMA ActKept ==
  ASSUME LayersInv, NEW th \in Threads, NEW has \in {"respond", "cancel"}, Runs(th, "transac", has),
         \/ TransacEnds(Head(stack[th]).id) /\ stack' = Goes(th, "remove")
         \/ stack' = Returns(th) /\ UNCHANGED transac,
         UNCHANGED <<cast, calls, dialogs, transacs, dialog, shutdown>>
  PROVE  LayersInv'
<1>1. ShapeInv
  BY DEF LayersInv
<1>2. PICK b \in Frame, d \in Dialogs, at \in DialogAt, t \in Transacs :
        /\ Base(th, b) /\ Over(d, at, b) /\ Within(t, has, d, at)
        /\ stack[th] = <<F("transac", t, has), F("dialog", d, at), b>>
  BY <1>1, TransacTop, BaseIs
<1>3. Head(stack[th]).id = t
  BY <1>2, HeadIs
<1>4. CASE TransacEnds(t) /\ stack' = Goes(th, "remove")
  BY <1>2, <1>4, EndKeptThree
<1>5. CASE stack' = Returns(th) /\ UNCHANGED transac
  <2>1. ~Task(F("transac", t, has))
    BY Idle
  <2> QED BY <1>2, <1>5, <2>1, ReturnKeptThree
<1> QED BY <1>3, <1>4, <1>5

\* The dialog's response.
LEMMA RespondKept ==
  ASSUME LayersInv, NEW th \in Threads, TransacRespond(th)
  PROVE  LayersInv'
<1>1. /\ Runs(th, "transac", "respond")
      /\ \/ TransacEnds(Head(stack[th]).id) /\ stack' = Goes(th, "remove")
         \/ stack' = Returns(th) /\ UNCHANGED transac
      /\ UNCHANGED <<cast, calls, dialogs, transacs, dialog, shutdown>>
  BY Zenon DEF TransacRespond
<1> QED BY <1>1, ActKept

\* The dialog's cancel.
LEMMA CancelKept ==
  ASSUME LayersInv, NEW th \in Threads, TransacCancel(th)
  PROVE  LayersInv'
<1>1. /\ Runs(th, "transac", "cancel")
      /\ \/ TransacEnds(Head(stack[th]).id) /\ stack' = Goes(th, "remove")
         \/ stack' = Returns(th) /\ UNCHANGED transac
      /\ UNCHANGED <<cast, calls, dialogs, transacs, dialog, shutdown>>
  BY Zenon DEF TransacCancel
<1> QED BY <1>1, ActKept

\* The dialog has been told.
LEMMA DeliveredKept ==
  ASSUME LayersInv, NEW th \in Threads, TransacDelivered(th)
  PROVE  LayersInv'
<1>1. ShapeInv
  BY DEF LayersInv
<1>2. PICK at \in {"starting", "running", "failed"} : Runs(th, "transac", at)
  BY Zenon DEF TransacDelivered
<1>3. PICK t \in Transacs : Base(th, F("transac", t, at)) /\ stack[th] = <<F("transac", t, at)>>
  BY <1>1, <1>2, TransacTop DEF Within
<1>4. Head(stack[th]).id = t
  BY <1>3, HeadIs
<1>5. /\ \/ TransacEnds(t) /\ stack' = Goes(th, "remove")
         \/ ~Now(th, "failed") /\ stack' = Returns(th) /\ UNCHANGED transac
      /\ UNCHANGED <<cast, calls, dialogs, transacs, dialog, shutdown>>
  BY <1>4, Zenon DEF TransacDelivered
<1>6. CASE TransacEnds(t) /\ stack' = Goes(th, "remove")
  BY <1>3, <1>5, <1>6, EndKeptOne
<1>7. CASE ~Now(th, "failed") /\ stack' = Returns(th) /\ UNCHANGED transac
  <2>1. at # "failed"
    BY <1>2, <1>7, Zenon DEF Runs
  <2>2. ~Task(F("transac", t, at)) /\ NoFail(<<F("transac", t, at)>>)
    BY <2>1, Idle, NoFails
  <2>3. shutdown' \in [phase2 : BOOLEAN, told : SUBSET Dialogs, wait : BOOLEAN, signaled : BOOLEAN]
    BY <1>5 DEF LayersInv, DataOK
  <2> QED BY <1>3, <1>5, <1>7, <2>2, <2>3, ReturnKeptOne
<1> QED BY <1>5, <1>6, <1>7

\* A transaction that has ended leaves the list.
LEMMA TransacRemoveKept ==
  ASSUME LayersInv, NEW th \in Threads, TransacRemove(th)
  PROVE  LayersInv'
<1>1. ShapeInv /\ DataOK /\ ListInv
  BY DEF LayersInv
<1>2. /\ Runs(th, "transac", "remove") /\ stack' = Returns(th)
      /\ transacs' = RemoveFirst(transacs, Head(stack[th]).id)
      /\ UNCHANGED <<cast, calls, dialogs, dialog, transac, shutdown>>
  BY Zenon DEF TransacRemove
<1>3. ASSUME NEW t, Head(stack[th]).id = t
      PROVE  /\ dialogs' \in Seq(Dialogs) /\ IsInjective(dialogs') /\ ToSet(dialogs') \subseteq ToSet(dialogs)
             /\ transacs' \in Seq(Transacs) /\ IsInjective(transacs') /\ ToSet(transacs') \subseteq ToSet(transacs)
             /\ t \notin ToSet(transacs')
             /\ calls' \in [Threads -> Nat]
             /\ shutdown' \in [phase2 : BOOLEAN, told : SUBSET Dialogs, wait : BOOLEAN, signaled : BOOLEAN]
  <2>1. transacs \in Seq(Transacs) /\ IsInjective(transacs) /\ transacs' = RemoveFirst(transacs, t)
    BY <1>1, <1>2, <1>3 DEF DataOK, ListInv
  <2>2. transacs' \in Seq(Transacs) /\ IsInjective(transacs') /\ ToSet(transacs') = ToSet(transacs) \ {t}
    BY <2>1, RemoveFirstFacts
  <2> QED BY <1>1, <1>2, <2>2 DEF DataOK, ListInv
<1>4. ASSUME NEW t \in Transacs, stack[th] = <<F("transac", t, "remove")>>
      PROVE  LayersInv'
  <2> DEFINE r == <<F("transac", t, "remove")>>
  <2>1. Turned(th, <<>>)
    BY <1>2, <1>4, ReturnsOne
  <2>2. Head(stack[th]).id = t
    BY <1>4, HeadIs
  <2>3. Shape(th, <<>>) /\ HeldIn(<<>>) = {} /\ FailsStill(r, <<>>)
    BY ShapesAre, NoFrame, NoFails
  <2>4. \A f \in FramesIn(r) : Done(f, <<>>)
    <3>1. Done(F("transac", t, "remove"), <<>>)
      BY <1>3, <2>2, Fields DEF Done
    <3> QED BY <3>1, OneFrame
  <2> HIDE DEF r
  <2> QED BY <1>2, <1>3, <1>4, <2>1, <2>2, <2>3, <2>4, Leaving DEF r
<1>5. ASSUME NEW b \in Frame, NEW d \in Dialogs, NEW at \in DialogAt, NEW t \in Transacs,
             Base(th, b), Over(d, at, b), stack[th] = <<F("transac", t, "remove"), F("dialog", d, at), b>>
      PROVE  LayersInv'
  <2> DEFINE e == F("dialog", d, at)
             a == F("transac", t, "remove")
             r == <<a, e, b>>
             s == <<e, b>>
  <2>1. Turned(th, s)
    BY <1>2, <1>5, ReturnsThree
  <2>2. Head(stack[th]).id = t
    BY <1>5, HeadIs
  <2>3. Shape(th, s) /\ FailsStill(r, s)
    BY <1>5, ShapesAre, NoFails
  <2>4. Done(a, s)
    BY <1>3, <2>2, Fields DEF Done
  <2>5. Holds(a) = {}
    BY Idle
  <2> HIDE DEF a, e
  <2>6. HeldIn(s) \subseteq HeldIn(r) /\ \A f \in FramesIn(r) : f \in FramesIn(s) \/ Done(f, s)
    BY <2>4, <2>5, TwoFrames, ThreeFrames
  <2> HIDE DEF r, s
  <2> QED BY <1>2, <1>3, <1>5, <2>1, <2>2, <2>3, <2>6, Leaving DEF r, a, e
<1> QED BY <1>1, <1>2, <1>4, <1>5, TransacTop

-----------------------------------------------------------------------------
\* The acts on a dialog.
LEMMA DialogEnterKept ==
  ASSUME LayersInv, NEW th \in Threads, DialogEnter(th)
  PROVE  LayersInv'
<1>1. ShapeInv /\ DataOK /\ Runs(th, "dialog", "enter")
  BY Zenon DEF LayersInv, DialogEnter
<1>2. PICK b \in Frame, d \in Dialogs :
        Base(th, b) /\ Over(d, "enter", b) /\ stack[th] = <<F("dialog", d, "enter"), b>>
  BY <1>1, DialogTop
<1>3. Head(stack[th]).id = d
  BY <1>2, HeadIs
<1> DEFINE r == <<F("dialog", d, "enter"), b>>
<1>4. LockFree(th, DialogLock(d)) /\ UNCHANGED <<cast, calls, dialogs, transacs, dialog, transac>>
  BY <1>3, Zenon DEF DialogEnter
<1>5. calls' \in [Threads -> Nat]
  BY <1>1, <1>4 DEF DataOK
<1>6. Known(d)
  BY <1>2 DEF Over
<1>7. CASE dialog[d] = "ended"
  <2>1. stack' = Refuses(th) /\ UNCHANGED shutdown
    BY <1>3, <1>7, Zenon DEF DialogEnter
  <2>2. shutdown' \in [phase2 : BOOLEAN, told : SUBSET Dialogs, wait : BOOLEAN, signaled : BOOLEAN]
    BY <1>1, <2>1 DEF DataOK
  <2>3. ASSUME b.of # "transac"
        PROVE  LayersInv'
    <3> DEFINE e == F("dialog", d, "enter")
               s == <<b>>
    <3>1. Turned(th, s)
      BY <1>2, <2>1, <2>3, RefusesTwo
    <3>2. Shape(th, s)
      BY <1>2, ShapesAre
    <3>3. FailsStill(r, s)
      <4>1. \A t, dd : ~FailsIn(t, dd, r)
        BY <2>3, TwoFails, Fields
      <4> QED BY <4>1 DEF FailsStill
    <3>4. ~Task(e)
      BY Idle DEF Leaves
    <3> HIDE DEF e
    <3>5. FramesIn(s) = {b} /\ FramesIn(<<e, b>>) = {e, b} /\ HeldIn(s) \subseteq HeldIn(<<e, b>>)
      BY OneFrame, TwoFrames
    <3>6. r = <<e, b>>
      BY DEF e
    <3> HIDE DEF r, s
    <3> QED BY <1>2, <1>4, <1>5, <2>2, <3>1, <3>2, <3>3, <3>4, <3>5, <3>6, Moves DEF e
  <2>4. ASSUME b.of = "transac"
        PROVE  LayersInv'
    <3>1. PICK t \in Transacs, has \in {"starting", "running"} : b = F("transac", t, has)
      BY <1>2, <2>4, FrameIs DEF Base, Over
    <3> DEFINE e == F("dialog", d, "enter")
               c == F("transac", t, "failed")
               s == <<c>>
    <3>2. Turned(th, s)
      <4>1. Turned(th, <<[b EXCEPT !.at = "failed"]>>)
        BY <1>2, <2>1, <2>4, RefusesTwo
      <4>2. [b EXCEPT !.at = "failed"] = c
        BY <3>1, Fields
      <4> QED BY <4>1, <4>2
    <3>3. Shape(th, s)
      <4>1. Base(th, c)
        BY <1>2, <3>1, BaseIs
      <4> QED BY <4>1, FramesAre, ShapesAre DEF TransacAt
    <3>4. FailsStill(r, s)
      <4>1. \A u, dd : FailsIn(u, dd, r) => u = t
        BY <3>1, TwoFails, SameFrame
      <4>2. \A dd : FailsIn(t, dd, s)
        BY OneFails
      <4> QED BY <4>1, <4>2 DEF FailsStill
    <3>5. ~Task(e) /\ ~Task(b)
      BY <3>1, Idle DEF Leaves
    <3>6. Holds(b) = {TransacLock(t)} /\ Holds(c) = {TransacLock(t)}
      BY <3>1, HoldsAre
    <3> HIDE DEF e, c
    <3>7. FramesIn(s) = {c} /\ FramesIn(<<e, b>>) = {e, b} /\ HeldIn(s) \subseteq HeldIn(<<e, b>>)
      BY <3>6, OneFrame, TwoFrames
    <3>8. r = <<e, b>>
      BY DEF e
    <3> HIDE DEF r, s
    <3> QED BY <1>2, <1>4, <1>5, <2>2, <3>2, <3>3, <3>4, <3>5, <3>7, <3>8, Moves DEF e
  <2> QED BY <2>3, <2>4
<1>8. CASE dialog[d] # "ended"
  <2>1. PICK at \in {"run", "find", "new"} : stack' = Goes(th, at)
    BY <1>3, <1>8, Zenon DEF DialogEnter
  <2>2. shutdown' \in [phase2 : BOOLEAN, told : SUBSET Dialogs, wait : BOOLEAN, signaled : BOOLEAN]
    <3>1. PICK w \in BOOLEAN : shutdown' = [shutdown EXCEPT !.wait = w]
      <4>1. shutdown.wait \in BOOLEAN
        BY <1>1 DEF DataOK
      <4>2. shutdown' = [shutdown EXCEPT !.wait = shutdown.wait \/ Last(stack[th]).of = "shutdown"]
        BY <1>3, <1>8, Zenon DEF DialogEnter
      <4> QED BY <4>1, <4>2
    <3> QED BY <1>1, <3>1 DEF DataOK
  <2> DEFINE e == F("dialog", d, "enter")
             g == F("dialog", d, at)
             s == <<g, b>>
  <2>3. Turned(th, s)
    BY <1>2, <2>1, GoesTwo
  <2>4. Shape(th, s)
    <3>1. dialog[d] = "alive"
      BY <1>6, <1>8 DEF Known
    <3>2. Over(d, at, b)
      BY <1>2, <3>1 DEF Over, Leaves
    <3> QED BY <1>2, <3>2, ShapesAre DEF DialogAt
  <2>5. FailsStill(r, s)
    BY <1>4, <1>8, TwoFails, SameFrame DEF FailsStill
  <2>6. ~Task(e)
    BY Idle DEF Leaves
  <2>7. Holds(e) = {} /\ Holds(g) = {DialogLock(d)}
    BY HoldsAre
  <2> HIDE DEF e, g
  <2>8. /\ FramesIn(s) = {g, b} /\ FramesIn(<<e, b>>) = {e, b}
        /\ \A l \in HeldIn(s) : l = DialogLock(d) \/ l \in HeldIn(<<e, b>>)
    BY <2>7, TwoFrames
  <2>9. r = <<e, b>>
    BY DEF e
  <2> HIDE DEF r, s
  <2> QED BY <1>2, <1>4, <1>5, <2>2, <2>3, <2>4, <2>5, <2>6, <2>8, <2>9, Moves DEF e
<1> QED BY <1>7, <1>8

-----------------------------------------------------------------------------
\* The steps of a dialog.

\* A step that makes a transaction, which nobody knew.
LEMMA NewKept ==
  ASSUME LayersInv, NEW th \in Threads, NEW r, NEW s, r = stack[th], Turned(th, s),
         NEW t \in FreshTransacs, NEW d \in Dialogs, NEW role \in {"client", "server"},
         NEW fsm \in {"started", "going"}, NewTransac(t, d, role, fsm),
         fsm = "going" => dialog[d] = "alive",
         fsm = "started" => th = "net" /\ StartsIn(t, s),
         UNCHANGED <<cast, calls, dialogs, dialog, shutdown>>,
         Made(t)' /\ transac'[t].dialog = d /\ Later => Shape(th, s)',
         \A l \in HeldIn(s) : l \in HeldIn(r) \/ LockFree(th, l),
         \A f \in FramesIn(r) : f \in FramesIn(s) \/ ~Task(f), FailsStill(r, s)
  PROVE  LayersInv'
<1>1. DataOK /\ ListInv /\ EndInv
  BY DEF LayersInv
<1>2. t \in Transacs /\ ~Made(t)
  <2>1. t \in Transacs /\ transac[t].fsm = "none"
    BY DEF FreshTransacs, Transacs
  <2> QED BY <1>1, <2>1, DialogOf
<1>3. /\ transac'[t] = [fsm |-> fsm, dialog |-> d, role |-> role]
      /\ \A u \in Transacs : u # t => transac'[u] = transac[u]
      /\ transacs' = Append(transacs, t)
  BY <1>1, <1>2 DEF NewTransac, DataOK
<1>4. Made(t)' /\ transac'[t].dialog = d /\ transac'[t].fsm = fsm
  BY <1>3 DEF Made, NoTransac
<1>5. \A u \in Transacs : Made(u) => u # t /\ Made(u)' /\ transac'[u] = transac[u]
  BY <1>2, <1>3 DEF Made
<1>6. Later
  BY <1>5 DEF Later, Known
<1>7. ToSet(transacs) \subseteq Transacs /\ t \notin ToSet(transacs)
  BY <1>1, <1>2 DEF DataOK, ListInv, ToSet
<1>8. transacs' \in Seq(Transacs) /\ IsInjective(transacs') /\ ToSet(transacs') = ToSet(transacs) \cup {t}
  BY <1>1, <1>2, <1>3, <1>7, AppendFacts DEF DataOK, ListInv
<1>9. stack' \in [Threads -> Seq(Frame)] => DataOK'
  <2>1. transac' \in [Transacs -> {NoTransac} \cup
       [fsm : {"started", "going", "terminated"}, dialog : Dialogs, role : {"client", "server"}]]
    <3>1. transac'[t] \in [fsm : {"started", "going", "terminated"}, dialog : Dialogs, role : {"client", "server"}]
      BY <1>3
    <3>2. transac' = [u \in Transacs |-> transac'[u]]
      BY <1>1 DEF DataOK, NewTransac
    <3> QED BY <1>1, <1>3, <3>1, <3>2 DEF DataOK
  <2> QED BY <1>1, <1>8, <2>1 DEF DataOK
<1>10. ListInv'
  <2>1. \A u \in ToSet(transacs') : Made(u)'
    BY <1>1, <1>4, <1>5, <1>7, <1>8 DEF ListInv
  <2> QED BY <1>1, <1>8, <2>1 DEF ListInv, Known
<1>11. Owes(th, s)
  <2>1. ASSUME NEW u \in Transacs, Made(u)'
        PROVE  /\ transac'[u].fsm = "started" =>
                    (Made(u) /\ transac[u].fsm = "started") \/ (th = "net" /\ StartsIn(u, s))
               /\ transac'[u].fsm # "started" => Known(transac[u].dialog)'
    <3>1. CASE u = t
      BY <1>4, <3>1 DEF Known
    <3>2. CASE u # t
      <4>1. Made(u) /\ transac'[u] = transac[u] /\ dialog' = dialog
        BY <1>3, <2>1, <3>2 DEF Made
      <4>2. transac[u].fsm # "started" => Known(transac[u].dialog)
        BY <1>1, <4>1, Zenon DEF EndInv, StartedOK
      <4>3. Known(transac[u].dialog) => Known(transac[u].dialog)'
        BY <4>1, Zenon DEF Known
      <4> QED BY <4>1, <4>2, <4>3
    <3> QED BY <3>1, <3>2
  <2>2. \A e \in ToSet(dialogs') : dialog'[e] = "ended" =>
          (e \in ToSet(dialogs) /\ dialog[e] = "ended") \/ LeavesIn(e, s)
    OBVIOUS
  <2>3. \A u \in ToSet(transacs') : u = t \/ (u \in ToSet(transacs) /\ transac'[u] = transac[u])
    BY <1>3, <1>7, <1>8
  <2>4. ASSUME NEW u \in ToSet(transacs'), transac'[u].fsm = "going", dialog'[transac'[u].dialog] = "ended"
        PROVE  /\ u \in ToSet(transacs) /\ transac[u].fsm = "going" /\ dialog[transac[u].dialog] = "ended"
               /\ transac'[u].dialog = transac[u].dialog
    <3>1. u # t
      BY <1>4, <2>4
    <3> QED BY <2>3, <2>4, <3>1
  <2>5. ASSUME NEW u \in ToSet(transacs'), transac'[u].fsm = "terminated"
        PROVE  u \in ToSet(transacs) /\ transac[u].fsm = "terminated"
    BY <1>4, <2>3, <2>5
  <2> QED BY <2>1, <2>2, <2>4, <2>5, Zenon DEF Owes
<1>12. Held(th) = HeldIn(r)
  BY HeldIs
<1>13. Shape(th, s)'
  BY <1>4, <1>6
<1> QED BY <1>6, <1>9, <1>10, <1>11, <1>12, <1>13, StepKept

\* An act on a dialog goes on and changes nothing else.
LEMMA DialogGoesOn ==
  ASSUME LayersInv, NEW th \in Threads, NEW b \in Frame, NEW d \in Dialogs, NEW was \in DialogAt, NEW at \in DialogAt,
         Base(th, b), Over(d, was, b), stack[th] = <<F("dialog", d, was), b>>,
         stack' = Goes(th, at), UNCHANGED <<cast, calls, dialogs, transacs, dialog, transac, shutdown>>,
         was # "enter", at \in {"run", "new", "find"} => dialog[d] = "alive", at \in Leaves => dialog[d] = "ended",
         at = "cancelling" => LockFree(th, TransacLayer),
         was \in Leaves =>
           \/ was = "cancel" /\ at = "cancelling"
           \/ /\ was = "cancelling" /\ at = "remove"
              /\ \A t \in ToSet(transacs) : transac[t].dialog = d => transac[t].fsm # "going"
  PROVE  LayersInv'
<1> DEFINE e == F("dialog", d, was)
           g == F("dialog", d, at)
           r == <<e, b>>
           s == <<g, b>>
<1>1. Turned(th, s)
  BY GoesTwo
<1>2. Shape(th, s)
  <2>1. Over(d, at, b)
    BY DEF Over
  <2> QED BY <2>1, ShapesAre
<1>3. FailsStill(r, s)
  BY NoFails
<1>4. ~Task(e) \/ Done(e, s)
  <2>1. CASE was \notin Leaves
    BY <2>1, Idle
  <2>2. CASE was = "cancel" /\ at = "cancelling"
    <3>1. F("dialog", d, "cancelling") \in FramesIn(s)
      BY <2>2, TwoFrames
    <3>2. EndsIn(d, s) /\ LeavesIn(d, s)
      BY <3>1, Zenon DEF EndsIn, LeavesIn
    <3> QED BY <2>2, <3>2, Fields DEF Done
  <2>3. CASE /\ was = "cancelling" /\ at = "remove"
             /\ \A t \in ToSet(transacs) : transac[t].dialog = d => transac[t].fsm # "going"
    <3>1. F("dialog", d, "remove") \in FramesIn(s)
      BY <2>3, TwoFrames
    <3>2. LeavesIn(d, s)
      BY <3>1, Zenon DEF LeavesIn
    <3> QED BY <2>3, <3>2, Fields DEF Done
  <2> QED BY <2>1, <2>2, <2>3
<1>5. \A l \in Holds(g) : l \in Holds(e) \/ LockFree(th, l)
  BY HoldsAre
<1> HIDE DEF e, g
<1>6. /\ \A f \in FramesIn(r) : f \in FramesIn(s) \/ f = e
      /\ \A l \in HeldIn(s) : l \in HeldIn(r) \/ LockFree(th, l)
  BY <1>5, TwoFrames
<1>7. /\ calls' \in [Threads -> Nat]
      /\ shutdown' \in [phase2 : BOOLEAN, told : SUBSET Dialogs, wait : BOOLEAN, signaled : BOOLEAN]
  BY DEF LayersInv, DataOK
<1> HIDE DEF r, s
<1>8. r = stack[th]
  BY DEF r, e
<1> QED BY <1>1, <1>2, <1>3, <1>4, <1>6, <1>7, <1>8, Moves

\* A dialog makes a client transaction.
LEMMA DialogRequestsKept ==
  ASSUME LayersInv, NEW th \in Threads, DialogRequests(th)
  PROVE  LayersInv'
<1>1. ShapeInv /\ Runs(th, "dialog", "new") /\ "run" \in DialogAt
  BY Zenon DEF LayersInv, DialogRequests, DialogAt
<1>2. PICK b \in Frame, d \in Dialogs :
        Base(th, b) /\ Over(d, "new", b) /\ stack[th] = <<F("dialog", d, "new"), b>>
  BY <1>1, DialogTop
<1>3. Head(stack[th]).id = d /\ dialog[d] = "alive"
  BY <1>2, HeadIs DEF Over
<1>4. /\ stack' = Goes(th, "run") /\ UNCHANGED <<cast, calls, dialogs, dialog, shutdown>>
      /\ \/ UNCHANGED <<transac, transacs>>
         \/ \E t \in FreshTransacs : NewTransac(t, d, "client", "going")
  BY <1>3, Zenon DEF DialogRequests
<1>5. CASE UNCHANGED <<transac, transacs>>
  BY <1>1, <1>2, <1>3, <1>4, <1>5, DialogGoesOn DEF Leaves, DialogAt
<1>6. ASSUME NEW t \in FreshTransacs, NewTransac(t, d, "client", "going")
      PROVE  LayersInv'
  <2> DEFINE e == F("dialog", d, "new")
             g == F("dialog", d, "run")
             r == <<e, b>>
             s == <<g, b>>
  <2>1. Turned(th, s)
    BY <1>2, <1>4, GoesTwo
  <2>2. ASSUME Later PROVE Shape(th, s)'
    <3>1. Over(d, "run", b)
      BY <1>2, <1>3 DEF Over, Leaves
    <3>2. dialog'[d] = "alive"
      BY <1>3, <1>4
    <3>3. Base(th, b)' /\ Over(d, "run", b)'
      BY <1>2, <2>2, <3>1, <3>2, BaseStays, OverStays DEF LayersInv
    <3> QED BY <1>1, <3>3, Shapes
  <2>3. FailsStill(r, s) /\ ~Task(e)
    BY NoFails, Idle DEF Leaves
  <2>4. Holds(e) = {DialogLock(d)} /\ Holds(g) = {DialogLock(d)}
    BY HoldsAre
  <2> HIDE DEF e, g
  <2>5. /\ \A f \in FramesIn(r) : f \in FramesIn(s) \/ ~Task(f)
        /\ \A l \in HeldIn(s) : l \in HeldIn(r)
    BY <2>3, <2>4, TwoFrames
  <2> HIDE DEF r, s
  <2>6. r = stack[th]
    BY <1>2 DEF r, e
  <2> QED BY <1>3, <1>4, <1>6, <2>1, <2>2, <2>3, <2>5, <2>6, NewKept
<1> QED BY <1>4, <1>5, <1>6

\* What a dialog calls on a transaction.
LEMMA DialogCalls ==
  ASSUME LayersInv, NEW th \in Threads, NEW b \in Frame, NEW d \in Dialogs, NEW was \in DialogAt, NEW at \in DialogAt,
         Base(th, b), Over(d, was, b), stack[th] = <<F("dialog", d, was), b>>,
         NEW t \in Transacs, NEW has \in {"respond", "cancel"}, Within(t, has, d, at),
         Turned(th, <<F("transac", t, has), F("dialog", d, at), b>>),
         was = at \/ (was = "find" /\ at = "run"),
         UNCHANGED <<cast, calls, dialogs, transacs, dialog, transac, shutdown>>
  PROVE  LayersInv'
<1> DEFINE e == F("dialog", d, was)
           g == F("dialog", d, at)
           a == F("transac", t, has)
           r == <<e, b>>
           s == <<a, g, b>>
<1>1. Shape(th, s)
  <2>1. Over(d, at, b)
    BY DEF Over, Within, Leaves
  <2> QED BY <2>1, ShapesAre DEF TransacAt
<1>2. FailsStill(r, s)
  <2>1. was # "enter"
    BY DEF Within
  <2> QED BY <2>1, NoFails
<1>3. e = g \/ ~Task(e)
  BY Idle DEF Leaves
<1>4. Holds(g) = Holds(e) /\ Holds(a) = {}
  <2>1. Holds(a) = {}
    BY Idle
  <2>2. CASE was = at
    BY <2>1, <2>2
  <2>3. CASE was = "find" /\ at = "run"
    <3>1. Holds(e) = {DialogLock(d)} /\ Holds(g) = {DialogLock(d)}
      BY <2>3, HoldsAre
    <3> QED BY <2>1, <3>1
  <2> QED BY <2>2, <2>3
<1>5. Turned(th, s)
  OBVIOUS
<1> HIDE DEF e, g, a
<1>6. /\ \A f \in FramesIn(r) : f \in FramesIn(s) \/ ~Task(f)
      /\ \A l \in HeldIn(s) : l \in HeldIn(r)
  BY <1>3, <1>4, TwoFrames, ThreeFrames
<1>7. /\ calls' \in [Threads -> Nat]
      /\ shutdown' \in [phase2 : BOOLEAN, told : SUBSET Dialogs, wait : BOOLEAN, signaled : BOOLEAN]
  BY DEF LayersInv, DataOK
<1> HIDE DEF r, s
<1>8. r = stack[th]
  BY DEF r, e
<1> QED BY <1>1, <1>2, <1>5, <1>6, <1>7, <1>8, Moves

\* A dialog responds through one of its server transactions.
LEMMA DialogRespondsKept ==
  ASSUME LayersInv, NEW th \in Threads, DialogResponds(th)
  PROVE  LayersInv'
<1>1. ShapeInv /\ DataOK /\ ListInv /\ Runs(th, "dialog", "find") /\ "run" \in DialogAt /\ "find" \in DialogAt
  BY Zenon DEF LayersInv, DialogResponds, DialogAt
<1>2. PICK b \in Frame, d \in Dialogs :
        Base(th, b) /\ Over(d, "find", b) /\ stack[th] = <<F("dialog", d, "find"), b>>
  BY <1>1, DialogTop
<1>3. Head(stack[th]).id = d /\ dialog[d] = "alive"
  BY <1>2, HeadIs DEF Over
<1>4. /\ \/ stack' = Goes(th, "run")
         \/ \E t \in {u \in ToSet(transacs) : transac[u].dialog = d /\ transac[u].role = "server"} :
              stack' = GoesAndCalls(th, "run", F("transac", t, "respond"))
      /\ UNCHANGED <<cast, calls, dialogs, transacs, dialog, transac, shutdown>>
  BY <1>3, Zenon DEF DialogResponds
<1>5. CASE stack' = Goes(th, "run")
  BY <1>1, <1>2, <1>3, <1>4, <1>5, DialogGoesOn DEF Leaves
<1>6. ASSUME NEW t \in ToSet(transacs), transac[t].dialog = d,
             stack' = GoesAndCalls(th, "run", F("transac", t, "respond"))
      PROVE  LayersInv'
  <2>1. t \in Transacs /\ Made(t)
    BY <1>1 DEF DataOK, ListInv, ToSet
  <2>2. Within(t, "respond", d, "run")
    BY <1>6, <2>1 DEF Within
  <2>3. Turned(th, <<F("transac", t, "respond"), F("dialog", d, "run"), b>>)
    BY <1>2, <1>6, GoesAndCallsTwo
  <2> QED BY <1>1, <1>2, <1>4, <2>1, <2>2, <2>3, DialogCalls
<1> QED BY <1>4, <1>5, <1>6

\* A dialog lets go of what called it.
LEMMA DialogLeaves ==
  ASSUME NEW th, NEW b \in Frame, NEW d, NEW at, Base(th, b), stack[th] = <<F("dialog", d, at), b>>,
         stack' = Returns(th), at # "enter"
  PROVE  /\ Turned(th, <<b>>) /\ Shape(th, <<b>>) /\ FailsStill(stack[th], <<b>>)
         /\ HeldIn(<<b>>) \subseteq HeldIn(stack[th])
         /\ \A f \in FramesIn(stack[th]) : f \in FramesIn(<<b>>) \/ f = F("dialog", d, at)
<1> DEFINE e == F("dialog", d, at)
<1>1. Turned(th, <<b>>) /\ Shape(th, <<b>>) /\ FailsStill(stack[th], <<b>>)
  BY ReturnsTwo, ShapesAre, NoFails
<1> HIDE DEF e
<1>2. stack[th] = <<e, b>>
  BY DEF e
<1> DEFINE r == <<e, b>>
           s == <<b>>
<1>3. HeldIn(s) \subseteq HeldIn(r) /\ \A f \in FramesIn(r) : f \in FramesIn(s) \/ f = e
  BY OneFrame, TwoFrames
<1> QED BY <1>1, <1>2, <1>3 DEF e

\* A dialog's handler is done, or has come to its end.
LEMMA DialogRunKept ==
  ASSUME LayersInv, NEW th \in Threads, DialogRun(th)
  PROVE  LayersInv'
<1>1. ShapeInv /\ DataOK /\ ListInv /\ EndInv /\ Runs(th, "dialog", "run")
  BY Zenon DEF LayersInv, DialogRun
<1>2. PICK b \in Frame, d \in Dialogs :
        Base(th, b) /\ Over(d, "run", b) /\ stack[th] = <<F("dialog", d, "run"), b>>
  BY <1>1, DialogTop
<1>3. Head(stack[th]).id = d /\ dialog[d] = "alive"
  BY <1>2, HeadIs DEF Over
<1>4. /\ \/ stack' = Returns(th) /\ UNCHANGED dialog
         \/ dialog' = [dialog EXCEPT ![d] = "ended"] /\ stack' = Goes(th, "cancel")
      /\ UNCHANGED <<cast, calls, dialogs, transacs, transac, shutdown>>
  BY <1>3, Zenon DEF DialogRun
<1>5. /\ calls' \in [Threads -> Nat]
      /\ shutdown' \in [phase2 : BOOLEAN, told : SUBSET Dialogs, wait : BOOLEAN, signaled : BOOLEAN]
  BY <1>1, <1>4 DEF DataOK
<1>6. CASE stack' = Returns(th) /\ UNCHANGED dialog
  <2>1. ~Task(F("dialog", d, "run"))
    BY Idle DEF Leaves
  <2> DEFINE r == stack[th]
             s == <<b>>
  <2>2. /\ Turned(th, s) /\ Shape(th, s) /\ FailsStill(r, s)
        /\ HeldIn(s) \subseteq HeldIn(r)
        /\ \A f \in FramesIn(r) : f \in FramesIn(s) \/ ~Task(f)
    BY <1>2, <1>6, <2>1, DialogLeaves
  <2> HIDE DEF s
  <2> QED BY <1>4, <1>5, <1>6, <2>2, Moves
<1>7. CASE dialog' = [dialog EXCEPT ![d] = "ended"] /\ stack' = Goes(th, "cancel")
  <2> DEFINE e == F("dialog", d, "run")
             g == F("dialog", d, "cancel")
             r == <<e, b>>
             s == <<g, b>>
  <2>1. Turned(th, s)
    BY <1>2, <1>7, GoesTwo
  <2>2. dialog'[d] = "ended" /\ \A x \in Dialogs : x # d => dialog'[x] = dialog[x]
    BY <1>1, <1>7 DEF DataOK
  <2>3. Later
    BY <1>3, <1>4, <2>2 DEF Later, Known, Made
  <2>4. Shape(th, s)'
    <3>1. Base(th, b)'
      BY <1>1, <1>2, <2>3, BaseStays
    <3>2. Over(d, "cancel", b)'
      BY <1>2, <1>4, <2>2, OverMoves DEF Known
    <3> QED BY <3>1, <3>2, Shapes DEF DialogAt
  <2>5. FailsStill(r, s) /\ ~Task(e)
    BY NoFails, Idle DEF Leaves
  <2>6. Holds(e) = {DialogLock(d)} /\ Holds(g) = {DialogLock(d)}
    BY HoldsAre
  <2>7. EndsIn(d, s) /\ LeavesIn(d, s)
    <3>1. F("dialog", d, "cancel") \in FramesIn(s)
      BY TwoFrames
    <3> QED BY <3>1, Zenon DEF EndsIn, LeavesIn
  <2> HIDE DEF e, g
  <2>8. /\ \A f \in FramesIn(r) : f \in FramesIn(s) \/ ~Task(f)
        /\ HeldIn(s) \subseteq HeldIn(r) /\ DialogLock(d) \in HeldIn(r)
    BY <2>5, <2>6, TwoFrames
  <2> HIDE DEF r, s
  <2>9. r = stack[th] /\ Held(th) = HeldIn(r)
    BY <1>2, HeldIs DEF r, e
  <2>10. stack' \in [Threads -> Seq(Frame)] => DataOK'
    <3>1. dialog' \in [Dialogs -> {"none", "new", "alive", "ended"}]
      BY <1>1, <1>7 DEF DataOK
    <3> QED BY <1>1, <1>4, <3>1 DEF DataOK
  <2>11. ToSet(dialogs) \subseteq Dialogs /\ ToSet(transacs) \subseteq Transacs
    BY <1>1 DEF DataOK, ToSet
  <2>12. ListInv'
    BY <1>1, <1>4, <2>2, <2>11 DEF ListInv, Known, Made
  <2>13. Owes(th, s)
    <3>1. ASSUME NEW u \in Transacs, Made(u)'
          PROVE  /\ transac'[u].fsm = "started" =>
                      (Made(u) /\ transac[u].fsm = "started") \/ (th = "net" /\ StartsIn(u, s))
                 /\ transac'[u].fsm # "started" => Known(transac[u].dialog)'
      <4>1. Made(u) /\ transac' = transac
        BY <1>4, <3>1 DEF Made
      <4>2. transac[u].fsm # "started" => Known(transac[u].dialog)
        BY <1>1, <4>1, Zenon DEF EndInv, StartedOK
      <4>3. transac[u].dialog \in Dialogs
        BY <1>1, <4>1, DialogOf
      <4>4. Known(transac[u].dialog) => Known(transac[u].dialog)'
        BY <2>2, <4>1, <4>3 DEF Known
      <4> QED BY <4>1, <4>2, <4>4
    <3>2. \A x \in ToSet(dialogs') : dialog'[x] = "ended" =>
            (x \in ToSet(dialogs) /\ dialog[x] = "ended") \/ LeavesIn(x, s)
      BY <1>4, <2>2, <2>7, <2>11
    <3>3. ASSUME NEW u \in ToSet(transacs'), transac'[u].fsm = "going", dialog'[transac'[u].dialog] = "ended"
          PROVE  \/ /\ u \in ToSet(transacs) /\ transac[u].fsm = "going" /\ dialog[transac[u].dialog] = "ended"
                    /\ transac'[u].dialog = transac[u].dialog
                 \/ EndsIn(transac'[u].dialog, s) \/ FailsIn(u, transac'[u].dialog, s)
      <4>1. u \in ToSet(transacs) /\ transac'[u] = transac[u]
        BY <1>4
      <4>2. transac[u].dialog \in Dialogs
        BY <1>1, <2>11, <4>1, DialogOf DEF ListInv
      <4> QED BY <2>2, <2>7, <3>3, <4>1, <4>2
    <3>4. \A u \in ToSet(transacs') : transac'[u].fsm = "terminated" =>
            (u \in ToSet(transacs) /\ transac[u].fsm = "terminated") \/ RemovesIn(u, s)
      BY <1>4
    <3> QED BY <3>1, <3>2, <3>3, <3>4, Zenon DEF Owes
  <2>14. /\ \A x \in Dialogs : dialog[x] = "alive" => dialog'[x] = "alive" \/ DialogLock(x) \in Held(th)
         /\ \A x \in Dialogs : dialog[x] = "new" => dialog'[x] = "new" \/ th = "net"
    BY <1>3, <2>2, <2>8, <2>9
  <2> QED BY <2>1, <2>3, <2>4, <2>5, <2>8, <2>9, <2>10, <2>12, <2>13, <2>14, StepKept
<1> QED BY <1>4, <1>6, <1>7

\* A dialog that has ended locks the transactions' list, ...
LEMMA DialogCancelsKept ==
  ASSUME LayersInv, NEW th \in Threads, DialogCancels(th)
  PROVE  LayersInv'
<1>1. /\ ShapeInv /\ Runs(th, "dialog", "cancel") /\ LockFree(th, TransacLayer)
      /\ stack' = Goes(th, "cancelling")
      /\ UNCHANGED <<cast, calls, dialogs, transacs, dialog, transac, shutdown>>
  BY Zenon DEF LayersInv, DialogCancels
<1>2. PICK b \in Frame, d \in Dialogs :
        Base(th, b) /\ Over(d, "cancel", b) /\ stack[th] = <<F("dialog", d, "cancel"), b>>
  BY <1>1, DialogTop
<1>3. dialog[d] = "ended" /\ "cancel" \in DialogAt /\ "cancelling" \in DialogAt
  BY <1>2 DEF Over, Leaves, DialogAt
<1> QED BY <1>1, <1>2, <1>3, DialogGoesOn

\* ... cancels them one by one, until none is going, ...
LEMMA DialogCancelsNextKept ==
  ASSUME LayersInv, NEW th \in Threads, DialogCancelsNext(th)
  PROVE  LayersInv'
<1>1. /\ ShapeInv /\ DataOK /\ ListInv /\ Runs(th, "dialog", "cancelling")
      /\ "cancelling" \in DialogAt /\ "remove" \in DialogAt
  BY Zenon DEF LayersInv, DialogCancelsNext, DialogAt
<1>2. PICK b \in Frame, d \in Dialogs :
        Base(th, b) /\ Over(d, "cancelling", b) /\ stack[th] = <<F("dialog", d, "cancelling"), b>>
  BY <1>1, DialogTop
<1>3. Head(stack[th]).id = d /\ dialog[d] = "ended"
  BY <1>2, HeadIs DEF Over, Leaves
<1>4. /\ IF ToCancel(d) = {} THEN stack' = Goes(th, "remove")
         ELSE stack' = Calls(th, F("transac", First(transacs, ToCancel(d)), "cancel"))
      /\ UNCHANGED <<cast, calls, dialogs, transacs, dialog, transac, shutdown>>
  BY <1>3, Zenon DEF DialogCancelsNext
<1>5. CASE ToCancel(d) = {}
  <2>1. \A t \in ToSet(transacs) : transac[t].dialog = d => transac[t].fsm # "going"
    BY <1>5 DEF ToCancel
  <2> QED BY <1>1, <1>2, <1>3, <1>4, <1>5, <2>1, DialogGoesOn
<1>6. CASE ToCancel(d) # {}
  <2>1. PICK t : t = First(transacs, ToCancel(d))
    OBVIOUS
  <2>2. t \in ToCancel(d)
    BY <1>1, <1>6, <2>1, FirstIn DEF DataOK, ToCancel
  <2>3. t \in Transacs /\ Made(t) /\ transac[t].dialog = d
    BY <1>1, <2>2 DEF DataOK, ListInv, ToSet, ToCancel
  <2>4. Within(t, "cancel", d, "cancelling")
    BY <2>3 DEF Within
  <2>5. Turned(th, <<F("transac", t, "cancel"), F("dialog", d, "cancelling"), b>>)
    BY <1>2, <1>4, <1>6, <2>1, CallsTwo
  <2> QED BY <1>1, <1>2, <1>4, <2>3, <2>4, <2>5, DialogCalls
<1> QED BY <1>5, <1>6

\* ... and leaves its own list.
LEMMA DialogRemoveKept ==
  ASSUME LayersInv, NEW th \in Threads, DialogRemove(th)
  PROVE  LayersInv'
<1>1. ShapeInv /\ DataOK /\ ListInv /\ Runs(th, "dialog", "remove")
  BY Zenon DEF LayersInv, DialogRemove
<1>2. PICK b \in Frame, d \in Dialogs :
        Base(th, b) /\ Over(d, "remove", b) /\ stack[th] = <<F("dialog", d, "remove"), b>>
  BY <1>1, DialogTop
<1>3. Head(stack[th]).id = d
  BY <1>2, HeadIs
<1>4. /\ dialogs' = RemoveFirst(dialogs, d) /\ stack' = Returns(th)
      /\ UNCHANGED <<cast, calls, transacs, dialog, transac>>
  BY <1>3, Zenon DEF DialogRemove
<1>5. /\ calls' \in [Threads -> Nat]
      /\ shutdown' \in [phase2 : BOOLEAN, told : SUBSET Dialogs, wait : BOOLEAN, signaled : BOOLEAN]
  <2>1. PICK w \in BOOLEAN : shutdown' = [shutdown EXCEPT !.signaled = w]
    <3>1. shutdown.signaled \in BOOLEAN
      BY <1>1 DEF DataOK
    <3>2. \E w : shutdown' = [shutdown EXCEPT !.signaled = shutdown.signaled \/ w]
      BY Zenon DEF DialogRemove
    <3> QED BY <3>1, <3>2
  <2> QED BY <1>1, <1>4, <2>1 DEF DataOK
<1>6. dialogs' \in Seq(Dialogs) /\ IsInjective(dialogs') /\ ToSet(dialogs') = ToSet(dialogs) \ {d}
  BY <1>1, <1>4, RemoveFirstFacts DEF DataOK, ListInv
<1>7. transacs' \in Seq(Transacs) /\ IsInjective(transacs') /\ ToSet(transacs') = ToSet(transacs)
  BY <1>1, <1>4 DEF DataOK, ListInv
<1> DEFINE r == stack[th]
           s == <<b>>
<1>8. Done(F("dialog", d, "remove"), s)
  BY <1>6, Fields DEF Done
<1>9. /\ Turned(th, s) /\ Shape(th, s) /\ FailsStill(r, s)
      /\ HeldIn(s) \subseteq HeldIn(r)
      /\ \A f \in FramesIn(r) : f \in FramesIn(s) \/ Done(f, s)
  BY <1>2, <1>4, <1>8, DialogLeaves
<1> HIDE DEF s
<1> QED BY <1>4, <1>5, <1>6, <1>7, <1>9, Leaving

-----------------------------------------------------------------------------
\* The calls from outside.

\* A dialog that was not there yet is about to be, or is.
LEMMA DialogComes ==
  ASSUME LayersInv, NEW th \in Threads, NEW r, NEW s, r = stack[th], Turned(th, s),
         NEW d \in Dialogs, NEW x \in {"new", "alive"}, dialog[d] \in {"none", "new"},
         dialog[d] = "new" => th = "net" /\ x = "alive",
         dialog' = [dialog EXCEPT ![d] = x],
         dialogs' = IF x = "new" THEN dialogs ELSE Append(dialogs, d),
         UNCHANGED <<cast, transacs, transac, shutdown>>, calls' \in [Threads -> Nat],
         Later /\ dialog'[d] = x => Shape(th, s)', HeldIn(s) = {},
         \A f \in FramesIn(r) : f \in FramesIn(s) \/ ~Task(f), FailsStill(r, s)
  PROVE  LayersInv'
<1>1. DataOK /\ ListInv /\ EndInv
  BY DEF LayersInv
<1>2. dialog'[d] = x /\ \A e \in Dialogs : e # d => dialog'[e] = dialog[e]
  BY <1>1 DEF DataOK
<1>3. Later
  BY <1>2 DEF Later, Known, Made
<1>4. ToSet(dialogs) \subseteq Dialogs /\ ToSet(transacs) \subseteq Transacs /\ d \notin ToSet(dialogs)
  <2>1. ToSet(dialogs) \subseteq Dialogs /\ ToSet(transacs) \subseteq Transacs
    BY <1>1 DEF DataOK, ToSet
  <2>2. \A e \in ToSet(dialogs) : dialog[e] \in {"alive", "ended"}
    BY <1>1, Zenon DEF ListInv, Known
  <2> QED BY <2>1, <2>2
<1>5. /\ dialogs' \in Seq(Dialogs) /\ IsInjective(dialogs')
      /\ \A e \in ToSet(dialogs') : e \in ToSet(dialogs) \/ (e = d /\ x = "alive")
  <2>1. CASE x = "new"
    BY <1>1, <2>1 DEF DataOK, ListInv
  <2>2. CASE x = "alive"
    <3>1. dialogs \in Seq(Dialogs) /\ IsInjective(dialogs) /\ dialogs' = Append(dialogs, d)
      BY <1>1, <2>2 DEF DataOK, ListInv
    <3>2. /\ Append(dialogs, d) \in Seq(Dialogs) /\ IsInjective(Append(dialogs, d))
          /\ ToSet(Append(dialogs, d)) = ToSet(dialogs) \cup {d}
      BY <1>4, <3>1, AppendFacts
    <3> QED BY <2>2, <3>1, <3>2
  <2> QED BY <2>1, <2>2
<1>6. stack' \in [Threads -> Seq(Frame)] => DataOK'
  <2>1. dialog' \in [Dialogs -> {"none", "new", "alive", "ended"}]
    BY <1>1 DEF DataOK
  <2> QED BY <1>1, <1>5, <2>1 DEF DataOK
<1>7. ListInv'
  <2>1. \A e \in ToSet(dialogs') : Known(e)'
    BY <1>1, <1>2, <1>4, <1>5 DEF ListInv, Known
  <2> QED BY <1>1, <1>5, <2>1 DEF ListInv, Made
<1>8. Owes(th, s)
  <2>1. ASSUME NEW u \in Transacs, Made(u)'
        PROVE  /\ transac'[u].fsm = "started" =>
                    (Made(u) /\ transac[u].fsm = "started") \/ (th = "net" /\ StartsIn(u, s))
               /\ transac'[u].fsm # "started" => Known(transac[u].dialog)'
    <3>1. Made(u) /\ transac' = transac
      BY <2>1 DEF Made
    <3>2. transac[u].fsm # "started" => Known(transac[u].dialog)
      BY <1>1, <3>1, Zenon DEF EndInv, StartedOK
    <3>3. transac[u].dialog \in Dialogs
      BY <1>1, <3>1, DialogOf
    <3>4. Known(transac[u].dialog) => Known(transac[u].dialog)'
      BY <1>2, <3>1, <3>3 DEF Known
    <3> QED BY <3>1, <3>2, <3>4
  <2>2. \A e \in ToSet(dialogs') : dialog'[e] = "ended" => e \in ToSet(dialogs) /\ dialog[e] = "ended"
    BY <1>2, <1>4, <1>5
  <2>3. ASSUME NEW u \in ToSet(transacs'), transac'[u].fsm = "going", dialog'[transac'[u].dialog] = "ended"
        PROVE  /\ u \in ToSet(transacs) /\ transac[u].fsm = "going" /\ dialog[transac[u].dialog] = "ended"
               /\ transac'[u].dialog = transac[u].dialog
    <3>1. u \in ToSet(transacs) /\ transac'[u] = transac[u]
      OBVIOUS
    <3>2. transac[u].dialog \in Dialogs
      BY <1>1, <1>4, <3>1, DialogOf DEF ListInv
    <3> QED BY <1>2, <2>3, <3>1, <3>2
  <2>4. \A u \in ToSet(transacs') : transac'[u].fsm = "terminated" =>
          u \in ToSet(transacs) /\ transac[u].fsm = "terminated"
    OBVIOUS
  <2> QED BY <2>1, <2>2, <2>3, <2>4, Zenon DEF Owes
<1>9. /\ \A e \in Dialogs : dialog[e] = "alive" => dialog'[e] = "alive" \/ DialogLock(e) \in Held(th)
      /\ \A e \in Dialogs : dialog[e] = "new" => dialog'[e] = "new" \/ th = "net"
  BY <1>2
<1>10. Shape(th, s)' /\ \A l \in HeldIn(s) : l \in Held(th) \/ LockFree(th, l)
  BY <1>2, <1>3
<1>11. \A f \in FramesIn(r) : f \in FramesIn(s) \/ ~Task(f) \/ Done(f, s)
  OBVIOUS
<1> QED BY <1>3, <1>6, <1>7, <1>8, <1>9, <1>10, <1>11, StepKept

-----------------------------------------------------------------------------
\* What a thread begins.
LEMMA Beginning ==
  ASSUME LayersInv, NEW th \in Threads, NEW s, Begins(th, s)
  PROVE  /\ stack[th] = <<>> /\ Turned(th, s) /\ calls' \in [Threads -> Nat] /\ cast' = cast
         /\ FramesIn(<<>>) = {} /\ FailsStill(<<>>, s)
<1>1. calls[th] \in Nat /\ calls[th] > 0 /\ calls' = [calls EXCEPT ![th] = calls[th] - 1]
  BY DEF LayersInv, DataOK, Begins
<1>2. calls' \in [Threads -> Nat]
  BY <1>1 DEF LayersInv, DataOK
<1>3. stack[th] = <<>> /\ Turned(th, s) /\ cast' = cast
  BY Zenon DEF Begins, Turned
<1> QED BY <1>2, <1>3, NoFrame, NoFails

\* A call begins and changes nothing else.
LEMMA BeginKept ==
  ASSUME LayersInv, NEW th \in Threads, NEW s, Begins(th, s), Shape(th, s), HeldIn(s) = {},
         UNCHANGED <<dialogs, transacs, dialog, transac, shutdown>>
  PROVE  LayersInv'
<1> DEFINE r == <<>>
<1>1. /\ r = stack[th] /\ Turned(th, s) /\ calls' \in [Threads -> Nat] /\ cast' = cast
      /\ FramesIn(r) = {} /\ FailsStill(r, s)
  BY Beginning
<1>2. shutdown' \in [phase2 : BOOLEAN, told : SUBSET Dialogs, wait : BOOLEAN, signaled : BOOLEAN]
  BY DEF LayersInv, DataOK
<1> HIDE DEF r
<1> QED BY <1>1, <1>2, Moves

\* The stacks that begin: they hold nothing yet.
LEMMA BegunDialog ==
  ASSUME NEW th, NEW d \in Dialogs
  PROVE  /\ Known(d) => Shape(th, <<F("call", d, "found")>>)
         /\ Known(d) => Shape(th, <<F("dialog", d, "enter"), F("call", d, "held")>>)
         /\ Known(d) => Shape(th, <<F("dialog", d, "enter"), F("call", d, "timer")>>)
         /\ dialog[d] # "none" /\ th = "net" => Shape(th, <<F("call", d, "create")>>)
         /\ \A at : HeldIn(<<F("call", d, at)>>) = {}
         /\ \A at : HeldIn(<<F("dialog", d, "enter"), F("call", d, at)>>) = {}
<1>1. /\ F("call", d, "found") \in Frame /\ F("call", d, "held") \in Frame /\ F("call", d, "timer") \in Frame
      /\ F("call", d, "create") \in Frame /\ "enter" \in DialogAt
  BY FramesAre DEF CallAt, TransacAt, DialogAt
<1>2. /\ Known(d) => /\ Base(th, F("call", d, "found")) /\ Base(th, F("call", d, "held"))
                     /\ Base(th, F("call", d, "timer"))
      /\ dialog[d] # "none" /\ th = "net" => Base(th, F("call", d, "create"))
  BY BaseIs
<1>3. Known(d) => Over(d, "enter", F("call", d, "held")) /\ Over(d, "enter", F("call", d, "timer"))
  BY OverIs DEF Leaves
<1>4. Known(d) => Shape(th, <<F("call", d, "found")>>)
  BY <1>1, <1>2, ShapesAre
<1>5. Known(d) => Shape(th, <<F("dialog", d, "enter"), F("call", d, "held")>>)
  BY <1>1, <1>2, <1>3, ShapesAre
<1>6. Known(d) => Shape(th, <<F("dialog", d, "enter"), F("call", d, "timer")>>)
  BY <1>1, <1>2, <1>3, ShapesAre
<1>7. dialog[d] # "none" /\ th = "net" => Shape(th, <<F("call", d, "create")>>)
  BY <1>1, <1>2, ShapesAre
<1>8. \A at : HeldIn(<<F("call", d, at)>>) = {}
  BY OneFrame, Idle
<1>9. \A at : HeldIn(<<F("dialog", d, "enter"), F("call", d, at)>>) = {}
  BY TwoFrames, Idle
<1> QED BY <1>4, <1>5, <1>6, <1>7, <1>8, <1>9, Zenon

\* The same for a message or a timer of a transaction.
LEMMA BegunTransac ==
  ASSUME NEW th, NEW t \in Transacs, Made(t), Known(transac[t].dialog)
  PROVE  Shape(th, <<F("transac", t, "event")>>) /\ HeldIn(<<F("transac", t, "event")>>) = {}
<1>1. F("transac", t, "event") \in Frame /\ Base(th, F("transac", t, "event"))
  BY FramesAre, BaseIs DEF TransacAt
<1>2. Shape(th, <<F("transac", t, "event")>>)
  BY <1>1, ShapesAre
<1>3. HeldIn(<<F("transac", t, "event")>>) = {}
  BY OneFrame, Idle
<1> QED BY <1>2, <1>3

\* Each call from the network, ...
LEMMA NetMessageKept == LayersInv /\ NetMessage => LayersInv'
<1> SUFFICES ASSUME LayersInv, NetMessage PROVE LayersInv'
  OBVIOUS
<1>1. PICK t \in ToSet(transacs) : Begins("net", <<F("transac", t, "event")>>)
  BY Zenon DEF NetMessage
<1>2. UNCHANGED <<dialogs, transacs, dialog, transac, shutdown>> /\ "net" \in Threads
  BY Zenon DEF NetMessage, Threads
<1>3. t \in Transacs /\ Made(t)
  BY DEF LayersInv, DataOK, ListInv, ToSet
<1>4. stack["net"] = <<>>
  BY <1>1, Zenon DEF Begins
<1>5. transac[t].fsm # "started"
  <2>1. ~StartsIn(t, <<>>)
    BY NoFrame DEF StartsIn
  <2> QED BY <1>3, <1>4, <2>1, Zenon DEF LayersInv, EndInv, StartedOK
<1>6. Known(transac[t].dialog)
  BY <1>3, <1>5, Zenon DEF LayersInv, EndInv, StartedOK
<1> QED BY <1>1, <1>2, <1>3, <1>6, BegunTransac, BeginKept

\* ... within a dialog, ...
LEMMA NetRequestKept == LayersInv /\ NetRequest => LayersInv'
<1> SUFFICES ASSUME LayersInv, NetRequest PROVE LayersInv'
  OBVIOUS
<1>1. PICK d \in ToSet(dialogs) :
        \/ Begins("net", <<F("call", d, "create")>>)
        \/ Begins("net", <<F("dialog", d, "enter"), F("call", d, "held")>>)
  BY Zenon DEF NetRequest
<1>2. UNCHANGED <<dialogs, transacs, dialog, transac, shutdown>> /\ "net" \in Threads
  BY Zenon DEF NetRequest, Threads
<1>3. d \in Dialogs /\ Known(d) /\ dialog[d] # "none"
  BY DEF LayersInv, DataOK, ListInv, ToSet, Known
<1>4. /\ Shape("net", <<F("call", d, "create")>>) /\ HeldIn(<<F("call", d, "create")>>) = {}
      /\ Shape("net", <<F("dialog", d, "enter"), F("call", d, "held")>>)
      /\ HeldIn(<<F("dialog", d, "enter"), F("call", d, "held")>>) = {}
  BY <1>3, BegunDialog
<1> QED BY <1>1, <1>2, <1>4, BeginKept

\* ... or for a dialog that is not there yet.
LEMMA NetNewDialogKept == LayersInv /\ NetNewDialog => LayersInv'
<1> SUFFICES ASSUME LayersInv, NetNewDialog PROVE LayersInv'
  OBVIOUS
<1>1. PICK d \in Dialogs :
        /\ dialog[d] = "none" /\ dialog' = [dialog EXCEPT ![d] = "new"]
        /\ Begins("net", <<F("call", d, "create")>>)
  BY Zenon DEF NetNewDialog
<1>2. UNCHANGED <<dialogs, transacs, transac, shutdown>> /\ "net" \in Threads
  BY Zenon DEF NetNewDialog, Threads
<1> DEFINE r == <<>>
           s == <<F("call", d, "create")>>
<1>3. /\ r = stack["net"] /\ Turned("net", s) /\ calls' \in [Threads -> Nat] /\ cast' = cast
      /\ FramesIn(r) = {} /\ FailsStill(r, s)
  BY <1>1, <1>2, Beginning
<1>4. HeldIn(s) = {}
  BY OneFrame, Idle
<1>5. ASSUME dialog'[d] = "new" PROVE Shape("net", s)'
  <2>1. Base("net", F("call", d, "create"))'
    BY <1>5, BaseWillBe
  <2> QED BY <2>1, Shapes, FramesAre DEF CallAt
<1> HIDE DEF r, s
<1> QED BY <1>1, <1>2, <1>3, <1>4, <1>5, DialogComes

\* A request makes its server transaction.
LEMMA NetCreateKept == LayersInv /\ NetCreate => LayersInv'
<1> SUFFICES ASSUME LayersInv, NetCreate PROVE LayersInv'
  OBVIOUS
<1>1. ShapeInv /\ DataOK /\ "net" \in Threads /\ Runs("net", "call", "create")
  BY Zenon DEF LayersInv, NetCreate, Threads
<1> DEFINE th == "net"
<1>2. PICK d \in Dialogs : Base(th, F("call", d, "create")) /\ stack[th] = <<F("call", d, "create")>>
  BY <1>1, CallTop
<1>3. Head(stack[th]).id = d /\ dialog[d] # "none"
  <2>1. Head(stack[th]).id = d
    BY <1>2, HeadIs
  <2>2. dialog[d] # "none"
    BY <1>2, BaseIs DEF Known
  <2> QED BY <2>1, <2>2
<1>4. /\ \/ stack' = Returns("net") /\ UNCHANGED <<transac, transacs>>
         \/ \E t \in FreshTransacs :
              /\ NewTransac(t, d, "server", "started")
              /\ stack' = [stack EXCEPT !["net"] =
                   (IF dialog[d] = "new" THEN <<F("call", d, "push")>> ELSE <<>>)
                     \o <<F("transac", t, "start")>>]
      /\ UNCHANGED <<cast, calls, dialogs, dialog, shutdown>>
  BY <1>3, Zenon DEF NetCreate
<1>5. CASE stack' = Returns("net") /\ UNCHANGED <<transac, transacs>>
  <2>1. ~Task(F("call", d, "create")) /\ NoFail(<<F("call", d, "create")>>)
    BY Idle, NoFails
  <2>2. shutdown' \in [phase2 : BOOLEAN, told : SUBSET Dialogs, wait : BOOLEAN, signaled : BOOLEAN]
    BY <1>1, <1>4 DEF DataOK
  <2> QED BY <1>1, <1>2, <1>4, <1>5, <2>1, <2>2, ReturnKeptOne
<1>6. ASSUME NEW t \in FreshTransacs, NewTransac(t, d, "server", "started"),
             stack' = [stack EXCEPT !["net"] =
               (IF dialog[d] = "new" THEN <<F("call", d, "push")>> ELSE <<>>)
                 \o <<F("transac", t, "start")>>]
      PROVE  LayersInv'
  <2> DEFINE e == F("call", d, "push")
             b == F("transac", t, "start")
             r == <<F("call", d, "create")>>
  <2>1. t \in Transacs /\ b \in Frame
    BY FramesAre DEF FreshTransacs, TransacAt
  <2>2. FailsStill(r, <<b>>) /\ FailsStill(r, <<e, b>>)
    BY NoFails
  <2>3. \A f \in FramesIn(r) : ~Task(f)
    BY OneFrame, Idle
  <2>4. Holds(e) = {} /\ Holds(b) = {}
    BY Idle
  <2>5. r = stack[th]
    BY <1>2
  <2>6. CASE dialog[d] = "new"
    <3> DEFINE s == <<e, b>>
    <3>1. Turned(th, s)
      BY <1>6, <2>6, Joined DEF Turned
    <3>2. ASSUME Made(t)', transac'[t].dialog = d PROVE Shape(th, s)'
      <4>1. dialog'[d] = "new"
        BY <1>4, <2>6
      <4> QED BY <2>1, <3>2, <4>1, Zenon DEF Shape
    <3>3. HeldIn(s) = {}
      BY <2>4, TwoFrames
    <3>4. StartsIn(t, s)
      BY TwoFrames DEF StartsIn
    <3>5. FailsStill(r, s)
      BY <2>2
    <3> HIDE DEF r, s
    <3> QED BY <1>1, <1>4, <1>6, <2>3, <2>5, <3>1, <3>2, <3>3, <3>4, <3>5, NewKept
  <2>7. CASE dialog[d] # "new"
    <3> DEFINE s == <<b>>
    <3>1. Turned(th, s)
      BY <1>6, <2>7, Joined DEF Turned
    <3>2. ASSUME Made(t)', transac'[t].dialog = d PROVE Shape(th, s)'
      <4>1. dialog[d] \in {"alive", "ended"} /\ dialog' = dialog
        BY <1>1, <1>3, <1>4, <2>7 DEF DataOK
      <4>2. Known(transac[t].dialog)'
        BY <3>2, <4>1 DEF Known
      <4>3. Base(th, b)'
        BY <2>1, <3>2, <4>2, BaseWillBe
      <4> QED BY <2>1, <4>3, Shapes
    <3>3. HeldIn(s) = {}
      BY <2>4, OneFrame
    <3>4. StartsIn(t, s)
      BY OneFrame DEF StartsIn
    <3>5. FailsStill(r, s)
      BY <2>2
    <3> HIDE DEF r, s
    <3> QED BY <1>1, <1>4, <1>6, <2>3, <2>5, <3>1, <3>2, <3>3, <3>4, <3>5, NewKept
  <2> QED BY <2>6, <2>7
<1> QED BY <1>4, <1>5, <1>6

\* A new dialog enters the list.
LEMMA NetPushKept == LayersInv /\ NetPush => LayersInv'
<1> SUFFICES ASSUME LayersInv, NetPush PROVE LayersInv'
  OBVIOUS
<1>1. ShapeInv /\ DataOK /\ "net" \in Threads /\ Runs("net", "call", "push")
  BY Zenon DEF LayersInv, NetPush, Threads
<1> DEFINE th == "net"
<1>2. PICK d \in Dialogs, t \in Transacs :
        /\ dialog[d] = "new" /\ Made(t) /\ transac[t].dialog = d
        /\ stack[th] = <<F("call", d, "push"), F("transac", t, "start")>>
  BY <1>1, PushTop
<1>3. Head(stack[th]).id = d
  BY <1>2, HeadIs
<1>4. /\ dialogs' = Append(dialogs, d) /\ dialog' = [dialog EXCEPT ![d] = "alive"]
      /\ stack' = Returns("net") /\ UNCHANGED <<cast, calls, transacs, transac, shutdown>>
  BY <1>3, Zenon DEF NetPush
<1> DEFINE a == F("call", d, "push")
           b == F("transac", t, "start")
           r == <<a, b>>
           s == <<b>>
<1>5. Turned(th, s)
  BY <1>2, <1>4, ReturnsTwo
<1>6. ASSUME dialog'[d] = "alive" PROVE Shape(th, s)'
  <2>1. Made(t)' /\ transac'[t].dialog = d
    BY <1>2, <1>4 DEF Made
  <2>2. Known(transac[t].dialog)'
    BY <1>6, <2>1 DEF Known
  <2>3. Base(th, b)' /\ b \in Frame
    BY <2>1, <2>2, BaseWillBe, FramesAre DEF TransacAt
  <2> QED BY <2>3, Shapes
<1>7. HeldIn(s) = {}
  BY OneFrame, Idle
<1>8. FailsStill(r, s) /\ ~Task(a)
  BY NoFails, Idle
<1>9. r = stack[th]
  BY <1>2
<1>10. calls' \in [Threads -> Nat]
  BY <1>1, <1>4 DEF DataOK
<1> HIDE DEF a, b
<1>11. \A f \in FramesIn(r) : f \in FramesIn(s) \/ ~Task(f)
  BY <1>8, OneFrame, TwoFrames
<1> HIDE DEF r, s
<1> QED BY <1>1, <1>2, <1>4, <1>5, <1>6, <1>7, <1>8, <1>9, <1>10, <1>11, DialogComes

\* Each callback of a timer, to a transaction ...
LEMMA TimerTransacKept == LayersInv /\ TimerTransac => LayersInv'
<1> SUFFICES ASSUME LayersInv, TimerTransac PROVE LayersInv'
  OBVIOUS
<1>1. PICK t \in Transacs : Going(t) /\ Begins("timer", <<F("transac", t, "event")>>)
  BY Zenon DEF TimerTransac
<1>2. UNCHANGED <<dialogs, transacs, dialog, transac, shutdown>> /\ "timer" \in Threads
  BY Zenon DEF TimerTransac, Threads
<1>3. Made(t) /\ transac[t].fsm # "started"
  BY <1>1 DEF Going, Made, NoTransac
<1>4. Known(transac[t].dialog)
  BY <1>1, <1>3, Zenon DEF LayersInv, EndInv, StartedOK
<1> QED BY <1>1, <1>2, <1>3, <1>4, BegunTransac, BeginKept

\* ... and to a dialog.
LEMMA TimerDialogKept == LayersInv /\ TimerDialog => LayersInv'
<1> SUFFICES ASSUME LayersInv, TimerDialog PROVE LayersInv'
  OBVIOUS
<1>1. PICK d \in ToSet(dialogs) : Begins("timer", <<F("dialog", d, "enter"), F("call", d, "timer")>>)
  BY Zenon DEF TimerDialog
<1>2. UNCHANGED <<dialogs, transacs, dialog, transac, shutdown>> /\ "timer" \in Threads
  BY Zenon DEF TimerDialog, Threads
<1>3. d \in Dialogs /\ Known(d)
  BY DEF LayersInv, DataOK, ListInv, ToSet
<1>4. /\ Shape("timer", <<F("dialog", d, "enter"), F("call", d, "timer")>>)
      /\ HeldIn(<<F("dialog", d, "enter"), F("call", d, "timer")>>) = {}
  BY <1>3, BegunDialog
<1> QED BY <1>1, <1>2, <1>4, BeginKept

\* Each call of the user: a dialog is found, ...
LEMMA UserFindsKept == LayersInv /\ UserFinds => LayersInv'
<1> SUFFICES ASSUME LayersInv, UserFinds PROVE LayersInv'
  OBVIOUS
<1>1. PICK d \in ToSet(dialogs) : Begins("user", <<F("call", d, "found")>>)
  BY Zenon DEF UserFinds
<1>2. UNCHANGED <<dialogs, transacs, dialog, transac, shutdown>> /\ "user" \in Threads
  BY Zenon DEF UserFinds, Threads
<1>3. d \in Dialogs /\ Known(d)
  BY DEF LayersInv, DataOK, ListInv, ToSet
<1>4. Shape("user", <<F("call", d, "found")>>) /\ HeldIn(<<F("call", d, "found")>>) = {}
  BY <1>3, BegunDialog
<1> QED BY <1>1, <1>2, <1>4, BeginKept

\* ... a dialog is made, ...
LEMMA UserNewDialogKept == LayersInv /\ UserNewDialog => LayersInv'
<1> SUFFICES ASSUME LayersInv, UserNewDialog PROVE LayersInv'
  OBVIOUS
<1>1. PICK d \in Dialogs :
        /\ dialog[d] = "none" /\ dialog' = [dialog EXCEPT ![d] = "alive"]
        /\ dialogs' = Append(dialogs, d)
        /\ Begins("user", <<F("dialog", d, "enter"), F("call", d, "held")>>)
  BY Zenon DEF UserNewDialog
<1>2. UNCHANGED <<transacs, transac, shutdown>> /\ "user" \in Threads
  BY Zenon DEF UserNewDialog, Threads
<1> DEFINE r == <<>>
           b == F("call", d, "held")
           s == <<F("dialog", d, "enter"), b>>
<1>3. /\ r = stack["user"] /\ Turned("user", s) /\ calls' \in [Threads -> Nat] /\ cast' = cast
      /\ FramesIn(r) = {} /\ FailsStill(r, s)
  BY <1>1, <1>2, Beginning
<1>4. HeldIn(s) = {}
  BY TwoFrames, Idle
<1>5. ASSUME dialog'[d] = "alive" PROVE Shape("user", s)'
  <2>1. Known(d)'
    BY <1>5 DEF Known
  <2>2. Base("user", b)' /\ b \in Frame /\ "enter" \in DialogAt
    BY <2>1, BaseWillBe, FramesAre DEF CallAt, DialogAt
  <2>3. Over(d, "enter", b)'
    BY <2>1, Fields DEF Over, Leaves
  <2> QED BY <2>2, <2>3, Shapes
<1> HIDE DEF r, s
<1> QED BY <1>1, <1>2, <1>3, <1>4, <1>5, DialogComes

\* ... the dialog that was found is used.
LEMMA UserActsKept == LayersInv /\ UserActs => LayersInv'
<1> SUFFICES ASSUME LayersInv, UserActs PROVE LayersInv'
  OBVIOUS
<1>1. ShapeInv /\ DataOK /\ "user" \in Threads /\ Runs("user", "call", "found")
  BY Zenon DEF LayersInv, UserActs, Threads
<1> DEFINE th == "user"
<1>2. PICK d \in Dialogs : Base(th, F("call", d, "found")) /\ stack[th] = <<F("call", d, "found")>>
  BY <1>1, CallTop
<1>3. Head(stack[th]).id = d /\ Known(d)
  <2>1. Head(stack[th]).id = d
    BY <1>2, HeadIs
  <2>2. Known(d)
    BY <1>2, BaseIs
  <2> QED BY <2>1, <2>2
<1>4. /\ \/ stack' = GoesAndCalls(th, "held", F("dialog", d, "enter"))
         \/ stack' = Goes(th, "crashed")
      /\ UNCHANGED <<cast, calls, dialogs, transacs, dialog, transac, shutdown>>
  BY <1>3, Zenon DEF UserActs
<1> DEFINE r == <<F("call", d, "found")>>
<1>5. /\ calls' \in [Threads -> Nat]
      /\ shutdown' \in [phase2 : BOOLEAN, told : SUBSET Dialogs, wait : BOOLEAN, signaled : BOOLEAN]
  BY <1>1, <1>4 DEF DataOK
<1>6. (\A f \in FramesIn(r) : ~Task(f)) /\ \A s : FailsStill(r, s)
  <2>1. \A f \in FramesIn(r) : ~Task(f)
    BY OneFrame, Idle
  <2>2. NoFail(r)
    BY NoFails
  <2> QED BY <2>1, <2>2, NoFails
<1>7. r = stack[th]
  BY <1>2
<1> HIDE DEF r
<1>8. CASE stack' = GoesAndCalls(th, "held", F("dialog", d, "enter"))
  <2> DEFINE s == <<F("dialog", d, "enter"), F("call", d, "held")>>
  <2>1. Turned(th, s)
    BY <1>2, <1>8, GoesAndCallsOne
  <2>2. Shape(th, s) /\ HeldIn(s) = {}
    BY <1>3, BegunDialog
  <2> HIDE DEF s
  <2> QED BY <1>1, <1>4, <1>5, <1>6, <1>7, <2>1, <2>2, Moves
<1>9. CASE stack' = Goes(th, "crashed")
  <2> DEFINE s == <<F("call", d, "crashed")>>
  <2>1. Turned(th, s)
    BY <1>2, <1>9, GoesOne
  <2>2. Shape(th, s)
    <3>1. Base(th, F("call", d, "crashed")) /\ F("call", d, "crashed") \in Frame
      BY <1>3, BaseIs, FramesAre DEF CallAt
    <3> QED BY <3>1, ShapesAre
  <2>3. HeldIn(s) = {}
    BY OneFrame, Idle
  <2> HIDE DEF s
  <2> QED BY <1>1, <1>4, <1>5, <1>6, <1>7, <2>1, <2>2, <2>3, Moves
<1> QED BY <1>4, <1>8, <1>9

\* A call returns.
LEMMA CallReturnsKept ==
  ASSUME LayersInv, NEW th \in Threads, CallReturns(th)
  PROVE  LayersInv'
<1>1. ShapeInv /\ DataOK /\ stack' = Returns(th)
      /\ UNCHANGED <<cast, calls, dialogs, transacs, dialog, transac, shutdown>>
  BY Zenon DEF LayersInv, CallReturns
<1>2. PICK at \in {"held", "timer"} : Runs(th, "call", at)
  BY Zenon DEF CallReturns
<1>3. PICK d \in Dialogs : Base(th, F("call", d, at)) /\ stack[th] = <<F("call", d, at)>>
  BY <1>1, <1>2, CallTop
<1>4. ~Task(F("call", d, at)) /\ NoFail(<<F("call", d, at)>>)
  BY Idle, NoFails
<1>5. shutdown' \in [phase2 : BOOLEAN, told : SUBSET Dialogs, wait : BOOLEAN, signaled : BOOLEAN]
  BY <1>1 DEF DataOK
<1> QED BY <1>1, <1>3, <1>4, <1>5, ReturnKeptOne

-----------------------------------------------------------------------------
\* The shutdown.

\* The shutdown goes on, ...
LEMMA ShutdownGoes ==
  ASSUME LayersInv, NEW was, NEW at \in ShutdownAt, stack["main"] = <<F("shutdown", "all", was)>>,
         stack' = Goes("main", at), at \in {"tell1", "tell2"} => LockFree("main", DialogLayer),
         UNCHANGED <<cast, calls, dialogs, transacs, dialog, transac>>,
         shutdown' \in [phase2 : BOOLEAN, told : SUBSET Dialogs, wait : BOOLEAN, signaled : BOOLEAN]
  PROVE  LayersInv'
<1> DEFINE a == F("shutdown", "all", was)
           b == F("shutdown", "all", at)
           r == <<a>>
           s == <<b>>
<1>1. Turned("main", s) /\ "main" \in Threads
  BY GoesOne DEF Threads
<1>2. Shape("main", s)
  <2>1. Base("main", b) /\ b \in Frame
    BY BaseIs, FramesAre
  <2> QED BY <2>1, ShapesAre
<1>3. \A l \in HeldIn(s) : LockFree("main", l)
  <2>1. \A l \in Holds(b) : LockFree("main", l)
    BY HoldsAre
  <2> HIDE DEF b
  <2> QED BY <2>1, OneFrame
<1>4. ~Task(a) /\ FailsStill(r, s)
  BY Idle, NoFails
<1>5. calls' \in [Threads -> Nat]
  BY DEF LayersInv, DataOK
<1>6. r = stack["main"]
  OBVIOUS
<1> HIDE DEF a, b
<1>7. \A f \in FramesIn(r) : ~Task(f)
  BY <1>4, OneFrame
<1> HIDE DEF r, s
<1> QED BY <1>1, <1>2, <1>3, <1>4, <1>5, <1>6, <1>7, Moves

\* ... or is over.
LEMMA ShutdownOver ==
  ASSUME LayersInv, NEW was, stack["main"] = <<F("shutdown", "all", was)>>, stack' = Returns("main"),
         UNCHANGED <<cast, calls, dialogs, transacs, dialog, transac>>,
         shutdown' \in [phase2 : BOOLEAN, told : SUBSET Dialogs, wait : BOOLEAN, signaled : BOOLEAN]
  PROVE  LayersInv'
<1>1. ~Task(F("shutdown", "all", was)) /\ NoFail(<<F("shutdown", "all", was)>>)
  BY Idle, NoFails
<1>2. "main" \in Threads
  BY DEF Threads
<1> QED BY <1>1, <1>2, ReturnKeptOne

\* The stack is stopped.
LEMMA ShutdownCalledKept == LayersInv /\ ShutdownCalled => LayersInv'
<1> SUFFICES ASSUME LayersInv, ShutdownCalled PROVE LayersInv'
  OBVIOUS
<1> DEFINE b == F("shutdown", "all", "begin")
<1>1. /\ Begins("main", <<b>>) /\ UNCHANGED <<dialogs, transacs, dialog, transac, shutdown>>
      /\ "main" \in Threads
  BY Zenon DEF ShutdownCalled, Threads
<1>2. Shape("main", <<b>>)
  <2>1. Base("main", b) /\ b \in Frame
    BY BaseIs, FramesAre DEF ShutdownAt
  <2> QED BY <2>1, ShapesAre
<1>3. HeldIn(<<b>>) = {}
  <2>1. Holds(b) = {}
    BY HoldsAre
  <2> QED BY <2>1, OneFrame
<1> QED BY <1>1, <1>2, <1>3, BeginKept

\* The shutdown chooses its phase.
LEMMA ShutdownBeginKept == LayersInv /\ ShutdownBegin => LayersInv'
<1> SUFFICES ASSUME LayersInv, ShutdownBegin PROVE LayersInv'
  OBVIOUS
<1>1. ShapeInv /\ DataOK /\ "main" \in Threads /\ Runs("main", "shutdown", "begin")
  BY Zenon DEF LayersInv, ShutdownBegin, Threads
<1>2. stack["main"] = <<F("shutdown", "all", "begin")>>
  BY <1>1, ShutdownTop
<1>3. /\ LockFree("main", DialogLayer) /\ UNCHANGED <<cast, calls, dialogs, transacs, dialog, transac>>
      /\ \/ stack' = Goes("main", "tell1")
         \/ stack' = Goes("main", "tell2")
         \/ stack' = Returns("main")
  BY Zenon DEF ShutdownBegin
<1>4. shutdown' \in [phase2 : BOOLEAN, told : SUBSET Dialogs, wait : BOOLEAN, signaled : BOOLEAN]
  BY <1>1 DEF ShutdownBegin, DataOK
<1>5. "tell1" \in ShutdownAt /\ "tell2" \in ShutdownAt
  BY DEF ShutdownAt
<1> QED BY <1>2, <1>3, <1>4, <1>5, ShutdownGoes, ShutdownOver

\* The wait ends, with a signal or a timeout.
LEMMA ShutdownWaitKept == LayersInv /\ (ShutdownWakes \/ ShutdownTimesOut) => LayersInv'
<1> SUFFICES ASSUME LayersInv, ShutdownWakes \/ ShutdownTimesOut PROVE LayersInv'
  OBVIOUS
<1>1. /\ ShapeInv /\ DataOK /\ "main" \in Threads /\ ShutdownWait
      /\ stack' = Goes("main", AfterWait)
      /\ UNCHANGED <<cast, calls, dialogs, transacs, dialog, transac, shutdown>>
  BY Zenon DEF LayersInv, ShutdownWakes, ShutdownTimesOut, Threads
<1>2. PICK at \in {"wait1", "wait2"} : Runs("main", "shutdown", at)
  BY <1>1, Zenon DEF ShutdownWait
<1>3. stack["main"] = <<F("shutdown", "all", at)>>
  BY <1>1, <1>2, ShutdownTop
<1>4. AfterWait \in {"phase2", "tell3"}
  BY DEF AfterWait
<1>5. shutdown' \in [phase2 : BOOLEAN, told : SUBSET Dialogs, wait : BOOLEAN, signaled : BOOLEAN]
  BY <1>1 DEF DataOK
<1>6. AfterWait \in ShutdownAt /\ AfterWait \notin {"tell1", "tell2"}
  BY <1>4 DEF ShutdownAt
<1> QED BY <1>1, <1>3, <1>5, <1>6, ShutdownGoes

\* The REGISTER dialogs come second.
LEMMA ShutdownPhase2Kept == LayersInv /\ ShutdownPhase2 => LayersInv'
<1> SUFFICES ASSUME LayersInv, ShutdownPhase2 PROVE LayersInv'
  OBVIOUS
<1>1. /\ ShapeInv /\ DataOK /\ "main" \in Threads /\ Runs("main", "shutdown", "phase2")
      /\ LockFree("main", DialogLayer) /\ stack' = Goes("main", "tell2")
      /\ UNCHANGED <<cast, calls, dialogs, transacs, dialog, transac>>
  BY Zenon DEF LayersInv, ShutdownPhase2, Threads
<1>2. stack["main"] = <<F("shutdown", "all", "phase2")>>
  BY <1>1, ShutdownTop
<1>3. shutdown' \in [phase2 : BOOLEAN, told : SUBSET Dialogs, wait : BOOLEAN, signaled : BOOLEAN]
  BY <1>1 DEF ShutdownPhase2, DataOK
<1>4. "tell2" \in ShutdownAt
  BY DEF ShutdownAt
<1> QED BY <1>1, <1>2, <1>3, <1>4, ShutdownGoes

\* The loop tells a dialog or comes to its end.
LEMMA ShutdownTellsKept == LayersInv /\ ShutdownTells => LayersInv'
<1> SUFFICES ASSUME LayersInv, ShutdownTells PROVE LayersInv'
  OBVIOUS
<1> DEFINE told == IF shutdown.told \subseteq ToSet(dialogs) THEN shutdown.told ELSE {}
           next(at) == OfKind(dialogs, Told(at)) \ told
           d(at) == First(dialogs, next(at))
<1> HIDE DEF told, next, d
<1>1. PICK at \in {"tell1", "tell2", "tell3"} :
        /\ Runs("main", "shutdown", at)
        /\ IF next(at) # {}
           THEN /\ stack' = Calls("main", F("dialog", d(at), "enter"))
                /\ shutdown' = [shutdown EXCEPT !.told = told \cup {d(at)}]
           ELSE /\ stack' = CASE at = "tell1" -> Goes("main", IF shutdown.wait THEN "wait1" ELSE "phase2")
                              [] at = "tell2" -> Goes("main", IF shutdown.wait THEN "wait2" ELSE "tell3")
                              [] at = "tell3" -> Returns("main")
                /\ shutdown' = [shutdown EXCEPT !.told = {}, !.signaled = FALSE, !.wait = FALSE]
        /\ UNCHANGED <<cast, calls, dialogs, transacs, dialog, transac>>
  BY Zenon DEF ShutdownTells, told, next, d
<1>2. ShapeInv /\ DataOK /\ ListInv /\ "main" \in Threads
  BY DEF LayersInv, Threads
<1>3. stack["main"] = <<F("shutdown", "all", at)>> /\ at \in ShutdownAt
  BY <1>1, <1>2, ShutdownTop
<1>4. calls' \in [Threads -> Nat]
  BY <1>1, <1>2 DEF DataOK
<1>5. CASE next(at) = {}
  <2>1. shutdown' \in [phase2 : BOOLEAN, told : SUBSET Dialogs, wait : BOOLEAN, signaled : BOOLEAN]
    BY <1>1, <1>2, <1>5 DEF DataOK
  <2>2. \/ \E to \in {"wait1", "phase2", "wait2", "tell3"} : stack' = Goes("main", to)
        \/ stack' = Returns("main")
    <3>1. /\ at = "tell1" => stack' = Goes("main", "wait1") \/ stack' = Goes("main", "phase2")
          /\ at = "tell2" => stack' = Goes("main", "wait2") \/ stack' = Goes("main", "tell3")
          /\ at = "tell3" => stack' = Returns("main")
      BY <1>1, <1>5
    <3> QED BY <3>1
  <2>3. \A to \in {"wait1", "phase2", "wait2", "tell3"} : to \in ShutdownAt /\ to \notin {"tell1", "tell2"}
    BY DEF ShutdownAt
  <2> QED BY <1>1, <1>3, <2>1, <2>2, <2>3, ShutdownGoes, ShutdownOver
<1>6. CASE next(at) # {}
  <2>1. dialogs \in Seq(Dialogs) /\ next(at) \subseteq ToSet(dialogs)
    BY <1>2 DEF DataOK, next, OfKind
  <2>2. d(at) \in ToSet(dialogs)
    BY <1>6, <2>1, FirstIn DEF d
  <2>3. PICK x \in Dialogs : x = d(at) /\ Known(x)
    BY <1>2, <2>1, <2>2 DEF ListInv, ToSet
  <2>4. told \subseteq Dialogs
    BY <1>2 DEF told, DataOK
  <2>5. shutdown' \in [phase2 : BOOLEAN, told : SUBSET Dialogs, wait : BOOLEAN, signaled : BOOLEAN]
    <3>1. shutdown' = [shutdown EXCEPT !.told = told \cup {x}] /\ told \cup {x} \in SUBSET Dialogs
      BY <1>1, <1>6, <2>3, <2>4
    <3>2. shutdown \in [phase2 : BOOLEAN, told : SUBSET Dialogs, wait : BOOLEAN, signaled : BOOLEAN]
      BY <1>2 DEF DataOK
    <3> QED BY <3>1, <3>2
  <2> DEFINE b == F("shutdown", "all", at)
             e == F("dialog", x, "enter")
             r == <<b>>
             s == <<e, b>>
  <2>6. Turned("main", s)
    BY <1>1, <1>3, <1>6, <2>3, CallsOne
  <2>7. Shape("main", s)
    <3>1. Base("main", b) /\ b \in Frame
      BY <1>3, BaseIs, FramesAre
    <3>2. Over(x, "enter", b)
      BY <1>1, <2>3, OverIs DEF Leaves
    <3> QED BY <3>1, <3>2, ShapesAre DEF DialogAt
  <2>8. Holds(e) = {} /\ ~Task(b)
    BY Idle
  <2>9. FailsStill(r, s)
    BY NoFails
  <2>10. r = stack["main"]
    BY <1>3
  <2> HIDE DEF e, b
  <2>11. HeldIn(s) \subseteq HeldIn(r) /\ \A f \in FramesIn(r) : ~Task(f)
    BY <2>8, OneFrame, TwoFrames
  <2> HIDE DEF r, s
  <2> QED BY <1>1, <1>2, <1>4, <2>5, <2>6, <2>7, <2>9, <2>10, <2>11, Moves
<1> QED BY <1>5, <1>6

-----------------------------------------------------------------------------
\* The invariant.

\* In the beginning the dialogs of the stack are listed, and nobody acts.
LEMMA InitLayers == Init => LayersInv
<1> SUFFICES ASSUME Init PROVE LayersInv
  OBVIOUS
<1> DEFINE S == {d \in Dialogs : cast.kind[d] # "incoming"}
<1>1. dialogs \in Seq(S) /\ IsInjective(dialogs)
  <2>1. IsFiniteSet(S)
    BY FS_Subset, SipLayersAssumption
  <2>2. Cardinality(S) \in Nat
    BY <2>1, FS_CardinalityType
  <2>3. dialogs \in SetToSeqs(S)
    BY DEF Init
  <2> HIDE DEF S
  <2> QED BY <2>2, <2>3 DEF SetToSeqs, IsInjective
<1>2. ToSet(dialogs) \subseteq S /\ dialogs \in Seq(Dialogs)
  BY <1>1 DEF ToSet
<1>3. transacs = <<>> /\ transacs \in Seq(Transacs) /\ ToSet(transacs) = {} /\ IsInjective(transacs)
  BY DEF Init, ToSet, IsInjective
<1>4. /\ stack \in [Threads -> Seq(Frame)] /\ \A th \in Threads : stack[th] = <<>>
  BY DEF Init
<1>5. DataOK
  <2>1. cast \in CastType /\ calls = cast.calls
    BY SipLayersAssumption DEF Init
  <2>2. calls \in [Threads -> Nat]
    BY <2>1 DEF CastType
  <2>3. dialog \in [Dialogs -> {"none", "new", "alive", "ended"}]
    BY DEF Init
  <2>4. transac \in [Transacs -> {NoTransac} \cup
       [fsm : {"started", "going", "terminated"}, dialog : Dialogs, role : {"client", "server"}]]
    BY DEF Init
  <2>5. shutdown \in [phase2 : BOOLEAN, told : SUBSET Dialogs, wait : BOOLEAN, signaled : BOOLEAN]
    BY DEF Init
  <2>6. cast \in Casts
    BY DEF Init
  <2> QED BY <1>2, <1>3, <1>4, <2>2, <2>3, <2>4, <2>5, <2>6 DEF DataOK
<1>6. ShapeInv
  BY <1>4, ShapesAre DEF ShapeInv
<1>7. LockInv
  <2>1. \A th \in Threads : Held(th) = {}
    BY <1>4, HeldIs, NoFrame
  <2> QED BY <2>1 DEF LockInv
<1>8. \A d \in ToSet(dialogs) : dialog[d] = "alive"
  BY <1>2 DEF Init
<1>9. \A t \in Transacs : ~Made(t)
  BY DEF Init, Made
<1>10. ListInv
  BY <1>1, <1>3, <1>8 DEF ListInv, Known
<1>11. EndInv
  <2>1. \A t \in Transacs : StartedOK(t)
    BY <1>9, Zenon DEF StartedOK
  <2>2. \A d \in ToSet(dialogs) : DialogListed(d)
    BY <1>8 DEF DialogListed
  <2> QED BY <1>3, <2>1, <2>2 DEF EndInv
<1> QED BY <1>5, <1>6, <1>7, <1>10, <1>11 DEF LayersInv

\* Every step keeps the invariant.
LEMMA NextLayers == LayersInv /\ [Next]_vars => LayersInv'
<1> SUFFICES ASSUME LayersInv, [Next]_vars PROVE LayersInv'
  OBVIOUS
<1>1. CASE UNCHANGED vars
  <2>1. UNCHANGED <<cast, stack, calls, dialogs, transacs, dialog, transac, shutdown>>
    BY <1>1 DEF vars
  <2>2. DataOK' /\ ListInv'
    BY <2>1 DEF LayersInv, DataOK, ListInv, Known, Made
  <2>3. Later
    BY <2>1 DEF Later, Known, Made
  <2>4. ShapeInv'
    <3>1. \A th \in Threads : Shape(th, stack[th])'
      BY <2>1, <2>3, ShapeStays DEF LayersInv, ShapeInv
    <3> QED BY <3>1 DEF ShapeInv
  <2>5. LockInv'
    BY <2>1 DEF LayersInv, LockInv, Held, Frames
  <2>6. EndInv'
    BY <2>1, Zenon DEF LayersInv, EndInv, StartedOK, DialogListed, TransacListed, Known, Made
  <2> QED BY <2>2, <2>4, <2>5, <2>6 DEF LayersInv
<1>2. CASE Call
  BY <1>2, NetMessageKept, NetRequestKept, NetNewDialogKept, TimerTransacKept, TimerDialogKept,
     UserNewDialogKept, UserFindsKept, ShutdownCalledKept DEF Call
<1>3. ASSUME NEW th \in Threads, Step(th) PROVE LayersInv'
  <2>1. CASE TransacStep(th)
    BY <2>1, StartKept, EventKept, RespondKept, CancelKept, DeliveredKept, TransacRemoveKept DEF TransacStep
  <2>2. CASE DialogStep(th)
    BY <2>2, DialogEnterKept, DialogRequestsKept, DialogRespondsKept, DialogRunKept, DialogCancelsKept,
       DialogCancelsNextKept, DialogRemoveKept DEF DialogStep
  <2>3. CASE CallReturns(th)
    BY <2>3, CallReturnsKept
  <2>4. CASE NetCreate \/ NetPush
    BY <2>4, NetCreateKept, NetPushKept
  <2>5. CASE UserActs
    BY <2>5, UserActsKept
  <2>6. CASE Shutdown
    BY <2>6, ShutdownBeginKept, ShutdownTellsKept, ShutdownWaitKept, ShutdownPhase2Kept DEF Shutdown
  <2> QED BY <1>3, <2>1, <2>2, <2>3, <2>4, <2>5, <2>6 DEF Step
<1> QED BY <1>1, <1>2, <1>3 DEF Next

(***************************************************************************)
(* The invariant holds: each stack of calls has one of five shapes, each   *)
(* lock has one owner, both lists hold only what exists and each item      *)
(* once, and whatever has ended but is still listed has a thread that is   *)
(* about to take it out.                                                   *)
(***************************************************************************)
THEOREM LayersCorrect == Spec => []LayersInv
<1> QED BY InitLayers, NextLayers, PTL DEF Spec

(***************************************************************************)
(* TypeOK, with one owner of each lock.                                    *)
(***************************************************************************)
THEOREM LayersTyped == Spec => []TypeOK
<1>1. LayersInv => TypeOK
  <2> SUFFICES ASSUME LayersInv PROVE TypeOK
    OBVIOUS
  <2>1. DataOK /\ LockInv
    BY DEF LayersInv
  <2>2. \A th \in Threads : Frames(th) \subseteq Frame
    BY <2>1 DEF DataOK, Frames
  <2>3. ToSet(dialogs) \subseteq Dialogs /\ ToSet(transacs) \subseteq Transacs
    BY <2>1 DEF DataOK, ToSet
  <2>4. \A t \in Transacs : transac[t] = NoTransac \/
       transac[t] \in [fsm : {"started", "going", "terminated"}, dialog : Dialogs,
                       role : {"client", "server"}]
    BY <2>1 DEF DataOK
  <2> QED BY <2>1, <2>2, <2>3, <2>4, Zenon DEF TypeOK, DataOK, LockInv
<1> QED BY <1>1, LayersCorrect, PTL

-----------------------------------------------------------------------------
\* What follows from it.

(***************************************************************************)
(* UsedIsReferenced: whoever acts on a dialog, or waits for its lock, came *)
(* from something that keeps it: a transaction of its own, a call that     *)
(* took a reference, or the shutdown.                                      *)
(***************************************************************************)
THEOREM DialogsInUseAreKept == Spec => []UsedIsReferenced
<1>1. LayersInv => UsedIsReferenced
  <2> SUFFICES ASSUME LayersInv, NEW th \in Threads, NEW f \in Frames(th), f.of = "dialog",
                      F("call", f.id, "timer") \notin Frames(th)
               PROVE  Referenced(f.id)
    BY DEF UsedIsReferenced
  <2>1. Shape(th, stack[th]) /\ Frames(th) = FramesIn(stack[th])
    BY HeldIs DEF LayersInv, ShapeInv
  <2>2. ASSUME NEW b \in Frame, NEW d \in Dialogs, NEW at \in DialogAt, Base(th, b), Over(d, at, b),
               f = F("dialog", d, at), f \in Frames(th), b \in Frames(th)
        PROVE  Referenced(f.id)
    <3>1. f.id = d /\ b = F(b.of, b.id, b.at)
      BY <2>2, Fields, FrameIs
    <3>2. CASE b.of = "transac"
      BY <2>2, <3>1, <3>2 DEF Referenced, Keeps, Over
    <3>3. CASE b.of = "call"
      <4>1. b.id = d /\ b.at \in {"held", "timer"}
        BY <2>2, <3>3 DEF Over
      <4>2. b.at # "timer"
        BY <2>2, <3>1, <3>3, <4>1
      <4> QED BY <2>2, <3>1, <3>3, <4>1, <4>2 DEF Referenced, Keeps
    <3>4. CASE b.of = "shutdown"
      BY <2>2, <3>1, <3>4 DEF Referenced, Base
    <3> QED BY <2>2, <3>2, <3>3, <3>4 DEF Over
  <2>3. CASE stack[th] = <<>>
    BY <2>1, <2>3, NoFrame
  <2>4. ASSUME NEW b \in Frame, Base(th, b), stack[th] = <<b>> PROVE FALSE
    BY <2>1, <2>4, OneFrame DEF Base
  <2>5. ASSUME NEW b \in Frame, NEW d \in Dialogs, NEW at \in DialogAt,
               Base(th, b), Over(d, at, b), stack[th] = <<F("dialog", d, at), b>>
        PROVE  Referenced(f.id)
    <3>1. Frames(th) = {F("dialog", d, at), b}
      BY <2>1, <2>5, TwoFrames
    <3>2. b.of # "dialog"
      BY <2>5 DEF Base
    <3> QED BY <2>2, <2>5, <3>1, <3>2
  <2>6. ASSUME NEW b \in Frame, NEW d \in Dialogs, NEW at \in DialogAt, NEW t \in Transacs, NEW has \in TransacAt,
               Base(th, b), Over(d, at, b), stack[th] = <<F("transac", t, has), F("dialog", d, at), b>>
        PROVE  Referenced(f.id)
    <3>1. Frames(th) = {F("transac", t, has), F("dialog", d, at), b}
      BY <2>1, <2>6, ThreeFrames
    <3>2. b.of # "dialog" /\ F("transac", t, has).of # "dialog"
      BY <2>6, Fields DEF Base
    <3> QED BY <2>2, <2>6, <3>1, <3>2
  <2>7. ASSUME NEW d, NEW t, stack[th] = <<F("call", d, "push"), F("transac", t, "start")>> PROVE FALSE
    <3>1. Frames(th) = {F("call", d, "push"), F("transac", t, "start")}
      BY <2>1, <2>7, TwoFrames
    <3> QED BY <3>1, Fields
  <2> QED BY <2>1, <2>3, <2>4, <2>5, <2>6, <2>7, Zenon DEF Shape
<1> QED BY <1>1, LayersCorrect, PTL

(***************************************************************************)
(* EndedLeavesNothing: OnTerminated cancels every transaction of the       *)
(* dialog, and each is removed or fails and then is removed, whatever else *)
(* happens in between; the dialog leaves its own list.                     *)
(***************************************************************************)
THEOREM EndedDialogsLeave == Spec => []EndedLeavesNothing
<1>1. LayersInv => EndedLeavesNothing
  <2> SUFFICES ASSUME LayersInv, NEW d \in Dialogs, dialog[d] = "ended", \A th \in Threads : stack[th] = <<>>
               PROVE  d \notin ToSet(dialogs) /\ \A t \in ToSet(transacs) : transac[t].dialog # d
    BY DEF EndedLeavesNothing
  <2>1. DataOK /\ ListInv /\ EndInv
    BY DEF LayersInv
  <2>2. \A f, th : th \in Threads => f \notin FramesIn(stack[th])
    BY NoFrame
  <2>3. d \notin ToSet(dialogs)
    BY <2>1, <2>2, Zenon DEF EndInv, DialogListed, LeavesIn, EndsIn
  <2>4. ASSUME NEW t \in ToSet(transacs), transac[t].dialog = d PROVE FALSE
    <3>1. t \in Transacs /\ Made(t)
      BY <2>1 DEF DataOK, ListInv, ToSet
    <3>2. transac[t].fsm # "started"
      <4>1. "net" \in Threads
        BY DEF Threads
      <4> QED BY <2>1, <2>2, <3>1, <4>1, Zenon DEF EndInv, StartedOK, StartsIn
    <3>3. transac[t].fsm # "terminated"
      BY <2>1, <2>2, <2>4, Zenon DEF EndInv, TransacListed, RemovesIn
    <3>4. transac[t].fsm # "going"
      <4>1. \A th \in Threads : ~FailsIn(t, d, stack[th])
        BY NoFails DEF NoFail
      <4> QED BY <2>1, <2>2, <2>4, <4>1, Zenon DEF EndInv, TransacListed, EndsIn
    <3> QED BY <2>1, <3>1, <3>2, <3>3, <3>4, DialogOf
  <2> QED BY <2>3, <2>4
<1> QED BY <1>1, LayersCorrect, PTL

-----------------------------------------------------------------------------
\* What waits, and what it holds meanwhile.

\* What each kind of frame waits for.
LEMMA WantsAre ==
  ASSUME NEW id, NEW at
  PROVE  /\ Wants(F("transac", id, at)) =
              IF at \in {"start", "event", "respond", "cancel"} THEN {TransacLock(id)}
              ELSE IF at = "remove" THEN {TransacLayer} ELSE {}
         /\ Wants(F("dialog", id, at)) =
              IF at = "enter" THEN {DialogLock(id)}
              ELSE IF at \in {"new", "find", "cancel"} THEN {TransacLayer}
              ELSE IF at = "remove" THEN {DialogLayer} ELSE {}
         /\ Wants(F("call", id, at)) = IF at = "create" THEN {TransacLayer} ELSE {}
         /\ Wants(F("shutdown", id, at)) = IF at \in {"begin", "phase2"} THEN {DialogLayer} ELSE {}
<1>1. Wants(F("transac", id, at)) =
        IF at \in {"start", "event", "respond", "cancel"} THEN {TransacLock(id)}
        ELSE IF at = "remove" THEN {TransacLayer} ELSE {}
  <2>1. CASE at \in {"start", "event", "respond", "cancel"}
    BY <2>1, Fields DEF Wants
  <2>2. CASE at = "remove"
    BY <2>2, Fields DEF Wants
  <2>3. CASE at \notin {"start", "event", "respond", "cancel", "remove"}
    BY <2>3, Fields DEF Wants
  <2> QED BY <2>1, <2>2, <2>3
<1>2. Wants(F("dialog", id, at)) =
        IF at = "enter" THEN {DialogLock(id)}
        ELSE IF at \in {"new", "find", "cancel"} THEN {TransacLayer}
        ELSE IF at = "remove" THEN {DialogLayer} ELSE {}
  <2>1. CASE at = "enter"
    BY <2>1, Fields DEF Wants
  <2>2. CASE at \in {"new", "find", "cancel"}
    BY <2>2, Fields DEF Wants
  <2>3. CASE at = "remove"
    BY <2>3, Fields DEF Wants
  <2>4. CASE at \notin {"enter", "new", "find", "cancel", "remove"}
    BY <2>4, Fields DEF Wants
  <2> QED BY <2>1, <2>2, <2>3, <2>4
<1>3. Wants(F("call", id, at)) = IF at = "create" THEN {TransacLayer} ELSE {}
  BY Fields DEF Wants
<1>4. Wants(F("shutdown", id, at)) = IF at \in {"begin", "phase2"} THEN {DialogLayer} ELSE {}
  BY Fields DEF Wants
<1> QED BY <1>1, <1>2, <1>3, <1>4

\* What a thread waits for and holds, by the length of its stack.
LEMMA WantedIs ==
  ASSUME NEW th \in Threads, NEW a, NEW b, NEW c
  PROVE  /\ stack[th] = <<>> => Wanted(th) = {}
         /\ stack[th] = <<a>> => Wanted(th) = Wants(a) \ Holds(a) /\ Held(th) = Holds(a)
         /\ stack[th] = <<a, b>> =>
              Wanted(th) = Wants(a) \ Held(th) /\ Held(th) = Holds(a) \cup Holds(b)
         /\ stack[th] = <<a, b, c>> =>
              Wanted(th) = Wants(a) \ Held(th) /\ Held(th) = Holds(a) \cup Holds(b) \cup Holds(c)
<1>1. stack[th] = <<>> => Wanted(th) = {}
  BY DEF Wanted
<1>2. stack[th] = <<a>> => Wanted(th) = Wants(a) \ Holds(a) /\ Held(th) = Holds(a)
  BY OneFrame, HeldIs, Tuples DEF Wanted
<1>3. stack[th] = <<a, b>> => Wanted(th) = Wants(a) \ Held(th) /\ Held(th) = Holds(a) \cup Holds(b)
  BY TwoFrames, HeldIs, Tuples DEF Wanted
<1>4. stack[th] = <<a, b, c>> =>
        Wanted(th) = Wants(a) \ Held(th) /\ Held(th) = Holds(a) \cup Holds(b) \cup Holds(c)
  BY ThreeFrames, HeldIs, Tuples DEF Wanted
<1> QED BY <1>1, <1>2, <1>3, <1>4, Zenon

\* What the caller of a dialog holds.
CallerHolds(th, d, l) ==
  \/ \E t \in Transacs : l = TransacLock(t) /\ Made(t) /\ transac[t].dialog = d
  \/ l = DialogLayer /\ th = "main"

\* It is one of the dialog's transactions, or the layer, in the shutdown.
LEMMA Callers ==
  ASSUME NEW th, NEW b \in Frame, NEW d \in Dialogs, NEW at, Base(th, b), Over(d, at, b), NEW l \in Holds(b)
  PROVE  CallerHolds(th, d, l)
<1>1. b = F(b.of, b.id, b.at)
  BY FrameIs
<1>2. CASE b.of = "transac"
  <2>1. l = TransacLock(b.id)
    BY <1>1, <1>2, HoldsAre
  <2> QED BY <1>2, <2>1 DEF Base, Over, CallerHolds
<1>3. CASE b.of = "call"
  BY <1>1, <1>3, HoldsAre
<1>4. CASE b.of = "shutdown"
  <2>1. l = DialogLayer
    BY <1>1, <1>4, HoldsAre
  <2> QED BY <1>4, <2>1 DEF Base, CallerHolds
<1> QED BY <1>2, <1>3, <1>4 DEF Over

\* A thread that waits holds nothing, or it waits for a dialog on behalf of who calls it, or it
\* acts on a dialog and waits for one of the layers, or for one of the dialog's transactions.
Waiting(th, l) ==
  /\ Wanted(th) = {l}
  /\ \/ /\ Held(th) = {}
        /\ l \in {TransacLayer, DialogLayer} \/ \E t \in Transacs : l = TransacLock(t)
     \/ \E d \in Dialogs :
          l = DialogLock(d) /\ \A k \in Held(th) : CallerHolds(th, d, k)
     \/ \E d \in Dialogs :
          /\ l \in {TransacLayer, DialogLayer} /\ DialogLock(d) \in Held(th)
          /\ \A k \in Held(th) : k = DialogLock(d) \/ CallerHolds(th, d, k)
     \/ \E d \in Dialogs, t \in Transacs :
          /\ l = TransacLock(t) /\ Made(t) /\ transac[t].dialog = d /\ DialogLock(d) \in Held(th)
          /\ \A k \in Held(th) : k \in {DialogLock(d), TransacLayer} \/ CallerHolds(th, d, k)

\* There is no other way to wait.
LEMMA WhoWaits ==
  ASSUME LayersInv, NEW th \in Threads, Wanted(th) # {}
  PROVE  \E l : Waiting(th, l)
<1>1. Shape(th, stack[th])
  BY DEF LayersInv, ShapeInv
<1>2. CASE stack[th] = <<>>
  BY <1>2, WantedIs
<1>3. ASSUME NEW b \in Frame, Base(th, b), stack[th] = <<b>>
      PROVE  \E l : Waiting(th, l)
  <2>1. b = F(b.of, b.id, b.at) /\ Wanted(th) = Wants(b) \ Holds(b) /\ Held(th) = Holds(b)
    BY <1>3, FrameIs, WantedIs
  <2>2. CASE b.of = "transac"
    <3>1. b.at \in {"start", "event", "remove"} /\ b.id \in Transacs
      BY <1>3, <2>1, <2>2, WantsAre DEF Base
    <3>2. Holds(b) = {}
      BY <2>1, <2>2, <3>1, HoldsAre
    <3>3. \/ Wanted(th) = {TransacLock(b.id)}
          \/ Wanted(th) = {TransacLayer}
      BY <2>1, <2>2, <3>1, <3>2, WantsAre
    <3> QED BY <2>1, <3>1, <3>2, <3>3 DEF Waiting
  <2>3. CASE b.of = "call"
    <3>1. Holds(b) = {} /\ Wanted(th) = {TransacLayer}
      BY <2>1, <2>3, WantsAre, HoldsAre
    <3> QED BY <2>1, <3>1 DEF Waiting
  <2>4. CASE b.of = "shutdown"
    <3>1. b.at \in {"begin", "phase2"}
      BY <2>1, <2>4, WantsAre
    <3>2. Holds(b) = {} /\ Wants(b) = {DialogLayer}
      BY <2>1, <2>4, <3>1, WantsAre, HoldsAre
    <3> QED BY <2>1, <3>2 DEF Waiting
  <2> QED BY <1>3, <2>2, <2>3, <2>4 DEF Base
<1>4. ASSUME NEW b \in Frame, NEW d \in Dialogs, NEW at \in DialogAt,
             Base(th, b), Over(d, at, b), stack[th] = <<F("dialog", d, at), b>>
      PROVE  \E l : Waiting(th, l)
  <2> DEFINE e == F("dialog", d, at)
  <2>1. Wanted(th) = Wants(e) \ Held(th) /\ Held(th) = Holds(e) \cup Holds(b)
    BY <1>4, WantedIs
  <2>2. \A k \in Holds(b) : CallerHolds(th, d, k)
    BY <1>4, Callers
  <2>3. CASE at = "enter"
    <3>1. Wants(e) = {DialogLock(d)} /\ Holds(e) = {}
      BY <2>3, WantsAre, HoldsAre
    <3> HIDE DEF e
    <3>2. Waiting(th, DialogLock(d))
      BY <2>1, <2>2, <3>1 DEF Waiting
    <3> QED BY <3>2
  <2>4. CASE at # "enter"
    <3>1. PICK l \in {TransacLayer, DialogLayer} : Wants(e) = {l}
      BY <2>1, <2>4, WantsAre
    <3>2. DialogLock(d) \in Holds(e)
      BY <2>4, HoldsAre
    <3>3. at # "cancelling"
      BY <3>1, WantsAre
    <3>4. Holds(e) = {DialogLock(d)}
      BY <2>4, <3>3, HoldsAre
    <3> HIDE DEF e
    <3>5. Waiting(th, l)
      BY <2>1, <2>2, <3>1, <3>4 DEF Waiting
    <3> QED BY <3>5
  <2> QED BY <2>3, <2>4
<1>5. ASSUME NEW b \in Frame, NEW d \in Dialogs, NEW at \in DialogAt, NEW t \in Transacs, NEW has \in TransacAt,
             Base(th, b), Over(d, at, b), Within(t, has, d, at),
             stack[th] = <<F("transac", t, has), F("dialog", d, at), b>>
      PROVE  \E l : Waiting(th, l)
  <2> DEFINE a == F("transac", t, has)
             e == F("dialog", d, at)
  <2>1. Wanted(th) = Wants(a) \ Held(th) /\ Held(th) = Holds(a) \cup Holds(e) \cup Holds(b)
    BY <1>5, WantedIs
  <2>2. \A k \in Holds(b) : CallerHolds(th, d, k)
    BY <1>5, Callers
  <2>3. Holds(a) = {}
    BY <1>5, Idle DEF Within
  <2>4. DialogLock(d) \in Holds(e) /\ Holds(e) \subseteq {DialogLock(d), TransacLayer}
    BY <1>5, HoldsAre DEF Within
  <2>5. CASE has \in {"respond", "cancel"}
    <3>1. Wants(a) = {TransacLock(t)} /\ Made(t) /\ transac[t].dialog = d
      BY <1>5, <2>5, WantsAre DEF Within
    <3> HIDE DEF a, e
    <3>2. Waiting(th, TransacLock(t))
      BY <2>1, <2>2, <2>3, <2>4, <3>1 DEF Waiting
    <3> QED BY <3>2
  <2>6. CASE has = "remove"
    <3>1. Wants(a) = {TransacLayer}
      BY <2>6, WantsAre
    <3> HIDE DEF a, e
    <3>2. TransacLayer \notin Holds(e)
      BY <2>1, <3>1
    <3>3. Waiting(th, TransacLayer)
      BY <2>1, <2>2, <2>3, <2>4, <3>1, <3>2 DEF Waiting
    <3> QED BY <3>3
  <2> QED BY <1>5, <2>5, <2>6 DEF Within
<1>6. ASSUME NEW d, NEW t, stack[th] = <<F("call", d, "push"), F("transac", t, "start")>> PROVE FALSE
  <2>1. Wants(F("call", d, "push")) = {}
    BY WantsAre
  <2> QED BY <1>6, <2>1, WantedIs
<1> QED BY <1>1, <1>2, <1>3, <1>4, <1>5, <1>6, Zenon DEF Shape

\* Acts on a transaction, from under the lock of its dialog.
Acts(th, t) == TransacLock(t) \in Wanted(th) /\ Made(t) /\ DialogLock(transac[t].dialog) \in Held(th)

\* Who holds a lock and waits for another.
LEMMA Holders ==
  ASSUME LayersInv, NEW th \in Threads, Wanted(th) # {}
  PROVE  /\ \A t \in Transacs : TransacLock(t) \in Held(th) =>
              /\ Made(t) /\ transac[t].dialog \in Dialogs
              /\ DialogLock(transac[t].dialog) \in Held(th) \cup Wanted(th)
         /\ \A d \in Dialogs : DialogLock(d) \in Held(th) =>
              \/ TransacLayer \in Wanted(th) \/ DialogLayer \in Wanted(th)
              \/ \E t \in Transacs : Acts(th, t)
         /\ TransacLayer \in Held(th) => \E t \in Transacs : Acts(th, t)
         /\ DialogLayer \in Held(th) =>
              /\ th = "main"
              /\ \/ TransacLayer \in Wanted(th) \/ \E t \in Transacs : Acts(th, t)
                 \/ \E d \in Dialogs : DialogLock(d) \in Wanted(th)
         /\ \A l \in Wanted(th) :
              /\ Wanted(th) = {l}
              /\ \/ l \in {TransacLayer, DialogLayer}
                 \/ \E d \in Dialogs : l = DialogLock(d)
                 \/ \E t \in Transacs : l = TransacLock(t)
<1>1. PICK l : Waiting(th, l)
  BY WhoWaits
<1>2. Wanted(th) = {l} /\ l \notin Held(th)
  <2>1. Wanted(th) \cap Held(th) = {}
    BY DEF Wanted
  <2> QED BY <1>1, <2>1 DEF Waiting
<1>3. \A d \in Dialogs : \A k : CallerHolds(th, d, k) =>
        /\ \A t \in Transacs : k = TransacLock(t) => Made(t) /\ transac[t].dialog = d
        /\ \A x : k # DialogLock(x)
        /\ k # TransacLayer
        /\ k = DialogLayer => th = "main"
  BY LocksDiffer DEF CallerHolds
<1>4. CASE Held(th) = {} /\ (l \in {TransacLayer, DialogLayer} \/ \E t \in Transacs : l = TransacLock(t))
  BY <1>2, <1>4
<1>5. CASE \E d \in Dialogs : l = DialogLock(d) /\ \A k \in Held(th) : CallerHolds(th, d, k)
  <2>1. PICK d \in Dialogs : l = DialogLock(d) /\ \A k \in Held(th) : CallerHolds(th, d, k)
    BY <1>5
  <2>2. /\ \A t \in Transacs : TransacLock(t) \in Held(th) => Made(t) /\ transac[t].dialog = d
        /\ \A x : DialogLock(x) \notin Held(th)
        /\ TransacLayer \notin Held(th)
        /\ DialogLayer \in Held(th) => th = "main"
    BY <1>3, <2>1
  <2> QED BY <1>2, <2>1, <2>2
<1>6. CASE \E d \in Dialogs :
             /\ l \in {TransacLayer, DialogLayer} /\ DialogLock(d) \in Held(th)
             /\ \A k \in Held(th) : k = DialogLock(d) \/ CallerHolds(th, d, k)
  <2>1. PICK d \in Dialogs :
             /\ l \in {TransacLayer, DialogLayer} /\ DialogLock(d) \in Held(th)
             /\ \A k \in Held(th) : k = DialogLock(d) \/ CallerHolds(th, d, k)
    BY <1>6
  <2>2. /\ \A t \in Transacs : TransacLock(t) \in Held(th) => Made(t) /\ transac[t].dialog = d
        /\ TransacLayer \notin Held(th)
        /\ DialogLayer \in Held(th) => th = "main"
    BY <1>3, <2>1, LocksDiffer
  <2> QED BY <1>2, <2>1, <2>2
<1>7. CASE \E d \in Dialogs, t \in Transacs :
             /\ l = TransacLock(t) /\ Made(t) /\ transac[t].dialog = d /\ DialogLock(d) \in Held(th)
             /\ \A k \in Held(th) : k \in {DialogLock(d), TransacLayer} \/ CallerHolds(th, d, k)
  <2>1. PICK d \in Dialogs, t \in Transacs :
             /\ l = TransacLock(t) /\ Made(t) /\ transac[t].dialog = d /\ DialogLock(d) \in Held(th)
             /\ \A k \in Held(th) : k \in {DialogLock(d), TransacLayer} \/ CallerHolds(th, d, k)
    BY <1>7
  <2>2. /\ \A u \in Transacs : TransacLock(u) \in Held(th) => Made(u) /\ transac[u].dialog = d
        /\ DialogLayer \in Held(th) => th = "main"
    BY <1>3, <2>1, LocksDiffer
  <2>3. Acts(th, t)
    BY <1>2, <2>1 DEF Acts
  <2> QED BY <1>2, <2>1, <2>2, <2>3
<1> QED BY <1>1, <1>4, <1>5, <1>6, <1>7 DEF Waiting

\* Threads that wait only for each other are caught in one of the two inversions: whatever one
\* of them waits for, following who holds it leads to one.
LEMMA StuckInverted ==
  ASSUME LayersInv, NEW K \in SUBSET Threads, K # {}, \A a \in K : \E b \in K : WaitsFor(a, b)
  PROVE  \E a, b \in K : Inverted(a, b)
<1>1. \A a \in K : a \in Threads /\ Wanted(a) # {}
  BY DEF WaitsFor
<1>2. ASSUME NEW a \in K, NEW l \in Wanted(a)
      PROVE  \E b \in K : b # a /\ l \in Held(b) /\ WaitsFor(a, b)
  <2>1. PICK b \in K : WaitsFor(a, b)
    OBVIOUS
  <2>2. Wanted(a) = {l}
    BY <1>1, <1>2, Holders
  <2> QED BY <2>1, <2>2 DEF WaitsFor
<1>3. \A a, b \in K : a # b => Held(a) \cap Held(b) = {}
  BY <1>1 DEF LayersInv, LockInv
<1>4. ASSUME NEW a \in K, NEW t \in Transacs, Acts(a, t)
      PROVE  \E p, q \in K : Inverted(p, q)
  <2> DEFINE d == transac[t].dialog
  <2>1. TransacLock(t) \in Wanted(a) /\ Made(t) /\ DialogLock(d) \in Held(a)
    BY <1>4 DEF Acts
  <2>2. PICK b \in K : b # a /\ TransacLock(t) \in Held(b) /\ WaitsFor(a, b)
    BY <1>2, <2>1
  <2>3. d \in Dialogs /\ DialogLock(d) \in Held(b) \cup Wanted(b)
    BY <1>1, <2>2, Holders
  <2>4. DialogLock(d) \in Wanted(b)
    BY <1>3, <2>1, <2>2, <2>3
  <2>5. WaitsFor(b, a)
    BY <2>1, <2>2, <2>4 DEF WaitsFor
  <2>6. Inverted(b, a)
    BY <2>1, <2>2, <2>3, <2>4, <2>5 DEF Inverted, Made
  <2> QED BY <2>6
<1>5. ASSUME NEW a \in K, TransacLayer \in Wanted(a)
      PROVE  \E p, q \in K : Inverted(p, q)
  <2>1. PICK b \in K : TransacLayer \in Held(b)
    BY <1>2, <1>5
  <2>2. PICK t \in Transacs : Acts(b, t)
    BY <1>1, <2>1, Holders
  <2> QED BY <1>4, <2>2
<1>6. ASSUME NEW a \in K, DialogLayer \in Wanted(a)
      PROVE  \E p, q \in K : Inverted(p, q)
  <2>1. PICK m \in K : DialogLayer \in Held(m)
    BY <1>2, <1>6
  <2>2. /\ m = "main"
        /\ \/ TransacLayer \in Wanted(m) \/ \E t \in Transacs : Acts(m, t)
           \/ \E d \in Dialogs : DialogLock(d) \in Wanted(m)
    BY <1>1, <2>1, Holders
  <2>3. ASSUME NEW d \in Dialogs, DialogLock(d) \in Wanted(m)
        PROVE  \E p, q \in K : Inverted(p, q)
    <3>1. PICK b \in K : b # m /\ DialogLock(d) \in Held(b) /\ WaitsFor(m, b)
      BY <1>2, <2>3
    <3>2. \/ TransacLayer \in Wanted(b) \/ DialogLayer \in Wanted(b)
          \/ \E t \in Transacs : Acts(b, t)
      BY <1>1, <3>1, Holders
    <3>3. CASE DialogLayer \in Wanted(b)
      <4>1. WaitsFor(b, m)
        BY <2>1, <3>1, <3>3 DEF WaitsFor
      <4>2. Inverted(m, b)
        BY <2>2, <2>3, <3>1, <3>3, <4>1 DEF Inverted
      <4> QED BY <4>2
    <3> QED BY <1>4, <1>5, <3>2, <3>3
  <2> QED BY <1>4, <1>5, <2>2, <2>3
<1>7. ASSUME NEW a \in K, NEW d \in Dialogs, DialogLock(d) \in Held(a)
      PROVE  \E p, q \in K : Inverted(p, q)
  <2>1. \/ TransacLayer \in Wanted(a) \/ DialogLayer \in Wanted(a)
        \/ \E t \in Transacs : Acts(a, t)
    BY <1>1, <1>7, Holders
  <2> QED BY <1>4, <1>5, <1>6, <2>1
<1>8. ASSUME NEW a \in K, NEW d \in Dialogs, DialogLock(d) \in Wanted(a)
      PROVE  \E p, q \in K : Inverted(p, q)
  <2>1. PICK b \in K : DialogLock(d) \in Held(b)
    BY <1>2, <1>8
  <2> QED BY <1>7, <2>1
<1>9. ASSUME NEW a \in K, NEW t \in Transacs, TransacLock(t) \in Wanted(a)
      PROVE  \E p, q \in K : Inverted(p, q)
  <2>1. PICK b \in K : TransacLock(t) \in Held(b)
    BY <1>2, <1>9
  <2>2. transac[t].dialog \in Dialogs /\ DialogLock(transac[t].dialog) \in Held(b) \cup Wanted(b)
    BY <1>1, <2>1, Holders
  <2> QED BY <1>7, <1>8, <2>2
<1>10. PICK a \in K : a \in Threads
  BY <1>1
<1>11. PICK l : l \in Wanted(a)
  BY <1>1
<1>12. \/ l \in {TransacLayer, DialogLayer}
       \/ \E d \in Dialogs : l = DialogLock(d)
       \/ \E t \in Transacs : l = TransacLock(t)
  BY <1>1, <1>11, Holders
<1> QED BY <1>5, <1>6, <1>8, <1>9, <1>11, <1>12

(***************************************************************************)
(* DeadlocksAreInversions, for any number of dialogs and transactions: the *)
(* locks of tsip_dialog.c, tsip_transac.c and the two layers let threads   *)
(* wait for each other only between a transaction and its dialog, or       *)
(* between a dialog that ends and the shutdown that tells it.              *)
(***************************************************************************)
THEOREM StuckThreadsAreInverted == Spec => []DeadlocksAreInversions
<1>1. LayersInv => DeadlocksAreInversions
  <2> SUFFICES ASSUME LayersInv PROVE DeadlocksAreInversions
    OBVIOUS
  <2> DEFINE waits == {p \in Threads \X Threads : WaitsFor(p[1], p[2])}
  <2>1. \A a, b : <<a, b>> \in waits => WaitsFor(a, b)
    OBVIOUS
  <2> HIDE DEF waits
  <2>2. ASSUME NEW K \in (SUBSET Threads) \ {{}}, \A a \in K : \E b \in K : <<a, b>> \in waits
        PROVE  \E a, b \in K : Inverted(a, b)
    <3>1. K \in SUBSET Threads /\ K # {} /\ \A a \in K : \E b \in K : WaitsFor(a, b)
      BY <2>1, <2>2
    <3> QED BY <3>1, StuckInverted
  <2> USE DEF waits
  <2> QED BY <2>2 DEF DeadlocksAreInversions
<1> QED BY <1>1, LayersCorrect, PTL
=============================================================================
