--------------------------- MODULE TransacProofs ---------------------------
(***************************************************************************)
(* What one step of the base class keeps, for any transaction built on it: *)
(* lemmas that TransactionsProofs instantiates for each of the four.       *)
(***************************************************************************)
EXTENDS Transac, TLAPS

(* A timer of this kind is armed whose id is not stored yet.               *)
Fresh(kind) ==
  \/ \E t \in pending : t.kind = kind /\ t.own = "unset"
  \/ \E i \in DOMAIN raised : raised[i].kind = kind /\ raised[i].own = "unset"

(* The ids to be stored are those of timers under way, and none is left    *)
(* once the lock is free.                                                  *)
StoringInv ==
  /\ \A kind \in storing : Fresh(kind) \/ "unmatched" \in mishaps
  /\ exec = "no" => /\ \A t \in pending : t.own # "unset"
                    /\ \A i \in DOMAIN raised : raised[i].own # "unset"

BaseInv == TransacTypeOK /\ StoringInv

(* A timer of this kind will act, or has been overtaken by its callback.   *)
Comes(kind) == Waiting(kind) \/ "unmatched" \in mishaps

(* A step that cancels the kinds in `cancel` and arms the timers in `new`. *)
Carries(cancel, new) ==
  /\ \A kind : (/\ Comes(kind) /\ kind \notin cancel
                /\ acting' = acting \/ acting # kind) => Comes(kind)'
  /\ \A t \in new : Comes(t.kind)'
  /\ \A kind : (/\ ~Waiting(kind) /\ kind \notin {"idle", "running"}
                /\ \A t \in new : t.kind # kind) => ~Waiting(kind)'

Unset(new) == new \subseteq Timer /\ \A t \in new : t.own = "unset"

(* What two handlers, one inside the other, do to the timers.              *)
LEMMA EffectsKeep ==
  ASSUME BaseInv, NEW cancel, NEW new, NEW msgs, NEW events, Unset(new),
         Effects(cancel, new, msgs, events),
         exec' \in Endings, mishaps \subseteq mishaps',
         mishaps' \subseteq mishaps \union {"unsent"},
         life' \in {life, "removed"}, acting' \in {acting, "running"}, period' \in Nat
  PROVE  BaseInv' /\ Carries(cancel, new)
<1> USE DEF Effects, Canceled, Unset, BaseInv
<1>1. TransacTypeOK'
  BY DEF TransacTypeOK, Timer, Raised, Endings, InUser
<1>2. \A kind : Fresh(kind) => Fresh(kind)'
  BY DEF Fresh
<1>3. \A t \in new : Fresh(t.kind)'
  BY DEF Fresh
<1>4. StoringInv'
  BY <1>2, <1>3 DEF StoringInv, Endings, InUser
<1>5. Carries(cancel, new)
  BY DEF Carries, Comes, Waiting
<1> QED BY <1>1, <1>4, <1>5

(* A handler entered from outside.                                         *)
LEMMA HandleKeeps ==
  ASSUME BaseInv, NEW to, NEW cancel, NEW new, NEW msgs, NEW events, NEW how \in Endings,
         Unset(new), Handle(to, cancel, new, msgs, events, how),
         acting' \in {acting, "running"}, period' \in Nat
  PROVE  BaseInv' /\ Carries(cancel, new)
<1>1. Effects(cancel, new, msgs, events) /\ life' = life /\ exec' = how
  BY DEF Handle
<1>2. mishaps \subseteq mishaps' /\ mishaps' \subseteq mishaps \union {"unsent"}
  BY DEF Handle
<1> QED BY <1>1, <1>2, EffectsKeep

(* A handler entered from inside a delivery.                               *)
LEMMA HandleNestedKeeps ==
  ASSUME BaseInv, NEW to, NEW cancel, NEW new, NEW msgs, NEW events, NEW ok,
         Unset(new), HandleNested(to, cancel, new, msgs, events, ok),
         acting' = acting, period' \in Nat
  PROVE  BaseInv' /\ Carries(cancel, new)
<1>1. /\ Effects(cancel, new, msgs, events) /\ life' \in {life, "removed"}
      /\ exec' \in Endings
  BY DEF HandleNested, Endings
<1>2. mishaps \subseteq mishaps' /\ mishaps' \subseteq mishaps \union {"unsent"}
  BY DEF HandleNested
<1> QED BY <1>1, <1>2, EffectsKeep

(* What a handler arms after its user has returned.                        *)
LEMMA ThenScheduleKeeps ==
  ASSUME BaseInv, NEW kind \in Kinds, NEW timeout \in Nat, ThenSchedule(kind, timeout)
  PROVE  BaseInv' /\ Carries({}, {Armed(kind, timeout)})
<1> USE DEF ThenSchedule, Armed, BaseInv
<1>1. TransacTypeOK'
  BY DEF TransacTypeOK, Timer, Endings, InUser, Ownership
<1>2. \A k : Fresh(k) => Fresh(k)'
  BY DEF Fresh
<1>3. PICK t \in pending' : t.kind = kind /\ t.own = "unset"
  <2>1. Armed(kind, timeout) \in pending'
    OBVIOUS
  <2>2. Armed(kind, timeout).kind = kind /\ Armed(kind, timeout).own = "unset"
    OBVIOUS
  <2> QED BY <2>1, <2>2
<1>4. Fresh(kind)' /\ Comes(kind)'
  BY <1>3 DEF Fresh, Comes, Waiting
<1>5. StoringInv'
  BY <1>2, <1>4 DEF StoringInv
<1>6. \A k : Comes(k) /\ acting' = acting => Comes(k)'
  BY DEF Comes, Waiting
<1>7. Armed(kind, timeout).kind = kind
  OBVIOUS
<1>8. \A k : ~Waiting(k) /\ k # kind => ~Waiting(k)'
  BY <1>7 DEF Waiting
<1>9. acting' = acting
  OBVIOUS
<1>10. Carries({}, {Armed(kind, timeout)})
  <2> HIDE DEF Armed, ThenSchedule
  <2> QED BY <1>4, <1>6, <1>7, <1>8, <1>9 DEF Carries
<1> QED BY <1>1, <1>5, <1>10

-----------------------------------------------------------------------------
(* The steps between the handlers.                                         *)

(* A timer that the state machine still expects is not dropped.            *)
CarriesOn ==
  /\ \A kind : (/\ kind \notin {"idle", "running"}
                /\ Comes(kind) /\ life = "listed") => Comes(kind)'
  /\ \A kind : kind \notin {"idle", "running"} /\ ~Waiting(kind) => ~Waiting(kind)'

(* The return of a handler: an id stored makes its timer found again.      *)
LEMMA ReturnKeeps ==
  ASSUME BaseInv, Return
  PROVE  BaseInv' /\ CarriesOn
<1> USE DEF BaseInv
<1>1. /\ pending' = {Stored(t) : t \in pending}
      /\ raised' = [i \in DOMAIN raised |-> Stored(raised[i])]
      /\ storing' = {} /\ exec' = "no" /\ ending' \in BOOLEAN
      /\ acting' = IF acting = "running" THEN "idle" ELSE acting
      /\ UNCHANGED <<reliable, state, life, period, mishaps, out>>
  BY DEF Return
<1>2. \A t \in pending : /\ Stored(t) \in Timer /\ Stored(t).kind = t.kind
                         /\ Stored(t).own # "unset"
                         /\ t.own = "unset" => Stored(t).own = "set"
                         /\ t.own = "set" /\ t.kind \notin storing => Stored(t).own = "set"
                         /\ t.own = "lost" => Stored(t).own = "lost"
  BY DEF TransacTypeOK, Timer, Ownership, Stored
<1>3. \A i \in DOMAIN raised :
        /\ Stored(raised[i]) \in Raised /\ Stored(raised[i]).kind = raised[i].kind
        /\ Stored(raised[i]).own # "unset"
        /\ raised[i].own = "unset" => Stored(raised[i]).own = "set"
        /\ raised[i].own = "set" /\ raised[i].kind \notin storing
             => Stored(raised[i]).own = "set"
        /\ raised[i].own = "lost" => Stored(raised[i]).own = "lost"
  <2>1. \A r \in Raised : /\ Stored(r) \in Raised /\ Stored(r).kind = r.kind
                          /\ Stored(r).own # "unset"
                          /\ r.own = "unset" => Stored(r).own = "set"
                          /\ r.own = "set" /\ r.kind \notin storing
                               => Stored(r).own = "set"
                          /\ r.own = "lost" => Stored(r).own = "lost"
    BY DEF Raised, Ownership, Stored
  <2>2. \A i \in DOMAIN raised : raised[i] \in Raised
    BY DEF TransacTypeOK
  <2> QED BY <2>1, <2>2
<1>4. raised' \in Seq(Raised) /\ DOMAIN raised' = DOMAIN raised
  BY <1>1, <1>3 DEF TransacTypeOK
<1>5. pending' \subseteq Timer
  BY <1>1, <1>2
<1>6. TransacTypeOK'
  BY <1>1, <1>4, <1>5 DEF TransacTypeOK
<1>7. StoringInv'
  BY <1>1, <1>2, <1>3, <1>4 DEF StoringInv
<1>8. ASSUME NEW kind, kind \notin {"idle", "running"}, Comes(kind)
      PROVE  Comes(kind)'
  <2>1. CASE "unmatched" \in mishaps
    BY <2>1, <1>1 DEF Comes
  <2>2. CASE acting = kind
    BY <2>2, <1>8, <1>1 DEF Comes, Waiting
  <2>3. ASSUME NEW t \in pending, t.kind = kind, t.own # "lost",
               kind \notin storing \/ t.own = "unset"
        PROVE  Comes(kind)'
    <3>1. Stored(t) \in pending' /\ Stored(t).kind = kind /\ Stored(t).own # "lost"
      BY <2>3, <1>1, <1>2 DEF TransacTypeOK, Timer, Ownership
    <3> QED BY <3>1 DEF Comes, Waiting
  <2>4. ASSUME NEW i \in DOMAIN raised, raised[i].kind = kind, raised[i].own # "lost",
               kind \notin storing \/ raised[i].own = "unset"
        PROVE  Comes(kind)'
    <3>1. raised'[i] = Stored(raised[i]) /\ raised[i] \in Raised
      BY <1>1 DEF TransacTypeOK
    <3>2. raised'[i].kind = kind /\ raised'[i].own # "lost"
      BY <2>4, <1>3, <3>1 DEF Raised, Ownership
    <3> QED BY <3>2, <1>4 DEF Comes, Waiting
  <2>5. CASE kind \in storing /\ "unmatched" \notin mishaps
    <3>1. Fresh(kind)
      BY <2>5 DEF StoringInv
    <3> QED BY <3>1, <2>3, <2>4 DEF Fresh
  <2> QED BY <1>8, <2>1, <2>2, <2>3, <2>4, <2>5 DEF Comes, Waiting
<1>9. ASSUME NEW kind, kind \notin {"idle", "running"}, ~Waiting(kind)
      PROVE  ~Waiting(kind)'
  <2>1. \A t \in pending : Stored(t).own = "lost" \/ t.own # "lost"
    BY <1>2
  <2>2. \A i \in DOMAIN raised : Stored(raised[i]).own = "lost" \/ raised[i].own # "lost"
    BY <1>3
  <2>3. \A u \in pending' : u.kind = kind => u.own = "lost"
    BY <1>9, <2>1, <1>1, <1>2 DEF Waiting
  <2>4. \A i \in DOMAIN raised' : raised'[i].kind = kind => raised'[i].own = "lost"
    BY <1>9, <2>2, <1>1, <1>3, <1>4 DEF Waiting
  <2>5. acting' # kind
    BY <1>9, <1>1 DEF Waiting
  <2> QED BY <2>3, <2>4, <2>5 DEF Waiting
<1> QED BY <1>6, <1>7, <1>8, <1>9 DEF CarriesOn

(* A timer handed over to the dispatching thread.                          *)
LEMMA RaiseKeeps ==
  ASSUME BaseInv, RaiseTimer
  PROVE  BaseInv' /\ CarriesOn
<1> USE DEF BaseInv
<1>1. PICK t \in pending :
        /\ pending' = pending \ {t}
        /\ raised' = Append(raised, [kind |-> t.kind, own |-> t.own])
        /\ UNCHANGED <<reliable, state, exec, ending, life, period, storing,
                       acting, mishaps, tu, out>>
  BY DEF RaiseTimer
<1>2. DEFINE r == [kind |-> t.kind, own |-> t.own]
<1>3. r \in Raised /\ r.kind = t.kind /\ r.own = t.own
  BY DEF TransacTypeOK, Timer, Raised
<1> HIDE DEF r
<1>4. /\ raised' \in Seq(Raised) /\ DOMAIN raised' = DOMAIN raised \union {Len(raised) + 1}
      /\ \A i \in DOMAIN raised : raised'[i] = raised[i]
      /\ raised'[Len(raised) + 1] = r
  BY <1>1, <1>3 DEF TransacTypeOK, r
<1>5. TransacTypeOK'
  BY <1>1, <1>4 DEF TransacTypeOK
<1>6. \A kind : Fresh(kind) => Fresh(kind)'
  BY <1>1, <1>3, <1>4 DEF Fresh
<1>7. StoringInv'
  BY <1>1, <1>3, <1>4, <1>6 DEF StoringInv
<1>8. \A kind : Waiting(kind) <=> Waiting(kind)'
  BY <1>1, <1>3, <1>4 DEF Waiting
<1>9. CarriesOn
  BY <1>1, <1>8 DEF CarriesOn, Comes
<1> QED BY <1>5, <1>7, <1>9

(* A timer compared with the ids stored.                                   *)
LEMMA MatchKeeps ==
  ASSUME BaseInv, MatchTimer
  PROVE  BaseInv' /\ CarriesOn
<1> USE DEF BaseInv
<1>1. /\ raised # <<>> /\ acting = "idle" /\ raised' = Tail(raised)
      /\ acting' = IF life # "destroyed" /\ Head(raised).own = "set"
                   THEN Head(raised).kind ELSE "idle"
      /\ mishaps' = mishaps
           \union (IF life = "destroyed" THEN {"dangling"} ELSE {})
           \union (IF Head(raised).own = "unset" THEN {"unmatched"} ELSE {})
      /\ UNCHANGED <<reliable, state, exec, ending, life, period, pending,
                     storing, tu, out>>
  BY DEF MatchTimer
<1>2. /\ raised \in Seq(Raised) /\ Head(raised) = raised[1] /\ raised[1] \in Raised
      /\ raised' \in Seq(Raised) /\ 1 \in DOMAIN raised
      /\ \A i \in DOMAIN raised : i # 1 => i - 1 \in DOMAIN raised' /\ raised'[i - 1] = raised[i]
      /\ \A i \in DOMAIN raised' : i + 1 \in DOMAIN raised /\ raised'[i] = raised[i + 1]
  <2> DEFINE n == Len(raised)
  <2>1. raised \in Seq(Raised) /\ raised # <<>>
    BY <1>1 DEF TransacTypeOK
  <2>2. /\ n \in Nat /\ n > 0 /\ DOMAIN raised = 1..n /\ Head(raised) = raised[1]
    BY <2>1
  <2>3. /\ raised' \in Seq(Raised) /\ Len(raised') = n - 1
        /\ \A i \in 1..(n - 1) : raised'[i] = raised[i + 1]
    BY <1>1, <2>1
  <2>4. DOMAIN raised' = 1..(n - 1)
    BY <2>3
  <2>5. raised[1] \in Raised
    BY <2>1, <2>2
  <2> HIDE DEF n
  <2>6. \A i \in 1..n : i # 1 => i - 1 \in 1..(n - 1) /\ (i - 1) + 1 = i
    BY <2>2
  <2>7. \A i \in 1..(n - 1) : i + 1 \in 1..n
    BY <2>2
  <2>8. \A i \in 1..n : i # 1 => raised'[i - 1] = raised[i]
    BY <2>3, <2>6
  <2>9. 1 \in 1..n
    BY <2>2
  <2> QED BY <2>1, <2>2, <2>3, <2>4, <2>5, <2>6, <2>7, <2>8, <2>9
<1>3. TransacTypeOK'
  <2>1. acting' \in {"idle", "running"} \union Kinds
    BY <1>1, <1>2 DEF Raised
  <2>2. mishaps' \subseteq {"unmatched", "dangling", "unsent"}
    BY <1>1 DEF TransacTypeOK
  <2> QED BY <1>1, <1>2, <2>1, <2>2 DEF TransacTypeOK
<1>4. ASSUME NEW kind, Fresh(kind)
      PROVE  Fresh(kind)' \/ "unmatched" \in mishaps'
  <2>1. CASE \E t \in pending : t.kind = kind /\ t.own = "unset"
    BY <1>1, <2>1 DEF Fresh
  <2>2. CASE \E i \in DOMAIN raised : raised[i].kind = kind /\ raised[i].own = "unset"
    <3>1. PICK i \in DOMAIN raised : raised[i].kind = kind /\ raised[i].own = "unset"
      BY <2>2
    <3>2. CASE i = 1
      BY <1>1, <1>2, <3>1, <3>2
    <3>3. CASE i # 1
      BY <1>2, <3>1, <3>3 DEF Fresh
    <3> QED BY <3>2, <3>3
  <2> QED BY <1>4, <2>1, <2>2 DEF Fresh
<1>5. StoringInv'
  <2>1. \A kind \in storing' : Fresh(kind)' \/ "unmatched" \in mishaps'
    BY <1>1, <1>4 DEF StoringInv
  <2>2. exec' = "no" => /\ \A t \in pending' : t.own # "unset"
                        /\ \A i \in DOMAIN raised' : raised'[i].own # "unset"
    BY <1>1, <1>2 DEF StoringInv
  <2> QED BY <2>1, <2>2 DEF StoringInv
<1>6. ASSUME NEW kind, kind # "idle", Waiting(kind), life = "listed"
      PROVE  Comes(kind)'
  <2>1. CASE (\E t \in pending : t.kind = kind /\ t.own # "lost") \/ acting = kind
    BY <1>1, <1>6, <2>1 DEF Waiting, Comes
  <2>2. CASE \E i \in DOMAIN raised : raised[i].kind = kind /\ raised[i].own # "lost"
    <3>1. PICK i \in DOMAIN raised : raised[i].kind = kind /\ raised[i].own # "lost"
      BY <2>2
    <3>2. CASE i = 1
      <4>1. raised[1].own \in {"unset", "set"}
        BY <1>2, <3>1, <3>2 DEF Raised, Ownership
      <4> QED BY <1>1, <1>2, <1>6, <3>1, <3>2, <4>1 DEF Waiting, Comes
    <3>3. CASE i # 1
      BY <1>2, <3>1, <3>3 DEF Waiting, Comes
    <3> QED BY <3>2, <3>3
  <2> QED BY <1>6, <2>1, <2>2 DEF Waiting
<1>7. \A kind : kind # "idle" /\ ~Waiting(kind) => ~Waiting(kind)'
  BY <1>1, <1>2 DEF Waiting
<1>8. CarriesOn
  BY <1>1, <1>6, <1>7 DEF CarriesOn, Comes
<1> QED BY <1>3, <1>5, <1>8

(* The passing of time.                                                    *)
LEMMA TickKeeps ==
  ASSUME BaseInv, Tick
  PROVE  BaseInv' /\ CarriesOn
<1> USE DEF BaseInv
<1>1. /\ \A t \in pending : t.left > 0
      /\ pending' = {[t EXCEPT !.left = @ - 1] : t \in pending}
      /\ UNCHANGED <<reliable, state, exec, ending, life, period, raised, storing,
                     acting, mishaps, tu, out>>
  BY DEF Tick
<1>2. \A t \in pending :
        LET u == [t EXCEPT !.left = @ - 1]
        IN  u \in Timer /\ u.kind = t.kind /\ u.own = t.own
  BY <1>1 DEF TransacTypeOK, Timer
<1>3. TransacTypeOK'
  BY <1>1, <1>2 DEF TransacTypeOK
<1>4. /\ \A t \in pending : \E u \in pending' : u.kind = t.kind /\ u.own = t.own
      /\ \A u \in pending' : \E t \in pending : u.kind = t.kind /\ u.own = t.own
  BY <1>1, <1>2
<1>5. UNCHANGED <<exec, raised, storing, acting, mishaps>>
  BY <1>1
<1>6. \A kind : Fresh(kind) => Fresh(kind)'
  BY <1>4, <1>5 DEF Fresh
<1>7. \A kind : Waiting(kind) <=> Waiting(kind)'
  BY <1>4, <1>5 DEF Waiting
<1>8. StoringInv'
  <2>1. (\A t \in pending : t.own # "unset") => (\A u \in pending' : u.own # "unset")
    BY <1>4
  <2> QED BY <2>1, <1>5, <1>6 DEF StoringInv
<1>9. CarriesOn
  BY <1>5, <1>7 DEF CarriesOn, Comes
<1> QED BY <1>3, <1>8, <1>9

(* The destructor.                                                         *)
LEMMA DestroyKeeps ==
  ASSUME BaseInv, NEW ks, Destroy(ks)
  PROVE  BaseInv' /\ CarriesOn
<1> USE DEF BaseInv, Destroy, Canceled
<1>1. TransacTypeOK'
  BY DEF TransacTypeOK
<1>2. StoringInv'
  BY DEF StoringInv, Fresh
<1>3. CarriesOn
  BY DEF CarriesOn, Comes, Waiting
<1> QED BY <1>1, <1>2, <1>3

(* The state machine drops a timer only where no entry expects it.         *)
LEMMA IgnoreKeeps ==
  ASSUME BaseInv, NEW expected, IgnoreTimer(expected)
  PROVE  /\ BaseInv'
         /\ \A kind \in expected : Comes(kind) => Comes(kind)'
         /\ \A kind : kind # "idle" /\ ~Waiting(kind) => ~Waiting(kind)'
BY DEF BaseInv, IgnoreTimer, TransacTypeOK, StoringInv, Fresh, Comes, Waiting

(* All the steps between the handlers.                                     *)
LEMMA PlumbingKeeps ==
  ASSUME BaseInv, Plumbing
  PROVE  BaseInv' /\ CarriesOn
<1>1. CASE Finish \/ NestedCancel
  <2>1. /\ UNCHANGED <<reliable, exec, period, pending, raised, storing, acting,
                       mishaps, out>>
        /\ life' = "removed" /\ ending' \in BOOLEAN
    BY <1>1 DEF Finish, NestedCancel, BaseInv, TransacTypeOK
  <2>2. BaseInv'
    BY <2>1 DEF BaseInv, TransacTypeOK, StoringInv, Fresh
  <2>3. CarriesOn
    BY <2>1 DEF CarriesOn, Comes, Waiting
  <2> QED BY <2>2, <2>3
<1> QED
  BY <1>1, ReturnKeeps, RaiseKeeps, MatchKeeps, TickKeeps DEF Plumbing

(* What they tell the user and what becomes of the transaction: nothing; it*)
(* is finished; the user refuses; the user cancels.                        *)
LEMMA PlumbingTells ==
  ASSUME NEW S, tu \in Seq(S), TransacTypeOK, Plumbing
  PROVE  /\ UNCHANGED out /\ exec' \in {exec, "no"} /\ mishaps \subseteq mishaps'
         /\ exec = "userThen" => exec' = exec
         /\ life' = "listed" => life = "listed" /\ state' = state
         /\ life' = "listed" /\ ~ending' => ~ending
         /\ \/ /\ UNCHANGED <<tu, state, life>>
               /\ ending' => ending \/ exec = "fail" \/ state = "Terminated"
            \/ UNCHANGED tu /\ ending /\ state' = "Terminated"
            \/ tu' = tu \o <<"refused">> /\ UNCHANGED <<state, life>>
            \/ tu' = tu \o <<"canceled">> /\ state' = "Terminated"
<1>1. \A e : Append(tu, e) = tu \o <<e>>
  OBVIOUS
<1>2. CASE Return
  BY <1>1, <1>2 DEF Return, TransacTypeOK
<1>3. CASE Finish
  BY <1>3 DEF Finish
<1>4. CASE NestedCancel
  BY <1>1, <1>4 DEF NestedCancel
<1>5. CASE RaiseTimer
  BY <1>5 DEF RaiseTimer
<1>6. CASE MatchTimer
  BY <1>6 DEF MatchTimer
<1>7. CASE Tick
  BY <1>7 DEF Tick
<1> QED BY <1>2, <1>3, <1>4, <1>5, <1>6, <1>7 DEF Plumbing

-----------------------------------------------------------------------------
(* What the user has been told, and has said.                              *)

(* No event of `late` comes after one of `early`.                          *)
NeverAfter(early, late) ==
  \A i, j \in 1..Len(tu) : i < j /\ tu[j] \in late => tu[i] \notin early

(* One more event passes between the transaction and its user.             *)
LEMMA OneMoreEvent ==
  ASSUME NEW S, tu \in Seq(S), NEW e, tu' = tu \o <<e>>, NEW events
  PROVE  /\ Told(events)' <=> Told(events) \/ e \in events
         /\ (AtMostOnce(events) /\ (e \in events => ~Told(events))) => AtMostOnce(events)'
<1>1. /\ Len(tu') = Len(tu) + 1 /\ tu'[Len(tu) + 1] = e /\ Len(tu) \in Nat
      /\ \A i \in 1..Len(tu) : tu'[i] = tu[i]
      /\ 1..(Len(tu) + 1) = 1..Len(tu) \union {Len(tu) + 1}
  OBVIOUS
<1>2. Told(events)' <=> Told(events) \/ e \in events
  BY <1>1 DEF Told
<1>3. ASSUME AtMostOnce(events), e \in events => ~Told(events)
      PROVE  AtMostOnce(events)'
  <2> SUFFICES ASSUME NEW i \in 1..Len(tu'), NEW j \in 1..Len(tu'),
                      tu'[i] \in events, tu'[j] \in events
               PROVE  i = j
    BY DEF AtMostOnce
  <2>1. CASE i \in 1..Len(tu) /\ j \in 1..Len(tu)
    BY <2>1, <1>1, <1>3 DEF AtMostOnce
  <2>2. CASE i = Len(tu) + 1 /\ j \in 1..Len(tu)
    BY <2>2, <1>1, <1>3 DEF Told
  <2>3. CASE j = Len(tu) + 1 /\ i \in 1..Len(tu)
    BY <2>3, <1>1, <1>3 DEF Told
  <2> QED BY <2>1, <2>2, <2>3, <1>1
<1> QED BY <1>2, <1>3

(* An event of `late` that comes before any of `early`.                    *)
LEMMA OneMoreAfter ==
  ASSUME NEW S, tu \in Seq(S), NEW e, tu' = tu \o <<e>>, NEW early, NEW late,
         NeverAfter(early, late), e \in late => ~Told(early)
  PROVE  NeverAfter(early, late)'
<1>1. /\ Len(tu') = Len(tu) + 1 /\ tu'[Len(tu) + 1] = e /\ Len(tu) \in Nat
      /\ \A i \in 1..Len(tu) : tu'[i] = tu[i]
  OBVIOUS
<1> SUFFICES ASSUME NEW i \in 1..Len(tu'), NEW j \in 1..Len(tu'), i < j, tu'[j] \in late
             PROVE  tu'[i] \notin early
  BY DEF NeverAfter
<1>2. i \in 1..Len(tu)
  BY <1>1
<1>3. CASE j \in 1..Len(tu)
  BY <1>1, <1>2, <1>3 DEF NeverAfter
<1>4. CASE j = Len(tu) + 1
  BY <1>1, <1>2, <1>4 DEF Told
<1> QED BY <1>1, <1>3, <1>4

-----------------------------------------------------------------------------
(* Which timers are left, and in which order they come.                    *)

(* Each kind of timer is under way once at most: counted, raised, or acted *)
(* upon.                                                                   *)
OneEach ==
  /\ \A t, u \in pending : t.kind = u.kind => t = u
  /\ \A i, j \in DOMAIN raised : raised[i].kind = raised[j].kind => i = j
  /\ \A t \in pending : acting # t.kind /\ \A i \in DOMAIN raised : raised[i].kind # t.kind
  /\ \A i \in DOMAIN raised : acting # raised[i].kind

(* The id of every timer counted is stored, or about to be.                *)
Known == \A t \in pending : t.own # "lost" /\ (t.kind \in storing => t.own = "unset")

(* Only the kinds `counted` are in the manager's list, and only the kinds  *)
(* `seen` with the dispatching thread.                                     *)
Only(counted, seen) ==
  /\ \A t \in pending : t.kind \in counted
  /\ \A i \in DOMAIN raised : raised[i].kind \in seen
  /\ acting \in seen \union {"idle", "running"}

(* The only timer counted is of this kind, and nothing comes after it.     *)
Last(kind) ==
  /\ \A t \in pending : t.kind = kind
  /\ \A i \in DOMAIN raised : raised[i].kind = kind => i = Len(raised)
  /\ acting = kind => raised = <<>>

Orderly == OneEach /\ Known

(* What a step keeps of this.                                              *)
StaysInOrder ==
  /\ Orderly'
  /\ \A counted, seen :
       counted \subseteq seen /\ Only(counted, seen) => Only(counted, seen)'
  /\ \A kind \in Kinds : Last(kind) => Last(kind)'

(* Only the transaction's own kinds of timer are under way.                *)
LEMMA KindsUnderWay ==
  ASSUME TransacTypeOK
  PROVE  /\ \A t \in pending : t.kind \in Kinds
         /\ \A i \in DOMAIN raised : raised[i] \in Raised /\ raised[i].kind \in Kinds
<1>1. \A r \in Raised : r.kind \in Kinds
  BY DEF Raised
<1>2. raised \in Seq(Raised)
  BY DEF TransacTypeOK
<1>3. \A i \in DOMAIN raised : raised[i] \in Raised
  BY <1>2
<1>4. \A t \in pending : t.kind \in Kinds
  BY DEF TransacTypeOK, Timer
<1> QED BY <1>1, <1>3, <1>4

(* A step that leaves the dispatching thread's timers as they are, counts  *)
(* no more of them, and may end what the thread is doing.                  *)
LEMMA FewerInOrder ==
  ASSUME Orderly, Kinds \intersect {"idle", "running"} = {}, TransacTypeOK,
         UNCHANGED <<raised, storing>>, pending' \subseteq pending,
         acting' \in {acting, "idle", "running"}
  PROVE  StaysInOrder
<1>1. /\ \A t \in pending : t.kind \in Kinds
      /\ \A i \in DOMAIN raised : raised[i].kind \in Kinds
  BY KindsUnderWay
<1>2. OneEach'
  BY <1>1 DEF Orderly, OneEach
<1>3. Known'
  BY DEF Orderly, Known
<1>4. \A counted, seen : Only(counted, seen) => Only(counted, seen)'
  BY DEF Only
<1>5. \A kind \in Kinds : Last(kind) => Last(kind)'
  BY DEF Last
<1> QED BY <1>2, <1>3, <1>4, <1>5 DEF StaysInOrder, Orderly

(* The return of a handler.                                                *)
LEMMA ReturnInOrder ==
  ASSUME Orderly, Kinds \intersect {"idle", "running"} = {}, TransacTypeOK, Return
  PROVE  StaysInOrder
<1>1. /\ pending' = {Stored(t) : t \in pending}
      /\ raised' = [i \in DOMAIN raised |-> Stored(raised[i])]
      /\ storing' = {} /\ acting' = IF acting = "running" THEN "idle" ELSE acting
  BY DEF Return
<1>2. /\ \A t \in pending : t \in Timer
      /\ \A i \in DOMAIN raised : raised[i] \in Raised
      /\ raised \in Seq(Raised)
  BY KindsUnderWay DEF TransacTypeOK
<1>3. \A t \in Timer : Stored(t).kind = t.kind
  BY DEF Timer, Stored
<1>4. \A r \in Raised : Stored(r).kind = r.kind
  BY DEF Raised, Stored
<1>5. \A t \in pending : Stored(t).own # "lost"
  BY <1>2 DEF Orderly, Known, Timer, Ownership, Stored
<1>6. DOMAIN raised' = DOMAIN raised /\ \A i \in DOMAIN raised : raised'[i].kind = raised[i].kind
  BY <1>1, <1>2, <1>4
<1>7. Len(raised') = Len(raised) /\ (raised = <<>> => raised' = <<>>)
  BY <1>1, <1>2
<1>8. \A u \in pending' : \E t \in pending : u = Stored(t) /\ u.kind = t.kind
  BY <1>1, <1>2, <1>3
<1>9. /\ \A t \in pending : t.kind \in Kinds
      /\ \A i \in DOMAIN raised : raised[i].kind \in Kinds
  BY KindsUnderWay
<1> HIDE DEF Stored
<1>10. OneEach'
  <2>1. \A t, u \in pending' : t.kind = u.kind => t = u
    BY <1>8 DEF Orderly, OneEach
  <2>2. \A i, j \in DOMAIN raised' : raised'[i].kind = raised'[j].kind => i = j
    BY <1>6 DEF Orderly, OneEach
  <2>3. \A t \in pending' : /\ acting' # t.kind
                            /\ \A i \in DOMAIN raised' : raised'[i].kind # t.kind
    BY <1>1, <1>6, <1>8, <1>9 DEF Orderly, OneEach
  <2>4. \A i \in DOMAIN raised' : acting' # raised'[i].kind
    BY <1>1, <1>6, <1>9 DEF Orderly, OneEach
  <2> QED BY <2>1, <2>2, <2>3, <2>4 DEF OneEach
<1>11. Known'
  BY <1>1, <1>5, <1>8 DEF Known
<1>12. \A counted, seen : Only(counted, seen) => Only(counted, seen)'
  BY <1>1, <1>6, <1>8 DEF Only
<1>13. \A kind \in Kinds : Last(kind) => Last(kind)'
  BY <1>1, <1>6, <1>7, <1>8 DEF Last
<1> QED BY <1>10, <1>11, <1>12, <1>13 DEF StaysInOrder, Orderly

(* A timer handed over: what was raised before comes before it.            *)
LEMMA RaiseInOrder ==
  ASSUME Orderly, TransacTypeOK, RaiseTimer
  PROVE  StaysInOrder
<1>1. PICK t \in pending :
        /\ pending' = pending \ {t}
        /\ raised' = Append(raised, [kind |-> t.kind, own |-> t.own])
        /\ UNCHANGED <<storing, acting>>
  BY DEF RaiseTimer
<1>2. DEFINE r == [kind |-> t.kind, own |-> t.own]
<1>3. r \in Raised /\ r.kind = t.kind
  BY DEF TransacTypeOK, Timer, Raised
<1> HIDE DEF r
<1>4. /\ DOMAIN raised' = DOMAIN raised \union {Len(raised) + 1}
      /\ Len(raised') = Len(raised) + 1
      /\ \A i \in DOMAIN raised : raised'[i] = raised[i]
      /\ raised'[Len(raised) + 1] = r
  BY <1>1, <1>3 DEF TransacTypeOK, r
<1>5. OneEach'
  <2>1. \A s, u \in pending' : s.kind = u.kind => s = u
    BY <1>1 DEF Orderly, OneEach
  <2>2. \A i \in DOMAIN raised : raised'[i].kind # r.kind
    BY <1>3, <1>4 DEF Orderly, OneEach
  <2>3. \A i, j \in DOMAIN raised' : raised'[i].kind = raised'[j].kind => i = j
    BY <1>4, <2>2 DEF Orderly, OneEach
  <2>4. \A s \in pending' : s.kind # r.kind
    BY <1>1, <1>3 DEF Orderly, OneEach
  <2>5. \A s \in pending' : /\ acting' # s.kind
                            /\ \A i \in DOMAIN raised' : raised'[i].kind # s.kind
    BY <1>1, <1>4, <2>4 DEF Orderly, OneEach
  <2>6. \A i \in DOMAIN raised' : acting' # raised'[i].kind
    BY <1>1, <1>3, <1>4 DEF Orderly, OneEach
  <2> QED BY <2>1, <2>3, <2>5, <2>6 DEF OneEach
<1>6. Known'
  BY <1>1 DEF Orderly, Known
<1>7. ASSUME NEW counted, NEW seen, counted \subseteq seen, Only(counted, seen)
      PROVE  Only(counted, seen)'
  <2>1. r.kind \in seen
    BY <1>3, <1>7 DEF Only
  <2> QED BY <2>1, <1>1, <1>4, <1>7 DEF Only
<1>8. ASSUME NEW kind \in Kinds, Last(kind)
      PROVE  Last(kind)'
  <2>1. t.kind = kind
    BY <1>8 DEF Last
  <2>2. acting # kind /\ \A i \in DOMAIN raised : raised[i].kind # kind
    BY <2>1 DEF Orderly, OneEach
  <2> QED BY <2>2, <1>1, <1>4, <1>8 DEF Last
<1> QED BY <1>5, <1>6, <1>7, <1>8 DEF StaysInOrder, Orderly

(* The first raised is the one acted upon.                                 *)
LEMMA MatchInOrder ==
  ASSUME Orderly, Kinds \intersect {"idle", "running"} = {}, TransacTypeOK, MatchTimer
  PROVE  StaysInOrder
<1>1. /\ raised # <<>> /\ raised' = Tail(raised) /\ raised \in Seq(Raised)
      /\ acting' \in {Head(raised).kind, "idle"} /\ UNCHANGED <<pending, storing>>
  BY DEF MatchTimer, TransacTypeOK
<1>2. DEFINE n == Len(raised)
<1>3. /\ n \in Nat /\ n > 0 /\ DOMAIN raised = 1..n /\ Head(raised) = raised[1]
      /\ raised' \in Seq(Raised) /\ Len(raised') = n - 1
      /\ \A i \in 1..(n - 1) : raised'[i] = raised[i + 1]
  BY <1>1
<1>4. DOMAIN raised' = 1..(n - 1)
  BY <1>3
<1>5. 1 \in 1..n /\ \A i \in 1..(n - 1) : i + 1 \in 1..n /\ i + 1 # 1
  BY <1>3
<1>6. /\ \A t \in pending : t.kind \in Kinds
      /\ \A i \in 1..n : raised[i].kind \in Kinds
  BY <1>3, KindsUnderWay
<1> HIDE DEF n
<1>7. OneEach'
  <2>1. \A i, j \in 1..(n - 1) : raised'[i].kind = raised'[j].kind => i + 1 = j + 1
    BY <1>3, <1>5 DEF Orderly, OneEach
  <2>2. \A i, j \in 1..(n - 1) : i + 1 = j + 1 => i = j
    BY <1>3
  <2>3. \A i \in 1..(n - 1) : raised'[i].kind # raised[1].kind /\ raised'[i].kind # "idle"
    BY <1>3, <1>5, <1>6 DEF Orderly, OneEach
  <2>4. \A t \in pending : /\ raised[1].kind # t.kind /\ t.kind # "idle"
                           /\ \A i \in 1..(n - 1) : raised'[i].kind # t.kind
    <3> SUFFICES ASSUME NEW t \in pending
                 PROVE  /\ raised[1].kind # t.kind /\ t.kind # "idle"
                        /\ \A i \in 1..(n - 1) : raised'[i].kind # t.kind
      OBVIOUS
    <3>1. \A i \in 1..n : raised[i].kind # t.kind
      BY <1>3 DEF Orderly, OneEach
    <3>2. \A i \in 1..(n - 1) : raised'[i].kind # t.kind
      BY <3>1, <1>3, <1>5
    <3>3. t.kind # "idle"
      BY <1>6
    <3> QED BY <3>1, <3>2, <3>3, <1>5
  <2>5. \A t, u \in pending : t.kind = u.kind => t = u
    BY DEF Orderly, OneEach
  <2> QED BY <1>1, <1>3, <1>4, <2>1, <2>2, <2>3, <2>4, <2>5 DEF OneEach
<1>8. Known'
  BY <1>1 DEF Orderly, Known
<1>9. \A counted, seen : Only(counted, seen) => Only(counted, seen)'
  BY <1>1, <1>3, <1>4, <1>5 DEF Only
<1>10. ASSUME NEW kind \in Kinds, Last(kind)
       PROVE  Last(kind)'
  <2>1. \A i \in 1..(n - 1) : raised'[i].kind = kind => i = n - 1
    <3> SUFFICES ASSUME NEW i \in 1..(n - 1), raised'[i].kind = kind
                 PROVE  i = n - 1
      OBVIOUS
    <3>1. i + 1 = n
      BY <1>3, <1>5, <1>10 DEF Last, n
    <3> QED BY <3>1, <1>3
  <2>2. acting' = kind => raised' = <<>>
    <3>1. acting' = kind => 1 = n
      BY <1>1, <1>3, <1>5, <1>10 DEF Last, n
    <3> QED BY <3>1, <1>3
  <2> QED BY <2>1, <2>2, <1>1, <1>3, <1>4, <1>10 DEF Last
<1> QED BY <1>7, <1>8, <1>9, <1>10 DEF StaysInOrder, Orderly

(* The passing of time.                                                    *)
LEMMA TickInOrder ==
  ASSUME Orderly, TransacTypeOK, Tick
  PROVE  StaysInOrder
<1> DEFINE Older(t) == [t EXCEPT !.left = @ - 1]
<1>1. /\ pending' = {Older(t) : t \in pending}
      /\ UNCHANGED <<raised, storing, acting>>
  BY DEF Tick
<1>2. \A t \in pending : Older(t).kind = t.kind /\ Older(t).own = t.own
  BY DEF TransacTypeOK, Timer
<1> HIDE DEF Older
<1>3. \A u \in pending' : \E t \in pending : u = Older(t) /\ u.kind = t.kind /\ u.own = t.own
  BY <1>1, <1>2
<1>4. OneEach'
  <2>1. \A t, u \in pending' : t.kind = u.kind => t = u
    BY <1>3 DEF Orderly, OneEach
  <2> QED BY <2>1, <1>1, <1>3 DEF Orderly, OneEach
<1>5. Known'
  BY <1>1, <1>3 DEF Orderly, Known
<1>6. \A counted, seen : Only(counted, seen) => Only(counted, seen)'
  BY <1>1, <1>3 DEF Only
<1>7. \A kind \in Kinds : Last(kind) => Last(kind)'
  BY <1>1, <1>3 DEF Last
<1> QED BY <1>4, <1>5, <1>6, <1>7 DEF StaysInOrder, Orderly

(* All the steps that are not handlers.                                    *)
LEMMA PlumbingInOrder ==
  ASSUME Orderly, Kinds \intersect {"idle", "running"} = {}, TransacTypeOK,
         \/ Plumbing \/ \E expected : IgnoreTimer(expected) \/ \E ks : Destroy(ks)
  PROVE  StaysInOrder
<1>1. CASE Finish \/ NestedCancel \/ (\E expected : IgnoreTimer(expected))
           \/ \E ks : Destroy(ks)
  <2>1. /\ UNCHANGED <<raised, storing>> /\ pending' \subseteq pending
        /\ acting' \in {acting, "idle", "running"}
    BY <1>1 DEF Finish, NestedCancel, IgnoreTimer, Destroy, Canceled
  <2> QED BY <2>1, FewerInOrder
<1> QED
  BY <1>1, ReturnInOrder, RaiseInOrder, MatchInOrder, TickInOrder DEF Plumbing

(* A handler that arms only kinds that are not under way.                  *)
LEMMA HandleInOrder ==
  ASSUME BaseInv, Orderly, Kinds \intersect {"idle", "running"} = {}, exec = "no",
         NEW cancel, NEW new, NEW msgs, NEW events,
         Unset(new), Effects(cancel, new, msgs, events), acting' \in {acting, "running"},
         \A t, u \in new : t.kind = u.kind => t = u,
         \A t \in new : /\ \A u \in pending : u.kind = t.kind => u.kind \in cancel
                        /\ \A i \in DOMAIN raised : raised[i].kind # t.kind
                        /\ acting' # t.kind
  PROVE  /\ Orderly' /\ UNCHANGED raised
         /\ \A t \in pending' : t \in new \/ (t \in pending /\ t.kind \notin cancel)
<1>1. /\ pending' = Canceled(pending, cancel) \union new
      /\ storing' = storing \union {t.kind : t \in new} /\ UNCHANGED raised
  BY DEF Effects
<1>2. \A t \in pending : t.own = "set"
  BY DEF BaseInv, TransacTypeOK, StoringInv, Orderly, Known, Timer, Ownership
<1>3. \A t \in pending' : t \in new \/ (t \in pending /\ t.kind \notin cancel)
  BY <1>1, <1>2 DEF Canceled
<1>4. /\ \A t \in pending : t.kind \in Kinds
      /\ \A i \in DOMAIN raised : raised[i].kind \in Kinds
  BY KindsUnderWay DEF BaseInv
<1>5. \A t \in pending', u \in new : t.kind = u.kind => t = u
  BY <1>3
<1>6. OneEach'
  <2>1. \A t, u \in pending' : t.kind = u.kind => t = u
    BY <1>3, <1>5 DEF Orderly, OneEach
  <2>2. \A t \in pending' : /\ acting' # t.kind
                            /\ \A i \in DOMAIN raised' : raised'[i].kind # t.kind
    BY <1>1, <1>3, <1>4 DEF Orderly, OneEach
  <2>3. \A i \in DOMAIN raised' : acting' # raised'[i].kind
    BY <1>1, <1>4 DEF Orderly, OneEach
  <2> QED BY <2>1, <2>2, <2>3, <1>1 DEF Orderly, OneEach
<1>7. Known'
  <2>1. \A t \in new : t.own = "unset"
    BY DEF Unset
  <2>2. \A t \in pending' : t.kind \in storing' => t.kind \in storing \/ t \in new
    BY <1>1, <1>5
  <2> QED BY <1>2, <1>3, <2>1, <2>2 DEF Orderly, Known
<1> QED BY <1>1, <1>3, <1>6, <1>7 DEF Orderly

(* What a handler arms once its user has returned, nothing being counted.  *)
LEMMA ThenScheduleInOrder ==
  ASSUME Orderly, TransacTypeOK, NEW kind \in Kinds \ {"idle", "running"}, NEW timeout,
         NEW seen, Only({}, seen), kind \notin seen, ThenSchedule(kind, timeout)
  PROVE  Orderly' /\ Last(kind)'
<1>1. /\ pending = {} /\ acting # kind /\ UNCHANGED <<raised, acting>>
      /\ \A i \in DOMAIN raised : raised[i].kind # kind
  BY DEF Only, ThenSchedule
<1>2. pending' = {Armed(kind, timeout)}
  BY <1>1 DEF ThenSchedule
<1>3. Armed(kind, timeout).kind = kind /\ Armed(kind, timeout).own = "unset"
  BY DEF Armed
<1> HIDE DEF Armed
<1>4. OneEach'
  BY <1>1, <1>2, <1>3 DEF Orderly, OneEach
<1>5. Known' /\ Last(kind)'
  BY <1>1, <1>2, <1>3 DEF Known, Last
<1> QED BY <1>4, <1>5 DEF Orderly

(* A callback on a destroyed transaction is that of a timer still raised.  *)
LEMMA WhoDangles ==
  ASSUME Plumbing, TransacTypeOK, "dangling" \in mishaps'
  PROVE  "dangling" \in mishaps \/ (life = "destroyed" /\ 1 \in DOMAIN raised)
<1>1. CASE MatchTimer
  <2>1. raised # <<>> /\ raised \in Seq(Raised)
    BY <1>1 DEF MatchTimer, TransacTypeOK
  <2>2. 1 \in DOMAIN raised
    BY <2>1
  <2>3. "dangling" \in mishaps \/ life = "destroyed"
    BY <1>1 DEF MatchTimer
  <2> QED BY <2>2, <2>3
<1>2. CASE UNCHANGED mishaps
  BY <1>2
<1> QED BY <1>1, <1>2 DEF Plumbing, Return, Finish, NestedCancel, RaiseTimer, Tick

(* What a step of any kind leaves unsaid was unsaid before.                *)
LEMMA StillUnsaid ==
  ASSUME NEW S, tu \in Seq(S), NEW events, NEW loud, ~Told(loud)', tu' = tu \o events,
         \/ events = <<>>
         \/ \E e : events = <<e>>
  PROVE  ~Told(loud) /\ \A e : events = <<e>> => e \notin loud
<1>1. CASE events = <<>>
  BY <1>1 DEF Told
<1>2. ASSUME NEW e, events = <<e>>
      PROVE  ~Told(loud) /\ e \notin loud
  BY <1>2, OneMoreEvent
<1>3. \A e, f : <<e>> = <<f>> => e = f
  OBVIOUS
<1>4. \A e : <<e>> # <<>>
  OBVIOUS
<1> QED BY <1>1, <1>2, <1>3, <1>4
=============================================================================
