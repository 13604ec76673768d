-------------------------------- MODULE Fsm --------------------------------
(***************************************************************************)
(* The state machine every SIP transaction and dialog runs on, tsk_fsm.c:  *)
(* the table of transitions as tsk_fsm_set orders it, whatever transitions *)
(* the program adds, and tsk_fsm_act called by several threads and by the  *)
(* handlers themselves.                                                    *)
(*                                                                         *)
(* A call of tsk_fsm_act is a frame of its thread's stack:                 *)
(*   "test"      about to look whether the machine is in its final state,  *)
(*               which it does before it takes the lock;                   *)
(*   "lock"      about to take the lock and look the transition up;        *)
(*   "exec"      in the handler;                                           *)
(*   "unlock"    about to release the lock;                                *)
(*   "final"     about to set the final state, after the unlock;           *)
(*   "callback"  about to call callback_term.                              *)
(***************************************************************************)
EXTENDS Integers, Sequences, SequencesExt

CONSTANTS
  Threads,      \* threads that act on the machine
  States,       \* the states but the final one
  Initial,      \* the one it is created in
  Actions,
  Conds,        \* "always": tsk_fsm_cond_always; "may": any other condition
  MaxEntries,   \* bound: entries of the table
  MaxActs,      \* bound: calls of tsk_fsm_act
  MaxDepth      \* bound: calls of tsk_fsm_act nested in each other

Term == "term"        \* fsm->term
Wild == "any"          \* tsk_fsm_state_any, tsk_fsm_action_any
None == "none"

ASSUME FsmAssumption ==
  /\ Initial \in States /\ {Term, Wild, None} \cap States = {}
  /\ Wild \notin Actions /\ None \notin Threads
  /\ Conds \subseteq {"always", "may"}
  /\ MaxEntries \in Nat /\ MaxActs \in Nat /\ MaxDepth \in Nat

Entry == [from : States \union {Wild}, action : Actions \union {Wild},
          cond : Conds, to : States \union {Term, Wild}]

VARIABLES
  entries,   \* fsm->entries
  built,     \* tsk_fsm_set has returned
  current,   \* fsm->current
  owner,     \* the thread that holds the (recursive) lock
  held,      \* how often it has taken it
  stack,     \* the calls each thread is in
  acts,      \* calls of tsk_fsm_act so far
  calls      \* calls of callback_term so far

vars == <<entries, built, current, owner, held, stack, acts, calls>>

(* A call, with the transition found and the state it was found in.        *)
Frame == [at : {"test", "lock", "exec", "unlock", "final", "callback"},
          action : Actions, entry : Entry \union {<<>>},
          state : States \union {Term}, terminates : BOOLEAN]

TypeOK ==
  /\ entries \in Seq(Entry)
  /\ built \in BOOLEAN
  /\ current \in States \union {Term}
  /\ owner \in Threads \union {None}
  /\ held \in Nat
  /\ stack \in [Threads -> Seq(Frame)]
  /\ acts \in Nat /\ calls \in Nat

Init ==
  /\ entries = <<>> /\ built = FALSE /\ current = Initial
  /\ owner = None /\ held = 0
  /\ stack = [t \in Threads |-> <<>>]
  /\ acts = 0 /\ calls = 0

-----------------------------------------------------------------------------
(* The table.                                                              *)

(* Seeded fault: the entries for any state are not put at the bottom.      *)
EntryCmpWeak(e1, e2) == IF e1.action = Wild THEN -10 ELSE -1

(* tsk_fsm_entry_cmp of the entry being added with one in the table; every *)
(* entry has a condition.                                                  *)
EntryCmp(e1, e2) ==
  IF e1.from = Wild THEN -20
  ELSE IF e2.from = Wild THEN 20
  ELSE IF e1.action = Wild THEN -10
  ELSE -1

(* tsk_list_push_descending_data: before the first entry it compares above.*)
PushDescending(list, e) ==
  LET below == {i \in DOMAIN list : EntryCmp(e, list[i]) > 0}
  IN  IF below = {} THEN Append(list, e)
      ELSE InsertAt(list, CHOOSE i \in below : \A j \in below : i <= j, e)

Set(e) ==
  /\ ~built /\ Len(entries) < MaxEntries
  /\ entries' = PushDescending(entries, e)
  /\ UNCHANGED <<built, current, owner, held, stack, acts, calls>>

SetDone ==
  /\ ~built /\ entries # <<>> /\ built' = TRUE
  /\ UNCHANGED <<entries, current, owner, held, stack, acts, calls>>

(* The entries that tsk_fsm_act would take for an action in a state.       *)
Matches(e, state, action) ==
  e.from \in {Wild, state} /\ e.action \in {Wild, action}

(* The first match whose condition holds: any one up to the first that     *)
(* always does.                                                            *)
Candidates(state, action) ==
  {i \in DOMAIN entries :
     /\ Matches(entries[i], state, action)
     /\ \A j \in 1..(i - 1) :
          Matches(entries[j], state, action) => entries[j].cond # "always"}

-----------------------------------------------------------------------------
(* tsk_fsm_act.                                                            *)

Top(t) == Last(stack[t])
At(t, at) == stack[t] # <<>> /\ Top(t).at = at
Become(t, frame) == stack' = [stack EXCEPT ![t] = Append(Front(@), frame)]
Leave(t) == stack' = [stack EXCEPT ![t] = Front(@)]

(* Called by a thread of its own accord, or by the handler it is in.       *)
Call(t, action) ==
  /\ built /\ acts < MaxActs
  /\ stack[t] = <<>> \/ (At(t, "exec") /\ Len(stack[t]) < MaxDepth)
  /\ stack' = [stack EXCEPT ![t] = Append(@,
                 [at |-> "test", action |-> action, entry |-> <<>>,
                  state |-> current, terminates |-> FALSE])]
  /\ acts' = acts + 1
  /\ UNCHANGED <<entries, built, current, owner, held, calls>>

Test(t) ==
  /\ At(t, "test")
  /\ IF current = Term THEN Leave(t) ELSE Become(t, [Top(t) EXCEPT !.at = "lock"])
  /\ UNCHANGED <<entries, built, current, owner, held, acts, calls>>

(* Seeded fault: the lock is not looked at.                                *)
FreeForAll(t) == TRUE

LockFree(t) == owner \in {None, t}

(* The target is set before the handler runs; an entry "to any state"      *)
(* stays where it is.                                                      *)
Found(t) ==
  /\ At(t, "lock") /\ LockFree(t)
  /\ owner' = t /\ held' = held + 1
  /\ \E i \in Candidates(current, Top(t).action) :
        /\ current' = IF entries[i].to = Wild THEN current ELSE entries[i].to
        /\ Become(t, [Top(t) EXCEPT !.at = "exec", !.entry = entries[i],
                                    !.state = current])
  /\ UNCHANGED <<entries, built, acts, calls>>

NotFound(t) ==
  /\ At(t, "lock") /\ LockFree(t)
  /\ owner' = t /\ held' = held + 1
  /\ \A i \in Candidates(current, Top(t).action) : entries[i].cond # "always"
  /\ Become(t, [Top(t) EXCEPT !.at = "unlock"])
  /\ UNCHANGED <<entries, built, current, acts, calls>>

(* Seeded fault: only the result of the handler counts.                    *)
ExecReturnsUnseen(t) ==
  /\ At(t, "exec")
  /\ \E ret \in {0, -1} :
        Become(t, [Top(t) EXCEPT !.at = "unlock", !.terminates = ret # 0])
  /\ UNCHANGED <<entries, built, current, owner, held, acts, calls>>

ExecReturns(t) ==
  /\ At(t, "exec")
  /\ \E ret \in {0, -1} :
        Become(t, [Top(t) EXCEPT !.at = "unlock",
                                 !.terminates = ret # 0 \/ current = Term])
  /\ UNCHANGED <<entries, built, current, owner, held, acts, calls>>

(* Seeded fault: the lock is never given to another thread.                *)
UnlockKeeping(t) ==
  /\ At(t, "unlock")
  /\ held' = held - 1 /\ UNCHANGED owner
  /\ IF Top(t).terminates THEN Become(t, [Top(t) EXCEPT !.at = "final"])
     ELSE Leave(t)
  /\ UNCHANGED <<entries, built, current, acts, calls>>

Unlock(t) ==
  /\ At(t, "unlock")
  /\ held' = held - 1 /\ owner' = IF held = 1 THEN None ELSE owner
  /\ IF Top(t).terminates THEN Become(t, [Top(t) EXCEPT !.at = "final"])
     ELSE Leave(t)
  /\ UNCHANGED <<entries, built, current, acts, calls>>

SetFinal(t) ==
  /\ At(t, "final") /\ current' = Term
  /\ Become(t, [Top(t) EXCEPT !.at = "callback"])
  /\ UNCHANGED <<entries, built, owner, held, acts, calls>>

CallbackTerm(t) ==
  /\ At(t, "callback") /\ calls' = calls + 1
  /\ Leave(t)
  /\ UNCHANGED <<entries, built, current, owner, held, acts>>

Step(t) ==
  \/ Test(t) \/ Found(t) \/ NotFound(t) \/ ExecReturns(t) \/ Unlock(t)
  \/ SetFinal(t) \/ CallbackTerm(t)

Next ==
  \/ \E e \in Entry : Set(e)
  \/ SetDone
  \/ \E t \in Threads : Step(t) \/ \E action \in Actions : Call(t, action)

Spec == Init /\ [][Next]_vars

(* A thread in tsk_fsm_act gets on, its handler returns, and it gets the   *)
(* lock although others keep taking it.                                    *)
Fairness ==
  \A t \in Threads :
    /\ WF_vars(Test(t) \/ ExecReturns(t) \/ Unlock(t) \/ SetFinal(t) \/ CallbackTerm(t))
    /\ SF_vars(Found(t) \/ NotFound(t))

FairSpec == Spec /\ Fairness

-----------------------------------------------------------------------------
(* Properties *)

InExec(t) == \E i \in DOMAIN stack[t] : stack[t][i].at = "exec"

(* Handlers of two threads never run at the same time, for the lock is     *)
(* released after as many calls as took it.                                *)
OneHandlerAtATime ==
  \A t, u \in Threads : InExec(t) /\ InExec(u) => t = u

(* A call runs a transition for any state only where the state it was found*)
(* in has none of its own for the action.                                  *)
MostSpecific(frame) ==
  (frame.entry # <<>> /\ frame.entry.from = Wild) =>
    ~\E i \in DOMAIN entries :
        /\ entries[i].from = frame.state /\ entries[i].cond = "always"
        /\ Matches(entries[i], frame.state, frame.action)

(* Whatever the order in which a program adds its entries, a transition for*)
(* any state is taken only if the current state has none of its own for    *)
(* the action: "Put Any states at the bottom (Strong)".                    *)
SpecificStateFirst ==
  \A t \in Threads : \A k \in DOMAIN stack[t] : MostSpecific(stack[t][k])

(* What makes these inductive.  A call that has called another is in its   *)
(* handler, ...                                                            *)
CallsNest ==
  \A t \in Threads : \A k \in 1..(Len(stack[t]) - 1) : stack[t][k].at = "exec"

(* ... so that the depth of a thread's stack tells how often it has the    *)
(* lock.                                                                   *)
Taken(t) ==
  IF stack[t] = <<>> THEN 0
  ELSE IF Top(t).at \in {"exec", "unlock"} THEN Len(stack[t]) ELSE Len(stack[t]) - 1

LockCounts ==
  /\ \A t \in Threads : Taken(t) = IF owner = t THEN held ELSE 0
  /\ owner = None <=> held = 0

(* The entries for any state are at the bottom of the table, and nothing   *)
(* is called before the table is complete.                                 *)
WildAtBottom ==
  \A i, j \in DOMAIN entries :
    i < j /\ entries[i].from = Wild => entries[j].from = Wild

BuiltFirst == ~built => \A t \in Threads : stack[t] = <<>>

FsmInv ==
  /\ TypeOK /\ CallsNest /\ LockCounts
  /\ WildAtBottom /\ BuiltFirst /\ SpecificStateFirst

(* Whatever the threads do between the end of a handler and the lock, a    *)
(* machine that has entered its final state tells its owner.               *)
FinalIsReported == (current = Term) ~> (calls > 0)

(* Every call returns: nested calls do not wait for their own thread.      *)
EveryActReturns == \A t \in Threads : (stack[t] # <<>>) ~> (stack[t] = <<>>)
=============================================================================
