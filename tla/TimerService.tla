---------------------------- MODULE TimerService ----------------------------
(***************************************************************************)
(* What the clients of the timer manager rely on, with no thread, list or  *)
(* semaphore: a scheduled timer is raised once its instant has come, its   *)
(* callback runs at most once and only after it was raised, a cancel that  *)
(* reaches it first makes it void for ever, and only a stop loses a timer. *)
(***************************************************************************)
EXTENDS Naturals

CONSTANTS Timer, Delays

VARIABLES
  now,      \* the clock
  timeout,  \* the instant each timer is due
  phase,    \* the life of each timer
  stops     \* how often the service was stopped

vars == <<now, timeout, phase, stops>>

Phase == {"free", "armed", "raised", "fired", "void"}

Init ==
  /\ now = 0 /\ stops = 0
  /\ timeout = [t \in Timer |-> 0]
  /\ phase = [t \in Timer |-> "free"]

Schedule(t) ==
  /\ phase[t] = "free"
  /\ \E d \in Delays : timeout' = [timeout EXCEPT ![t] = now + d]
  /\ phase' = [phase EXCEPT ![t] = "armed"]
  /\ UNCHANGED <<now, stops>>

Raise(t) ==
  /\ phase[t] = "armed" /\ now >= timeout[t]
  /\ phase' = [phase EXCEPT ![t] = "raised"]
  /\ UNCHANGED <<now, timeout, stops>>

Fire(t) ==
  /\ phase[t] = "raised"
  /\ phase' = [phase EXCEPT ![t] = "fired"]
  /\ UNCHANGED <<now, timeout, stops>>

Cancel(t) ==
  /\ phase[t] \in {"armed", "raised"}
  /\ phase' = [phase EXCEPT ![t] = "void"]
  /\ UNCHANGED <<now, timeout, stops>>

\* A stop, and what it still throws away afterwards.
Drop ==
  /\ stops' \in {stops, stops + 1} /\ stops' > 0
  /\ \E lost \in SUBSET {t \in Timer : phase[t] \in {"armed", "raised"}} :
       phase' = [t \in Timer |-> IF t \in lost THEN "void" ELSE phase[t]]
  /\ UNCHANGED <<now, timeout>>

Tick ==
  /\ now' = now + 1
  /\ UNCHANGED <<timeout, phase, stops>>

Next ==
  \/ \E t \in Timer : Schedule(t) \/ Raise(t) \/ Fire(t) \/ Cancel(t)
  \/ Drop
  \/ Tick

Spec == Init /\ [][Next]_vars
=============================================================================
