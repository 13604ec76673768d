----------------------------- MODULE Transactions -----------------------------
(***************************************************************************)
(* Any one of the four transactions of tinySIP, with every fault its       *)
(* surroundings may commit: what all of them promise to their users and to *)
(* the transaction layer.  `role` tells which one a behaviour is about;    *)
(* the variables are those of the base class, Transac, and of the server   *)
(* transactions.                                                           *)
(***************************************************************************)
EXTENDS Integers, Sequences

CONSTANTS
  Faults,           \* what may go wrong, as in Transac
  T1, T2,           \* in units of T1
  Timeout64T1,      \* timers B, F, H, L and M
  TimeoutD, TimeoutI, TimeoutJ, TimeoutK,
  MaxTu             \* bounds the exchange of each role with its user

Roles == {"ict", "ist", "nict", "nist"}

VARIABLES
  role,             \* the transaction this behaviour is about
  reliable, state, exec, ending, life, period, pending, raised, storing, acting,
  mishaps, tu, out,                       \* as in Transac
  lastResponse, acked, lateX              \* as in the server transactions

base == <<reliable, state, exec, ending, life, period, pending, raised, storing,
          acting, mishaps, tu, out>>
vars == <<role, base, lastResponse, acked, lateX>>

ICT == INSTANCE InviteClientTransac WITH
  Kinds <- {"A", "B", "D", "M"}, Reliables <- BOOLEAN,
  TimeoutB <- Timeout64T1, TimeoutM <- Timeout64T1,
  Responses <- {"1xx", "2xx", "3xx"}, MaxTu <- MaxTu["ict"]

IST == INSTANCE InviteServerTransac WITH
  Kinds <- {"G", "H", "I", "L", "X"}, Reliables <- BOOLEAN,
  TimeoutH <- Timeout64T1, TimeoutL <- Timeout64T1, MaxTu <- MaxTu["ist"]

NICT == INSTANCE NonInviteClientTransac WITH
  Kinds <- {"E", "F", "K"}, Reliables <- BOOLEAN, TimeoutF <- Timeout64T1,
  Responses <- {"1xx", "final"}, MaxTu <- MaxTu["nict"]

NIST == INSTANCE NonInviteServerTransac WITH
  Kinds <- {"J"}, Reliables <- BOOLEAN, MaxTu <- MaxTu["nist"]

ASSUME TransactionsAssumption ==
  /\ ICT!ICTAssumption /\ IST!ISTAssumption
  /\ NICT!NICTAssumption /\ NIST!NISTAssumption
  /\ MaxTu \in [Roles -> Nat]

(* What the client transactions do not have.                               *)
ServerInit == lastResponse = "none" /\ acked = FALSE /\ lateX = FALSE
NoServer == UNCHANGED <<lastResponse, acked, lateX>>

Init ==
  /\ role \in Roles
  /\ CASE role = "ict"  -> ICT!Init /\ ServerInit
       [] role = "ist"  -> IST!Init
       [] role = "nict" -> NICT!Init /\ ServerInit
       [] role = "nist" -> NIST!Init /\ acked = FALSE /\ lateX = FALSE

Is(r) == role = r /\ UNCHANGED role

ICTNext  == Is("ict") /\ ICT!Next /\ NoServer
ISTNext  == Is("ist") /\ IST!Next
NICTNext == Is("nict") /\ NICT!Next /\ NoServer
NISTNext == Is("nist") /\ NIST!Next /\ UNCHANGED <<acked, lateX>>

Next == ICTNext \/ ISTNext \/ NICTNext \/ NISTNext

Spec == Init /\ [][Next]_vars

-----------------------------------------------------------------------------
(* The lock's holder returns, the terminating thread ends the transaction, *)
(* the two threads of the timer manager run, and time passes.  The thread  *)
(* that dispatches timers gets the state machine's lock some day, however  *)
(* many messages compete for it; the last reference is dropped.  The peer  *)
(* and the user owe nothing.                                               *)
Common(step) == step /\ NoServer /\ UNCHANGED role

OnTimer ==
  \/ Is("ict") /\ ICT!OnTimer /\ NoServer
  \/ Is("ist") /\ IST!OnTimer
  \/ Is("nict") /\ NICT!OnTimer /\ NoServer
  \/ Is("nist") /\ NIST!OnTimer /\ UNCHANGED <<acked, lateX>>

Dtor ==
  \/ Is("ict") /\ ICT!Dtor /\ NoServer
  \/ Is("ist") /\ IST!Dtor
  \/ Is("nict") /\ NICT!Dtor /\ NoServer
  \/ Is("nist") /\ NIST!Dtor /\ UNCHANGED <<acked, lateX>>

Fairness ==
  /\ WF_vars(Common(ICT!Return)) /\ WF_vars(Common(ICT!Finish))
  /\ WF_vars(Common(ICT!RaiseTimer)) /\ WF_vars(Common(ICT!MatchTimer))
  /\ SF_vars(Common(ICT!Tick))
  /\ WF_vars(Is("nict") /\ NICT!ScheduleK /\ NoServer)
  /\ SF_vars(OnTimer) /\ WF_vars(Dtor)

FairSpec == Spec /\ Fairness

-----------------------------------------------------------------------------
(* Properties *)

(* Every transaction keeps to its states, its messages and the exchanges   *)
(* with its user.                                                          *)
TypeOK ==
  /\ role \in Roles
  /\ CASE role = "ict"  -> ICT!TypeOK
       [] role = "ist"  -> IST!TypeOK
       [] role = "nict" -> NICT!TypeOK
       [] role = "nist" -> NIST!TypeOK

(* A state that only a timer can end has that timer on its way to the      *)
(* state machine, whatever was canceled, rescheduled or raised before: else*)
(* the transaction stays in the layer's list for ever.                     *)
NeverStuck ==
  CASE role = "ict"  -> ICT!NeverStuck
    [] role = "ist"  -> IST!NeverStuck
    [] role = "nict" -> NICT!NeverStuck
    [] role = "nist" -> NIST!NeverStuck

(* A client transaction gives its user one verdict and nothing provisional *)
(* after it; a server transaction hands its request over once and sends one*)
(* final answer, then and whenever the request is retransmitted.           *)
OneOutcome ==
  CASE role = "ict"  -> ICT!OneVerdict
    [] role = "ist"  -> IST!OneFinalAnswer
    [] role = "nict" -> NICT!OneVerdict
    [] role = "nist" -> NIST!OneFinalAnswer

(* No transaction leaves the layer without a word to its user, except where*)
(* the transport refused a message and the handler returned the error.     *)
NoSilentEnd ==
  CASE role = "ict"  -> ICT!NoSilentEnd
    [] role = "ist"  -> IST!NoSilentEnd
    [] role = "nict" -> NICT!NoSilentEnd
    [] role = "nist" -> NIST!NoSilentEnd

(* A client transaction that is answered and left to its last timer is not *)
(* called back once it is destroyed.                                       *)
QuietAfterAnswer ==
  CASE role = "ict"  -> ICT!QuietAfterRejection
    [] role = "nict" -> NICT!QuietAfterAnswer
    [] OTHER         -> TRUE

(* An ACK stops the retransmission of the 2xx, unless timer X was already  *)
(* on its way.                                                             *)
AckStopsTimerX == role = "ist" => IST!AckStopsTimerX

(* Every transaction is over and destroyed some day, unless it waits for   *)
(* its peer or its user.                                                   *)
EventuallyDestroyed ==
  (\/ role \in {"ict", "nict"} /\ state # "Started"
   \/ state \in {"Completed", "Accepted", "Confirmed"}) ~>
     (life = "destroyed" \/ state = "Proceeding" \/ "unmatched" \in mishaps)
=============================================================================
