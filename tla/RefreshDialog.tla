---------------------------- MODULE RefreshDialog ----------------------------
(***************************************************************************)
(* The client dialogs that keep something at a server for a time and       *)
(* refresh it: a registration (tsip_dialog_register.c and .client.c), a    *)
(* subscription (tsip_dialog_subscribe.client.c), a publication            *)
(* (tsip_dialog_publish.client.c).  The three state machines are one, but  *)
(* for what is marked below; InProgress of REGISTER is Trying here.        *)
(*                                                                         *)
(* With the dialog: its user, the non-INVITE transaction of its request,   *)
(* and a server that grants, challenges, bargains, refuses or is silent.   *)
(***************************************************************************)
EXTENDS Integers

CONSTANTS
  DialogKinds,      \* kinds of dialog to look at
  Requested,        \* the lifetime the user asks for, in units of the clock
  Lifetimes,        \* lifetimes the server grants or demands
  LongLife, Margin, \* the 1200 and 600 s of tsip_dialog_get_newdelay
  TransactionTime,  \* timer F
  MaxTime           \* bound of the clock

ASSUME RefreshDialogAssumption ==
  /\ DialogKinds \subseteq {"REGISTER", "SUBSCRIBE", "PUBLISH"}
  /\ Requested \in Nat /\ Lifetimes \subseteq Nat /\ 0 \in Lifetimes
  /\ Margin \in Nat \ {0} /\ LongLife \in Nat /\ Margin < LongLife
  /\ TransactionTime \in Nat /\ MaxTime \in Nat

VARIABLES
  kind, silent,   \* of the dialog, and ss->silent_hangup
  state,          \* of the state machine
  sip,            \* TSIP_DIALOG(self)->state: initial, early, established
  leaving,        \* unregistering, unsubscribing, unpublishing
  expires,        \* TSIP_DIALOG(self)->expires
  challenged,     \* there is an entry in TSIP_DIALOG(self)->challenges
  refresh,        \* when timerrefresh is due, or Never
  armed,          \* timershutdown runs
  hangup,         \* what tsip_dialog_hangup is about to do after its unlocked read
  transac,        \* the transaction of the last request: none, trying or proceeding
  deadline,       \* its timer F
  toServer,       \* lifetime in the request that is on its way, or NoRequest
  answers,        \* responses on their way
  notify,         \* the NOTIFY on its way, or NoNotify
  kept,           \* when what the server keeps expires
  now,
  how,            \* history: how the dialog ended
  vague,          \* history: the last NOTIFY named no lifetime, or that of an older grant
  dropped         \* history: the server ended the subscription

dialogVars == <<kind, silent, state, sip, leaving, expires, challenged, how>>
timerVars == <<refresh, armed, deadline, now>>
netVars == <<toServer, answers, notify>>
refreshVars == <<dialogVars, timerVars, netVars, hangup, transac, kept, vague, dropped>>

Never == -1
NoRequest == -1
NoLife == -1
NoNotify == [life |-> NoLife, final |-> FALSE, sent |-> FALSE]

Responses ==
  [code : {"1xx"}, tag : BOOLEAN]
  \cup [code : {"2xx"}, life : Lifetimes]
  \cup [code : {"401"}, stale : BOOLEAN]
  \cup [code : {"423"}, min : Lifetimes \cup {NoLife}]
  \cup {[code |-> "error"]}

RefreshInit ==
  /\ kind \in DialogKinds /\ silent \in BOOLEAN
  /\ state = "Started" /\ sip = "initial"
  /\ leaving = FALSE /\ expires = Requested /\ challenged = FALSE
  /\ refresh = Never /\ armed = FALSE /\ hangup = "none"
  /\ transac = "none" /\ deadline = 0
  /\ toServer = NoRequest /\ answers = {} /\ notify = NoNotify
  /\ kept = 0 /\ now = 0
  /\ how = "alive" /\ vague = FALSE /\ dropped = FALSE

-----------------------------------------------------------------------------
(* What the handlers do.                                                   *)

(* Seeded fault: the whole lifetime.                                       *)
NewDelayWhole(life) == life

(* tsip_dialog_get_newdelay: half of it, or all but the margin.            *)
NewDelay(life) == IF life > LongLife THEN life - Margin ELSE life \div 2

(* Seeded fault: whoever leaves asks for what the server demanded.         *)
SendLifetime(life, leaves) ==
  /\ transac' = "trying" /\ deadline' = now + TransactionTime
  /\ toServer' = life /\ expires' = life

(* tsip_dialog_register_send_REGISTER and its likes.                       *)
Send(life, leaves) ==
  /\ transac' = "trying" /\ deadline' = now + TransactionTime
  /\ LET l == IF leaves THEN 0 ELSE life IN toServer' = l /\ expires' = l

Terminates(why) == state' = "Terminated" /\ how' = why

(* tsk_fsm_act.  A terminated dialog ignores what comes.                   *)
Alive == state # "Terminated"

Receives(r) == Alive /\ transac # "none" /\ r \in answers

(* The transaction that has a final answer takes no other.                 *)
Concludes(r) == Receives(r) /\ answers' = {}

-----------------------------------------------------------------------------
(* The user.                                                               *)

(* tsip_api_register_send_register and its likes: Started -> Trying.       *)
Started_2_Trying_oREQUEST ==
  /\ state = "Started" /\ state' = "Trying"
  /\ Send(expires, leaving)
  /\ UNCHANGED <<kind, silent, sip, leaving, challenged, how, refresh, armed, now, answers,
                 notify, hangup, kept, vague, dropped>>

(* Connected -> Trying: the user again, or the refresh timer.              *)
Connected_2_Trying_oREQUEST ==
  /\ state = "Connected" /\ state' = "Trying"
  /\ refresh' \in {refresh} \cup (IF refresh = now THEN {Never} ELSE {})
  /\ Send(expires, leaving)
  /\ UNCHANGED <<kind, silent, sip, leaving, challenged, how, armed, now, answers, notify,
                 hangup, kept, vague, dropped>>

(* In another state the timer is ignored.                                  *)
RefreshIgnored ==
  /\ refresh = now /\ state # "Connected" /\ refresh' = Never
  /\ UNCHANGED <<dialogVars, armed, deadline, now, netVars, hangup, transac, kept, vague, dropped>>

(* tsip_dialog_hangup reads the state without the lock ...                 *)
HangupLooks ==
  /\ hangup = "none" /\ state \in {"Trying", "Connected"}
  /\ hangup' = IF sip = "established" THEN "hangup" ELSE "cancel"
  /\ UNCHANGED <<dialogVars, timerVars, netVars, transac, kept, vague, dropped>>

(* ... and hangs up: Any -> Trying, or the end ...                         *)
Any_2_Trying_hangup ==
  /\ hangup = "hangup" /\ hangup' = "none" /\ state = "Connected"
  /\ IF silent
     THEN Terminates("silent") /\ UNCHANGED <<leaving, expires, transac, deadline, toServer>>
     ELSE state' = "Trying" /\ leaving' = TRUE /\ Send(expires, TRUE) /\ UNCHANGED how
  /\ UNCHANGED <<kind, silent, sip, challenged, refresh, armed, now, answers, notify, kept,
                 vague, dropped>>

(* ... which it is at once while a request is out: what becomes of the     *)
(* request nobody hears ...                                                *)
Trying_2_Terminated_hangup ==
  /\ hangup = "hangup" /\ hangup' = "none" /\ state = "Trying"
  /\ Terminates("busy")
  /\ UNCHANGED <<kind, silent, sip, leaving, expires, challenged, timerVars, netVars, transac,
                 kept, vague, dropped>>

(* ... or cancels: its transactions with it.                               *)
Trying_2_Terminated_cancel ==
  /\ hangup = "cancel" /\ hangup' = "none" /\ state = "Trying"
  /\ Terminates("busy") /\ transac' = "none" /\ answers' = {}
  /\ UNCHANGED <<kind, silent, sip, leaving, expires, challenged, timerVars, toServer, notify,
                 kept, vague, dropped>>

(* Elsewhere there is no entry for it.                                     *)
HangupIgnored ==
  /\ \/ hangup = "cancel" /\ state # "Trying"
     \/ hangup = "hangup" /\ state = "Terminated"
  /\ hangup' = "none"
  /\ UNCHANGED <<dialogVars, timerVars, netVars, transac, kept, vague, dropped>>

(* The stack stops.  Started of SUBSCRIBE and PUBLISH has an entry that    *)
(* takes any action and does nothing.                                      *)
Any_2_Trying_shutdown ==
  /\ state = "Connected" \/ (state = "Started" /\ kind = "REGISTER")
  /\ IF silent
     THEN Terminates("silent") /\ UNCHANGED <<leaving, expires, transac, deadline, toServer, armed>>
     ELSE /\ state' = "Trying" /\ leaving' = TRUE /\ Send(expires, TRUE)
          /\ armed' = TRUE /\ UNCHANGED how
  /\ UNCHANGED <<kind, silent, sip, challenged, refresh, now, answers, notify, hangup, kept,
                 vague, dropped>>

Trying_2_Terminated_shutdown ==
  /\ state = "Trying" /\ Terminates("busy")
  /\ UNCHANGED <<kind, silent, sip, leaving, expires, challenged, timerVars, netVars, hangup,
                 transac, kept, vague, dropped>>

(* timershutdown.                                                          *)
Any_2_Terminated_shutdownTimedout ==
  /\ armed /\ armed' = FALSE
  /\ IF Alive THEN Terminates("late") ELSE UNCHANGED <<state, how>>
  /\ UNCHANGED <<kind, silent, sip, leaving, expires, challenged, refresh, deadline, now, netVars,
                 hangup, transac, kept, vague, dropped>>

-----------------------------------------------------------------------------
(* Responses and the end of the transaction.                               *)

(* tsip_dialog_update takes any 1xx with a tag for an early dialog; only   *)
(* REGISTER calls it.  In Proceeding, timer F is canceled.                 *)
Trying_2_Trying_1xx ==
  \E tag \in BOOLEAN :
    /\ state = "Trying" /\ Receives([code |-> "1xx", tag |-> tag])
    /\ answers' = answers \ {[code |-> "1xx", tag |-> tag]}
    /\ sip' = IF tag /\ kind = "REGISTER" THEN "early" ELSE sip
    /\ transac' = "proceeding"
    /\ UNCHANGED <<kind, silent, state, leaving, expires, challenged, how, timerVars, toServer,
                   notify, hangup, kept, vague, dropped>>

Trying_2_Terminated_2xx ==
  \E life \in Lifetimes :
    /\ state = "Trying" /\ leaving /\ Concludes([code |-> "2xx", life |-> life])
    /\ Terminates("left") /\ transac' = "none"
    /\ UNCHANGED <<kind, silent, sip, leaving, expires, challenged, timerVars, toServer, notify,
                   hangup, kept, vague, dropped>>

(* Seeded fault: the entry has no condition.                               *)
Trying_2_Connected_2xx_always ==
  \E life \in Lifetimes :
    /\ state = "Trying" /\ Concludes([code |-> "2xx", life |-> life])
    /\ state' = "Connected" /\ sip' = "established" /\ transac' = "none"
    /\ refresh' = now + NewDelay(life) /\ vague' = FALSE
    /\ UNCHANGED <<kind, silent, leaving, expires, challenged, how, armed, deadline, now, toServer,
                   notify, hangup, kept, dropped>>

(* The timer of the previous refresh, if it still runs, is forgotten.      *)
Trying_2_Connected_2xx ==
  \E life \in Lifetimes :
    /\ state = "Trying" /\ ~leaving /\ Concludes([code |-> "2xx", life |-> life])
    /\ state' = "Connected" /\ sip' = "established" /\ transac' = "none"
    /\ refresh' = now + NewDelay(life) /\ vague' = FALSE
    /\ UNCHANGED <<kind, silent, leaving, expires, challenged, how, armed, deadline, now, toServer,
                   notify, hangup, kept, dropped>>

(* tsip_dialog_update_challenges: a second challenge is taken if it says   *)
(* that the nonce is stale, or from an established registration.           *)
MayRetry(stale) == ~challenged \/ stale \/ (kind = "REGISTER" /\ sip = "established")

Trying_2_Trying_401_407_421_494 ==
  \E stale \in BOOLEAN :
    /\ state = "Trying" /\ Concludes([code |-> "401", stale |-> stale])
    /\ IF MayRetry(stale)
       THEN Send(expires, leaving) /\ challenged' = TRUE /\ UNCHANGED <<state, how>>
       ELSE Terminates("refused") /\ transac' = "none" /\ UNCHANGED <<expires, challenged, deadline, toServer>>
    /\ UNCHANGED <<kind, silent, sip, leaving, refresh, armed, now, notify, hangup, kept, vague,
                   dropped>>

(* Without Min-Expires it is the end.                                      *)
Trying_2_Trying_423 ==
  \E min \in Lifetimes \cup {NoLife} :
    /\ state = "Trying" /\ Concludes([code |-> "423", min |-> min])
    /\ IF min # NoLife
       THEN Send(min, leaving) /\ UNCHANGED <<state, how>>
       ELSE Terminates("refused") /\ transac' = "none" /\ UNCHANGED <<expires, deadline, toServer>>
    /\ UNCHANGED <<kind, silent, sip, leaving, challenged, refresh, armed, now, notify, hangup,
                   kept, vague, dropped>>

Any_2_Terminated_Error ==
  /\ Concludes([code |-> "error"])
  /\ Terminates("refused") /\ transac' = "none"
  /\ UNCHANGED <<kind, silent, sip, leaving, expires, challenged, timerVars, toServer, notify,
                 hangup, kept, vague, dropped>>

(* The transaction's timer F.                                              *)
Any_2_Terminated_transportError ==
  /\ Alive /\ transac = "trying" /\ now = deadline
  /\ Terminates("late") /\ transac' = "none" /\ answers' = {}
  /\ UNCHANGED <<kind, silent, sip, leaving, expires, challenged, timerVars, toServer, notify,
                 hangup, kept, vague, dropped>>

(* The transaction outlives its dialog; nobody hears what comes of it.     *)
OrphanEnds ==
  /\ ~Alive /\ transac # "none" /\ transac' = "none" /\ answers' = {}
  /\ answers # {} \/ now = deadline
  /\ UNCHANGED <<dialogVars, timerVars, toServer, notify, hangup, kept, vague, dropped>>

(* process_i_notify.  Without a lifetime of its own the delay is that of   *)
(* the request.  While a request is out, the end of the subscription       *)
(* passes for any other NOTIFY.                                            *)
NOTIFY ==
  /\ notify.sent /\ notify' = NoNotify
  /\ IF state = "Connected" /\ notify.final
     THEN Terminates("notified") /\ UNCHANGED <<refresh, vague>>
     ELSE IF state \in {"Trying", "Connected"}
     THEN /\ refresh' = now + NewDelay(IF notify.life > 0 THEN notify.life ELSE expires)
          /\ vague' = (notify.life <= 0 \/ now + notify.life > kept)
          /\ UNCHANGED <<state, how>>
     ELSE UNCHANGED <<state, how, refresh, vague>>
  /\ UNCHANGED <<kind, silent, sip, leaving, expires, challenged, armed, deadline, now, toServer,
                 answers, hangup, transac, kept, dropped>>

-----------------------------------------------------------------------------
(* The server and the network.                                             *)

ServerAnswers(r) == answers' = answers \cup {r} /\ toServer' = NoRequest

ServerGrants ==
  \E life \in Lifetimes :
    /\ toServer # NoRequest /\ ~dropped /\ life <= toServer /\ (toServer > 0 => life > 0)
    /\ ServerAnswers([code |-> "2xx", life |-> life])
    /\ kept' = now + life
    /\ UNCHANGED <<dialogVars, timerVars, notify, hangup, transac, vague, dropped>>

ServerRefuses ==
  /\ toServer # NoRequest
  /\ \/ \E stale \in BOOLEAN : ServerAnswers([code |-> "401", stale |-> stale])
     \/ \E min \in Lifetimes \cup {NoLife} :
          (min # NoLife => min > toServer) /\ ServerAnswers([code |-> "423", min |-> min])
     \/ ServerAnswers([code |-> "error"])
  /\ UNCHANGED <<dialogVars, timerVars, notify, hangup, transac, kept, vague, dropped>>

ServerTries ==
  /\ toServer # NoRequest /\ transac = "trying" /\ answers = {}
  /\ \E tag \in BOOLEAN : answers' = {[code |-> "1xx", tag |-> tag]}
  /\ UNCHANGED <<dialogVars, timerVars, toServer, notify, hangup, transac, kept, vague, dropped>>

(* What it keeps for a subscription it reports, and may end.               *)
ServerNotifies ==
  /\ kind = "SUBSCRIBE" /\ kept > now /\ ~notify.sent
  /\ \E final \in BOOLEAN, life \in {NoLife, kept - now} :
       /\ notify' = [life |-> life, final |-> final, sent |-> TRUE]
       /\ kept' = IF final THEN now ELSE kept
       /\ dropped' = final
  /\ UNCHANGED <<dialogVars, timerVars, toServer, answers, hangup, transac, vague>>

Loss ==
  /\ \/ toServer # NoRequest /\ toServer' = NoRequest /\ UNCHANGED <<answers, notify>>
     \/ \E r \in answers : answers' = answers \ {r} /\ UNCHANGED <<toServer, notify>>
     \/ notify.sent /\ notify' = NoNotify /\ UNCHANGED <<toServer, answers>>
  /\ UNCHANGED <<dialogVars, timerVars, hangup, transac, kept, vague, dropped>>

(* A unit of time is longer than a message or the shutdown takes.          *)
Tick ==
  /\ now < MaxTime /\ now' = now + 1
  /\ refresh # now /\ ~armed /\ hangup = "none"
  /\ transac = "trying" => now < deadline
  /\ toServer = NoRequest /\ answers = {} /\ ~notify.sent
  /\ UNCHANGED <<dialogVars, refresh, armed, deadline, netVars, hangup, transac, kept, vague, dropped>>

User ==
  \/ Started_2_Trying_oREQUEST \/ Connected_2_Trying_oREQUEST \/ RefreshIgnored
  \/ HangupLooks \/ Any_2_Trying_hangup \/ Trying_2_Terminated_hangup
  \/ Trying_2_Terminated_cancel \/ HangupIgnored
  \/ Any_2_Trying_shutdown \/ Trying_2_Terminated_shutdown \/ Any_2_Terminated_shutdownTimedout

Inbound ==
  \/ Trying_2_Trying_1xx \/ Trying_2_Terminated_2xx \/ Trying_2_Connected_2xx
  \/ Trying_2_Trying_401_407_421_494 \/ Trying_2_Trying_423
  \/ Any_2_Terminated_Error \/ Any_2_Terminated_transportError \/ OrphanEnds \/ NOTIFY

Environment == ServerGrants \/ ServerRefuses \/ ServerTries \/ ServerNotifies \/ Loss \/ Tick

RefreshNext == User \/ Inbound \/ Environment

RefreshSpec == RefreshInit /\ [][RefreshNext]_refreshVars

-----------------------------------------------------------------------------
(* Types.                                                                  *)
RefreshTypeOK ==
  /\ kind \in DialogKinds /\ silent \in BOOLEAN
  /\ state \in {"Started", "Trying", "Connected", "Terminated"}
  /\ sip \in {"initial", "early", "established"}
  /\ leaving \in BOOLEAN /\ expires \in Nat /\ challenged \in BOOLEAN
  /\ refresh \in Nat \cup {Never} /\ armed \in BOOLEAN
  /\ hangup \in {"none", "hangup", "cancel"}
  /\ transac \in {"none", "trying", "proceeding"} /\ deadline \in Nat
  /\ toServer \in Nat \cup {NoRequest} /\ answers \subseteq Responses
  /\ notify \in [life : Nat \cup {NoLife}, final : BOOLEAN, sent : BOOLEAN]
  /\ kept \in Nat /\ now \in Nat
  /\ how \in {"alive", "silent", "busy", "late", "left", "refused", "notified"}
  /\ vague \in BOOLEAN /\ dropped \in BOOLEAN

(* A dialog waits for an answer exactly as long as a transaction of its    *)
(* runs, and never more than one; one that leaves does not come back: no   *)
(* answer connects it again, it waits until it has ended.                  *)
OneRequestAtATime ==
  /\ Alive => (state = "Trying" <=> transac # "none")
  /\ leaving /\ Alive => state = "Trying"

(* When the dialog has ended because its request to leave was granted, the *)
(* server keeps nothing, whatever was challenged or bargained on the way.  *)
NothingLeftBehind == how = "left" => kept <= now

(* While nothing is asked, a refresh is due, and it is due before what the *)
(* server keeps expires, unless a NOTIFY that named no lifetime, or that   *)
(* the refresh overtook, has put it off, or the server has dropped what it *)
(* kept.                                                                   *)
RefreshInTime ==
  state = "Connected" =>
    /\ refresh >= now
    /\ refresh < kept \/ refresh = now \/ vague \/ dropped

-----------------------------------------------------------------------------
(* What makes these inductive: the server's answer is an answer to the     *)
(* last request ...                                                        *)
Provisional == [code : {"1xx"}, tag : BOOLEAN]

Granted(life) == [code |-> "2xx", life |-> life]

AnswersMatch ==
  /\ toServer # NoRequest => answers \subseteq Provisional
  /\ Alive /\ transac = "none" => toServer = NoRequest /\ answers = {}
  /\ \A life \in Lifetimes : Granted(life) \in answers => dropped \/ kept = now + life

(* ... and who leaves asks for nothing, so nothing is granted to it.       *)
LeavesForGood ==
  /\ leaving => /\ toServer \in {NoRequest, 0}
                /\ \A life \in Lifetimes : Granted(life) \in answers => life = 0
  /\ how = "left" => leaving /\ ~Alive
  /\ dropped => kept <= now

RefreshInv ==
  /\ RefreshTypeOK /\ OneRequestAtATime /\ NothingLeftBehind /\ RefreshInTime
  /\ AnswersMatch /\ LeavesForGood
=============================================================================
