---------------------------- MODULE InviteDialog ----------------------------
(***************************************************************************)
(* Two INVITE dialogs, tsip_dialog_invite.c and its client, server, hold,  *)
(* timers and qos files: "a" calls and "b" is called.  The two users talk  *)
(* to their dialogs, the messages cross, are lost, retransmitted and       *)
(* answered late.                                                          *)
(*                                                                         *)
(* A dialog runs its state machine under its own lock, so that an act is   *)
(* one step, the termination it may end in included (tsip_dialog_fsm_act). *)
(* Transactions are seen as the dialogs see them: a client transaction     *)
(* retransmits until it is answered, or tells the dialog it has timed out; *)
(* a server transaction answers retransmissions itself; both are canceled  *)
(* when their dialog terminates.  Modules InviteTransaction and            *)
(* NonInviteTransaction show that transactions keep to that.               *)
(***************************************************************************)
EXTENDS Integers, FiniteSets

CONSTANTS
  Modes,       \* what a call may use, see ModeType
  MaxResends   \* times timer100rel may double before it gives up

Sides == {"a", "b"}
Peer(d) == IF d = "a" THEN "b" ELSE "a"

ModeType == [rel : BOOLEAN,                          \* 100rel on both sides
             qos : {"none", "optional", "mandatory"},\* preconditions of the caller
             refresher : {"none"} \cup Sides,        \* session timers
             hold : BOOLEAN, shutdown : BOOLEAN,     \* what users may ask
             faults : Nat]                           \* most that go wrong, see Faults

ASSUME InviteDialogAssumption ==
  /\ Modes \subseteq ModeType
  /\ \A m \in Modes : m.qos # "none" => m.rel
  /\ MaxResends \in Nat \ {0}

(* A re-INVITE is told from the INVITE by its transaction only.            *)
Methods == {"INVITE", "reINVITE", "CANCEL", "BYE", "PRACK", "UPDATE"}
Invites == {"INVITE", "reINVITE"}
Kinds == {"request", "ACK", "100", "1xx", "1xxrel", "2xx", "final"}
MaxRSeq == 4
Messages == [to : Sides, kind : Kinds, method : Methods, rseq : 0..MaxRSeq]

FsmStates == {"Started", "Outgoing", "Cancelling", "InProgress", "Ringing",
              "Connected", "Holding", "Resuming", "Trying", "Terminated"}

VARIABLES
  mode,      \* what this call uses
  dlg,       \* [Sides -> DialogType]: the two dialogs
  client,    \* client[d][m]: d's client transaction for method m
  server,    \* server[d][m]: the last response of d's server transaction
  net,       \* messages in flight
  user,      \* what each user has asked for, and the state hangup() has read
  mishaps    \* faults of the environment so far, see Faults

vars == <<mode, dlg, client, server, net, user, mishaps>>

(* A message is lost, for good when nobody repeats it; a repetition was    *)
(* not needed; the transport refused a request.                            *)
Faults == {"lost", "lost for good", "repeated", "refused"}

(* Races a dialog has not won, kept as history: its CANCEL met a call that *)
(* was already answered; a hangup was dropped; a request no entry answers  *)
(* was swallowed; timer100rel was already raised when it was canceled.     *)
Races == {"crossed", "dropped", "swallowed", "late"}

DialogType ==
  [fsm : FsmStates,
   state : {"initial", "early", "established"},   \* TSIP_DIALOG(self)->state
   rseq : 0..MaxRSeq,
   sent : 0..MaxRSeq,                             \* RSeq of last_o1xxrel
   rel : SUBSET {"armed", "raised"},              \* timer100rel
   resends : 0..MaxResends,                       \* doublings of its timeout
   rsvp : {"none", "armed", "done"},              \* qos.timer
   refresh : BOOLEAN,                             \* stimers.timer is scheduled
   closing : BOOLEAN,                             \* timershutdown is scheduled
   why : {"none", "peer", "error", "100rel", "shutdown"},  \* what has ended it
   races : SUBSET Races]

(* tsip_dialog_invite_ctor.                                                *)
Fresh == [fsm |-> "Started", state |-> "initial", rseq |-> 0, sent |-> 0,
          rel |-> {}, resends |-> 0, rsvp |-> "none", refresh |-> FALSE, closing |-> FALSE,
          why |-> "none", races |-> {}]

NoTransaction == [m \in Methods |-> "none"]

Init ==
  /\ mode \in Modes
  /\ dlg = [d \in Sides |-> Fresh]
  /\ client = [d \in Sides |-> NoTransaction]
  /\ server = [d \in Sides |-> NoTransaction]
  /\ net = {}
  /\ user = [d \in Sides |-> [asked |-> {}, hangup |-> "no"]]
  /\ mishaps = {}

-----------------------------------------------------------------------------
(* What an act of dialog d does to the transactions and the network.       *)

Sent(d, kind, method, rseq) ==
  [to |-> Peer(d), kind |-> kind, method |-> method, rseq |-> rseq]

Reply(d, kind, m) == Sent(d, kind, m, 0)

(* The messages of the last transaction d started for method m: a new one  *)
(* has another branch, so that nothing matches them any more.              *)
Stale(d, m) ==
  {x \in net : x.method = m /\ (x.to = d <=> x.kind \notin {"request", "ACK"})}

(* OnTerminated: the transactions of the dialog are canceled with it.      *)
Ended(r, why) ==
  [r EXCEPT !.fsm = "Terminated", !.why = why, !.rel = {}, !.rsvp = "none",
            !.refresh = FALSE, !.closing = FALSE]

(* d becomes r; it took a message (or none), which left its transactions   *)
(* as c and s; it starts client transactions and sends the replies.        *)
Exchange(d, r, took, c, s, starts, replies) ==
  /\ dlg' = [dlg EXCEPT ![d] = r]
  /\ client' = [client EXCEPT ![d] =
       IF r.fsm = "Terminated" THEN NoTransaction
       ELSE [m \in Methods |-> IF m \in starts THEN "calling" ELSE c[m]]]
  /\ server' =
       [server EXCEPT
         ![d] = IF r.fsm = "Terminated" THEN NoTransaction ELSE s,
         ![Peer(d)] = [m \in Methods |-> IF m \in starts THEN "none" ELSE @[m]]]
  /\ net' = (net \ (took \cup UNION {Stale(d, m) : m \in starts}))
              \cup {Sent(d, "request", m, IF m = "PRACK" THEN r.rseq ELSE 0) :
                      m \in starts}
              \cup replies

Fault(fault) ==
  /\ fault \notin mishaps /\ Cardinality(mishaps) < mode.faults
  /\ mishaps' = mishaps \cup {fault}

(* A request the transport refuses makes the handler fail, which moves the *)
(* state machine to its final state.                                       *)
Act(d, r, took, c, s, starts, replies) ==
  \/ Exchange(d, r, took, c, s, starts, replies) /\ UNCHANGED mishaps
  \/ /\ starts # {} /\ Fault("refused")
     /\ Exchange(d, Ended(r, "error"), took, c, s, {}, replies)

(* d acts on its own, without a message.                                   *)
ActAlone(d, r, starts, replies) ==
  Act(d, r, {}, client[d], server[d], starts, replies)

-----------------------------------------------------------------------------
(* Messages meet a transaction first.                                      *)

In(kind, m) == {x \in net : x.kind = kind /\ x.method = m}

Answers == {"100", "1xx", "1xxrel", "2xx", "final"}

(* A response to d still has its client transaction; after a 2xx only a    *)
(* repeated 2xx to an INVITE does.                                         *)
Matched(x) ==
  /\ x.kind \in Answers
  /\ \/ client[x.to][x.method] \in {"calling", "proceeding"}
     \/ client[x.to][x.method] = "accepted" /\ x.kind = "2xx"

Phase(x) ==
  CASE x.kind \in {"100", "1xx", "1xxrel"} -> "proceeding"
    [] x.kind = "2xx" /\ x.method \in Invites -> "accepted"
    [] OTHER -> "none"

(* d, told of response x, becomes r, starts transactions and sends.        *)
OnResponse(x, r, starts, replies) ==
  Act(x.to, r, {x}, [client[x.to] EXCEPT ![x.method] = Phase(x)], server[x.to],
      starts, replies)

(* d, told of request x, becomes r and answers; the last response stays in *)
(* the server transaction.  A CANCEL has none: its response is sent        *)
(* directly to the transport.                                              *)
OnRequest(x, r, answer, more) ==
  Act(x.to, r, {x}, client[x.to],
      IF x.method = "CANCEL" THEN server[x.to]
      ELSE [server[x.to] EXCEPT ![x.method] = answer.kind],
      {}, {answer} \cup more)

(* Request x is new to d: no server transaction absorbs it.                *)
NewRequest(x, m) ==
  x.kind = "request" /\ x.method = m /\ server[x.to][m] = "none"

Drop(x) ==
  /\ net' = net \ {x}
  /\ UNCHANGED <<mode, dlg, client, server, user, mishaps>>

(* tsip_transac_layer_find_client finds nothing.                           *)
LateResponse(x) == x.kind \in Answers /\ ~Matched(x) /\ Drop(x)

(* A retransmitted request gets the last response again, if there is one.  *)
Retransmitted(x) ==
  LET d == x.to  last == server[d][x.method] IN
  /\ x.kind = "request" /\ last # "none"
  /\ net' = (net \ {x}) \cup
       (IF last \in {"trying", "acked"} THEN {}
        ELSE {Sent(d, last, x.method, IF last = "1xxrel" THEN dlg[d].sent ELSE 0)})
  /\ UNCHANGED <<mode, dlg, client, server, user, mishaps>>

(* tsip_dialog_layer_handle_incoming_msg: 481, and nothing for an ACK.     *)
NoDialog(x) ==
  /\ x.kind = "ACK" \/ (x.kind = "request" /\ x.method \notin Invites)
  /\ dlg[x.to].fsm \in {"Started", "Terminated"}
  /\ net' = (net \ {x}) \cup
       (IF x.kind = "ACK" THEN {} ELSE {Reply(x.to, "final", x.method)})
  /\ UNCHANGED <<mode, dlg, client, server, user, mishaps>>

(* Any INVITE without a dialog makes one: a re-INVITE, or an INVITE that   *)
(* is repeated after its dialog has ended, which rings the user again.     *)
(* That other dialog is outside the model but for its first answer.        *)
StrayINVITE(x) ==
  /\ \E m \in Invites : NewRequest(x, m)
  /\ dlg[x.to].fsm = "Terminated"
  /\ \E kind \in {"1xx", "final"} :
       /\ server' = [server EXCEPT ![x.to][x.method] = kind]
       /\ net' = (net \ {x}) \cup {Reply(x.to, kind, x.method)}
  /\ UNCHANGED <<mode, dlg, client, user, mishaps>>

-----------------------------------------------------------------------------
(* The client side: tsip_dialog_invite.client.c.                           *)

With(d, fsm) == [dlg[d] EXCEPT !.fsm = fsm]
Is(d, fsms) == dlg[d].fsm \in fsms

(* Neither Started nor Terminated: entries for any state apply.            *)
Lives(d) == ~Is(d, {"Started", "Terminated"})

Started_2_Outgoing_oINVITE ==
  /\ Is("a", {"Started"})
  /\ ActAlone("a", With("a", "Outgoing"), {"INVITE"}, {})
  /\ UNCHANGED <<mode, user>>

(* send_ACK goes to the transport: nobody retransmits it but who repeats   *)
(* the 2xx.                                                                *)
Ack(d, m) == Reply(d, "ACK", m)

(* tsip_dialog_invite_stimers_handle, after a 2xx or a request.            *)
Refreshed(r) == [r EXCEPT !.refresh = (mode.refresher # "none")]

(* The content of the 2xx may be refused: a BYE is sent and its            *)
(* transaction canceled at once, with the dialog.                          *)
Outgoing_2_Connected_i2xxINVITE(x) ==
  LET r == [With("a", "Connected") EXCEPT !.state = "established"] IN
  /\ Matched(x) /\ x.to = "a" /\ x.kind = "2xx" /\ x.method = "INVITE"
  /\ Is("a", {"Outgoing"})
  /\ \/ OnResponse(x, Refreshed(r), {}, {Ack("a", "INVITE")})
     \/ OnResponse(x, Ended(r, "error"), {}, {Reply("a", "request", "BYE")})
  /\ UNCHANGED <<mode, user>>

Outgoing_2_Terminated_i300_to_i699INVITE(x) ==
  /\ Matched(x) /\ x.kind = "final" /\ x.method = "INVITE"
  /\ Is(x.to, {"Outgoing", "Cancelling"})
  /\ OnResponse(x, Ended(dlg[x.to], "peer"), {}, {})
  /\ UNCHANGED <<mode, user>>

Cancelling_iCANCELresponse(x) ==
  /\ Matched(x) /\ x.method = "CANCEL" /\ Is(x.to, {"Cancelling"})
  /\ \/ x.kind = "2xx" /\ OnResponse(x, dlg[x.to], {}, {})
     \/ x.kind = "final" /\ OnResponse(x, Ended(dlg[x.to], "peer"), {}, {})
  /\ UNCHANGED <<mode, user>>

(* Any state, a provisional response.  100 has no tag and changes nothing; *)
(* a reliable one is acknowledged unless its RSeq is not higher; mandatory *)
(* preconditions start the timer that stands for the reservation.          *)
Any_2_Any_i1xx(x) ==
  LET d == x.to
      r == [dlg[d] EXCEPT
             !.state = IF x.kind = "100" \/ @ = "established" THEN @ ELSE "early",
             !.rsvp = IF @ = "none" /\ x.kind # "100" /\ mode.qos = "mandatory"
                      THEN "armed" ELSE @]
      new == x.kind = "1xxrel" /\ x.rseq > dlg[d].rseq
  IN
  /\ Matched(x) /\ x.kind \in {"100", "1xx", "1xxrel"} /\ Lives(d)
  /\ IF new THEN OnResponse(x, [r EXCEPT !.rseq = x.rseq], {"PRACK"}, {})
     ELSE OnResponse(x, r, {}, {})
  /\ UNCHANGED <<mode, user>>

(* Any other state, a 2xx to an INVITE or an UPDATE: a repeated 2xx, one   *)
(* that crossed a CANCEL or a BYE, the answer to a refresh.                *)
Any_2_Any_i2xxINVITEorUPDATE(x) ==
  LET d == x.to
      r == Refreshed([dlg[d] EXCEPT !.state = "established",
                        !.races = @ \cup IF x.method = "INVITE" /\ client[d]["INVITE"] # "accepted"
                                         THEN {"crossed"} ELSE {}])
  IN
  /\ Matched(x) /\ x.kind = "2xx" /\ x.method \in Invites \cup {"UPDATE"}
  /\ Lives(d) /\ ~Is(d, {"Holding", "Resuming"})
  /\ ~(Is(d, {"Outgoing"}) /\ x.method = "INVITE")
  /\ OnResponse(x, r, {}, IF x.method = "UPDATE" THEN {} ELSE {Ack(d, x.method)})
  /\ UNCHANGED <<mode, user>>

(* Seeded fault: the answer to a BYE is ignored.                           *)
Any_2_Any_iBYEresponse(x) ==
  /\ Matched(x) /\ x.method = "BYE" /\ Lives(x.to)
  /\ OnResponse(x, dlg[x.to], {}, {})
  /\ UNCHANGED <<mode, user>>

(* The end of a BYE, whatever it is answered, in any state.                *)
Any_2_Terminated_iBYEresponse(x) ==
  /\ Matched(x) /\ x.method = "BYE" /\ Lives(x.to)
  /\ OnResponse(x, Ended(dlg[x.to], "peer"), {}, {})
  /\ UNCHANGED <<mode, user>>

(* No entry: the dialog ignores the response.                              *)
IgnoredResponse(x) ==
  /\ Matched(x) /\ x.kind \in {"2xx", "final"} /\ Lives(x.to)
  /\ \/ x.method = "PRACK"
     \/ x.method = "CANCEL" /\ ~Is(x.to, {"Cancelling"})
     \/ x.method = "INVITE" /\ x.kind = "final" /\ ~Is(x.to, {"Outgoing", "Cancelling", "Holding", "Resuming"})
     \/ x.method \in {"reINVITE", "UPDATE"} /\ x.kind = "final" /\ ~Is(x.to, {"Holding", "Resuming"})
  /\ OnResponse(x, dlg[x.to], {}, {})
  /\ UNCHANGED <<mode, user>>

(* Seeded fault: only the answer to an UPDATE ends the hold.               *)
Holding_2_Connected_UPDATE(x) ==
  /\ Matched(x) /\ x.kind \in {"2xx", "final"} /\ Is(x.to, {"Holding", "Resuming"})
  /\ x.method \in Invites \cup {"UPDATE"}
  /\ OnResponse(x, IF x.method = "UPDATE" THEN With(x.to, "Connected") ELSE dlg[x.to], {}, {})
  /\ UNCHANGED <<mode, user>>

(* Holding or Resuming, any answer to an INVITE or an UPDATE: the end of   *)
(* the hold, even if it answers a refresh, and a rejection gets an ACK.    *)
Holding_2_Connected_ixxx(x) ==
  /\ Matched(x) /\ x.kind \in {"2xx", "final"}
  /\ x.method \in Invites \cup {"UPDATE"} /\ Is(x.to, {"Holding", "Resuming"})
  /\ OnResponse(x, With(x.to, "Connected"), {},
                IF x.method = "UPDATE" THEN {} ELSE {Ack(x.to, x.method)})
  /\ UNCHANGED <<mode, user>>

-----------------------------------------------------------------------------
(* The server side: tsip_dialog_invite.server.c.                           *)

(* send_RESPONSE arms the timer anew for a reliable 1xx it sends first.    *)
Ringback(r, rel) ==
  IF rel THEN [r EXCEPT !.sent = r.rseq, !.rel = @ \cup {"armed"}, !.resends = 0] ELSE r

Rings(d, r, rel) == Sent(d, IF rel THEN "1xxrel" ELSE "1xx", "INVITE",
                         IF rel THEN r.rseq ELSE 0)

(* Seeded fault: an acknowledged response is sent again.                   *)
Cancel100relNot(r) == r

(* The cancel of timer100rel does nothing to a callback that already waits *)
(* for the lock of the dialog.                                             *)
Cancel100rel(r) ==
  [r EXCEPT !.rel = @ \ {"armed"},
            !.races = @ \cup IF "raised" \in r.rel THEN {"late"} ELSE {}]

(* The dialog for an INVITE without one.  Its content may be refused.      *)
Started_iINVITE(x) ==
  LET new == [Fresh EXCEPT !.state = "established", !.rseq = IF mode.rel THEN 1 ELSE 0,
                           !.fsm = IF mode.qos = "none" THEN "Ringing" ELSE "InProgress"]
      r == Ringback(new, mode.rel)
  IN
  /\ x.to = "b" /\ NewRequest(x, "INVITE") /\ Is("b", {"Started"})
  /\ \/ OnRequest(x, r, Rings("b", r, mode.rel), {})
     \/ OnRequest(x, Ended(new, "error"), Reply("b", "final", "INVITE"), {})
  /\ UNCHANGED <<mode, user>>

PrackMatches(x) == dlg[x.to].sent # 0 /\ x.rseq = dlg[x.to].rseq

(* The condition and the handler each add one to rseq.                     *)
InProgress_iPRACK(x) ==
  LET d == x.to
      r == Ringback([Cancel100rel(dlg[d]) EXCEPT !.fsm = "Ringing", !.rseq = @ + 2], mode.rel)
      answer == Reply(d, "2xx", "PRACK")
  IN
  /\ NewRequest(x, "PRACK") /\ Is(d, {"InProgress"})
  /\ IF mode.qos = "mandatory"
     THEN OnRequest(x, [Cancel100rel(dlg[d]) EXCEPT !.rseq = @ + 1], answer, {})
     ELSE PrackMatches(x) /\ OnRequest(x, r, answer, {Rings(d, r, mode.rel)})
  /\ UNCHANGED <<mode, user>>

Ringing_iPRACK(x) ==
  LET d == x.to IN
  /\ NewRequest(x, "PRACK") /\ Is(d, {"Ringing"}) /\ PrackMatches(x)
  /\ OnRequest(x, [Cancel100rel(dlg[d]) EXCEPT !.rseq = @ + 1],
               Reply(d, "2xx", "PRACK"), {})
  /\ UNCHANGED <<mode, user>>

(* Any other state, and a PRACK that does not match: 200 or 488.           *)
Any_iPRACK(x) ==
  LET d == x.to IN
  /\ NewRequest(x, "PRACK") /\ Lives(d)
  /\ ~(Is(d, {"InProgress"}) /\ mode.qos = "mandatory")
  /\ ~(Is(d, {"InProgress", "Ringing"}) /\ PrackMatches(x))
  /\ IF PrackMatches(x)
     THEN OnRequest(x, [dlg[d] EXCEPT !.rseq = @ + 1], Reply(d, "2xx", "PRACK"), {})
     ELSE OnRequest(x, dlg[d], Reply(d, "final", "PRACK"), {})
  /\ UNCHANGED <<mode, user>>

(* The preconditions are met, or not yet.                                  *)
InProgress_iUPDATE(x) ==
  LET d == x.to
      r == Ringback(With(d, "Ringing"), mode.rel)
      answer == Reply(d, "2xx", "UPDATE")
  IN
  /\ NewRequest(x, "UPDATE") /\ Is(d, {"InProgress"})
  /\ \/ OnRequest(x, r, answer, {Rings(d, r, mode.rel)})
     \/ OnRequest(x, dlg[d], answer, {})
  /\ UNCHANGED <<mode, user>>

(* Connected, and the caller before the 2xx has reached it.                *)
Connected_iINVITEorUPDATE(x) ==
  LET d == x.to IN
  /\ \E m \in {"reINVITE", "UPDATE"} : NewRequest(x, m)
  /\ Is(d, {"Connected", "Outgoing"})
  /\ OnRequest(x, IF Is(d, {"Connected"}) THEN Refreshed(dlg[d]) ELSE dlg[d],
               Reply(d, "2xx", x.method), {})
  /\ UNCHANGED <<mode, user>>

(* The final response goes with the transaction that would have repeated   *)
(* it: OnTerminated cancels it.                                            *)
Early_iCANCEL(x) ==
  LET d == x.to IN
  /\ NewRequest(x, "CANCEL") /\ Is(d, {"InProgress", "Ringing"})
  /\ OnRequest(x, Ended(dlg[d], "peer"), Reply(d, "2xx", "CANCEL"),
               {Reply(d, "final", "INVITE")})
  /\ UNCHANGED <<mode, user>>

(* Seeded fault: the BYE is answered and the call kept.                    *)
Any_2_Any_iBYE(x) ==
  LET d == x.to IN
  /\ NewRequest(x, "BYE") /\ Lives(d)
  /\ OnRequest(x, dlg[d], Reply(d, "2xx", "BYE"), {})
  /\ UNCHANGED <<mode, user>>

Any_2_Terminated_iBYE(x) ==
  LET d == x.to IN
  /\ NewRequest(x, "BYE") /\ Lives(d)
  /\ OnRequest(x, Ended(dlg[d], "peer"), Reply(d, "2xx", "BYE"), {})
  /\ UNCHANGED <<mode, user>>

(* No entry for the request: an IST says 100 Trying and then waits for its *)
(* user, a NIST just waits; the user never answers.                        *)
SwallowedRequest(x) ==
  LET d == x.to
      took == [dlg[d] EXCEPT !.races = @ \cup {"swallowed"}]
      s == [server[d] EXCEPT ![x.method] = IF x.method = "reINVITE" THEN "100" ELSE "trying"]
  IN
  /\ \/ /\ NewRequest(x, "UPDATE") /\ Lives(d) /\ ~Is(d, {"InProgress", "Connected", "Outgoing"})
        /\ Act(d, took, {x}, client[d], s, {}, {})
     \/ /\ NewRequest(x, "reINVITE") /\ Lives(d) /\ ~Is(d, {"Connected", "Outgoing"})
        /\ Act(d, took, {x}, client[d], s, {}, {Reply(d, "100", "reINVITE")})
     \/ /\ NewRequest(x, "CANCEL") /\ Lives(d) /\ ~Is(d, {"InProgress", "Ringing"})
        /\ Act(d, dlg[d], {x}, client[d], server[d], {}, {})
  /\ UNCHANGED <<mode, user>>

(* The ACK of a 2xx stops the server transaction's repetitions.            *)
Any_iACK(x) ==
  LET d == x.to IN
  /\ x.kind = "ACK" /\ Lives(d)
  /\ net' = net \ {x}
  /\ server' = [server EXCEPT ![d][x.method] = IF @ = "2xx" THEN "acked" ELSE @]
  /\ UNCHANGED <<mode, dlg, client, user, mishaps>>

-----------------------------------------------------------------------------
(* The users.  tsip_atype_reject is tsip_atype_hangup: in Ringing the      *)
(* entry of that state rejects the call, elsewhere a BYE is sent.          *)

Asks(d, what) ==
  /\ what \notin user[d].asked
  /\ user' = [user EXCEPT ![d].asked = @ \cup {what}]

Accept(d) ==
  /\ Is(d, {"Ringing"}) /\ Asks(d, "accept")
  /\ LET r == Refreshed([Cancel100rel(dlg[d]) EXCEPT !.fsm = "Connected"]) IN
     Act(d, r, {}, client[d], [server[d] EXCEPT !["INVITE"] = "2xx"], {},
         {Reply(d, "2xx", "INVITE")})
  /\ UNCHANGED mode

(* A failure to send the re-INVITE is ignored.                             *)
HoldOrResume(d, what, fsm) ==
  /\ mode.hold /\ Is(d, {"Connected"}) /\ Asks(d, what)
  /\ \/ Exchange(d, With(d, fsm), {}, client[d], server[d], {"reINVITE"}, {}) /\ UNCHANGED mishaps
     \/ Exchange(d, With(d, fsm), {}, client[d], server[d], {}, {}) /\ Fault("refused")
  /\ UNCHANGED mode

Hold(d) == HoldOrResume(d, "hold", "Holding")
Resume(d) == "hold" \in user[d].asked /\ HoldOrResume(d, "resume", "Resuming")

(* tsip_dialog_hangup reads the state of the dialog without its lock ...   *)
HangupRead(d) ==
  /\ Lives(d) /\ user[d].hangup = "no"
  /\ user' = [user EXCEPT ![d].hangup =
                IF dlg[d].state = "established" THEN "BYE" ELSE "CANCEL"]
  /\ UNCHANGED <<mode, dlg, client, server, net, mishaps>>

(* ... and acts on it later.                                               *)
HangupAct(d) ==
  LET what == user[d].hangup
      dropped == [dlg[d] EXCEPT !.races = @ \cup {"dropped"}]
  IN
  /\ what \in {"BYE", "CANCEL"}
  /\ user' = [user EXCEPT ![d].hangup = "done"]
  /\ CASE ~Lives(d) -> ActAlone(d, dlg[d], {}, {})
       [] what = "BYE" /\ Is(d, {"Ringing"}) ->
            ActAlone(d, Ended(Cancel100rel(dlg[d]), "peer"), {}, {Reply(d, "final", "INVITE")})
       [] what = "BYE" /\ Lives(d) /\ ~Is(d, {"Ringing"}) -> ActAlone(d, With(d, "Trying"), {"BYE"}, {})
       [] what = "CANCEL" /\ Is(d, {"Outgoing"}) -> ActAlone(d, With(d, "Cancelling"), {"CANCEL"}, {})
       [] what = "CANCEL" /\ Lives(d) /\ ~Is(d, {"Outgoing"}) -> ActAlone(d, dropped, {}, {})
  /\ UNCHANGED mode

(* The stack stops: any state.                                             *)
Shutdown(d) ==
  LET starts == CASE dlg[d].state = "established" -> {"BYE"}
                  [] dlg[d].state = "early" -> {"CANCEL"}
                  [] OTHER -> {}
  IN
  /\ mode.shutdown /\ Lives(d) /\ Asks(d, "shutdown")
  /\ ActAlone(d, [With(d, "Trying") EXCEPT !.closing = TRUE], starts, {})
  /\ UNCHANGED mode

-----------------------------------------------------------------------------
(* The timers.                                                             *)

(* The manager's thread has found that the id is that of timer100rel and   *)
(* waits for the lock of the dialog.                                       *)
Raise100rel(d) ==
  /\ "armed" \in dlg[d].rel
  /\ dlg' = [dlg EXCEPT ![d].rel = {"raised"}]
  /\ UNCHANGED <<mode, client, server, net, user, mishaps>>

(* The timeout doubles; the limit ends the dialog in any state.  Once the  *)
(* INVITE is answered its transaction sends no provisional response.       *)
Any_2_Any_timer100rel(d) ==
  LET r == [dlg[d] EXCEPT !.rel = @ \ {"raised"}, !.resends = @ + 1] IN
  /\ "raised" \in dlg[d].rel
  /\ IF r.resends = MaxResends THEN ActAlone(d, Ended(r, "100rel"), {}, {})
     ELSE ActAlone(d, [r EXCEPT !.rel = {"armed"}], {},
                   IF server[d]["INVITE"] = "1xxrel"
                   THEN {Sent(d, "1xxrel", "INVITE", r.sent)} ELSE {})
  /\ UNCHANGED <<mode, user>>

(* Seeded fault: only the refresher's timer does anything.                 *)
Connected_timerRefreshOnly(d) ==
  /\ dlg[d].refresh
  /\ ActAlone(d, [dlg[d] EXCEPT !.refresh = FALSE],
              IF Is(d, {"Connected"}) /\ mode.refresher = d THEN {"UPDATE"} ELSE {}, {})
  /\ UNCHANGED <<mode, user>>

(* Half of the session interval for the refresher, all of it for the other *)
(* side, which therefore outlasts a refresh that is on its way.            *)
Connected_timerRefresh(d) ==
  LET p == Peer(d) IN
  /\ dlg[d].refresh
  /\ mode.refresher = p => ~dlg[p].refresh /\ client[p]["UPDATE"] = "none"
  /\ CASE ~Is(d, {"Connected"}) -> ActAlone(d, [dlg[d] EXCEPT !.refresh = FALSE], {}, {})
       [] Is(d, {"Connected"}) /\ mode.refresher = d ->
            ActAlone(d, [dlg[d] EXCEPT !.refresh = FALSE], {"UPDATE"}, {})
       [] Is(d, {"Connected"}) /\ mode.refresher # d ->
            ActAlone(d, [With(d, "Trying") EXCEPT !.refresh = FALSE], {"BYE"}, {})
  /\ UNCHANGED <<mode, user>>

Any_2_Any_timerRSVP(d) ==
  /\ dlg[d].rsvp = "armed"
  /\ ActAlone(d, [dlg[d] EXCEPT !.rsvp = "done"], {"UPDATE"}, {})
  /\ UNCHANGED <<mode, user>>

ShutdownTimedout(d) ==
  /\ dlg[d].closing
  /\ ActAlone(d, Ended(dlg[d], "shutdown"), {}, {})
  /\ UNCHANGED <<mode, user>>

-----------------------------------------------------------------------------
(* The transactions and the network.                                       *)

(* Whether d's request goes unanswered for good, or for as long as its     *)
(* peer does not move.                                                     *)
Ignored(d, m) ==
  \/ server[Peer(d)][m] = "trying"
  \/ m = "CANCEL" /\ Lives(Peer(d)) /\ ~Is(Peer(d), {"InProgress", "Ringing"})

(* Timers A and E.  The repetition may overtake an answer on its way; one  *)
(* that would be ignored again is left out.                                *)
Retransmit(d, m) ==
  LET x == Sent(d, "request", m, IF m = "PRACK" THEN dlg[d].rseq ELSE 0) IN
  /\ client[d][m] = "calling" /\ x \notin net /\ ~Ignored(d, m)
  /\ IF Stale(d, m) = {} THEN UNCHANGED mishaps ELSE Fault("repeated")
  /\ net' = net \cup {x}
  /\ UNCHANGED <<mode, dlg, client, server, user>>

(* Timers B and F: the dialog is told, whatever it was waiting for.        *)
TimesOut(d, m) ==
  /\ client[d][m] = "calling" /\ Stale(d, m) = {} /\ Ignored(d, m)
  /\ ActAlone(d, Ended(dlg[d], "error"), {}, {})
  /\ UNCHANGED <<mode, user>>

(* Timer X repeats a 2xx until its ACK comes; timer L gives it up, when    *)
(* nobody is there any more to send one.                                   *)
Unacknowledged(d, m) ==
  /\ server[d][m] = "2xx" /\ m \in Invites
  /\ Reply(d, "2xx", m) \notin net /\ Reply(Peer(d), "ACK", m) \notin net

Retransmit2xx(d, m) ==
  /\ Unacknowledged(d, m) /\ client[Peer(d)][m] # "none"
  /\ net' = net \cup {Reply(d, "2xx", m)}
  /\ UNCHANGED <<mode, dlg, client, server, user, mishaps>>

UnackedExpires(d, m) ==
  /\ Unacknowledged(d, m) /\ client[Peer(d)][m] = "none"
  /\ ActAlone(d, Ended(dlg[d], "error"), {}, {})
  /\ UNCHANGED <<mode, user>>

Lose(x) ==
  /\ Fault(IF x.kind = "final" /\ x.method \in Invites THEN "lost for good" ELSE "lost")
  /\ net' = net \ {x}
  /\ UNCHANGED <<mode, dlg, client, server, user>>

-----------------------------------------------------------------------------
Receive(x) ==
  \/ Outgoing_2_Connected_i2xxINVITE(x) \/ Outgoing_2_Terminated_i300_to_i699INVITE(x)
  \/ Cancelling_iCANCELresponse(x) \/ Any_2_Any_i1xx(x)
  \/ Any_2_Any_i2xxINVITEorUPDATE(x) \/ Any_2_Terminated_iBYEresponse(x)
  \/ IgnoredResponse(x) \/ Holding_2_Connected_ixxx(x) \/ LateResponse(x)
  \/ Started_iINVITE(x) \/ InProgress_iPRACK(x) \/ Ringing_iPRACK(x) \/ Any_iPRACK(x)
  \/ InProgress_iUPDATE(x) \/ Connected_iINVITEorUPDATE(x) \/ Early_iCANCEL(x)
  \/ Any_2_Terminated_iBYE(x) \/ SwallowedRequest(x) \/ Any_iACK(x)
  \/ Retransmitted(x) \/ NoDialog(x) \/ StrayINVITE(x)

Timers(d) ==
  \/ Raise100rel(d) \/ Any_2_Any_timer100rel(d) \/ Connected_timerRefresh(d)
  \/ Any_2_Any_timerRSVP(d) \/ ShutdownTimedout(d)

Transactions(d, m) ==
  Retransmit(d, m) \/ TimesOut(d, m) \/ Retransmit2xx(d, m) \/ UnackedExpires(d, m)

Users(d) ==
  Accept(d) \/ Hold(d) \/ Resume(d) \/ HangupRead(d) \/ HangupAct(d) \/ Shutdown(d)

Next ==
  \/ Started_2_Outgoing_oINVITE
  \/ \E x \in net : Receive(x) \/ Lose(x)
  \/ \E d \in Sides : Users(d) \/ Timers(d) \/ \E m \in Methods : Transactions(d, m)

Spec == Init /\ [][Next]_vars

(* Messages are delivered and timers fire some day, a hangup that has read *)
(* the state acts on it, a transaction nobody answers times out.           *)
Fairness ==
  /\ \A d \in Sides, m \in Methods :
       WF_vars(\E x \in net : x.to = d /\ x.method = m /\ Receive(x))
  /\ \A d \in Sides :
       /\ WF_vars(\E m \in Methods : Stale(d, m) = {} /\ Retransmit(d, m))
       /\ WF_vars(\E m \in Methods : TimesOut(d, m))
       /\ WF_vars(\E m \in Invites : Retransmit2xx(d, m))
       /\ WF_vars(\E m \in Invites : UnackedExpires(d, m))
       /\ WF_vars(HangupAct(d))
       /\ WF_vars(Raise100rel(d)) /\ WF_vars(Any_2_Any_timer100rel(d))
       /\ WF_vars(Connected_timerRefresh(d)) /\ WF_vars(Any_2_Any_timerRSVP(d))
       /\ WF_vars(ShutdownTimedout(d))

FairSpec == Spec /\ Fairness

-----------------------------------------------------------------------------
(* Types: a dialog sends no reliable response more often than the limit,   *)
(* and RSeq only grows by the acknowledgements.                            *)
TypeOK ==
  /\ mode \in Modes
  /\ dlg \in [Sides -> DialogType]
  /\ client \in [Sides -> [Methods -> {"none", "calling", "proceeding", "accepted"}]]
  /\ server \in [Sides -> [Methods -> {"none", "trying", "100", "1xx", "1xxrel",
                                       "2xx", "final", "acked"}]]
  /\ net \subseteq Messages
  /\ user \in [Sides -> [asked : SUBSET {"accept", "hold", "resume", "shutdown"},
                         hangup : {"no", "BYE", "CANCEL", "done"}]]
  /\ mishaps \subseteq Faults

(* d is in a call whose other end is gone, and nothing on its way tells it.*)
Alone(d) ==
  /\ Is(d, {"Connected", "Holding", "Resuming"}) /\ Is(Peer(d), {"Terminated"})
  /\ \A x \in net : x.to = d => x.method # "BYE"
  /\ \A m \in Invites : server[d][m] # "2xx"

(* Nobody is left alone in a call, unless the other dialog ended by its    *)
(* timer100rel or at the end of a shutdown's patience, or its CANCEL had   *)
(* crossed the 2xx (then it only waits for answers), or a request of its   *)
(* was refused by the transport or swallowed by the state d was in: a      *)
(* dialog that ends in these ways sends no BYE.                            *)
NoOrphan ==
  \A d \in Sides : LET p == dlg[Peer(d)] IN Alone(d) =>
    \/ p.why \in {"100rel", "shutdown"}
    \/ "crossed" \in p.races
    \/ p.why = "error" /\ ("refused" \in mishaps \/ "swallowed" \in dlg[d].races)

(* A call nobody has ended is not given up for want of a PRACK that has    *)
(* come, unless the timer was already raised when the PRACK or the         *)
(* user's answer canceled it: the callback then works on the old timeout   *)
(* and arms the timer anew, in any state.                                  *)
AcknowledgedSurvives ==
  [][\A d \in Sides :
       dlg'[d].why = "100rel" /\ ~Is(d, {"Trying", "Terminated"}) =>
         dlg[d].rseq = dlg[d].sent \/ "late" \in dlg[d].races]_vars

(* Hanging up ends the dialog, unless the state it read without the lock   *)
(* was stale when it acted (the action is then dropped), or the final      *)
(* response it waits for in Cancelling was lost with the transaction that  *)
(* would have repeated it.                                                 *)
HangupEnds ==
  \A d \in Sides :
    user[d].hangup \in {"BYE", "CANCEL"} ~>
      Is(d, {"Terminated"}) \/ "dropped" \in dlg[d].races \/ "lost for good" \in mishaps

(* tsip_action.h:98 promises it of any dialog.                             *)
HangupTerminates ==
  \A d \in Sides : user[d].hangup \in {"BYE", "CANCEL"} ~> Is(d, {"Terminated"})

(* Session timers: who is left alone by a peer that was to refresh the     *)
(* session leaves the call.  The refresher itself stays: it ignores the    *)
(* 481 to its UPDATE and schedules no other.                               *)
SessionExpires ==
  \A d \in Sides :
    Alone(d) /\ dlg[d].refresh /\ mode.refresher = Peer(d) ~> ~Is(d, {"Connected"})

(* Hold and resume come to an end, unless the peer was in a state that     *)
(* swallows the re-INVITE (both hold at once, say) or is gone, or the      *)
(* transport refused it: the failure is ignored and no timer runs.         *)
HoldEnds ==
  \A d \in Sides :
    Is(d, {"Holding", "Resuming"}) ~>
      \/ ~Is(d, {"Holding", "Resuming"}) \/ Is(Peer(d), {"Terminated"})
      \/ "swallowed" \in dlg[Peer(d)].races \/ "refused" \in mishaps
=============================================================================
