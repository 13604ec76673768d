---------------------------- MODULE DialogProofs ----------------------------
(***************************************************************************)
(* Proofs about the two modules of dialogs, InviteDialog and RefreshDialog.*)
(*                                                                         *)
(* First the INVITE dialogs, for any modes and any limit of timer100rel.   *)
(* DialogsInv is inductive.  It says of each dialog alone what Side and    *)
(* Caller or Callee say, of the two together PairInv, and of every message *)
(* on its way Sound, which only refers to facts that are never undone      *)
(* (Onward).  An act of a dialog therefore keeps the invariant if what the *)
(* dialog becomes and says fits to its peer (CallerFits, CalleeFits) or,   *)
(* when it ends, if it is excused (CallerMayEnd, CalleeMayEnd).  There is  *)
(* one lemma for every action.                                             *)
(*                                                                         *)
(* Then the dialogs that refresh themselves, for any kinds, lifetimes and  *)
(* lengths of time: RefreshInv is inductive, and each lemma shows of one   *)
(* of its conjuncts that every step keeps it, from those it assumes.       *)
(***************************************************************************)
EXTENDS InviteDialog, RefreshDialog, TLAPS

A == dlg["a"]
B == dlg["b"]
InCall == {"Connected", "Holding", "Resuming"}
Undecided == {"Started", "InProgress", "Ringing"}
Accepted == "accept" \in user["b"].asked
Heard == client["a"]["INVITE"] = "accepted"

ClientStates == {"none", "calling", "proceeding", "accepted"}
ServerStates == {"none", "trying", "100", "1xx", "1xxrel", "2xx", "final", "acked"}
UserType == [asked : SUBSET {"accept", "hold", "resume", "shutdown"},
             hangup : {"no", "BYE", "CANCEL", "done"}]

(* A dialog r with its client and server transactions c and s and what its *)
(* user u has asked for: what holds of either side.                        *)
Side(r, c, s, u) ==
  /\ r.fsm = "Started" =>
       /\ r = Fresh /\ u.hangup = "no"
       /\ \A m \in Methods : c[m] = "none" /\ s[m] = "none"
  /\ r.fsm = "Terminated" =>
       /\ r.rel = {} /\ r.rsvp = "none" /\ ~r.refresh /\ ~r.closing
       /\ \A m \in Methods : c[m] = "none" /\ s[m] \in {"none", "1xx", "final"}
  /\ r.fsm = "Terminated" <=> r.why # "none"
  /\ r.fsm # "Terminated" => r.resends < MaxResends
  /\ c["BYE"] # "none" => r.fsm = "Trying"
  /\ s["BYE"] = "none"
  /\ \A m \in Methods : s[m] = "trying" => "swallowed" \in r.races
  /\ \A m \in Invites : s[m] = "final" => r.fsm = "Terminated"
  /\ \A m \in Methods : s[m] = "1xxrel" => m = "INVITE"

Caller(r, c, s, u) ==
  /\ r.fsm \notin {"InProgress", "Ringing"} /\ r.rel = {}
  /\ r.refresh \/ u.hangup = "BYE" \/ c["BYE"] # "none" => r.state = "established"
  /\ \A m \in {"INVITE", "PRACK"} : s[m] = "none"
  /\ r.fsm = "Outgoing" => c["INVITE"] \in {"calling", "proceeding"}
  /\ r.fsm \in InCall => c["INVITE"] = "accepted"
  /\ c["INVITE"] = "accepted" => r.state = "established"
  /\ c["PRACK"] # "none" => r.rseq # 0
  /\ c["CANCEL"] # "none" => r.fsm \in {"Cancelling", "Trying"}
  /\ c["CANCEL"] # "none" /\ c["INVITE"] = "accepted" => "crossed" \in r.races

Callee(r, c, s, u) ==
  /\ r.fsm \notin {"Outgoing", "Cancelling"}
  /\ r.fsm # "Started" => r.state = "established"
  /\ u.hangup # "CANCEL"
  /\ \A m \in {"INVITE", "PRACK", "CANCEL"} : c[m] = "none"
  /\ "accept" \in u.asked => r.fsm \notin Undecided
  /\ r.fsm \in InCall => "accept" \in u.asked /\ s["INVITE"] \in {"2xx", "acked"}
  /\ s["INVITE"] \in {"2xx", "acked"} => "accept" \in u.asked
  /\ r.sent <= r.rseq /\ r.rseq <= r.sent + 1 /\ r.sent <= 3
  /\ r.fsm = "InProgress" =>
       /\ r.sent = 1 /\ mode.rel
       /\ r.rseq = 2 => mode.qos = "mandatory"
  /\ r.rel # {} /\ r.fsm \notin {"Trying", "Terminated"} => r.rseq = r.sent \/ "late" \in r.races
  /\ r.rel # {} /\ r.fsm \in InCall => "late" \in r.races

SidesInv ==
  /\ \A d \in Sides : Side(dlg[d], client[d], server[d], user[d])
  /\ Caller(A, client["a"], server["a"], user["a"])
  /\ Callee(B, client["b"], server["b"], user["b"])

(* How a dialog can have ended without telling its peer, see NoOrphan.     *)
Excused(d) ==
  \/ dlg[d].why \in {"100rel", "shutdown"}
  \/ "crossed" \in dlg[d].races
  \/ dlg[d].why = "error" /\ ("refused" \in mishaps \/ "swallowed" \in dlg[Peer(d)].races)

(* What the two dialogs know of each other.                                *)
PairInv ==
  /\ A.fsm = "Started" => B.fsm = "Started" /\ net = {}
  /\ A.state = "established" => B.fsm # "Started"
  /\ Heard => Accepted
  /\ server["b"]["INVITE"] = "acked" /\ A.fsm # "Terminated" => Heard
  /\ A.rseq <= B.sent
  /\ B.fsm = "InProgress" /\ B.rseq = 2 => A.rseq # 0 /\ server["b"]["PRACK"] # "none"
  /\ \A d \in Sides :
       dlg[d].fsm # "Terminated" /\ dlg[Peer(d)].fsm # "Terminated" /\ client[d]["reINVITE"] = "none"
         => server[Peer(d)]["reINVITE"] = "none"
  /\ B.fsm = "Terminated" /\ Accepted /\ A.fsm \in InCall \cup {"Outgoing"} => Excused("b")
  /\ A.fsm = "Terminated" /\ B.fsm \in InCall /\ server["b"]["INVITE"] = "acked" => Excused("a")

(* What a message on its way says of the dialogs, however old it is.       *)
Sound(x) ==
  /\ x.method \in {"INVITE", "PRACK", "CANCEL"} => (x.to = "b" <=> x.kind \in {"request", "ACK"})
  /\ x.kind = "1xxrel" => x.method = "INVITE" /\ x.rseq <= B.sent
  /\ x.method = "PRACK" /\ x.kind = "request" => A.rseq # 0 /\ x.rseq <= A.rseq
  /\ x.method = "BYE" /\ x.kind = "request" =>
       dlg[Peer(x.to)].fsm \in {"Trying", "Terminated"} /\ dlg[x.to].fsm # "Started"
  /\ x.method = "BYE" /\ x.kind # "request" => dlg[Peer(x.to)].fsm = "Terminated"
  /\ x.to = "a" /\ x.kind # "final" => B.fsm # "Started"
  /\ x.method = "INVITE" /\ x.kind \in {"2xx", "ACK"} => Accepted
  /\ x.method = "INVITE" /\ x.kind = "ACK" =>
       /\ A.fsm # "Terminated" => Heard
       /\ A.fsm = "Terminated" /\ B.fsm \in InCall => Excused("a")
  /\ x.method \in Invites /\ x.kind = "final" => dlg[Peer(x.to)].fsm = "Terminated"
  /\ x.method = "reINVITE" /\ x.kind = "request"
       /\ dlg[x.to].fsm # "Terminated" /\ dlg[Peer(x.to)].fsm # "Terminated"
       => client[Peer(x.to)]["reINVITE"] # "none"

NetInv == \A x \in net : Sound(x)

DialogsInv == TypeOK /\ SidesInv /\ PairInv /\ NetInv

-----------------------------------------------------------------------------
(* What every step leaves: nothing of this is ever undone.                 *)
Onward ==
  /\ mode' = mode /\ mishaps \subseteq mishaps'
  /\ \A d \in Sides :
       /\ dlg'[d].fsm = "Started" => dlg[d].fsm = "Started"
       /\ dlg[d].fsm = "Terminated" => dlg'[d].fsm = "Terminated" /\ dlg'[d].why = dlg[d].why
       /\ dlg[d].fsm = "Trying" => dlg'[d].fsm \in {"Trying", "Terminated"}
       /\ dlg[d].races \subseteq dlg'[d].races
       /\ dlg'[d].fsm # "Terminated" /\ dlg'[Peer(d)].fsm # "Terminated" /\ client[d]["reINVITE"] # "none"
            => client'[d]["reINVITE"] # "none"
  /\ B.sent <= B'.sent /\ A.rseq <= A'.rseq
  /\ Accepted => Accepted'
  /\ Heard /\ A'.fsm # "Terminated" => Heard'
  /\ A.fsm # "Terminated" /\ A'.fsm = "Terminated" /\ B'.fsm \in InCall /\ Heard => Excused("a")'
  /\ Accepted /\ B'.fsm \in InCall => B.fsm \in InCall

LEMMA PeerIs == Peer("a") = "b" /\ Peer("b") = "a" /\ \A d \in Sides : Peer(d) \in Sides /\ Peer(d) # d /\ Peer(Peer(d)) = d
BY DEF Peer, Sides

(* An excuse is one for good. *)
LEMMA ExcuseStays ==
  ASSUME Onward, NEW d \in Sides, dlg[d].fsm = "Terminated", Excused(d)
  PROVE  Excused(d)'
BY PeerIs DEF Onward, Excused

(* A message that was sound stays so. *)
LEMMA SoundStays ==
  ASSUME TypeOK, TypeOK', Onward, NEW x \in net, Sound(x)
  PROVE  Sound(x)'
<1>1. x \in Messages /\ x.to \in Sides
  BY DEF TypeOK, Messages
<1>2. Peer(x.to) \in Sides /\ Peer(Peer(x.to)) = x.to /\ x.to \in {"a", "b"} /\ (x.to = "a" <=> Peer(x.to) = "b")
  BY <1>1, PeerIs DEF Sides
<1>3. A.rseq \in Nat /\ A'.rseq \in Nat /\ B.sent \in Nat /\ B'.sent \in Nat /\ x.rseq \in Nat
  BY <1>1 DEF TypeOK, Messages, DialogType, A, B, Sides, MaxRSeq
<1>4. (x.kind = "1xxrel" => x.method = "INVITE" /\ x.rseq <= B'.sent)
      /\ (x.method = "PRACK" /\ x.kind = "request" => A'.rseq # 0 /\ x.rseq <= A'.rseq)
  BY <1>3 DEF Sound, Onward
<1>5. x.method = "BYE" /\ x.kind = "request" =>
       dlg'[Peer(x.to)].fsm \in {"Trying", "Terminated"} /\ dlg'[x.to].fsm # "Started"
  BY <1>1, <1>2 DEF Sound, Onward
<1>6. /\ x.method = "BYE" /\ x.kind # "request" => dlg'[Peer(x.to)].fsm = "Terminated"
      /\ x.to = "a" /\ x.kind # "final" => B'.fsm # "Started"
      /\ x.method \in Invites /\ x.kind = "final" => dlg'[Peer(x.to)].fsm = "Terminated"
  BY <1>1, <1>2, PeerIs DEF Sound, Onward, B, Sides
<1>7. x.method = "INVITE" /\ x.kind = "ACK" =>
       /\ A'.fsm # "Terminated" => Heard'
       /\ A'.fsm = "Terminated" /\ B'.fsm \in InCall => Excused("a")'
  <2> SUFFICES ASSUME x.method = "INVITE", x.kind = "ACK"
               PROVE  /\ A'.fsm # "Terminated" => Heard'
                      /\ A'.fsm = "Terminated" /\ B'.fsm \in InCall => Excused("a")'
    OBVIOUS
  <2>1. Accepted /\ (A.fsm # "Terminated" => Heard) /\ (A.fsm = "Terminated" /\ B.fsm \in InCall => Excused("a"))
    BY DEF Sound
  <2>2. CASE A.fsm = "Terminated"
    BY <2>1, <2>2, ExcuseStays DEF Onward, A, Sides
  <2>3. CASE A.fsm # "Terminated"
    BY <2>1, <2>3 DEF Onward
  <2> QED BY <2>2, <2>3
<1>8. x.method = "reINVITE" /\ x.kind = "request"
       /\ dlg'[x.to].fsm # "Terminated" /\ dlg'[Peer(x.to)].fsm # "Terminated"
       => client'[Peer(x.to)]["reINVITE"] # "none"
  BY <1>1, <1>2 DEF Sound, Onward
<1>9. x.method = "INVITE" /\ x.kind \in {"2xx", "ACK"} => Accepted'
  BY DEF Sound, Onward
<1> QED BY <1>4, <1>5, <1>6, <1>7, <1>8, <1>9 DEF Sound

-----------------------------------------------------------------------------
(* One act of a dialog.                                                    *)

After(c, starts) == [m \in Methods |-> IF m \in starts THEN "calling" ELSE c[m]]

Does(d, r, c, s, starts, replies) ==
  /\ dlg' \in [Sides -> DialogType]
  /\ client' \in [Sides -> [Methods -> ClientStates]]
  /\ server' \in [Sides -> [Methods -> ServerStates]]
  /\ net' \subseteq Messages
  /\ dlg'[d] = r /\ dlg'[Peer(d)] = dlg[Peer(d)]
  /\ client'[d] = (IF r.fsm = "Terminated" THEN NoTransaction ELSE After(c, starts))
  /\ client'[Peer(d)] = client[Peer(d)]
  /\ server'[d] = (IF r.fsm = "Terminated" THEN NoTransaction ELSE s)
  /\ \A m \in Methods : server'[Peer(d)][m] = IF m \in starts THEN "none" ELSE server[Peer(d)][m]
  /\ \A x \in net' : x \in net \/ x \in replies
                     \/ \E m \in starts : x = Sent(d, "request", m, IF m = "PRACK" THEN r.rseq ELSE 0)

(* The conjuncts of Exchange, one for each side.                           *)
LEMMA ExchangeDoes ==
  ASSUME TypeOK, NEW d \in Sides, NEW r \in DialogType, NEW took,
         NEW c \in [Methods -> ClientStates], NEW s \in [Methods -> ServerStates],
         NEW starts \in SUBSET Methods, NEW replies \in SUBSET Messages,
         Exchange(d, r, took, c, s, starts, replies)
  PROVE  Does(d, r, c, s, starts, replies)
<1> USE PeerIs
<1>1. /\ dlg \in [Sides -> DialogType] /\ net \subseteq Messages
      /\ client \in [Sides -> [Methods -> ClientStates]]
      /\ server \in [Sides -> [Methods -> ServerStates]]
  BY DEF TypeOK, ClientStates, ServerStates
<1>2. NoTransaction \in [Methods -> ClientStates] /\ NoTransaction \in [Methods -> ServerStates]
      /\ After(c, starts) \in [Methods -> ClientStates]
  BY DEF NoTransaction, ClientStates, ServerStates, After
<1>3. dlg' = [dlg EXCEPT ![d] = r]
      /\ client' = [client EXCEPT ![d] = IF r.fsm = "Terminated" THEN NoTransaction ELSE After(c, starts)]
  BY DEF Exchange, After
<1> DEFINE sp == [m \in Methods |-> IF m \in starts THEN "none" ELSE server[Peer(d)][m]]
<1>4. server' = [server EXCEPT ![d] = IF r.fsm = "Terminated" THEN NoTransaction ELSE s, ![Peer(d)] = sp]
  BY <1>1 DEF Exchange
<1>5. sp \in [Methods -> ServerStates]
  BY <1>1 DEF ServerStates
<1>6. \A m \in starts : Sent(d, "request", m, IF m = "PRACK" THEN r.rseq ELSE 0) \in Messages
  BY DEF Sent, Messages, DialogType, Kinds, MaxRSeq
<1>7. \A x \in net' : x \in net \/ x \in replies
                     \/ \E m \in starts : x = Sent(d, "request", m, IF m = "PRACK" THEN r.rseq ELSE 0)
  BY DEF Exchange
<1>8. net' \subseteq Messages
  BY <1>1, <1>6, <1>7
<1>9. dlg' \in [Sides -> DialogType] /\ dlg'[d] = r /\ dlg'[Peer(d)] = dlg[Peer(d)]
  BY <1>1, <1>3
<1>10. /\ client' \in [Sides -> [Methods -> ClientStates]]
       /\ client'[d] = (IF r.fsm = "Terminated" THEN NoTransaction ELSE After(c, starts))
       /\ client'[Peer(d)] = client[Peer(d)]
  BY <1>1, <1>2, <1>3
<1>11. /\ server' \in [Sides -> [Methods -> ServerStates]]
       /\ server'[d] = (IF r.fsm = "Terminated" THEN NoTransaction ELSE s)
       /\ server'[Peer(d)] = sp
  BY <1>1, <1>2, <1>4, <1>5
<1> QED BY <1>7, <1>8, <1>9, <1>10, <1>11 DEF Does

-----------------------------------------------------------------------------
(* An act that ends neither dialog keeps the invariant, if what its dialog *)
(* becomes and says fits to the other one.                                 *)
CallerFits(r, c, s, u, starts) ==
  /\ Side(r, After(c, starts), s, u) /\ Caller(r, After(c, starts), s, u)
  /\ r.fsm \notin {"Started", "Terminated"} /\ A.fsm # "Terminated"
  /\ A.fsm = "Trying" => r.fsm = "Trying"
  /\ A.races \subseteq r.races /\ A.rseq <= r.rseq /\ r.rseq <= B.sent
  /\ r.state = "established" => B.fsm # "Started"
  /\ Heard => After(c, starts)["INVITE"] = "accepted"
  /\ After(c, starts)["INVITE"] = "accepted" => Accepted
  /\ client["a"]["reINVITE"] # "none" /\ B.fsm # "Terminated" => After(c, starts)["reINVITE"] # "none"
  /\ s["reINVITE"] # "none" /\ B.fsm # "Terminated" =>
       server["a"]["reINVITE"] # "none" \/ client["b"]["reINVITE"] # "none"
  /\ r.fsm \in InCall \cup {"Outgoing"} => A.fsm \in InCall \cup {"Outgoing", "Started"}
  /\ "PRACK" \in starts => ~(B.fsm = "InProgress" /\ B.rseq = 2)
  /\ "BYE" \in starts => r.state = "established"
  /\ "INVITE" \in starts => A.fsm = "Started"

CallerSays(x, c) ==
  /\ x \in Messages /\ x.to = "b"
  /\ \/ x.kind = "ACK" /\ x.method = "INVITE" /\ c["INVITE"] = "accepted" /\ Accepted
     \/ x.kind = "ACK" /\ x.method = "reINVITE"
     \/ x.kind \in {"100", "2xx"} /\ x.method \in {"reINVITE", "UPDATE"}

CalleeFits(r, c, s, u, starts) ==
  /\ Side(r, After(c, starts), s, u) /\ Callee(r, After(c, starts), s, u)
  /\ r.fsm \notin {"Started", "Terminated"} /\ B.fsm # "Terminated" /\ A.fsm # "Started"
  /\ B.fsm = "Trying" => r.fsm = "Trying"
  /\ B.races \subseteq r.races /\ B.sent <= r.sent
  /\ Accepted => "accept" \in u.asked
  /\ r.fsm = "InProgress" /\ r.rseq = 2 => A.rseq # 0 /\ s["PRACK"] # "none"
  /\ s["INVITE"] = "acked" => server["b"]["INVITE"] = "acked"
  /\ r.fsm \in InCall /\ Accepted => B.fsm \in InCall
  /\ client["b"]["reINVITE"] # "none" /\ A.fsm # "Terminated" => After(c, starts)["reINVITE"] # "none"
  /\ s["reINVITE"] # "none" /\ A.fsm # "Terminated" =>
       server["b"]["reINVITE"] # "none" \/ client["a"]["reINVITE"] # "none"

CalleeSays(x, r, u) ==
  /\ x \in Messages /\ x.to = "a"
  /\ \/ x.kind = "ACK" /\ x.method = "reINVITE"
     \/ x.kind \in {"100", "2xx"} /\ x.method \in {"reINVITE", "UPDATE"}
     \/ x.kind \in {"2xx", "final"} /\ x.method = "PRACK"
     \/ x.kind = "1xx" /\ x.method = "INVITE"
     \/ x.kind = "1xxrel" /\ x.method = "INVITE" /\ x.rseq <= r.sent
     \/ x.kind = "2xx" /\ x.method = "INVITE" /\ "accept" \in u.asked

(* What does not concern the acting dialog alone.                          *)
Around(d) ==
  /\ mode' = mode /\ mishaps' \subseteq Faults /\ mishaps \subseteq mishaps'
  /\ user' \in [Sides -> UserType] /\ user'[Peer(d)] = user[Peer(d)]

(* The caller acts and lives on.                                           *)
LEMMA CallerGoesOn ==
  ASSUME DialogsInv, Around("a"),
         NEW r \in DialogType, NEW c \in [Methods -> ClientStates],
         NEW s \in [Methods -> ServerStates], NEW starts \in SUBSET Methods, NEW replies,
         Does("a", r, c, s, starts, replies),
         CallerFits(r, c, s, user'["a"], starts),
         \A x \in replies : CallerSays(x, After(c, starts))
  PROVE  DialogsInv'
<1> USE PeerIs
<1>1. /\ dlg'["a"] = r /\ dlg'["b"] = dlg["b"] /\ client'["b"] = client["b"] /\ user'["b"] = user["b"]
      /\ client'["a"] = After(c, starts) /\ server'["a"] = s
      /\ \A m \in Methods : server'["b"][m] = IF m \in starts THEN "none" ELSE server["b"][m]
      /\ mode' = mode
  BY DEF Does, Around, CallerFits
<1>2. A' = r /\ B' = B /\ Accepted' = Accepted /\ (Heard' <=> After(c, starts)["INVITE"] = "accepted")
  BY <1>1 DEF A, B, Accepted, Heard
<1>3. TypeOK'
  BY DEF DialogsInv, TypeOK, Around, Does, ClientStates, ServerStates, UserType
<1>4. SidesInv'
  <2>1. Side(dlg["b"], client["b"], server'["b"], user["b"])
    <3>1. Side(dlg["b"], client["b"], server["b"], user["b"])
      BY DEF DialogsInv, SidesInv, Sides
    <3> QED BY <1>1, <3>1 DEF Side, Methods, Invites
  <2>2. Caller(r, After(c, starts), s, user'["a"])
    BY DEF CallerFits
  <2>3. Callee(B, client["b"], server'["b"], user["b"])
    <3>1. Callee(B, client["b"], server["b"], user["b"])
      BY DEF DialogsInv, SidesInv
    <3>2. "INVITE" \in starts => B.fsm = "Started"
      BY DEF DialogsInv, PairInv, CallerFits
    <3> QED BY <1>1, <3>1, <3>2 DEF Callee, InCall, Methods
  <2>4. Side(dlg'["a"], client'["a"], server'["a"], user'["a"]) /\ Side(dlg'["b"], client'["b"], server'["b"], user'["b"])
    BY <1>1, <2>1 DEF CallerFits
  <2> QED
    BY <1>1, <1>2, <2>2, <2>3, <2>4 DEF SidesInv, Sides, Caller, Callee, Side
<1>5. Onward
  <2>1. \A d \in Sides : d = "a" \/ d = "b"
    BY DEF Sides
  <2>2. A.rseq \in Nat /\ B.sent \in Nat
    BY DEF DialogsInv, TypeOK, A, B, Sides, DialogType, MaxRSeq
  <2>3. mode' = mode /\ mishaps \subseteq mishaps' /\ B.sent <= B'.sent /\ A.rseq <= A'.rseq
    BY <1>1, <1>2, <2>2 DEF Around, CallerFits
  <2>4. (Accepted => Accepted') /\ (Heard => Heard') /\ ~(A.fsm # "Terminated" /\ A'.fsm = "Terminated")
        /\ (Accepted /\ B'.fsm \in InCall => B.fsm \in InCall)
    BY <1>1, <1>2 DEF CallerFits
  <2>5. \A d \in Sides :
       /\ dlg'[d].fsm = "Started" => dlg[d].fsm = "Started"
       /\ dlg[d].fsm = "Terminated" => dlg'[d].fsm = "Terminated" /\ dlg'[d].why = dlg[d].why
       /\ dlg[d].fsm = "Trying" => dlg'[d].fsm \in {"Trying", "Terminated"}
       /\ dlg[d].races \subseteq dlg'[d].races
       /\ dlg'[d].fsm # "Terminated" /\ dlg'[Peer(d)].fsm # "Terminated" /\ client[d]["reINVITE"] # "none"
            => client'[d]["reINVITE"] # "none"
    BY <1>1, <1>2, <2>1 DEF CallerFits, A, B
  <2> QED BY <2>3, <2>4, <2>5 DEF Onward
<1>6. PairInv'
  <2>1. A'.fsm # "Started" /\ (A'.state = "established" => B'.fsm # "Started") /\ (Heard' => Accepted')
        /\ A'.rseq <= B'.sent
    BY <1>1, <1>2 DEF CallerFits
  <2>2. server'["b"]["INVITE"] = "acked" /\ A'.fsm # "Terminated" => Heard'
    BY <1>1, <1>2 DEF CallerFits, DialogsInv, PairInv, Methods
  <2>3. B'.fsm = "InProgress" /\ B'.rseq = 2 => A'.rseq # 0 /\ server'["b"]["PRACK"] # "none"
    <3>1. A.rseq \in Nat /\ r.rseq \in Nat
      BY DEF DialogsInv, TypeOK, A, Sides, DialogType, MaxRSeq
    <3> QED BY <1>1, <1>2, <3>1 DEF CallerFits, DialogsInv, PairInv, Methods
  <2>4. \A d \in Sides :
       dlg'[d].fsm # "Terminated" /\ dlg'[Peer(d)].fsm # "Terminated" /\ client'[d]["reINVITE"] = "none"
         => server'[Peer(d)]["reINVITE"] = "none"
    BY <1>1, <1>2 DEF CallerFits, DialogsInv, PairInv, Methods, Sides, A, B
  <2>5. B'.fsm = "Terminated" /\ Accepted' /\ A'.fsm \in InCall \cup {"Outgoing"} => Excused("b")'
    <3> SUFFICES ASSUME B'.fsm = "Terminated", Accepted', A'.fsm \in InCall \cup {"Outgoing"}
                 PROVE  Excused("b")'
      OBVIOUS
    <3>1. Excused("b")
      BY <1>2 DEF CallerFits, DialogsInv, PairInv
    <3> QED BY <1>2, <1>5, <3>1, ExcuseStays DEF Sides, B
  <2> QED BY <1>2, <2>1, <2>2, <2>3, <2>4, <2>5 DEF PairInv, CallerFits
<1>7. NetInv'
  <2> SUFFICES ASSUME NEW x \in net'
               PROVE  Sound(x)'
    BY DEF NetInv
  <2>1. CASE x \in net
    BY <1>3, <1>5, <2>1, SoundStays DEF DialogsInv, NetInv
  <2>2. CASE x \in replies
    <3>1. CallerSays(x, After(c, starts))
      BY <2>2
    <3>2. A'.fsm # "Terminated" /\ x.to = "b" /\ x.kind \notin {"request", "final", "1xxrel"}
          /\ x.method \in {"INVITE", "reINVITE", "UPDATE"}
      BY <1>2, <3>1 DEF CallerSays, CallerFits
    <3>3. x.method = "INVITE" => x.kind = "ACK" /\ Heard' /\ Accepted'
      BY <1>2, <3>1 DEF CallerSays
    <3> QED BY <3>2, <3>3 DEF Sound
  <2>3. ASSUME NEW m \in starts, x = Sent("a", "request", m, IF m = "PRACK" THEN r.rseq ELSE 0)
        PROVE  Sound(x)'
    <3>1. x.to = "b" /\ x.kind = "request" /\ x.method = m /\ (m = "PRACK" => x.rseq = r.rseq)
      BY <2>3 DEF Sent
    <3>2. After(c, starts)[m] = "calling"
      BY DEF After
    <3>3. m = "BYE" => r.fsm = "Trying" /\ B.fsm # "Started"
      BY <3>2 DEF CallerFits, Side
    <3>4. r.rseq \in Nat /\ (m = "PRACK" => r.rseq # 0)
      BY <3>2 DEF CallerFits, Caller, DialogType, MaxRSeq
    <3> QED BY <1>1, <1>2, <3>1, <3>2, <3>3, <3>4 DEF Sound, CallerFits, A, B
  <2> QED BY <2>1, <2>2, <2>3 DEF Does
<1> QED BY <1>3, <1>4, <1>6, <1>7 DEF DialogsInv

(* The callee acts and lives on.                                           *)
LEMMA CalleeGoesOn ==
  ASSUME DialogsInv, Around("b"),
         NEW r \in DialogType, NEW c \in [Methods -> ClientStates],
         NEW s \in [Methods -> ServerStates], NEW starts \in SUBSET Methods, NEW replies,
         Does("b", r, c, s, starts, replies),
         CalleeFits(r, c, s, user'["b"], starts),
         \A x \in replies : CalleeSays(x, r, user'["b"])
  PROVE  DialogsInv'
<1> USE PeerIs
<1>1. /\ dlg'["b"] = r /\ dlg'["a"] = dlg["a"] /\ client'["a"] = client["a"] /\ user'["a"] = user["a"]
      /\ client'["b"] = After(c, starts) /\ server'["b"] = s
      /\ \A m \in Methods : server'["a"][m] = IF m \in starts THEN "none" ELSE server["a"][m]
      /\ mode' = mode
  BY DEF Does, Around, CalleeFits
<1>2. B' = r /\ A' = A /\ (Accepted' <=> "accept" \in user'["b"].asked) /\ Heard' = Heard
  BY <1>1 DEF A, B, Accepted, Heard
<1>3. TypeOK'
  BY DEF DialogsInv, TypeOK, Around, Does, ClientStates, ServerStates, UserType
<1>4. SidesInv'
  <2>1. Side(dlg["a"], client["a"], server'["a"], user["a"])
    <3>1. Side(dlg["a"], client["a"], server["a"], user["a"])
      BY DEF DialogsInv, SidesInv, Sides
    <3> QED BY <1>1, <3>1 DEF Side, Methods, Invites
  <2>2. Caller(A, client["a"], server'["a"], user["a"])
    BY <1>1 DEF DialogsInv, SidesInv, Caller, Methods
  <2>3. Callee(r, After(c, starts), s, user'["b"])
    BY DEF CalleeFits
  <2>4. Side(dlg'["a"], client'["a"], server'["a"], user'["a"]) /\ Side(dlg'["b"], client'["b"], server'["b"], user'["b"])
    BY <1>1, <2>1 DEF CalleeFits
  <2> QED
    BY <1>1, <1>2, <2>2, <2>3, <2>4 DEF SidesInv, Sides, Caller, Callee, Side
<1>5. Onward
  <2>1. \A d \in Sides : d = "a" \/ d = "b"
    BY DEF Sides
  <2>2. A.rseq \in Nat /\ B.sent \in Nat
    BY DEF DialogsInv, TypeOK, A, B, Sides, DialogType, MaxRSeq
  <2>3. mode' = mode /\ mishaps \subseteq mishaps' /\ B.sent <= B'.sent /\ A.rseq <= A'.rseq
    BY <1>1, <1>2, <2>2 DEF Around, CalleeFits
  <2>4. (Accepted => Accepted') /\ (Heard => Heard') /\ ~(A.fsm # "Terminated" /\ A'.fsm = "Terminated")
        /\ (Accepted /\ B'.fsm \in InCall => B.fsm \in InCall)
    BY <1>1, <1>2 DEF CalleeFits
  <2>5. \A d \in Sides :
       /\ dlg'[d].fsm = "Started" => dlg[d].fsm = "Started"
       /\ dlg[d].fsm = "Terminated" => dlg'[d].fsm = "Terminated" /\ dlg'[d].why = dlg[d].why
       /\ dlg[d].fsm = "Trying" => dlg'[d].fsm \in {"Trying", "Terminated"}
       /\ dlg[d].races \subseteq dlg'[d].races
       /\ dlg'[d].fsm # "Terminated" /\ dlg'[Peer(d)].fsm # "Terminated" /\ client[d]["reINVITE"] # "none"
            => client'[d]["reINVITE"] # "none"
    BY <1>1, <1>2, <2>1 DEF CalleeFits, A, B
  <2> QED BY <2>3, <2>4, <2>5 DEF Onward
<1>6. PairInv'
  <2>1. A'.fsm # "Started" /\ (A'.state = "established" => B'.fsm # "Started") /\ (Heard' => Accepted')
    BY <1>1, <1>2 DEF CalleeFits, DialogsInv, PairInv
  <2>2. server'["b"]["INVITE"] = "acked" /\ A'.fsm # "Terminated" => Heard'
    BY <1>1, <1>2 DEF CalleeFits, DialogsInv, PairInv, Methods
  <2>3. A'.rseq <= B'.sent /\ (B'.fsm = "InProgress" /\ B'.rseq = 2 => A'.rseq # 0 /\ server'["b"]["PRACK"] # "none")
    <3>1. A.rseq \in Nat /\ B.sent \in Nat /\ r.sent \in Nat
      BY DEF DialogsInv, TypeOK, A, B, Sides, DialogType, MaxRSeq
    <3> QED BY <1>1, <1>2, <3>1 DEF CalleeFits, DialogsInv, PairInv, Methods
  <2>4. \A d \in Sides :
       dlg'[d].fsm # "Terminated" /\ dlg'[Peer(d)].fsm # "Terminated" /\ client'[d]["reINVITE"] = "none"
         => server'[Peer(d)]["reINVITE"] = "none"
    BY <1>1, <1>2 DEF CalleeFits, DialogsInv, PairInv, Methods, Sides, A, B
  <2>5. A'.fsm = "Terminated" /\ B'.fsm \in InCall /\ server'["b"]["INVITE"] = "acked" => Excused("a")'
    <3> SUFFICES ASSUME A'.fsm = "Terminated", B'.fsm \in InCall, server'["b"]["INVITE"] = "acked"
                 PROVE  Excused("a")'
      OBVIOUS
    <3>1. server["b"]["INVITE"] = "acked"
      BY <1>1 DEF CalleeFits
    <3>2. Accepted
      BY <3>1 DEF DialogsInv, SidesInv, Callee, Accepted
    <3>3. Excused("a")
      BY <1>2, <3>1, <3>2 DEF CalleeFits, DialogsInv, PairInv
    <3> QED BY <1>2, <1>5, <3>3, ExcuseStays DEF Sides, A
  <2> QED BY <1>2, <2>1, <2>2, <2>3, <2>4, <2>5 DEF PairInv, CalleeFits
<1>7. NetInv'
  <2> SUFFICES ASSUME NEW x \in net'
               PROVE  Sound(x)'
    BY DEF NetInv
  <2>1. CASE x \in net
    BY <1>3, <1>5, <2>1, SoundStays DEF DialogsInv, NetInv
  <2>2. CASE x \in replies
    BY <1>1, <1>2, <2>2 DEF CalleeSays, Sound, Invites, CalleeFits
  <2>3. ASSUME NEW m \in starts, x = Sent("b", "request", m, IF m = "PRACK" THEN r.rseq ELSE 0)
        PROVE  Sound(x)'
    <3>1. x.to = "a" /\ x.kind = "request" /\ x.method = m
      BY <2>3 DEF Sent
    <3>2. After(c, starts)[m] = "calling"
      BY DEF After
    <3>3. m = "BYE" => r.fsm = "Trying" /\ A.fsm # "Started"
      BY <3>2 DEF CalleeFits, Side
    <3>4. m \notin {"INVITE", "PRACK", "CANCEL"}
      BY <3>2 DEF CalleeFits, Callee
    <3> QED BY <1>1, <1>2, <3>1, <3>2, <3>3, <3>4 DEF Sound, CalleeFits, A, B
  <2> QED BY <2>1, <2>2, <2>3 DEF Does
<1> QED BY <1>3, <1>4, <1>6, <1>7 DEF DialogsInv

-----------------------------------------------------------------------------
(* An act that ends its dialog keeps the invariant, if it is excused or    *)
(* the peer is in no call.                                                 *)
Excuses(why, races, peer) ==
  \/ why \in {"100rel", "shutdown"}
  \/ "crossed" \in races
  \/ why = "error" /\ ("refused" \in mishaps' \/ "swallowed" \in peer.races)

CallerMayEnd(q, why, u) ==
  /\ A.fsm # "Terminated" /\ A.races \subseteq q.races
  /\ A.rseq <= q.rseq /\ q.rseq <= B.sent
  /\ q.state = "established" => B.fsm # "Started"
  /\ u.hangup = "BYE" => q.state = "established"
  /\ Heard /\ B.fsm \in InCall => Excuses(why, q.races, B)

CallerLeaves(x) ==
  /\ x \in Messages /\ x.to = "b" /\ x.method = "BYE"
  /\ \/ x.kind = "2xx"
     \/ x.kind = "request" /\ B.fsm # "Started"

CalleeMayEnd(q, why, u) ==
  /\ B.fsm # "Terminated" /\ A.fsm # "Started" /\ B.races \subseteq q.races
  /\ q.state = "established" /\ u.hangup # "CANCEL"
  /\ B.sent <= q.sent /\ q.sent <= 3 /\ q.sent <= q.rseq /\ q.rseq <= q.sent + 1
  /\ "accept" \in u.asked <=> Accepted
  /\ Accepted /\ A.fsm \in InCall \cup {"Outgoing"} => Excuses(why, q.races, A)

CalleeLeaves(x) ==
  /\ x \in Messages /\ x.to = "a"
  /\ \/ x.kind = "2xx" /\ x.method \in {"BYE", "CANCEL"}
     \/ x.kind = "final" /\ x.method = "INVITE"

Whys == {"peer", "error", "100rel", "shutdown"}

LEMMA EndedIs ==
  ASSUME NEW q \in DialogType, NEW why \in Whys
  PROVE  LET r == Ended(q, why) IN
         /\ r \in DialogType /\ r.fsm = "Terminated" /\ r.why = why /\ r.rel = {} /\ r.rsvp = "none"
         /\ ~r.refresh /\ ~r.closing /\ r.races = q.races /\ r.rseq = q.rseq /\ r.sent = q.sent
         /\ r.state = q.state
BY DEF Ended, DialogType, FsmStates, Whys

(* The caller acts and ends.                                               *)
LEMMA CallerEnds ==
  ASSUME DialogsInv, Around("a"), NEW q \in DialogType, NEW why \in Whys,
         NEW c \in [Methods -> ClientStates], NEW s \in [Methods -> ServerStates], NEW replies,
         Does("a", Ended(q, why), c, s, {}, replies),
         CallerMayEnd(q, why, user'["a"]),
         \A x \in replies : CallerLeaves(x)
  PROVE  DialogsInv'
<1> USE PeerIs
<1> DEFINE r == Ended(q, why)
<1>r. /\ r.fsm = "Terminated" /\ r.why = why /\ r.rel = {} /\ r.rsvp = "none"
      /\ ~r.refresh /\ ~r.closing /\ r.races = q.races /\ r.rseq = q.rseq /\ r.state = q.state
  BY EndedIs
<1>w. why # "none"
  BY DEF Whys
<1>1. /\ dlg'["a"] = r /\ dlg'["b"] = dlg["b"] /\ client'["b"] = client["b"] /\ user'["b"] = user["b"]
      /\ client'["a"] = NoTransaction /\ server'["a"] = NoTransaction
      /\ \A m \in Methods : server'["b"][m] = server["b"][m]
      /\ mode' = mode
  BY <1>r DEF Does, Around
<1> HIDE DEF r
<1>2. A' = r /\ B' = B /\ Accepted' = Accepted
  BY <1>1 DEF A, B, Accepted
<1>3. TypeOK'
  BY DEF DialogsInv, TypeOK, Around, Does, ClientStates, ServerStates, UserType
<1>4. SidesInv'
  <2>1. Side(dlg["b"], client["b"], server'["b"], user["b"])
    <3>1. Side(dlg["b"], client["b"], server["b"], user["b"])
      BY DEF DialogsInv, SidesInv, Sides
    <3> QED BY <1>1, <3>1 DEF Side, Methods, Invites
  <2>2. Callee(B, client["b"], server'["b"], user["b"])
    <3>1. Callee(B, client["b"], server["b"], user["b"])
      BY DEF DialogsInv, SidesInv
    <3> QED BY <1>1, <3>1 DEF Callee, InCall, Methods
  <2>3. Side(r, NoTransaction, NoTransaction, user'["a"])
    BY <1>r, <1>w DEF Side, NoTransaction, Methods, Invites
  <2>4. Caller(r, NoTransaction, NoTransaction, user'["a"])
    BY <1>r DEF Caller, NoTransaction, Methods, InCall, CallerMayEnd
  <2> QED
    BY <1>1, <1>2, <2>1, <2>2, <2>3, <2>4 DEF SidesInv, Sides, Caller, Callee, Side
<1>5. A.fsm # "Terminated" /\ B.fsm \in InCall /\ Heard => Excused("a")'
  BY <1>1, <1>2, <1>r DEF CallerMayEnd, Excuses, Excused, A, B
<1>6. Onward
  <2>1. \A d \in Sides : d = "a" \/ d = "b"
    BY DEF Sides
  <2>2. A.rseq \in Nat /\ B.sent \in Nat
    BY DEF DialogsInv, TypeOK, A, B, Sides, DialogType, MaxRSeq
  <2>3. mode' = mode /\ mishaps \subseteq mishaps' /\ B.sent <= B'.sent /\ A.rseq <= A'.rseq
    BY <1>1, <1>2, <1>r, <2>2 DEF Around, CallerMayEnd
  <2>4. (Accepted => Accepted') /\ A'.fsm = "Terminated"
        /\ (Accepted /\ B'.fsm \in InCall => B.fsm \in InCall)
    BY <1>1, <1>2, <1>r
  <2>5. \A d \in Sides :
       /\ dlg'[d].fsm = "Started" => dlg[d].fsm = "Started"
       /\ dlg[d].fsm = "Terminated" => dlg'[d].fsm = "Terminated" /\ dlg'[d].why = dlg[d].why
       /\ dlg[d].fsm = "Trying" => dlg'[d].fsm \in {"Trying", "Terminated"}
       /\ dlg[d].races \subseteq dlg'[d].races
       /\ dlg'[d].fsm # "Terminated" /\ dlg'[Peer(d)].fsm # "Terminated" /\ client[d]["reINVITE"] # "none"
            => client'[d]["reINVITE"] # "none"
    BY <1>1, <1>2, <1>r, <2>1 DEF CallerMayEnd, A, B
  <2> QED BY <1>2, <1>5, <2>3, <2>4, <2>5 DEF Onward
<1>7. PairInv'
  <2>1. A'.fsm = "Terminated" /\ (A'.state = "established" => B'.fsm # "Started") /\ ~Heard'
        /\ A'.rseq <= B'.sent
    BY <1>1, <1>2, <1>r DEF CallerMayEnd, Heard, NoTransaction, Methods
  <2>2. B'.fsm = "InProgress" /\ B'.rseq = 2 => A'.rseq # 0 /\ server'["b"]["PRACK"] # "none"
    <3>1. A.rseq \in Nat /\ r.rseq \in Nat
      BY <1>r DEF DialogsInv, TypeOK, A, Sides, DialogType, MaxRSeq
    <3> QED BY <1>1, <1>2, <1>r, <3>1 DEF CallerMayEnd, DialogsInv, PairInv, Methods
  <2>3. dlg'["a"].fsm = "Terminated" /\ \A d \in Sides : d = "a" \/ Peer(d) = "a"
    BY <1>1, <1>r DEF Sides
  <2>4. B'.fsm \in InCall /\ server'["b"]["INVITE"] = "acked" => Excused("a")'
    BY <1>1, <1>2, <1>5 DEF DialogsInv, PairInv, CallerMayEnd, Methods
  <2>5. A'.fsm \notin InCall \cup {"Outgoing", "Started"}
    BY <2>1 DEF InCall
  <2> QED BY <1>2, <2>1, <2>2, <2>3, <2>4, <2>5 DEF PairInv
<1>8. NetInv'
  <2> SUFFICES ASSUME NEW x \in net'
               PROVE  Sound(x)'
    BY DEF NetInv
  <2>1. CASE x \in net
    BY <1>3, <1>6, <2>1, SoundStays DEF DialogsInv, NetInv
  <2>2. CASE x \in replies
    <3>1. CallerLeaves(x)
      BY <2>2
    <3>2. A'.fsm = "Terminated" /\ dlg'["a"].fsm = "Terminated"
      BY <1>1, <1>2, <1>r
    <3>3. dlg'["b"] = B
      BY <1>1 DEF B
    <3> QED BY <1>2, <3>1, <3>2, <3>3 DEF Sound, CallerLeaves, Invites
  <2> QED BY <2>1, <2>2 DEF Does
<1> QED BY <1>3, <1>4, <1>7, <1>8 DEF DialogsInv

(* The callee acts and ends.                                               *)
LEMMA CalleeEnds ==
  ASSUME DialogsInv, Around("b"), NEW q \in DialogType, NEW why \in Whys,
         NEW c \in [Methods -> ClientStates], NEW s \in [Methods -> ServerStates], NEW replies,
         Does("b", Ended(q, why), c, s, {}, replies),
         CalleeMayEnd(q, why, user'["b"]),
         \A x \in replies : CalleeLeaves(x)
  PROVE  DialogsInv'
<1> USE PeerIs
<1> DEFINE r == Ended(q, why)
<1>r. /\ r.fsm = "Terminated" /\ r.why = why /\ r.rel = {} /\ r.rsvp = "none"
      /\ ~r.refresh /\ ~r.closing /\ r.races = q.races /\ r.rseq = q.rseq /\ r.sent = q.sent /\ r.state = q.state
  BY EndedIs
<1>w. why # "none"
  BY DEF Whys
<1>1. /\ dlg'["b"] = r /\ dlg'["a"] = dlg["a"] /\ client'["a"] = client["a"] /\ user'["a"] = user["a"]
      /\ client'["b"] = NoTransaction /\ server'["b"] = NoTransaction
      /\ \A m \in Methods : server'["a"][m] = server["a"][m]
      /\ mode' = mode
  BY <1>r DEF Does, Around
<1> HIDE DEF r
<1>2. B' = r /\ A' = A /\ (Accepted' <=> Accepted) /\ Heard' = Heard
  BY <1>1 DEF A, B, Accepted, Heard, CalleeMayEnd
<1>3. TypeOK'
  BY DEF DialogsInv, TypeOK, Around, Does, ClientStates, ServerStates, UserType
<1>4. SidesInv'
  <2>1. Side(dlg["a"], client["a"], server'["a"], user["a"])
    <3>1. Side(dlg["a"], client["a"], server["a"], user["a"])
      BY DEF DialogsInv, SidesInv, Sides
    <3> QED BY <1>1, <3>1 DEF Side, Methods, Invites
  <2>2. Caller(A, client["a"], server'["a"], user["a"])
    BY <1>1 DEF DialogsInv, SidesInv, Caller, Methods
  <2>3. Side(r, NoTransaction, NoTransaction, user'["b"])
    BY <1>r, <1>w DEF Side, NoTransaction, Methods, Invites
  <2>4. Callee(r, NoTransaction, NoTransaction, user'["b"])
    BY <1>r DEF Callee, NoTransaction, Methods, InCall, Undecided, CalleeMayEnd
  <2> QED
    BY <1>1, <1>2, <2>1, <2>2, <2>3, <2>4 DEF SidesInv, Sides, Caller, Callee, Side
<1>5. Accepted /\ A.fsm \in InCall \cup {"Outgoing"} => Excused("b")'
  BY <1>1, <1>2, <1>r DEF CalleeMayEnd, Excuses, Excused, A, B
<1>6. Onward
  <2>1. \A d \in Sides : d = "a" \/ d = "b"
    BY DEF Sides
  <2>2. A.rseq \in Nat /\ B.sent \in Nat
    BY DEF DialogsInv, TypeOK, A, B, Sides, DialogType, MaxRSeq
  <2>3. mode' = mode /\ mishaps \subseteq mishaps' /\ B.sent <= B'.sent /\ A.rseq <= A'.rseq
    BY <1>1, <1>2, <1>r, <2>2 DEF Around, CalleeMayEnd
  <2>4. (Accepted => Accepted') /\ (Heard => Heard') /\ B'.fsm = "Terminated" /\ B'.fsm \notin InCall
    BY <1>1, <1>2, <1>r DEF InCall
  <2>5. \A d \in Sides :
       /\ dlg'[d].fsm = "Started" => dlg[d].fsm = "Started"
       /\ dlg[d].fsm = "Terminated" => dlg'[d].fsm = "Terminated" /\ dlg'[d].why = dlg[d].why
       /\ dlg[d].fsm = "Trying" => dlg'[d].fsm \in {"Trying", "Terminated"}
       /\ dlg[d].races \subseteq dlg'[d].races
       /\ dlg'[d].fsm # "Terminated" /\ dlg'[Peer(d)].fsm # "Terminated" /\ client[d]["reINVITE"] # "none"
            => client'[d]["reINVITE"] # "none"
    BY <1>1, <1>2, <1>r, <2>1 DEF CalleeMayEnd, A, B
  <2> QED BY <1>2, <2>3, <2>4, <2>5 DEF Onward
<1>7. PairInv'
  <2>1. A'.fsm # "Started" /\ (A'.state = "established" => B'.fsm # "Started") /\ (Heard' => Accepted')
        /\ B'.fsm \notin InCall \cup {"InProgress"} /\ server'["b"]["INVITE"] # "acked"
    BY <1>1, <1>2, <1>r DEF CalleeMayEnd, DialogsInv, PairInv, InCall, NoTransaction, Methods
  <2>2. A'.rseq <= B'.sent
    <3>1. A.rseq \in Nat /\ B.sent \in Nat /\ r.sent \in Nat
      BY <1>r DEF DialogsInv, TypeOK, A, B, Sides, DialogType, MaxRSeq
    <3> QED BY <1>1, <1>2, <1>r, <3>1 DEF CalleeMayEnd, DialogsInv, PairInv
  <2>3. dlg'["b"].fsm = "Terminated" /\ \A d \in Sides : d = "b" \/ Peer(d) = "b"
    BY <1>1, <1>r DEF Sides
  <2> QED BY <1>2, <1>5, <2>1, <2>2, <2>3 DEF PairInv
<1>8. NetInv'
  <2> SUFFICES ASSUME NEW x \in net'
               PROVE  Sound(x)'
    BY DEF NetInv
  <2>1. CASE x \in net
    BY <1>3, <1>6, <2>1, SoundStays DEF DialogsInv, NetInv
  <2>2. CASE x \in replies
    <3>1. CalleeLeaves(x)
      BY <2>2
    <3>2. B'.fsm = "Terminated" /\ dlg'["b"].fsm = "Terminated"
      BY <1>1, <1>2, <1>r
    <3> QED BY <1>2, <3>1, <3>2 DEF Sound, CalleeLeaves, Invites
  <2> QED BY <2>1, <2>2 DEF Does
<1> QED BY <1>3, <1>4, <1>7, <1>8 DEF DialogsInv

(* The user of the acting dialog, and what the dialog does, or fails to do *)
(* because the transport refuses its request.                              *)
UserOf(d) ==
  /\ mode' = mode
  /\ user' \in [Sides -> UserType] /\ user'[Peer(d)] = user[Peer(d)]

LEMMA ActDoes ==
  ASSUME DialogsInv, NEW d \in Sides, UserOf(d), NEW r \in DialogType, NEW took,
         NEW c \in [Methods -> ClientStates], NEW s \in [Methods -> ServerStates],
         NEW starts \in SUBSET Methods, NEW replies \in SUBSET Messages,
         Act(d, r, took, c, s, starts, replies)
  PROVE  /\ Around(d)
         /\ \/ Does(d, r, c, s, starts, replies)
            \/ starts # {} /\ "refused" \in mishaps' /\ Does(d, Ended(r, "error"), c, s, {}, replies)
<1>1. TypeOK /\ mishaps \subseteq Faults
  BY DEF DialogsInv, TypeOK
<1>2. CASE Exchange(d, r, took, c, s, starts, replies) /\ UNCHANGED mishaps
  <2>1. Does(d, r, c, s, starts, replies)
    BY <1>1, <1>2, ExchangeDoes
  <2> QED BY <1>1, <1>2, <2>1 DEF Around, UserOf
<1>3. CASE starts # {} /\ Fault("refused") /\ Exchange(d, Ended(r, "error"), took, c, s, {}, replies)
  <2>1. Ended(r, "error") \in DialogType
    BY EndedIs DEF Whys
  <2>2. Does(d, Ended(r, "error"), c, s, {}, replies)
    BY <1>1, <1>3, <2>1, ExchangeDoes
  <2>3. mishaps' \subseteq Faults /\ mishaps \subseteq mishaps' /\ "refused" \in mishaps'
    BY <1>1, <1>3 DEF Fault, Faults
  <2> QED BY <1>3, <2>2, <2>3 DEF Around, UserOf
<1> QED BY <1>2, <1>3 DEF Act

LEMMA CallerActs ==
  ASSUME DialogsInv, UserOf("a"), NEW r \in DialogType, NEW took,
         NEW c \in [Methods -> ClientStates], NEW s \in [Methods -> ServerStates],
         NEW starts \in SUBSET Methods, NEW replies \in SUBSET Messages,
         Act("a", r, took, c, s, starts, replies),
         CallerFits(r, c, s, user'["a"], starts),
         starts # {} => replies = {},
         \A x \in replies : CallerSays(x, After(c, starts))
  PROVE  DialogsInv'
<1>1. Around("a")
  BY ActDoes DEF Sides
<1>2. CASE Does("a", r, c, s, starts, replies)
  BY <1>1, <1>2, CallerGoesOn
<1>3. CASE starts # {} /\ "refused" \in mishaps' /\ Does("a", Ended(r, "error"), c, s, {}, replies)
  <2>1. CallerMayEnd(r, "error", user'["a"])
    BY <1>3 DEF CallerFits, Caller, CallerMayEnd, Excuses
  <2>2. "error" \in Whys /\ \A x \in replies : CallerLeaves(x)
    BY <1>3 DEF Whys
  <2> QED BY <1>1, <1>3, <2>1, <2>2, CallerEnds
<1> QED BY <1>2, <1>3, ActDoes DEF Sides

LEMMA CalleeActs ==
  ASSUME DialogsInv, UserOf("b"), NEW r \in DialogType, NEW took,
         NEW c \in [Methods -> ClientStates], NEW s \in [Methods -> ServerStates],
         NEW starts \in SUBSET Methods, NEW replies \in SUBSET Messages,
         Act("b", r, took, c, s, starts, replies),
         CalleeFits(r, c, s, user'["b"], starts),
         starts # {} => replies = {} /\ ("accept" \in user'["b"].asked => Accepted),
         \A x \in replies : CalleeSays(x, r, user'["b"])
  PROVE  DialogsInv'
<1>1. Around("b")
  BY ActDoes DEF Sides
<1>2. CASE Does("b", r, c, s, starts, replies)
  BY <1>1, <1>2, CalleeGoesOn
<1>3. CASE starts # {} /\ "refused" \in mishaps' /\ Does("b", Ended(r, "error"), c, s, {}, replies)
  <2>1. CalleeMayEnd(r, "error", user'["b"])
    BY <1>3 DEF CalleeFits, Callee, CalleeMayEnd, Excuses
  <2>2. "error" \in Whys /\ \A x \in replies : CalleeLeaves(x)
    BY <1>3 DEF Whys
  <2> QED BY <1>1, <1>3, <2>1, <2>2, CalleeEnds
<1> QED BY <1>2, <1>3, ActDoes DEF Sides

LEMMA CallerFinishes ==
  ASSUME DialogsInv, UserOf("a"), NEW q \in DialogType, NEW why \in Whys, NEW took,
         NEW c \in [Methods -> ClientStates], NEW s \in [Methods -> ServerStates],
         NEW replies \in SUBSET Messages,
         Act("a", Ended(q, why), took, c, s, {}, replies),
         CallerMayEnd(q, why, user'["a"]),
         \A x \in replies : CallerLeaves(x)
  PROVE  DialogsInv'
<1>1. Ended(q, why) \in DialogType
  BY EndedIs
<1>2. Around("a") /\ Does("a", Ended(q, why), c, s, {}, replies)
  BY <1>1, ActDoes DEF Sides
<1> QED BY <1>2, CallerEnds

LEMMA CalleeFinishes ==
  ASSUME DialogsInv, UserOf("b"), NEW q \in DialogType, NEW why \in Whys, NEW took,
         NEW c \in [Methods -> ClientStates], NEW s \in [Methods -> ServerStates],
         NEW replies \in SUBSET Messages,
         Act("b", Ended(q, why), took, c, s, {}, replies),
         CalleeMayEnd(q, why, user'["b"]),
         \A x \in replies : CalleeLeaves(x)
  PROVE  DialogsInv'
<1>1. Ended(q, why) \in DialogType
  BY EndedIs
<1>2. Around("b") /\ Does("b", Ended(q, why), c, s, {}, replies)
  BY <1>1, ActDoes DEF Sides
<1> QED BY <1>2, CalleeEnds

-----------------------------------------------------------------------------
(* A step of the network or the transactions alone.                        *)
Moved(d, m) ==
  \/ server'[d][m] = server[d][m]
  \/ /\ dlg[d].fsm = "Terminated" /\ m \in Invites /\ (m = "INVITE" => d = "b")
     /\ server'[d][m] \in {"1xx", "final"}
  \/ dlg[d].fsm = "Terminated" /\ server'[d][m] = "none"
  \/ /\ server[d][m] = "2xx" /\ server'[d][m] = "acked"
     /\ m = "INVITE" /\ d = "b" =>
          /\ A.fsm # "Terminated" => Heard
          /\ A.fsm = "Terminated" /\ B.fsm \in InCall => Excused("a")

LEMMA Quietly ==
  ASSUME DialogsInv, UNCHANGED <<mode, dlg, client>>,
         user' \in [Sides -> UserType],
         \A d \in Sides :
           \/ user'[d] = user[d]
           \/ /\ dlg[d].fsm = "Terminated"
              /\ user'[d].asked = user[d].asked /\ user'[d].hangup = "done",
         mishaps \subseteq mishaps', mishaps' \subseteq Faults,
         server' \in [Sides -> [Methods -> ServerStates]],
         \A d \in Sides, m \in Methods : Moved(d, m),
         net' \subseteq Messages, \A x \in net' : x \in net \/ Sound(x),
         A.fsm = "Started" => net' = {}
  PROVE  DialogsInv'
<1> USE PeerIs
<1>1. \A d \in Sides : dlg'[d] = dlg[d] /\ client'[d] = client[d] /\ user'[d].asked = user[d].asked
  OBVIOUS
<1>2. A' = A /\ B' = B /\ Heard' = Heard /\ (Accepted' <=> Accepted) /\ mode' = mode
  BY <1>1 DEF A, B, Heard, Accepted, Sides
<1>3. TypeOK'
  BY DEF DialogsInv, TypeOK, ServerStates, UserType
<1>4. SidesInv'
  <2>1. \A d \in Sides : Side(dlg[d], client[d], server'[d], user'[d])
    <3> SUFFICES ASSUME NEW d \in Sides
                 PROVE  Side(dlg[d], client[d], server'[d], user'[d])
      OBVIOUS
    <3>1. Side(dlg[d], client[d], server[d], user[d])
      BY DEF DialogsInv, SidesInv
    <3>2. \A m \in Methods : \/ server'[d][m] = server[d][m]
                             \/ /\ dlg[d].fsm = "Terminated" /\ m \in Invites
                                /\ server'[d][m] \in {"1xx", "final"}
                             \/ dlg[d].fsm = "Terminated" /\ server'[d][m] = "none"
                             \/ /\ server[d][m] = "2xx" /\ server'[d][m] = "acked"
      BY DEF Moved
    <3> QED BY <3>1, <3>2 DEF Side, Methods, Invites
  <2>2. Caller(A, client["a"], server'["a"], user'["a"])
    <3>1. Caller(A, client["a"], server["a"], user["a"])
      BY DEF DialogsInv, SidesInv
    <3>2. Moved("a", "INVITE") /\ Moved("a", "PRACK")
      BY DEF Sides, Methods
    <3> QED BY <3>1, <3>2 DEF Caller, Moved, Invites, Sides
  <2>3. Callee(B, client["b"], server'["b"], user'["b"])
    <3>1. Callee(B, client["b"], server["b"], user["b"])
      BY DEF DialogsInv, SidesInv
    <3>2. Moved("b", "INVITE")
      BY DEF Sides, Methods
    <3> QED BY <3>1, <3>2 DEF Callee, Moved, Invites, B, InCall, Sides
  <2> QED BY <1>1, <1>2, <2>1, <2>2, <2>3 DEF SidesInv, Sides, Caller, Callee, Side
<1>5. Onward
  <2>1. A.rseq \in Nat /\ B.sent \in Nat
    BY DEF DialogsInv, TypeOK, A, B, Sides, DialogType, MaxRSeq
  <2> QED BY <1>1, <1>2, <2>1 DEF Onward, DialogsInv, TypeOK, DialogType
<1>6. PairInv'
  <2>1. /\ A'.fsm = "Started" => B'.fsm = "Started" /\ net' = {}
        /\ A'.state = "established" => B'.fsm # "Started"
        /\ Heard' => Accepted'
        /\ A'.rseq <= B'.sent
    BY <1>2 DEF DialogsInv, PairInv
  <2>2. B'.fsm = "InProgress" /\ B'.rseq = 2 => A'.rseq # 0 /\ server'["b"]["PRACK"] # "none"
    <3>1. Moved("b", "PRACK")
      BY DEF Sides, Methods
    <3> QED BY <1>2, <3>1 DEF DialogsInv, PairInv, Moved, Invites, B
  <2>3. server'["b"]["INVITE"] = "acked" => server["b"]["INVITE"] = "acked" \/
           /\ A.fsm # "Terminated" => Heard
           /\ A.fsm = "Terminated" /\ B.fsm \in InCall => Excused("a")
    <3>1. Moved("b", "INVITE")
      BY DEF Sides, Methods
    <3> QED BY <3>1 DEF Moved
  <2>4. server'["b"]["INVITE"] = "acked" /\ A'.fsm # "Terminated" => Heard'
    BY <1>2, <2>3 DEF DialogsInv, PairInv
  <2>5. \A d \in Sides : dlg[d].fsm = "Terminated" /\ Excused(d) => Excused(d)'
    BY <1>5, ExcuseStays
  <2>6. A'.fsm = "Terminated" /\ B'.fsm \in InCall /\ server'["b"]["INVITE"] = "acked" => Excused("a")'
    BY <1>2, <2>3, <2>5 DEF DialogsInv, PairInv, A, Sides
  <2>7. B'.fsm = "Terminated" /\ Accepted' /\ A'.fsm \in InCall \cup {"Outgoing"} => Excused("b")'
    BY <1>2, <2>5 DEF DialogsInv, PairInv, B, Sides
  <2>8. \A d \in Sides :
       dlg'[d].fsm # "Terminated" /\ dlg'[Peer(d)].fsm # "Terminated" /\ client'[d]["reINVITE"] = "none"
         => server'[Peer(d)]["reINVITE"] = "none"
    <3> SUFFICES ASSUME NEW d \in Sides, dlg[d].fsm # "Terminated", dlg[Peer(d)].fsm # "Terminated",
                        client[d]["reINVITE"] = "none"
                 PROVE  server'[Peer(d)]["reINVITE"] = "none"
      BY <1>1
    <3>1. server[Peer(d)]["reINVITE"] = "none"
      BY DEF DialogsInv, PairInv
    <3>2. Moved(Peer(d), "reINVITE")
      BY DEF Methods
    <3> QED BY <3>1, <3>2 DEF Moved
  <2> QED BY <2>1, <2>2, <2>4, <2>6, <2>7, <2>8 DEF PairInv
<1>7. NetInv'
  <2> SUFFICES ASSUME NEW x \in net'
               PROVE  Sound(x)'
    BY DEF NetInv
  <2>1. CASE x \in net
    BY <1>3, <1>5, <2>1, SoundStays DEF DialogsInv, NetInv
  <2>2. CASE Sound(x)
    <3>1. x \in Messages
      OBVIOUS
    <3>2. A.fsm = "Terminated" /\ Excused("a") => Excused("a")'
      BY <1>5, ExcuseStays DEF Sides, A
    <3> QED BY <1>1, <1>2, <2>2, <3>1, <3>2 DEF Sound, Messages, Sides
  <2> QED BY <2>1, <2>2
<1> QED BY <1>3, <1>4, <1>6, <1>7 DEF DialogsInv

-----------------------------------------------------------------------------
(* What the invariant says of the dialogs and of a message.                *)
LEMMA AfterIs ==
  ASSUME NEW c \in [Methods -> ClientStates], NEW starts \in SUBSET Methods
  PROVE  /\ After(c, {}) = c
         /\ \A m \in Methods : After(c, starts)[m] = IF m \in starts THEN "calling" ELSE c[m]
BY DEF After

LEMMA Known ==
  ASSUME DialogsInv
  PROVE  /\ A \in DialogType /\ client["a"] \in [Methods -> ClientStates]
         /\ server["a"] \in [Methods -> ServerStates] /\ user["a"] \in UserType
         /\ B \in DialogType /\ client["b"] \in [Methods -> ClientStates]
         /\ server["b"] \in [Methods -> ServerStates] /\ user["b"] \in UserType
         /\ Side(A, client["a"], server["a"], user["a"]) /\ Caller(A, client["a"], server["a"], user["a"])
         /\ Side(B, client["b"], server["b"], user["b"]) /\ Callee(B, client["b"], server["b"], user["b"])
         /\ A.rseq \in Nat /\ B.rseq \in Nat /\ B.sent \in Nat
         /\ PairInv
<1>1. /\ A \in DialogType /\ client["a"] \in [Methods -> ClientStates]
      /\ server["a"] \in [Methods -> ServerStates] /\ user["a"] \in UserType
      /\ B \in DialogType /\ client["b"] \in [Methods -> ClientStates]
      /\ server["b"] \in [Methods -> ServerStates] /\ user["b"] \in UserType
  BY DEF DialogsInv, TypeOK, A, B, Sides, ClientStates, ServerStates, UserType
<1>2. A.rseq \in Nat /\ B.rseq \in Nat /\ B.sent \in Nat
  BY <1>1 DEF DialogType, MaxRSeq
<1> QED BY <1>1, <1>2 DEF DialogsInv, SidesInv, Sides, A, B

(* A dialog that has neither to start nor to end yet could go on as it is. *)
LEMMA CallerStands ==
  ASSUME DialogsInv, A.fsm \notin {"Started", "Terminated"}
  PROVE  CallerFits(A, client["a"], server["a"], user["a"], {})
<1>1. After(client["a"], {}) = client["a"]
  BY Known, AfterIs
<1> QED BY <1>1, Known DEF CallerFits, PairInv, Heard, Accepted, Caller, A, B, Sides, Peer

LEMMA CalleeStands ==
  ASSUME DialogsInv, B.fsm \notin {"Started", "Terminated"}
  PROVE  CalleeFits(B, client["b"], server["b"], user["b"], {})
<1>1. After(client["b"], {}) = client["b"]
  BY Known, AfterIs
<1> QED BY <1>1, Known DEF CalleeFits, PairInv, Heard, Accepted, Callee, A, B, Sides, Peer, InCall, Undecided

(* Messages the dialogs and the network meet.                              *)
LEMMA Arrives ==
  ASSUME DialogsInv, NEW x \in net
  PROVE  /\ x \in Messages /\ x.to \in Sides /\ x.method \in Methods /\ x.rseq \in Nat /\ x.kind \in Kinds
         /\ Sound(x) /\ A.fsm # "Started"
         /\ x.to = "a" \/ x.to = "b"
         /\ Peer("a") = "b" /\ Peer("b") = "a"
BY DEF DialogsInv, TypeOK, PairInv, NetInv, Messages, Sides, Peer, MaxRSeq

-----------------------------------------------------------------------------
(* The responses.                                                          *)
LEMMA ResponseActs ==
  ASSUME DialogsInv, NEW x \in net, Matched(x), UNCHANGED <<mode, user>>
  PROVE  /\ UserOf(x.to) /\ user' = user
         /\ [client[x.to] EXCEPT ![x.method] = Phase(x)] \in [Methods -> ClientStates]
         /\ server[x.to] \in [Methods -> ServerStates]
         /\ dlg[x.to] \in DialogType
         /\ x.kind \in Answers
         /\ dlg[x.to].fsm \notin {"Started", "Terminated"}
<1>1. x.to \in Sides /\ x.method \in Methods
  BY Arrives
<1>2. Phase(x) \in ClientStates
  BY DEF Phase, ClientStates
<1>3. Side(dlg[x.to], client[x.to], server[x.to], user[x.to])
  BY <1>1 DEF DialogsInv, SidesInv
<1>4. client[x.to][x.method] # "none"
  BY DEF Matched
<1> QED
  BY <1>1, <1>2, <1>3, <1>4 DEF UserOf, DialogsInv, TypeOK, Matched, Side, ClientStates, ServerStates, UserType

LEMMA OutgoingConnects ==
  ASSUME DialogsInv, NEW x \in net, Outgoing_2_Connected_i2xxINVITE(x)
  PROVE  DialogsInv'
<1> DEFINE r == [With("a", "Connected") EXCEPT !.state = "established"]
           c == [client["a"] EXCEPT !["INVITE"] = "accepted"]
<1>1. x.to = "a" /\ x.kind = "2xx" /\ x.method = "INVITE" /\ Matched(x) /\ A.fsm = "Outgoing"
  BY DEF Outgoing_2_Connected_i2xxINVITE, Is, A
<1>2. Sound(x) /\ Accepted /\ B.fsm # "Started"
  BY <1>1, Arrives DEF Sound
<1>3. /\ UserOf("a") /\ user' = user /\ c \in [Methods -> ClientStates]
      /\ server["a"] \in [Methods -> ServerStates] /\ A \in DialogType
      /\ Phase(x) = "accepted"
  BY <1>1, ResponseActs DEF A, Outgoing_2_Connected_i2xxINVITE, Phase, Invites
<1>4. CallerFits(A, client["a"], server["a"], user["a"], {}) /\ After(client["a"], {}) = client["a"]
  BY <1>1, CallerStands, Known, AfterIs
<1>5. r \in DialogType /\ r.fsm = "Connected" /\ r.state = "established"
      /\ \A f \in {"rseq", "sent", "rel", "resends", "rsvp", "closing", "why", "races"} : r[f] = A[f]
  BY <1>3 DEF With, A, DialogType, FsmStates
<1>6. CASE OnResponse(x, Refreshed(r), {}, {Ack("a", "INVITE")})
  <2>1. Refreshed(r) \in DialogType /\ Refreshed(r).fsm = "Connected" /\ Refreshed(r).state = "established"
        /\ \A f \in {"rseq", "sent", "rel", "resends", "rsvp", "closing", "why", "races"} : Refreshed(r)[f] = A[f]
    BY <1>5 DEF Refreshed, DialogType
  <2>2. CallerFits(Refreshed(r), c, server["a"], user'["a"], {})
    BY <1>1, <1>2, <1>3, <1>4, <2>1, AfterIs DEF CallerFits, Side, Caller, InCall, Methods, Invites, Heard
  <2>3. CallerSays(Ack("a", "INVITE"), After(c, {}))
    BY <1>2, <1>3, AfterIs, PeerIs DEF CallerSays, Ack, Reply, Sent, Messages, Kinds, Methods, MaxRSeq, Sides
  <2>4. Act("a", Refreshed(r), {x}, c, server["a"], {}, {Ack("a", "INVITE")})
    BY <1>1, <1>3, <1>6 DEF OnResponse
  <2> QED BY <1>3, <2>1, <2>2, <2>3, <2>4, CallerActs DEF CallerSays
<1>7. CASE OnResponse(x, Ended(r, "error"), {}, {Reply("a", "request", "BYE")})
  <2>1. CallerMayEnd(r, "error", user'["a"])
    BY <1>1, <1>2, <1>4, <1>5, Known DEF CallerMayEnd, PairInv, Caller, Heard
  <2>2. CallerLeaves(Reply("a", "request", "BYE"))
    BY <1>2, PeerIs DEF CallerLeaves, Reply, Sent, Messages, Kinds, Methods, MaxRSeq, Sides
  <2>3. Act("a", Ended(r, "error"), {x}, c, server["a"], {}, {Reply("a", "request", "BYE")})
    BY <1>1, <1>3, <1>7 DEF OnResponse
  <2> QED BY <1>3, <1>5, <2>1, <2>2, <2>3, CallerFinishes DEF CallerLeaves, Whys
<1> QED BY <1>6, <1>7 DEF Outgoing_2_Connected_i2xxINVITE

LEMMA OutgoingEnds ==
  ASSUME DialogsInv, NEW x \in net, Outgoing_2_Terminated_i300_to_i699INVITE(x)
  PROVE  DialogsInv'
<1> DEFINE c == [client["a"] EXCEPT ![x.method] = Phase(x)]
<1>1. x.to = "a" /\ x.kind = "final" /\ x.method = "INVITE" /\ Matched(x)
  BY Arrives DEF Outgoing_2_Terminated_i300_to_i699INVITE, Sound
<1>2. A.fsm \in {"Outgoing", "Cancelling"} /\ ~Heard
  BY <1>1 DEF Outgoing_2_Terminated_i300_to_i699INVITE, Is, A, Matched, Heard
<1>3. /\ UserOf("a") /\ user' = user /\ c \in [Methods -> ClientStates]
      /\ server["a"] \in [Methods -> ServerStates] /\ A \in DialogType
  BY <1>1, ResponseActs DEF A, Outgoing_2_Terminated_i300_to_i699INVITE
<1>4. Act("a", Ended(A, "peer"), {x}, c, server["a"], {}, {})
  BY <1>1 DEF Outgoing_2_Terminated_i300_to_i699INVITE, OnResponse, A
<1>5. CallerMayEnd(A, "peer", user'["a"])
  BY <1>2, <1>3, Known DEF CallerMayEnd, PairInv, Caller
<1> QED BY <1>3, <1>4, <1>5, CallerFinishes DEF Whys

LEMMA CancelAnswered ==
  ASSUME DialogsInv, NEW x \in net, Cancelling_iCANCELresponse(x)
  PROVE  DialogsInv'
<1> DEFINE c == [client["a"] EXCEPT ![x.method] = Phase(x)]
<1>1. x.to = "a" /\ x.kind \in {"2xx", "final"} /\ x.method = "CANCEL" /\ Matched(x)
  BY Arrives DEF Cancelling_iCANCELresponse, Sound
<1>2. A.fsm = "Cancelling" /\ client["a"]["CANCEL"] # "none"
  BY <1>1 DEF Cancelling_iCANCELresponse, Is, A, Matched
<1>3. /\ UserOf("a") /\ user' = user /\ c \in [Methods -> ClientStates]
      /\ server["a"] \in [Methods -> ServerStates] /\ A \in DialogType
  BY <1>1, ResponseActs DEF A, Cancelling_iCANCELresponse
<1>4. Phase(x) = "none"
  BY <1>1 DEF Phase, Invites
<1>5. CASE Act("a", A, {x}, c, server["a"], {}, {})
  <2>1. CallerFits(A, client["a"], server["a"], user["a"], {}) /\ After(client["a"], {}) = client["a"]
    BY <1>2, CallerStands, Known, AfterIs
  <2>2. CallerFits(A, c, server["a"], user'["a"], {})
    BY <1>1, <1>2, <1>3, <1>4, <2>1, AfterIs DEF CallerFits, Side, Caller, InCall, Methods, Invites, Heard
  <2> QED BY <1>3, <1>5, <2>2, CallerActs
<1>6. CASE Act("a", Ended(A, "peer"), {x}, c, server["a"], {}, {})
  <2>1. CallerMayEnd(A, "peer", user'["a"])
    BY <1>2, <1>3, Known DEF CallerMayEnd, PairInv, Caller, Excuses, Heard
  <2> QED BY <1>3, <1>6, <2>1, CallerFinishes DEF Whys
<1> QED BY <1>1, <1>5, <1>6 DEF Cancelling_iCANCELresponse, OnResponse, A

(* The response with RSeq 1 is acknowledged once: no PRACK is started      *)
(* while the callee waits for its UPDATE.                                  *)
LEMMA ProvisionalHeard ==
  ASSUME DialogsInv, NEW x \in net, Any_2_Any_i1xx(x)
  PROVE  DialogsInv'
<1> DEFINE d == x.to
           r == [dlg[d] EXCEPT
                  !.state = IF x.kind = "100" \/ @ = "established" THEN @ ELSE "early",
                  !.rsvp = IF @ = "none" /\ x.kind # "100" /\ mode.qos = "mandatory"
                           THEN "armed" ELSE @]
           c == [client[d] EXCEPT ![x.method] = Phase(x)]
<1>1. /\ Matched(x) /\ x.kind \in {"100", "1xx", "1xxrel"}
      /\ client[d][x.method] \in {"calling", "proceeding"} /\ Phase(x) = "proceeding"
  BY DEF Any_2_Any_i1xx, Matched, Phase
<1>2. /\ UserOf(d) /\ user' = user /\ c \in [Methods -> ClientStates]
      /\ server[d] \in [Methods -> ServerStates] /\ dlg[d] \in DialogType
      /\ dlg[d].fsm \notin {"Started", "Terminated"}
  BY <1>1, ResponseActs DEF Any_2_Any_i1xx
<1>3. /\ r \in DialogType /\ r.fsm = dlg[d].fsm /\ r.rseq = dlg[d].rseq /\ r.sent = dlg[d].sent
      /\ r.rel = dlg[d].rel /\ r.resends = dlg[d].resends /\ r.refresh = dlg[d].refresh
      /\ r.closing = dlg[d].closing /\ r.why = dlg[d].why /\ r.races = dlg[d].races
      /\ (r.state = "established" <=> dlg[d].state = "established")
  BY <1>2 DEF DialogType
<1>4. \/ /\ x.kind = "1xxrel" /\ x.rseq > dlg[d].rseq
         /\ Act(d, [r EXCEPT !.rseq = x.rseq], {x}, c, server[d], {"PRACK"}, {})
      \/ Act(d, r, {x}, c, server[d], {}, {})
  BY DEF Any_2_Any_i1xx, OnResponse
<1> HIDE DEF r
<1>5. CASE d = "a"
  <2>1. CallerFits(A, client["a"], server["a"], user["a"], {}) /\ After(client["a"], {}) = client["a"]
    BY <1>2, <1>5, CallerStands, Known, AfterIs DEF A
  <2>2. CASE Act(d, r, {x}, c, server[d], {}, {})
    <3>1. CallerFits(r, c, server["a"], user'["a"], {})
      BY <1>1, <1>2, <1>3, <1>5, <2>1, Arrives, AfterIs DEF CallerFits, Side, Caller, InCall, Methods, Invites, Heard, A
    <3> QED BY <1>2, <1>3, <1>5, <2>2, <3>1, CallerActs
  <2>3. CASE /\ x.kind = "1xxrel" /\ x.rseq > dlg[d].rseq
             /\ Act(d, [r EXCEPT !.rseq = x.rseq], {x}, c, server[d], {"PRACK"}, {})
    <3> DEFINE q == [r EXCEPT !.rseq = x.rseq]
    <3>1. x.method = "INVITE" /\ x.rseq <= B.sent /\ x.rseq \in Nat /\ x.rseq \in 0..MaxRSeq
      BY <1>5, <2>3, Arrives DEF Sound, Messages
    <3>2. /\ q \in DialogType /\ q.fsm = r.fsm /\ q.rseq = x.rseq /\ q.sent = r.sent
          /\ q.rel = r.rel /\ q.resends = r.resends /\ q.refresh = r.refresh
          /\ q.closing = r.closing /\ q.why = r.why /\ q.races = r.races /\ q.state = r.state
      BY <1>3, <3>1 DEF DialogType
    <3>3. ~(B.fsm = "InProgress" /\ B.rseq = 2) /\ x.rseq # 0 /\ A.rseq <= x.rseq
      BY <1>5, <2>3, <3>1, Known DEF PairInv, Callee, A
    <3> HIDE DEF q
    <3>4. {"PRACK"} \in SUBSET Methods
      BY DEF Methods
    <3>5. \A m \in Methods : After(c, {"PRACK"})[m] = IF m = "PRACK" THEN "calling" ELSE c[m]
      BY <1>2, <3>4, AfterIs
    <3>6. CallerFits(q, c, server["a"], user'["a"], {"PRACK"})
      BY <1>1, <1>2, <1>3, <1>5, <2>1, <3>1, <3>2, <3>3, <3>5 DEF CallerFits, Side, Caller, InCall, Methods, Invites, Heard, A
    <3> QED BY <1>2, <1>5, <2>3, <3>2, <3>4, <3>6, CallerActs DEF q
  <2> QED BY <1>4, <2>2, <2>3
<1>6. CASE d = "b"
  <2>1. CalleeFits(B, client["b"], server["b"], user["b"], {}) /\ After(client["b"], {}) = client["b"]
    BY <1>2, <1>6, CalleeStands, Known, AfterIs DEF B
  <2>2. x.kind # "1xxrel" /\ x.method \notin {"INVITE", "PRACK", "CANCEL"}
    BY <1>1, <1>6, Arrives DEF Sound
  <2>3. CalleeFits(r, c, server["b"], user'["b"], {})
    BY <1>1, <1>2, <1>3, <1>6, <2>1, <2>2, Arrives, AfterIs DEF CalleeFits, Side, Callee, InCall, Undecided, Methods, Invites, B
  <2> QED BY <1>2, <1>3, <1>4, <1>6, <2>2, <2>3, CalleeActs
<1> QED BY <1>5, <1>6, Arrives

LEMMA AckIs ==
  ASSUME NEW d \in Sides, NEW m \in Invites
  PROVE  /\ Ack(d, m) \in Messages /\ Ack(d, m).to = Peer(d)
         /\ Ack(d, m).kind = "ACK" /\ Ack(d, m).method = m
BY PeerIs DEF Ack, Reply, Sent, Messages, Kinds, Methods, Invites, MaxRSeq

LEMMA SuccessHeard ==
  ASSUME DialogsInv, NEW x \in net, Any_2_Any_i2xxINVITEorUPDATE(x)
  PROVE  DialogsInv'
<1> DEFINE d == x.to
           new == IF x.method = "INVITE" /\ client[d]["INVITE"] # "accepted" THEN {"crossed"} ELSE {}
           q == [dlg[d] EXCEPT !.state = "established", !.races = @ \cup new]
           r == Refreshed(q)
           c == [client[d] EXCEPT ![x.method] = Phase(x)]
           replies == IF x.method = "UPDATE" THEN {} ELSE {Ack(d, x.method)}
<1>1. /\ Matched(x) /\ x.kind = "2xx" /\ x.method \in {"INVITE", "reINVITE", "UPDATE"}
      /\ Phase(x) = IF x.method = "UPDATE" THEN "none" ELSE "accepted"
      /\ ~(dlg[d].fsm = "Outgoing" /\ x.method = "INVITE")
  BY DEF Any_2_Any_i2xxINVITEorUPDATE, Phase, Invites, Is
<1>2. /\ UserOf(d) /\ user' = user /\ c \in [Methods -> ClientStates]
      /\ server[d] \in [Methods -> ServerStates] /\ dlg[d] \in DialogType
      /\ dlg[d].fsm \notin {"Started", "Terminated"}
  BY <1>1, ResponseActs DEF Any_2_Any_i2xxINVITEorUPDATE
<1>3. /\ q \in DialogType /\ q.fsm = dlg[d].fsm /\ q.rseq = dlg[d].rseq /\ q.sent = dlg[d].sent
      /\ q.rel = dlg[d].rel /\ q.resends = dlg[d].resends
      /\ q.closing = dlg[d].closing /\ q.why = dlg[d].why /\ q.races = dlg[d].races \cup new
      /\ q.state = "established"
  BY <1>2 DEF DialogType, Races
<1> HIDE DEF q
<1>4. /\ r \in DialogType /\ r.fsm = dlg[d].fsm /\ r.rseq = dlg[d].rseq /\ r.sent = dlg[d].sent
      /\ r.rel = dlg[d].rel /\ r.resends = dlg[d].resends
      /\ r.closing = dlg[d].closing /\ r.why = dlg[d].why /\ r.races = dlg[d].races \cup new
      /\ r.state = "established"
  BY <1>3 DEF DialogType, Refreshed
<1>5. Act(d, r, {x}, c, server[d], {}, replies)
  BY DEF q, Any_2_Any_i2xxINVITEorUPDATE, OnResponse
<1>6. /\ replies \in SUBSET Messages
      /\ \A y \in replies : y.to = Peer(d) /\ y.kind = "ACK" /\ y.method = x.method /\ y.method \in Invites
  BY <1>1, AckIs, Arrives DEF Invites
<1> HIDE DEF r, replies
<1>7. CASE d = "a"
  <2>1. CallerFits(A, client["a"], server["a"], user["a"], {}) /\ After(client["a"], {}) = client["a"]
        /\ After(c, {}) = c
    BY <1>2, <1>7, CallerStands, Known, AfterIs DEF A
  <2>2. B.fsm # "Started" /\ (x.method = "INVITE" => Accepted)
    BY <1>1, <1>7, Arrives DEF Sound
  <2>3. \A m \in Methods : c[m] = IF m = x.method THEN Phase(x) ELSE client["a"][m]
    BY <1>7, Arrives, Known
  <2>4. Side(r, c, server["a"], user["a"])
    BY <1>1, <1>2, <1>4, <1>7, <2>1, <2>3, Arrives DEF CallerFits, Side, Methods, A
  <2>5. Caller(r, c, server["a"], user["a"])
    BY <1>1, <1>2, <1>4, <1>7, <2>1, <2>3, Arrives DEF CallerFits, Caller, InCall, Methods, A
  <2>6. CallerFits(r, c, server["a"], user'["a"], {})
    BY <1>1, <1>2, <1>4, <1>7, <2>1, <2>2, <2>3, <2>4, <2>5, Known DEF CallerFits, Methods, Invites, Heard, A
  <2>7. \A y \in replies : CallerSays(y, After(c, {}))
    BY <1>1, <1>6, <1>7, <2>1, <2>2, <2>3, Arrives DEF CallerSays, Invites, Methods
  <2> QED BY <1>2, <1>4, <1>5, <1>6, <1>7, <2>6, <2>7, CallerActs
<1>8. CASE d = "b"
  <2>1. CalleeFits(B, client["b"], server["b"], user["b"], {}) /\ After(client["b"], {}) = client["b"]
        /\ After(c, {}) = c
    BY <1>2, <1>8, CalleeStands, Known, AfterIs DEF B
  <2>2. x.method \notin {"INVITE", "PRACK", "CANCEL"}
    BY <1>1, <1>8, Arrives DEF Sound
  <2>3. \A m \in Methods : c[m] = IF m = x.method THEN Phase(x) ELSE client["b"][m]
    BY <1>8, Arrives, Known
  <2>4. CalleeFits(r, c, server["b"], user'["b"], {})
    BY <1>1, <1>2, <1>4, <1>8, <2>1, <2>2, <2>3, Arrives DEF CalleeFits, Side, Callee, InCall, Undecided, Methods, Invites, B
  <2>5. \A y \in replies : CalleeSays(y, r, user'["b"])
    BY <1>1, <1>6, <1>8, <2>2, Arrives DEF CalleeSays, Invites
  <2> QED BY <1>2, <1>4, <1>5, <1>6, <1>8, <2>4, <2>5, CalleeActs
<1> QED BY <1>7, <1>8, Arrives

LEMMA ByeAnswered ==
  ASSUME DialogsInv, NEW x \in net, Any_2_Terminated_iBYEresponse(x)
  PROVE  DialogsInv'
<1> DEFINE d == x.to
           c == [client[d] EXCEPT ![x.method] = Phase(x)]
<1>1. Matched(x) /\ x.method = "BYE"
  BY DEF Any_2_Terminated_iBYEresponse
<1>2. /\ UserOf(d) /\ user' = user /\ c \in [Methods -> ClientStates]
      /\ server[d] \in [Methods -> ServerStates] /\ dlg[d] \in DialogType
      /\ dlg[d].fsm \notin {"Started", "Terminated"} /\ x.kind # "request"
  BY <1>1, ResponseActs DEF Any_2_Terminated_iBYEresponse, Answers
<1>3. Act(d, Ended(dlg[d], "peer"), {x}, c, server[d], {}, {})
  BY DEF Any_2_Terminated_iBYEresponse, OnResponse
<1>4. dlg[Peer(d)].fsm = "Terminated"
  BY <1>1, <1>2, Arrives DEF Sound
<1>5. CASE d = "a"
  <2>1. CallerMayEnd(A, "peer", user'["a"])
    BY <1>2, <1>4, <1>5, Known, Arrives DEF CallerMayEnd, PairInv, Caller, InCall, A, B
  <2> QED BY <1>2, <1>3, <1>5, <2>1, CallerFinishes DEF Whys, A
<1>6. CASE d = "b"
  <2>1. CalleeMayEnd(B, "peer", user'["b"])
    BY <1>2, <1>4, <1>6, Known, Arrives DEF CalleeMayEnd, PairInv, Callee, InCall, A, B, Accepted
  <2> QED BY <1>2, <1>3, <1>6, <2>1, CalleeFinishes DEF Whys, B
<1> QED BY <1>5, <1>6, Arrives

LEMMA ResponseIgnored ==
  ASSUME DialogsInv, NEW x \in net, IgnoredResponse(x)
  PROVE  DialogsInv'
<1> DEFINE d == x.to
           c == [client[d] EXCEPT ![x.method] = Phase(x)]
<1>1. /\ Matched(x) /\ x.kind \in {"2xx", "final"} /\ x.method \in {"PRACK", "CANCEL", "INVITE", "reINVITE", "UPDATE"}
      /\ x.method \in Invites => x.kind = "final"
      /\ x.method = "CANCEL" => dlg[d].fsm # "Cancelling"
      /\ x.method = "INVITE" => dlg[d].fsm \notin {"Outgoing", "Holding", "Resuming"}
  BY DEF IgnoredResponse, Is, Invites
<1>2. /\ UserOf(d) /\ user' = user /\ c \in [Methods -> ClientStates]
      /\ server[d] \in [Methods -> ServerStates] /\ dlg[d] \in DialogType
      /\ dlg[d].fsm \notin {"Started", "Terminated"}
  BY <1>1, ResponseActs DEF IgnoredResponse
<1>3. Act(d, dlg[d], {x}, c, server[d], {}, {})
  BY DEF IgnoredResponse, OnResponse
<1>4. Phase(x) = "none" /\ (x.method \in Invites => dlg[Peer(d)].fsm = "Terminated")
      /\ (x.method = "INVITE" => client[d]["INVITE"] # "accepted")
  BY <1>1, Arrives DEF Sound, Phase, Matched, Invites
<1>5. CASE d = "a"
  <2>1. CallerFits(A, client["a"], server["a"], user["a"], {}) /\ After(client["a"], {}) = client["a"]
        /\ After(c, {}) = c
    BY <1>2, <1>5, CallerStands, Known, AfterIs DEF A
  <2>2. \A m \in Methods : c[m] = IF m = x.method THEN "none" ELSE client["a"][m]
    BY <1>4, <1>5, Arrives, Known
  <2>3. CallerFits(A, c, server["a"], user'["a"], {})
    BY <1>1, <1>2, <1>4, <1>5, <2>1, <2>2, Arrives DEF CallerFits, Side, Caller, InCall, Methods, Invites, Heard, A, B
  <2> QED BY <1>2, <1>3, <1>5, <2>3, CallerActs DEF A
<1>6. CASE d = "b"
  <2>1. CalleeFits(B, client["b"], server["b"], user["b"], {}) /\ After(client["b"], {}) = client["b"]
        /\ After(c, {}) = c
    BY <1>2, <1>6, CalleeStands, Known, AfterIs DEF B
  <2>2. \A m \in Methods : c[m] = IF m = x.method THEN "none" ELSE client["b"][m]
    BY <1>4, <1>6, Arrives, Known
  <2>3. CalleeFits(B, c, server["b"], user'["b"], {})
    BY <1>1, <1>2, <1>4, <1>6, <2>1, <2>2, Arrives DEF CalleeFits, Side, Callee, InCall, Undecided, Methods, Invites, A, B
  <2> QED BY <1>2, <1>3, <1>6, <2>3, CalleeActs DEF B
<1> QED BY <1>5, <1>6, Arrives

LEMMA HoldAnswered ==
  ASSUME DialogsInv, NEW x \in net, Holding_2_Connected_ixxx(x)
  PROVE  DialogsInv'
<1> DEFINE d == x.to
           r == With(d, "Connected")
           c == [client[d] EXCEPT ![x.method] = Phase(x)]
           replies == IF x.method = "UPDATE" THEN {} ELSE {Ack(d, x.method)}
<1>1. /\ Matched(x) /\ x.kind \in {"2xx", "final"} /\ x.method \in {"INVITE", "reINVITE", "UPDATE"}
      /\ dlg[d].fsm \in {"Holding", "Resuming"}
      /\ Phase(x) = IF x.kind = "2xx" /\ x.method # "UPDATE" THEN "accepted" ELSE "none"
  BY DEF Holding_2_Connected_ixxx, Is, Invites, Phase
<1>2. /\ UserOf(d) /\ user' = user /\ c \in [Methods -> ClientStates]
      /\ server[d] \in [Methods -> ServerStates] /\ dlg[d] \in DialogType
      /\ dlg[d].fsm \notin {"Started", "Terminated"}
  BY <1>1, ResponseActs DEF Holding_2_Connected_ixxx
<1>3. Act(d, r, {x}, c, server[d], {}, replies)
  BY DEF Holding_2_Connected_ixxx, OnResponse
<1>4. /\ r \in DialogType /\ r.fsm = "Connected" /\ r.rseq = dlg[d].rseq /\ r.sent = dlg[d].sent
      /\ r.rel = dlg[d].rel /\ r.resends = dlg[d].resends /\ r.refresh = dlg[d].refresh
      /\ r.closing = dlg[d].closing /\ r.why = dlg[d].why /\ r.races = dlg[d].races
      /\ r.state = dlg[d].state
  BY <1>2 DEF DialogType, With, FsmStates
<1>5. /\ replies \in SUBSET Messages
      /\ \A y \in replies : y.to = Peer(d) /\ y.kind = "ACK" /\ y.method = x.method /\ y.method \in Invites
  BY <1>1, AckIs, Arrives DEF Invites
<1>6. x.method \in Invites /\ x.kind = "final" => dlg[Peer(d)].fsm = "Terminated"
  BY Arrives DEF Sound
<1> HIDE DEF r, replies
<1>7. CASE d = "a"
  <2>1. CallerFits(A, client["a"], server["a"], user["a"], {}) /\ After(client["a"], {}) = client["a"]
        /\ After(c, {}) = c
    BY <1>2, <1>7, CallerStands, Known, AfterIs DEF A
  <2>2. Heard /\ Accepted
    BY <1>1, <1>7, Known DEF Caller, PairInv, InCall, A, Heard
  <2>3. x.method = "INVITE" => x.kind = "2xx"
    BY <1>1, <1>7, <2>2 DEF Matched, Heard
  <2>4. \A m \in Methods : c[m] = IF m = x.method THEN Phase(x) ELSE client["a"][m]
    BY <1>7, Arrives, Known
  <2>5. CallerFits(r, c, server["a"], user'["a"], {})
    BY <1>1, <1>2, <1>4, <1>6, <1>7, <2>1, <2>2, <2>3, <2>4, Arrives DEF CallerFits, Side, Caller, InCall, Methods, Invites, Heard, A, B
  <2>6. \A y \in replies : CallerSays(y, After(c, {}))
    BY <1>1, <1>5, <1>7, <2>1, <2>2, <2>3, <2>4, Arrives DEF CallerSays, Invites, Methods
  <2> QED BY <1>2, <1>3, <1>4, <1>5, <1>7, <2>5, <2>6, CallerActs
<1>8. CASE d = "b"
  <2>1. CalleeFits(B, client["b"], server["b"], user["b"], {}) /\ After(client["b"], {}) = client["b"]
        /\ After(c, {}) = c
    BY <1>2, <1>8, CalleeStands, Known, AfterIs DEF B
  <2>2. x.method \notin {"INVITE", "PRACK", "CANCEL"}
    BY <1>1, <1>8, Arrives DEF Sound
  <2>3. \A m \in Methods : c[m] = IF m = x.method THEN Phase(x) ELSE client["b"][m]
    BY <1>8, Arrives, Known
  <2>4. CalleeFits(r, c, server["b"], user'["b"], {})
    BY <1>1, <1>2, <1>4, <1>6, <1>8, <2>1, <2>2, <2>3, Arrives DEF CalleeFits, Side, Callee, InCall, Undecided, Methods, Invites, A, B
  <2>5. \A y \in replies : CalleeSays(y, r, user'["b"])
    BY <1>1, <1>5, <1>8, <2>2, Arrives DEF CalleeSays, Invites
  <2> QED BY <1>2, <1>3, <1>4, <1>5, <1>8, <2>4, <2>5, CalleeActs
<1> QED BY <1>7, <1>8, Arrives

-----------------------------------------------------------------------------
(* Messages that meet no dialog, and the network.                          *)
LEMMA AllStay ==
  ASSUME DialogsInv, UNCHANGED server
  PROVE  /\ server' \in [Sides -> [Methods -> ServerStates]]
         /\ \A d \in Sides, m \in Methods : Moved(d, m)
BY DEF DialogsInv, TypeOK, ServerStates, Moved

LEMMA UsersStay ==
  ASSUME DialogsInv
  PROVE  user \in [Sides -> UserType] /\ mishaps \subseteq Faults
BY DEF DialogsInv, TypeOK, UserType

LEMMA Dropped ==
  ASSUME DialogsInv, NEW x \in net, Drop(x)
  PROVE  DialogsInv'
<1>1. net' \subseteq net /\ net \subseteq Messages /\ A.fsm # "Started"
  BY Arrives DEF Drop, DialogsInv, TypeOK
<1>2. UNCHANGED <<mode, dlg, client, server, user, mishaps>>
  BY DEF Drop
<1> QED BY <1>1, <1>2, AllStay, UsersStay, Quietly

LEMMA LostIs ==
  ASSUME DialogsInv, NEW x \in net, Lose(x)
  PROVE  DialogsInv'
<1>1. net' \subseteq net /\ net \subseteq Messages /\ A.fsm # "Started"
  BY Arrives DEF Lose, DialogsInv, TypeOK
<1>2. UNCHANGED <<mode, dlg, client, server, user>> /\ mishaps \subseteq mishaps' /\ mishaps' \subseteq Faults
  BY UsersStay DEF Lose, Fault, Faults
<1> QED BY <1>1, <1>2, AllStay, UsersStay, Quietly

LEMMA AnsweredAgain ==
  ASSUME DialogsInv, NEW x \in net, Retransmitted(x)
  PROVE  DialogsInv'
<1> DEFINE d == x.to
           last == server[d][x.method]
           n == IF last = "1xxrel" THEN dlg[d].sent ELSE 0
           y == Sent(d, last, x.method, n)
<1>1. /\ x.kind = "request" /\ last # "none"
      /\ \A z \in net' : z \in net \/ (last \notin {"trying", "acked"} /\ z = y)
      /\ UNCHANGED <<mode, dlg, client, server, user, mishaps>>
  BY DEF Retransmitted
<1>2. last \in ServerStates /\ Side(dlg[d], client[d], server[d], user[d]) /\ dlg[d] \in DialogType
  BY Arrives DEF DialogsInv, TypeOK, ServerStates, SidesInv
<1>3. ASSUME last \notin {"trying", "acked"}
      PROVE  y \in Messages /\ Sound(y)
  <2>1. y \in Messages /\ y.to = Peer(d) /\ y.kind = last /\ y.method = x.method
    <3>1. n \in 0..MaxRSeq
      BY <1>2 DEF DialogType, MaxRSeq
    <3>2. last \in Kinds
      BY <1>1, <1>2, <1>3 DEF Kinds, ServerStates
    <3>3. Peer(d) \in Sides /\ x.method \in Methods
      BY Arrives, PeerIs
    <3> HIDE DEF n, last
    <3> QED BY <3>1, <3>2, <3>3 DEF Sent, Messages
  <2>2. last \in {"100", "1xx", "1xxrel", "2xx", "final"}
    BY <1>1, <1>2, <1>3 DEF ServerStates
  <2>3. x.method # "BYE" /\ (last = "1xxrel" => x.method = "INVITE")
        /\ (last = "final" /\ x.method \in Invites => dlg[d].fsm = "Terminated")
        /\ dlg[d].fsm # "Started"
    BY <1>1, <1>2, Arrives DEF Side
  <2>4. x.method \in {"INVITE", "PRACK", "CANCEL"} => d = "b"
    BY <1>1, Arrives DEF Sound
  <2>5. last = "1xxrel" => y.rseq = B.sent /\ B.sent \in Nat
    BY <2>3, <2>4, Known DEF Sent, B
  <2>6. last = "2xx" /\ x.method = "INVITE" => Accepted
    BY <2>4, Known DEF Callee, Accepted
  <2>7. (d = "a" /\ y.to = "b") \/ (d = "b" /\ y.to = "a")
    BY <2>1, Arrives
  <2>8. Peer(y.to) = d
    BY <2>1, Arrives, PeerIs
  <2> HIDE DEF y
  <2> QED BY <2>1, <2>2, <2>3, <2>4, <2>5, <2>6, <2>7, <2>8, Arrives DEF Sound, B
<1>4. net' \subseteq Messages /\ \A z \in net' : z \in net \/ Sound(z)
  BY <1>1, <1>3 DEF DialogsInv, TypeOK
<1> QED BY <1>1, <1>4, AllStay, UsersStay, Arrives, Quietly

LEMMA NoDialogAnswers ==
  ASSUME DialogsInv, NEW x \in net, NoDialog(x)
  PROVE  DialogsInv'
<1> DEFINE d == x.to
           y == Reply(d, "final", x.method)
<1>1. /\ x.kind = "ACK" \/ (x.kind = "request" /\ x.method \notin Invites)
      /\ dlg[d].fsm \in {"Started", "Terminated"}
      /\ \A z \in net' : z \in net \/ (x.kind # "ACK" /\ z = y)
      /\ UNCHANGED <<mode, dlg, client, server, user, mishaps>>
  BY DEF NoDialog
<1>2. ASSUME x.kind = "request", x.method \notin Invites
      PROVE  y \in Messages /\ Sound(y)
  <2>1. y \in Messages /\ y.to = Peer(d) /\ y.kind = "final" /\ y.method = x.method
    BY Arrives, PeerIs DEF Reply, Sent, Messages, Kinds, MaxRSeq
  <2>2. x.method \in {"INVITE", "PRACK", "CANCEL"} => d = "b"
    BY <1>2, Arrives DEF Sound
  <2>3. x.method = "BYE" => dlg[d].fsm = "Terminated"
    BY <1>1, <1>2, Arrives DEF Sound
  <2>4. (d = "a" /\ y.to = "b") \/ (d = "b" /\ y.to = "a")
    BY <2>1, Arrives
  <2>5. Peer(y.to) = d
    BY <2>1, Arrives, PeerIs
  <2> HIDE DEF y
  <2> QED BY <1>2, <2>1, <2>2, <2>3, <2>4, <2>5 DEF Sound
<1>3. net' \subseteq Messages /\ \A z \in net' : z \in net \/ Sound(z)
  BY <1>1, <1>2 DEF DialogsInv, TypeOK
<1> QED BY <1>1, <1>3, AllStay, UsersStay, Arrives, Quietly

LEMMA StrayAnswered ==
  ASSUME DialogsInv, NEW x \in net, StrayINVITE(x)
  PROVE  DialogsInv'
<1> DEFINE d == x.to
<1>1. /\ x.kind = "request" /\ x.method \in Invites /\ dlg[d].fsm = "Terminated"
      /\ UNCHANGED <<mode, dlg, client, user, mishaps>>
  BY DEF StrayINVITE, NewRequest
<1>2. PICK first \in {"1xx", "final"} :
        /\ server' = [server EXCEPT ![d][x.method] = first]
        /\ net' = (net \ {x}) \cup {Reply(d, first, x.method)}
  BY DEF StrayINVITE
<1> DEFINE y == Reply(d, first, x.method)
<1>3. x.method = "INVITE" => d = "b"
  BY <1>1, Arrives DEF Sound
<1>4. y \in Messages /\ Sound(y)
  <2>1. y \in Messages /\ y.to = Peer(d) /\ y.kind = first /\ y.method = x.method
    BY Arrives, PeerIs DEF Reply, Sent, Messages, Kinds, MaxRSeq
  <2>2. (d = "a" /\ y.to = "b") \/ (d = "b" /\ y.to = "a")
    BY <2>1, Arrives
  <2>3. Peer(y.to) = d
    BY <2>1, Arrives, PeerIs
  <2> HIDE DEF y
  <2> QED BY <1>1, <1>3, <2>1, <2>2, <2>3 DEF Sound, Invites, B
<1>5. server \in [Sides -> [Methods -> ServerStates]]
  BY DEF DialogsInv, TypeOK, ServerStates
<1>6. \A e \in Sides, m \in Methods :
         server'[e][m] = IF e = d /\ m = x.method THEN first ELSE server[e][m]
  BY <1>2, <1>5, Arrives
<1>7. server' \in [Sides -> [Methods -> ServerStates]]
  BY <1>2, <1>5, Arrives DEF ServerStates
<1>8. \A e \in Sides, m \in Methods : Moved(e, m)
  BY <1>1, <1>3, <1>6 DEF Moved
<1>9. net' \subseteq Messages /\ \A z \in net' : z \in net \/ Sound(z)
  BY <1>2, <1>4 DEF DialogsInv, TypeOK
<1> QED BY <1>1, <1>7, <1>8, <1>9, UsersStay, Arrives, Quietly

LEMMA AckArrives ==
  ASSUME DialogsInv, NEW x \in net, Any_iACK(x)
  PROVE  DialogsInv'
<1> DEFINE d == x.to
           s == IF server[d][x.method] = "2xx" THEN "acked" ELSE server[d][x.method]
<1>1. /\ x.kind = "ACK" /\ net' \subseteq net
      /\ UNCHANGED <<mode, dlg, client, user, mishaps>>
      /\ server' = [server EXCEPT ![d][x.method] = s]
  BY DEF Any_iACK
<1>2. server \in [Sides -> [Methods -> ServerStates]] /\ net \subseteq Messages
  BY DEF DialogsInv, TypeOK, ServerStates
<1>3. s \in ServerStates
  BY <1>2, Arrives DEF ServerStates
<1>4. \A e \in Sides, m \in Methods :
         server'[e][m] = IF e = d /\ m = x.method THEN s ELSE server[e][m]
  BY <1>1, <1>2, Arrives
<1>5. server' \in [Sides -> [Methods -> ServerStates]]
  BY <1>1, <1>2, <1>3, Arrives
<1>6. x.method = "INVITE" =>
        /\ A.fsm # "Terminated" => Heard
        /\ A.fsm = "Terminated" /\ B.fsm \in InCall => Excused("a")
  BY <1>1, Arrives DEF Sound
<1>7. \A e \in Sides, m \in Methods : Moved(e, m)
  BY <1>4, <1>6 DEF Moved
<1> QED BY <1>1, <1>2, <1>5, <1>7, UsersStay, Arrives, Quietly

-----------------------------------------------------------------------------
(* The requests.                                                           *)
LEMMA RequestActs ==
  ASSUME DialogsInv, NEW x \in net, NEW m, NewRequest(x, m), UNCHANGED <<mode, user>>
  PROVE  /\ UserOf(x.to) /\ user' = user /\ x.kind = "request" /\ x.method = m
         /\ \A k \in ServerStates :
              /\ [server[x.to] EXCEPT ![m] = k] \in [Methods -> ServerStates]
              /\ \A n \in Methods : [server[x.to] EXCEPT ![m] = k][n] = IF n = m THEN k ELSE server[x.to][n]
         /\ server[x.to] \in [Methods -> ServerStates]
         /\ client[x.to] \in [Methods -> ClientStates]
         /\ dlg[x.to] \in DialogType /\ server[x.to][m] = "none" /\ m \in Methods
BY Arrives DEF NewRequest, UserOf, DialogsInv, TypeOK, ClientStates, ServerStates, UserType

LEMMA ReplyIs ==
  ASSUME NEW d \in Sides, NEW k \in Kinds, NEW m \in Methods
  PROVE  /\ Reply(d, k, m) \in Messages /\ Reply(d, k, m).to = Peer(d)
         /\ Reply(d, k, m).kind = k /\ Reply(d, k, m).method = m
BY PeerIs DEF Reply, Sent, Messages, MaxRSeq

LEMMA RingsIs ==
  ASSUME NEW r \in DialogType, mode.rel \in BOOLEAN
  PROVE  LET y == Rings("b", r, mode.rel) IN
         /\ y \in Messages /\ y.to = "a" /\ y.method = "INVITE"
         /\ y.kind = IF mode.rel THEN "1xxrel" ELSE "1xx"
         /\ y.kind = "1xxrel" => y.rseq = r.rseq
BY PeerIs DEF Rings, Sent, Messages, DialogType, MaxRSeq, Kinds, Methods, Sides

LEMMA RingbackIs ==
  ASSUME NEW q \in DialogType, mode.rel \in BOOLEAN
  PROVE  LET r == Ringback(q, mode.rel) IN
         /\ r \in DialogType /\ r.fsm = q.fsm /\ r.state = q.state /\ r.rseq = q.rseq
         /\ r.rsvp = q.rsvp /\ r.refresh = q.refresh /\ r.closing = q.closing
         /\ r.why = q.why /\ r.races = q.races
         /\ IF mode.rel THEN r.sent = q.rseq /\ r.resends = 0 /\ r.rel = q.rel \cup {"armed"}
            ELSE r = q
<1>1. CASE mode.rel
  <2>1. q.rseq \in 0..MaxRSeq /\ q.rel \cup {"armed"} \in SUBSET {"armed", "raised"} /\ 0 \in 0..MaxResends
    BY InviteDialogAssumption DEF DialogType
  <2>2. Ringback(q, mode.rel) = [q EXCEPT !.sent = q.rseq, !.rel = q.rel \cup {"armed"}, !.resends = 0]
    BY <1>1 DEF Ringback, DialogType
  <2> QED BY <1>1, <2>1, <2>2 DEF DialogType
<1>2. CASE ~mode.rel
  BY <1>2 DEF Ringback
<1> QED BY <1>1, <1>2

LEMMA Cancel100relIs ==
  ASSUME NEW q \in DialogType
  PROVE  LET r == Cancel100rel(q) IN
         /\ r \in DialogType /\ r.fsm = q.fsm /\ r.state = q.state /\ r.rseq = q.rseq
         /\ r.rsvp = q.rsvp /\ r.refresh = q.refresh /\ r.closing = q.closing
         /\ r.why = q.why /\ r.sent = q.sent /\ r.resends = q.resends
         /\ q.races \subseteq r.races
         /\ r.rel \subseteq q.rel /\ (r.rel # {} => "late" \in r.races) /\ (q.rel = {} => r.rel = {})
<1> DEFINE rel == q.rel \ {"armed"}
           races == q.races \cup IF "raised" \in q.rel THEN {"late"} ELSE {}
<1>1. rel \in SUBSET {"armed", "raised"} /\ races \in SUBSET Races
  BY DEF DialogType, Races
<1>2. Cancel100rel(q) = [q EXCEPT !.rel = rel, !.races = races]
  BY DEF Cancel100rel, DialogType
<1>3. q.races \subseteq races /\ rel \subseteq q.rel /\ (rel # {} => "late" \in races)
  BY DEF DialogType
<1> HIDE DEF rel, races
<1>4. [q EXCEPT !.rel = rel, !.races = races] \in DialogType
  BY <1>1 DEF DialogType
<1>5. LET r == [q EXCEPT !.rel = rel, !.races = races] IN
      /\ r.fsm = q.fsm /\ r.state = q.state /\ r.rseq = q.rseq
      /\ r.rsvp = q.rsvp /\ r.refresh = q.refresh /\ r.closing = q.closing
      /\ r.why = q.why /\ r.sent = q.sent /\ r.resends = q.resends /\ r.rel = rel /\ r.races = races
  BY DEF DialogType
<1> QED BY <1>2, <1>3, <1>4, <1>5

LEMMA ModeIs ==
  ASSUME DialogsInv
  PROVE  mode \in ModeType /\ mode.rel \in BOOLEAN /\ (mode.qos # "none" => mode.rel)
BY InviteDialogAssumption DEF DialogsInv, TypeOK, ModeType

LEMMA InviteArrives ==
  ASSUME DialogsInv, NEW x \in net, Started_iINVITE(x)
  PROVE  DialogsInv'
<1> DEFINE new == [Fresh EXCEPT !.state = "established", !.rseq = IF mode.rel THEN 1 ELSE 0,
                           !.fsm = IF mode.qos = "none" THEN "Ringing" ELSE "InProgress"]
           r == Ringback(new, mode.rel)
           y == Rings("b", r, mode.rel)
           s(k) == [server["b"] EXCEPT !["INVITE"] = k]
<1>1. x.to = "b" /\ NewRequest(x, "INVITE") /\ B.fsm = "Started"
  BY DEF Started_iINVITE, Is, B
<1>2. /\ UserOf("b") /\ user' = user /\ x.kind = "request" /\ x.method = "INVITE"
      /\ \A k \in ServerStates :
              /\ s(k) \in [Methods -> ServerStates]
              /\ \A n \in Methods : s(k)[n] = IF n = "INVITE" THEN k ELSE server["b"][n]
      /\ client["b"] \in [Methods -> ClientStates]
  BY <1>1, RequestActs DEF Started_iINVITE
<1> HIDE DEF s
<1>3. mode.rel \in BOOLEAN /\ (mode.qos # "none" => mode.rel)
  BY ModeIs
<1>4. B = Fresh /\ ~Accepted /\ user["b"].hangup = "no" /\ A.fsm # "Started"
      /\ \A m \in Methods : client["b"][m] = "none" /\ server["b"][m] = "none"
  BY <1>1, Known, Arrives DEF Side, Callee, Undecided, Accepted
<1>5. /\ new \in DialogType /\ new.fsm = (IF mode.qos = "none" THEN "Ringing" ELSE "InProgress")
      /\ new.state = "established" /\ new.rseq = (IF mode.rel THEN 1 ELSE 0) /\ new.sent = 0
      /\ new.rel = {} /\ new.resends = 0 /\ new.rsvp = "none" /\ new.refresh = FALSE
      /\ new.closing = FALSE /\ new.why = "none" /\ new.races = {}
  <2>1. 0 \in 0..MaxResends /\ 0 \in 0..MaxRSeq /\ 1 \in 0..MaxRSeq
    BY InviteDialogAssumption DEF MaxRSeq
  <2>2. Fresh \in DialogType
    BY <2>1 DEF Fresh, DialogType, FsmStates
  <2>3. {"Ringing", "InProgress"} \subseteq FsmStates
    BY DEF FsmStates
  <2>4. new \in DialogType /\ new.fsm = (IF mode.qos = "none" THEN "Ringing" ELSE "InProgress")
        /\ new.state = "established" /\ new.rseq = (IF mode.rel THEN 1 ELSE 0)
        /\ \A f \in {"sent", "rel", "resends", "rsvp", "refresh", "closing", "why", "races"} : new[f] = Fresh[f]
    BY <1>3, <2>1, <2>2, <2>3 DEF DialogType
  <2> HIDE DEF new
  <2> QED BY <2>4 DEF Fresh
<1>6. Fresh.sent = 0 /\ Fresh.rseq = 0 /\ Fresh.races = {} /\ Fresh.fsm = "Started"
  BY DEF Fresh
<1>7. After(client["b"], {}) = client["b"]
  BY <1>2, AfterIs
<1> HIDE DEF new
<1>8. CASE OnRequest(x, r, y, {})
  <2>1. /\ r \in DialogType /\ r.fsm = new.fsm /\ r.state = new.state /\ r.rseq = new.rseq
        /\ r.rsvp = new.rsvp /\ r.refresh = new.refresh /\ r.closing = new.closing
        /\ r.why = new.why /\ r.races = new.races
        /\ IF mode.rel THEN r.sent = new.rseq /\ r.resends = 0 /\ r.rel = new.rel \cup {"armed"}
           ELSE r = new
    BY <1>3, <1>5, RingbackIs
  <2> HIDE DEF r
  <2>2. /\ y \in Messages /\ y.to = "a" /\ y.method = "INVITE"
        /\ y.kind = IF mode.rel THEN "1xxrel" ELSE "1xx"
        /\ y.kind = "1xxrel" => y.rseq = r.rseq
    BY <1>3, <2>1, RingsIs
  <2> HIDE DEF y
  <2>3. y.kind \in ServerStates /\ y.kind \notin {"none", "trying", "acked", "2xx", "final"}
    BY <2>2 DEF ServerStates
  <2>4. Act("b", r, {x}, client["b"], s(y.kind), {}, {y})
    BY <1>1, <1>2, <1>8 DEF OnRequest, s
  <2>5. MaxResends \in Nat \ {0}
    BY InviteDialogAssumption
  <2>6. Side(r, client["b"], s(y.kind), user["b"])
    BY <1>2, <1>4, <1>5, <2>1, <2>2, <2>3, <2>5 DEF Side, Methods, Invites
  <2>7. Callee(r, client["b"], s(y.kind), user["b"])
    BY <1>2, <1>3, <1>4, <1>5, <2>1, <2>2, <2>3 DEF Callee, InCall, Undecided, Methods, Invites, Accepted
  <2>8. CalleeFits(r, client["b"], s(y.kind), user'["b"], {})
    BY <1>1, <1>2, <1>4, <1>5, <1>6, <1>7, <2>1, <2>2, <2>3, <2>6, <2>7 DEF CalleeFits, Methods, Accepted, InCall
  <2>9. CalleeSays(y, r, user'["b"])
    BY <1>3, <1>5, <2>1, <2>2 DEF CalleeSays
  <2> QED BY <1>2, <2>1, <2>2, <2>3, <2>4, <2>8, <2>9, CalleeActs
<1>9. CASE OnRequest(x, Ended(new, "error"), Reply("b", "final", "INVITE"), {})
  <2>1. /\ Reply("b", "final", "INVITE") \in Messages /\ Reply("b", "final", "INVITE").to = "a"
        /\ Reply("b", "final", "INVITE").kind = "final" /\ Reply("b", "final", "INVITE").method = "INVITE"
    BY ReplyIs, PeerIs DEF Sides, Kinds, Methods
  <2>2. Act("b", Ended(new, "error"), {x}, client["b"], s("final"), {}, {Reply("b", "final", "INVITE")})
    BY <1>1, <1>2, <1>9, <2>1 DEF OnRequest, s
  <2>3. CalleeMayEnd(new, "error", user'["b"])
    BY <1>1, <1>2, <1>3, <1>4, <1>5, <1>6 DEF CalleeMayEnd, Accepted
  <2>4. s("final") \in [Methods -> ServerStates]
    BY <1>2 DEF ServerStates
  <2>5. CalleeLeaves(Reply("b", "final", "INVITE")) /\ "error" \in Whys
    BY <2>1 DEF CalleeLeaves, Whys
  <2> QED BY <1>2, <1>5, <2>1, <2>2, <2>3, <2>4, <2>5, CalleeFinishes
<1> QED BY <1>8, <1>9 DEF Started_iINVITE, new, r, y

(* A dialog with another fsm, or another rseq.                             *)
LEMMA MovedTo ==
  ASSUME NEW q \in DialogType, NEW f \in FsmStates
  PROVE  LET r == [q EXCEPT !.fsm = f] IN
         /\ r \in DialogType /\ r.fsm = f /\ r.state = q.state /\ r.rseq = q.rseq
         /\ r.rsvp = q.rsvp /\ r.refresh = q.refresh /\ r.closing = q.closing
         /\ r.why = q.why /\ r.sent = q.sent /\ r.resends = q.resends /\ r.rel = q.rel /\ r.races = q.races
BY DEF DialogType

LEMMA Counted ==
  ASSUME NEW q \in DialogType, NEW n \in Nat, n <= MaxRSeq
  PROVE  LET r == [q EXCEPT !.rseq = n] IN
         /\ r \in DialogType /\ r.fsm = q.fsm /\ r.state = q.state /\ r.rseq = n
         /\ r.rsvp = q.rsvp /\ r.refresh = q.refresh /\ r.closing = q.closing
         /\ r.why = q.why /\ r.sent = q.sent /\ r.resends = q.resends /\ r.rel = q.rel /\ r.races = q.races
BY DEF DialogType, MaxRSeq

LEMMA Raced ==
  ASSUME NEW q \in DialogType, NEW race \in Races
  PROVE  LET r == [q EXCEPT !.races = @ \cup {race}] IN
         /\ r \in DialogType /\ r.fsm = q.fsm /\ r.state = q.state /\ r.rseq = q.rseq
         /\ r.rsvp = q.rsvp /\ r.refresh = q.refresh /\ r.closing = q.closing
         /\ r.why = q.why /\ r.sent = q.sent /\ r.resends = q.resends /\ r.rel = q.rel
         /\ r.races = q.races \cup {race}
BY DEF DialogType

(* A PRACK goes to the callee, which has sent what it acknowledges.        *)
LEMMA PrackIs ==
  ASSUME DialogsInv, NEW x \in net, NewRequest(x, "PRACK")
  PROVE  /\ x.to = "b" /\ server["b"]["PRACK"] = "none" /\ A.rseq # 0
         /\ B.rseq \in Nat /\ B.sent \in Nat /\ B.sent <= 3
         /\ PrackMatches(x) => B.rseq = B.sent /\ B.sent # 0
<1>1. x.method = "PRACK" /\ x.kind = "request" /\ server[x.to]["PRACK"] = "none"
  BY DEF NewRequest
<1>2. x.to = "b" /\ A.rseq # 0 /\ x.rseq <= A.rseq /\ x.rseq \in Nat
  BY <1>1, Arrives DEF Sound
<1>3. A.rseq <= B.sent /\ B.sent <= B.rseq /\ A.rseq \in Nat /\ B.rseq \in Nat /\ B.sent \in Nat /\ B.sent <= 3
  BY Known DEF PairInv, Callee
<1> QED BY <1>1, <1>2, <1>3 DEF PrackMatches, B

LEMMA PrackInProgress ==
  ASSUME DialogsInv, NEW x \in net, InProgress_iPRACK(x)
  PROVE  DialogsInv'
<1> DEFINE q == Cancel100rel(B)
           s(k) == [server["b"] EXCEPT !["PRACK"] = k]
           answer == Reply("b", "2xx", "PRACK")
<1>1. x.to = "b" /\ NewRequest(x, "PRACK") /\ B.fsm = "InProgress"
  BY PrackIs DEF InProgress_iPRACK, Is, B
<1>2. /\ UserOf("b") /\ user' = user
      /\ s("2xx") \in [Methods -> ServerStates]
      /\ \A n \in Methods : s("2xx")[n] = IF n = "PRACK" THEN "2xx" ELSE server["b"][n]
      /\ client["b"] \in [Methods -> ClientStates] /\ B \in DialogType
  BY <1>1, RequestActs DEF InProgress_iPRACK, ServerStates, B
<1>3. CalleeFits(B, client["b"], server["b"], user["b"], {}) /\ After(client["b"], {}) = client["b"]
  BY <1>1, <1>2, CalleeStands, Known, AfterIs
<1>4. answer \in Messages /\ answer.to = "a" /\ answer.kind = "2xx" /\ answer.method = "PRACK"
  BY ReplyIs, PeerIs DEF Sides, Kinds, Methods
<1>5. /\ q \in DialogType /\ q.fsm = B.fsm /\ q.state = B.state /\ q.rseq = B.rseq
      /\ q.rsvp = B.rsvp /\ q.refresh = B.refresh /\ q.closing = B.closing
      /\ q.why = B.why /\ q.sent = B.sent /\ q.resends = B.resends
      /\ B.races \subseteq q.races /\ (q.rel # {} => "late" \in q.races)
  BY <1>2, Cancel100relIs
<1>6. B.sent = 1 /\ mode.rel = TRUE /\ ~Accepted /\ A.rseq # 0 /\ B.rseq \in Nat /\ B.rseq = 1
  BY <1>1, Known, PrackIs, ModeIs DEF Callee, Undecided, Accepted, PairInv
<1> HIDE DEF q, s, answer
<1>7. CASE /\ mode.qos = "mandatory"
           /\ Act("b", [q EXCEPT !.rseq = @ + 1], {x}, client["b"], s("2xx"), {}, {answer})
  <2> DEFINE r == [q EXCEPT !.rseq = 2]
  <2>1. r = [q EXCEPT !.rseq = @ + 1]
    BY <1>5, <1>6 DEF DialogType
  <2>2. /\ r \in DialogType /\ r.fsm = q.fsm /\ r.state = q.state /\ r.rseq = 2
        /\ r.rsvp = q.rsvp /\ r.refresh = q.refresh /\ r.closing = q.closing
        /\ r.why = q.why /\ r.sent = q.sent /\ r.resends = q.resends /\ r.rel = q.rel /\ r.races = q.races
    BY <1>5, Counted DEF MaxRSeq
  <2> HIDE DEF r
  <2>3. Side(r, client["b"], s("2xx"), user["b"])
    BY <1>1, <1>2, <1>3, <1>5, <2>2 DEF CalleeFits, Side, Methods, Invites
  <2>4. Callee(r, client["b"], s("2xx"), user["b"])
    BY <1>1, <1>2, <1>3, <1>5, <1>6, <1>7, <2>2 DEF CalleeFits, Callee, InCall, Undecided, Methods
  <2>5. CalleeFits(r, client["b"], s("2xx"), user'["b"], {})
    BY <1>1, <1>2, <1>3, <1>5, <1>6, <2>2, <2>3, <2>4 DEF CalleeFits, Methods, InCall
  <2>6. CalleeSays(answer, r, user'["b"])
    BY <1>4 DEF CalleeSays
  <2> QED BY <1>2, <1>4, <1>7, <2>1, <2>2, <2>5, <2>6, CalleeActs
<1>8. CASE LET r == Ringback([q EXCEPT !.fsm = "Ringing", !.rseq = @ + 2], mode.rel) IN
           Act("b", r, {x}, client["b"], s("2xx"), {}, {answer} \cup {Rings("b", r, mode.rel)})
  <2> DEFINE p == [q EXCEPT !.fsm = "Ringing", !.rseq = @ + 2]
             r == Ringback(p, mode.rel)
             y == Rings("b", r, mode.rel)
  <2>1. /\ p \in DialogType /\ p.fsm = "Ringing" /\ p.state = q.state /\ p.rseq = 3
        /\ p.rsvp = q.rsvp /\ p.refresh = q.refresh /\ p.closing = q.closing
        /\ p.why = q.why /\ p.sent = q.sent /\ p.resends = q.resends /\ p.rel = q.rel /\ p.races = q.races
    <3> DEFINE p1 == [q EXCEPT !.fsm = "Ringing"]
    <3>1. p = [p1 EXCEPT !.rseq = 3]
      BY <1>5, <1>6 DEF DialogType
    <3>2. "Ringing" \in FsmStates /\ 3 <= MaxRSeq
      BY DEF FsmStates, MaxRSeq
    <3>3. /\ p1 \in DialogType /\ p1.fsm = "Ringing" /\ p1.state = q.state
          /\ p1.rsvp = q.rsvp /\ p1.refresh = q.refresh /\ p1.closing = q.closing
          /\ p1.why = q.why /\ p1.sent = q.sent /\ p1.resends = q.resends /\ p1.rel = q.rel /\ p1.races = q.races
      BY <1>5, <3>2, MovedTo
    <3> HIDE DEF p, p1
    <3> QED BY <3>1, <3>2, <3>3, Counted
  <2> HIDE DEF p
  <2>2. /\ r \in DialogType /\ r.fsm = p.fsm /\ r.state = p.state /\ r.rseq = p.rseq
        /\ r.rsvp = p.rsvp /\ r.refresh = p.refresh /\ r.closing = p.closing
        /\ r.why = p.why /\ r.races = p.races /\ r.sent = p.rseq /\ r.resends = 0
    BY <1>6, <2>1, RingbackIs
  <2> HIDE DEF r
  <2>3. y \in Messages /\ y.to = "a" /\ y.method = "INVITE" /\ y.kind = "1xxrel" /\ y.rseq = r.rseq
    BY <1>6, <2>2, RingsIs
  <2>4. Act("b", r, {x}, client["b"], s("2xx"), {}, {answer, y})
    BY <1>8 DEF r, p
  <2> HIDE DEF y
  <2>5. Side(r, client["b"], s("2xx"), user["b"])
    BY <1>1, <1>2, <1>3, <1>5, <2>1, <2>2, InviteDialogAssumption DEF CalleeFits, Side, Methods, Invites
  <2>6. Callee(r, client["b"], s("2xx"), user["b"])
    BY <1>1, <1>2, <1>3, <1>5, <1>6, <2>1, <2>2 DEF CalleeFits, Callee, InCall, Undecided, Methods, Accepted
  <2>7. CalleeFits(r, client["b"], s("2xx"), user'["b"], {})
    BY <1>1, <1>2, <1>3, <1>5, <1>6, <2>1, <2>2, <2>5, <2>6 DEF CalleeFits, Methods, InCall
  <2>8. CalleeSays(answer, r, user'["b"]) /\ CalleeSays(y, r, user'["b"])
    BY <1>4, <2>1, <2>2, <2>3 DEF CalleeSays
  <2> QED BY <1>2, <1>4, <2>2, <2>3, <2>4, <2>7, <2>8, CalleeActs
<1> QED
  <2>1. CASE OnRequest(x, [q EXCEPT !.rseq = @ + 1], answer, {}) /\ mode.qos = "mandatory"
    <3> DEFINE r == [q EXCEPT !.rseq = @ + 1]
    <3> HIDE DEF r
    <3>1. Act("b", r, {x}, client["b"], s("2xx"), {}, {answer} \cup {})
      BY <1>1, <1>4, <2>1 DEF s, r, OnRequest, NewRequest
    <3> QED BY <1>7, <2>1, <3>1 DEF r
  <2>2. CASE LET r == Ringback([q EXCEPT !.fsm = "Ringing", !.rseq = @ + 2], mode.rel) IN
             OnRequest(x, r, answer, {Rings("b", r, mode.rel)})
    <3> DEFINE r == Ringback([q EXCEPT !.fsm = "Ringing", !.rseq = @ + 2], mode.rel)
    <3> HIDE DEF r
    <3>1. Act("b", r, {x}, client["b"], s("2xx"), {}, {answer} \cup {Rings("b", r, mode.rel)})
      <4>1. OnRequest(x, r, answer, {Rings("b", r, mode.rel)})
        BY <2>2 DEF r
      <4> QED BY <1>1, <1>4, <4>1 DEF s, OnRequest, NewRequest
    <3> QED BY <1>8, <3>1 DEF r
  <2> QED BY <1>1, <2>1, <2>2 DEF InProgress_iPRACK, q, answer, B

LEMMA PrackRinging ==
  ASSUME DialogsInv, NEW x \in net, Ringing_iPRACK(x)
  PROVE  DialogsInv'
<1> DEFINE q == Cancel100rel(B)
           r == [q EXCEPT !.rseq = @ + 1]
           s == [server["b"] EXCEPT !["PRACK"] = "2xx"]
           answer == Reply("b", "2xx", "PRACK")
<1>1. x.to = "b" /\ NewRequest(x, "PRACK") /\ B.fsm = "Ringing" /\ B.rseq = B.sent /\ B.sent <= 3 /\ B.sent \in Nat
  BY PrackIs DEF Ringing_iPRACK, Is, B
<1>2. /\ UserOf("b") /\ user' = user
      /\ s \in [Methods -> ServerStates]
      /\ \A n \in Methods : s[n] = IF n = "PRACK" THEN "2xx" ELSE server["b"][n]
      /\ client["b"] \in [Methods -> ClientStates] /\ B \in DialogType
  BY <1>1, RequestActs DEF Ringing_iPRACK, ServerStates, B
<1>3. CalleeFits(B, client["b"], server["b"], user["b"], {}) /\ After(client["b"], {}) = client["b"]
  BY <1>1, <1>2, CalleeStands, Known, AfterIs
<1>4. answer \in Messages /\ answer.to = "a" /\ answer.kind = "2xx" /\ answer.method = "PRACK"
  BY ReplyIs, PeerIs DEF Sides, Kinds, Methods
<1>5. /\ q \in DialogType /\ q.fsm = B.fsm /\ q.state = B.state /\ q.rseq = B.rseq
      /\ q.rsvp = B.rsvp /\ q.refresh = B.refresh /\ q.closing = B.closing
      /\ q.why = B.why /\ q.sent = B.sent /\ q.resends = B.resends
      /\ B.races \subseteq q.races /\ (q.rel # {} => "late" \in q.races)
  BY <1>2, Cancel100relIs
<1>6. Act("b", r, {x}, client["b"], s, {}, {answer} \cup {})
  <2>1. OnRequest(x, r, answer, {})
    BY <1>1 DEF Ringing_iPRACK, B
  <2> HIDE DEF r, answer
  <2> QED BY <1>1, <1>4, <2>1 DEF OnRequest, NewRequest
<1> HIDE DEF q
<1>7. /\ r \in DialogType /\ r.fsm = q.fsm /\ r.state = q.state /\ r.rseq = B.sent + 1
      /\ r.rsvp = q.rsvp /\ r.refresh = q.refresh /\ r.closing = q.closing
      /\ r.why = q.why /\ r.sent = q.sent /\ r.resends = q.resends /\ r.rel = q.rel /\ r.races = q.races
  <2>1. r = [q EXCEPT !.rseq = B.sent + 1] /\ B.sent + 1 \in Nat /\ B.sent + 1 <= MaxRSeq
    BY <1>1, <1>5 DEF MaxRSeq, DialogType
  <2> HIDE DEF r
  <2> QED BY <1>5, <2>1, Counted
<1> HIDE DEF r, s, answer
<1>8. Side(r, client["b"], s, user["b"])
  BY <1>1, <1>2, <1>3, <1>5, <1>7 DEF CalleeFits, Side, Methods, Invites
<1>9. Callee(r, client["b"], s, user["b"])
  BY <1>1, <1>2, <1>3, <1>5, <1>7 DEF CalleeFits, Callee, InCall, Undecided, Methods
<1>10. CalleeFits(r, client["b"], s, user'["b"], {})
  BY <1>1, <1>2, <1>3, <1>5, <1>7, <1>8, <1>9 DEF CalleeFits, Methods, InCall
<1>11. CalleeSays(answer, r, user'["b"])
  BY <1>4 DEF CalleeSays
<1> QED BY <1>2, <1>4, <1>6, <1>7, <1>10, <1>11, CalleeActs

LEMMA PrackLater ==
  ASSUME DialogsInv, NEW x \in net, Any_iPRACK(x)
  PROVE  DialogsInv'
<1> DEFINE s(k) == [server["b"] EXCEPT !["PRACK"] = k]
           answer(k) == Reply("b", k, "PRACK")
<1>1. /\ x.to = "b" /\ NewRequest(x, "PRACK") /\ B.fsm \notin {"Started", "Terminated"}
      /\ B.sent <= 3 /\ B.sent \in Nat
      /\ B.fsm = "InProgress" => mode.qos # "mandatory"
  BY PrackIs DEF Any_iPRACK, Is, Lives, B
<1>2. /\ UserOf("b") /\ user' = user
      /\ \A k \in {"2xx", "final"} :
           /\ s(k) \in [Methods -> ServerStates]
           /\ \A n \in Methods : s(k)[n] = IF n = "PRACK" THEN k ELSE server["b"][n]
      /\ client["b"] \in [Methods -> ClientStates] /\ B \in DialogType
  BY <1>1, RequestActs DEF Any_iPRACK, ServerStates, B
<1>3. CalleeFits(B, client["b"], server["b"], user["b"], {}) /\ After(client["b"], {}) = client["b"]
  BY <1>1, <1>2, CalleeStands, Known, AfterIs
<1>4. \A k \in {"2xx", "final"} :
        answer(k) \in Messages /\ answer(k).to = "a" /\ answer(k).kind = k /\ answer(k).method = "PRACK"
  BY ReplyIs, PeerIs DEF Sides, Kinds, Methods
<1>5. CASE PrackMatches(x)
  <2> DEFINE r == [B EXCEPT !.rseq = @ + 1]
  <2>1. B.rseq = B.sent /\ B.fsm \notin {"InProgress", "Ringing"}
    BY <1>1, <1>5, PrackIs DEF Any_iPRACK, Is, B
  <2>2. Act("b", r, {x}, client["b"], s("2xx"), {}, {answer("2xx")} \cup {})
    <3>1. OnRequest(x, r, answer("2xx"), {})
      BY <1>1, <1>5 DEF Any_iPRACK, B
    <3> HIDE DEF r, answer
    <3> QED BY <1>1, <1>4, <3>1 DEF OnRequest, NewRequest
  <2>3. /\ r \in DialogType /\ r.fsm = B.fsm /\ r.state = B.state /\ r.rseq = B.sent + 1
        /\ r.rsvp = B.rsvp /\ r.refresh = B.refresh /\ r.closing = B.closing
        /\ r.why = B.why /\ r.sent = B.sent /\ r.resends = B.resends /\ r.rel = B.rel /\ r.races = B.races
    <3>1. r = [B EXCEPT !.rseq = B.sent + 1] /\ B.sent + 1 \in Nat /\ B.sent + 1 <= MaxRSeq
      BY <1>1, <1>2, <2>1 DEF MaxRSeq, DialogType
    <3> HIDE DEF r
    <3> QED BY <1>2, <3>1, Counted
  <2> HIDE DEF r, s, answer
  <2>4. Side(r, client["b"], s("2xx"), user["b"])
    BY <1>1, <1>2, <1>3, <2>3 DEF CalleeFits, Side, Methods, Invites
  <2>5. Callee(r, client["b"], s("2xx"), user["b"])
    <3>1. B.fsm = "Trying" \/ B.fsm \in InCall
      BY <1>1, <1>2, <1>3, <2>1 DEF CalleeFits, Callee, DialogType, FsmStates, InCall
    <3> QED BY <1>1, <1>2, <1>3, <2>1, <2>3, <3>1 DEF CalleeFits, Callee, InCall, Undecided, Methods
  <2>6. CalleeFits(r, client["b"], s("2xx"), user'["b"], {})
    BY <1>1, <1>2, <1>3, <2>1, <2>3, <2>4, <2>5 DEF CalleeFits, Methods, InCall
  <2>7. CalleeSays(answer("2xx"), r, user'["b"])
    BY <1>4 DEF CalleeSays
  <2> QED BY <1>2, <1>4, <2>2, <2>3, <2>6, <2>7, CalleeActs
<1>6. CASE ~PrackMatches(x)
  <2>1. Act("b", B, {x}, client["b"], s("final"), {}, {answer("final")} \cup {})
    <3>1. OnRequest(x, B, answer("final"), {})
      BY <1>1, <1>6 DEF Any_iPRACK, B
    <3> HIDE DEF answer
    <3> QED BY <1>1, <1>4, <3>1 DEF OnRequest, NewRequest
  <2> HIDE DEF s, answer
  <2>2. Side(B, client["b"], s("final"), user["b"])
    BY <1>1, <1>2, <1>3 DEF CalleeFits, Side, Methods, Invites
  <2>3. Callee(B, client["b"], s("final"), user["b"])
    BY <1>1, <1>2, <1>3 DEF CalleeFits, Callee, InCall, Undecided, Methods
  <2>4. CalleeFits(B, client["b"], s("final"), user'["b"], {})
    BY <1>1, <1>2, <1>3, <2>2, <2>3 DEF CalleeFits, Methods, InCall
  <2>5. CalleeSays(answer("final"), B, user'["b"])
    BY <1>4 DEF CalleeSays
  <2> QED BY <1>2, <1>4, <2>1, <2>4, <2>5, CalleeActs
<1> QED BY <1>5, <1>6

(* Only the callee is InProgress; an UPDATE that meets the preconditions   *)
(* makes it ring, with a response that is new.                             *)
LEMMA UpdateInProgress ==
  ASSUME DialogsInv, NEW x \in net, InProgress_iUPDATE(x)
  PROVE  DialogsInv'
<1> DEFINE s == [server["b"] EXCEPT !["UPDATE"] = "2xx"]
           p == With("b", "Ringing")
           r == Ringback(p, mode.rel)
           y == Rings("b", r, mode.rel)
           answer == Reply("b", "2xx", "UPDATE")
<1>1. x.to = "b" /\ NewRequest(x, "UPDATE") /\ B.fsm = "InProgress"
  BY Arrives, Known DEF InProgress_iUPDATE, Is, A, B, Caller
<1>2. /\ UserOf("b") /\ user' = user
      /\ s \in [Methods -> ServerStates]
      /\ \A n \in Methods : s[n] = IF n = "UPDATE" THEN "2xx" ELSE server["b"][n]
      /\ client["b"] \in [Methods -> ClientStates] /\ B \in DialogType
  BY <1>1, RequestActs DEF InProgress_iUPDATE, ServerStates, B
<1>3. CalleeFits(B, client["b"], server["b"], user["b"], {}) /\ After(client["b"], {}) = client["b"]
  BY <1>1, <1>2, CalleeStands, Known, AfterIs
<1>4. answer \in Messages /\ answer.to = "a" /\ answer.kind = "2xx" /\ answer.method = "UPDATE"
  BY ReplyIs, PeerIs DEF Sides, Kinds, Methods
<1>5. B.sent = 1 /\ mode.rel = TRUE /\ ~Accepted /\ B.rseq \in Nat /\ B.rseq \in {1, 2}
  BY <1>1, Known, ModeIs DEF Callee, Undecided, Accepted
<1>6. \/ Act("b", r, {x}, client["b"], s, {}, {answer} \cup {y})
      \/ Act("b", B, {x}, client["b"], s, {}, {answer} \cup {})
  <2>1. \/ OnRequest(x, r, answer, {y})
        \/ OnRequest(x, B, answer, {})
    BY <1>1 DEF InProgress_iUPDATE, B
  <2> HIDE DEF r, y, answer
  <2> QED BY <1>1, <1>4, <2>1 DEF OnRequest, NewRequest
<1>7. /\ p \in DialogType /\ p.fsm = "Ringing" /\ p.state = B.state /\ p.rseq = B.rseq
      /\ p.rsvp = B.rsvp /\ p.refresh = B.refresh /\ p.closing = B.closing
      /\ p.why = B.why /\ p.sent = B.sent /\ p.resends = B.resends /\ p.rel = B.rel /\ p.races = B.races
  <2>1. p = [B EXCEPT !.fsm = "Ringing"] /\ "Ringing" \in FsmStates
    BY DEF With, B, FsmStates
  <2> HIDE DEF p
  <2> QED BY <1>2, <2>1, MovedTo
<1> HIDE DEF p
<1>8. /\ r \in DialogType /\ r.fsm = p.fsm /\ r.state = p.state /\ r.rseq = p.rseq
      /\ r.rsvp = p.rsvp /\ r.refresh = p.refresh /\ r.closing = p.closing
      /\ r.why = p.why /\ r.races = p.races /\ r.sent = p.rseq /\ r.resends = 0
  BY <1>5, <1>7, RingbackIs
<1> HIDE DEF r
<1>9. y \in Messages /\ y.to = "a" /\ y.method = "INVITE" /\ y.kind = "1xxrel" /\ y.rseq = r.rseq
  BY <1>5, <1>8, RingsIs
<1> HIDE DEF y, s, answer
<1>10. CASE Act("b", r, {x}, client["b"], s, {}, {answer} \cup {y})
  <2>1. Side(r, client["b"], s, user["b"])
    BY <1>1, <1>2, <1>3, <1>7, <1>8, InviteDialogAssumption DEF CalleeFits, Side, Methods, Invites
  <2>2. Callee(r, client["b"], s, user["b"])
    BY <1>1, <1>2, <1>3, <1>5, <1>7, <1>8 DEF CalleeFits, Callee, InCall, Undecided, Methods, Accepted
  <2>3. CalleeFits(r, client["b"], s, user'["b"], {})
    BY <1>1, <1>2, <1>3, <1>5, <1>7, <1>8, <2>1, <2>2 DEF CalleeFits, Methods, InCall
  <2>4. CalleeSays(answer, r, user'["b"]) /\ CalleeSays(y, r, user'["b"])
    BY <1>4, <1>5, <1>7, <1>8, <1>9 DEF CalleeSays
  <2> QED BY <1>2, <1>4, <1>8, <1>9, <1>10, <2>3, <2>4, CalleeActs
<1>11. CASE Act("b", B, {x}, client["b"], s, {}, {answer} \cup {})
  <2>1. Side(B, client["b"], s, user["b"])
    BY <1>1, <1>2, <1>3 DEF CalleeFits, Side, Methods, Invites
  <2>2. Callee(B, client["b"], s, user["b"])
    BY <1>1, <1>2, <1>3 DEF CalleeFits, Callee, InCall, Undecided, Methods
  <2>3. CalleeFits(B, client["b"], s, user'["b"], {})
    BY <1>1, <1>2, <1>3, <2>1, <2>2 DEF CalleeFits, Methods, InCall
  <2>4. CalleeSays(answer, B, user'["b"])
    BY <1>4 DEF CalleeSays
  <2> QED BY <1>2, <1>4, <1>11, <2>3, <2>4, CalleeActs
<1> QED BY <1>6, <1>10, <1>11

LEMMA SessionModified ==
  ASSUME DialogsInv, NEW x \in net, Connected_iINVITEorUPDATE(x)
  PROVE  DialogsInv'
<1> DEFINE d == x.to
           r == IF Is(d, {"Connected"}) THEN Refreshed(dlg[d]) ELSE dlg[d]
           s == [server[d] EXCEPT ![x.method] = "2xx"]
           answer == Reply(d, "2xx", x.method)
<1>1. /\ x.method \in {"reINVITE", "UPDATE"} /\ NewRequest(x, x.method)
      /\ dlg[d].fsm \in {"Connected", "Outgoing"}
  BY DEF Connected_iINVITEorUPDATE, NewRequest, Is
<1>2. /\ UserOf(d) /\ user' = user /\ x.kind = "request"
      /\ s \in [Methods -> ServerStates]
      /\ \A n \in Methods : s[n] = IF n = x.method THEN "2xx" ELSE server[d][n]
      /\ client[d] \in [Methods -> ClientStates] /\ dlg[d] \in DialogType
  BY <1>1, RequestActs DEF Connected_iINVITEorUPDATE, ServerStates
<1>3. answer \in Messages /\ answer.to = Peer(d) /\ answer.kind = "2xx" /\ answer.method = x.method
  BY <1>1, ReplyIs, Arrives DEF Kinds, Methods
<1>4. Act(d, r, {x}, client[d], s, {}, {answer} \cup {})
  <2>1. OnRequest(x, r, answer, {})
    BY DEF Connected_iINVITEorUPDATE
  <2> HIDE DEF r, answer
  <2> QED BY <1>1, <1>3, <2>1 DEF OnRequest
<1>5. /\ r \in DialogType /\ r.fsm = dlg[d].fsm /\ r.state = dlg[d].state /\ r.rseq = dlg[d].rseq
      /\ r.rsvp = dlg[d].rsvp /\ r.closing = dlg[d].closing
      /\ r.why = dlg[d].why /\ r.sent = dlg[d].sent /\ r.resends = dlg[d].resends
      /\ r.rel = dlg[d].rel /\ r.races = dlg[d].races
      /\ dlg[d].fsm # "Connected" => r.refresh = dlg[d].refresh
  BY <1>2 DEF Refreshed, DialogType, Is
<1>6. x.method = "reINVITE" /\ dlg[d].fsm # "Terminated" /\ dlg[Peer(d)].fsm # "Terminated"
       => client[Peer(d)]["reINVITE"] # "none"
  BY <1>2, Arrives DEF Sound
<1> HIDE DEF r, s, answer
<1>7. CASE d = "a"
  <2>1. CallerFits(A, client["a"], server["a"], user["a"], {}) /\ After(client["a"], {}) = client["a"]
    BY <1>1, <1>2, <1>7, CallerStands, Known, AfterIs DEF A
  <2>2. Side(r, client["a"], s, user["a"])
    BY <1>1, <1>2, <1>5, <1>7, <2>1 DEF CallerFits, Side, Methods, Invites, A
  <2>3. Caller(r, client["a"], s, user["a"])
    BY <1>1, <1>2, <1>5, <1>7, <2>1 DEF CallerFits, Caller, Methods, InCall, A
  <2>4. CallerFits(r, client["a"], s, user'["a"], {})
    BY <1>1, <1>2, <1>5, <1>6, <1>7, <2>1, <2>2, <2>3, PeerIs DEF CallerFits, Methods, InCall, A, B
  <2>5. CallerSays(answer, After(client["a"], {}))
    BY <1>1, <1>3, <1>7, PeerIs DEF CallerSays
  <2> QED BY <1>2, <1>3, <1>4, <1>5, <1>7, <2>4, <2>5, CallerActs
<1>8. CASE d = "b"
  <2>1. CalleeFits(B, client["b"], server["b"], user["b"], {}) /\ After(client["b"], {}) = client["b"]
    BY <1>1, <1>2, <1>8, CalleeStands, Known, AfterIs DEF B
  <2>2. Side(r, client["b"], s, user["b"])
    BY <1>1, <1>2, <1>5, <1>8, <2>1 DEF CalleeFits, Side, Methods, Invites, B
  <2>3. Callee(r, client["b"], s, user["b"])
    BY <1>1, <1>2, <1>5, <1>8, <2>1 DEF CalleeFits, Callee, InCall, Undecided, Methods, B
  <2>4. CalleeFits(r, client["b"], s, user'["b"], {})
    BY <1>1, <1>2, <1>5, <1>6, <1>8, <2>1, <2>2, <2>3, PeerIs DEF CalleeFits, Methods, InCall, A, B
  <2>5. CalleeSays(answer, r, user'["b"])
    BY <1>1, <1>3, <1>8, PeerIs DEF CalleeSays
  <2> QED BY <1>2, <1>3, <1>4, <1>5, <1>8, <2>4, <2>5, CalleeActs
<1> QED BY <1>7, <1>8, Arrives

LEMMA CancelArrives ==
  ASSUME DialogsInv, NEW x \in net, Early_iCANCEL(x)
  PROVE  DialogsInv'
<1> DEFINE answer == Reply("b", "2xx", "CANCEL")
           final == Reply("b", "final", "INVITE")
<1>1. x.to = "b" /\ NewRequest(x, "CANCEL") /\ B.fsm \in {"InProgress", "Ringing"}
  BY Arrives, Known DEF Early_iCANCEL, Is, A, B, Caller
<1>2. /\ UserOf("b") /\ user' = user /\ x.method = "CANCEL"
      /\ server["b"] \in [Methods -> ServerStates]
      /\ client["b"] \in [Methods -> ClientStates] /\ B \in DialogType
  BY <1>1, RequestActs DEF Early_iCANCEL, B
<1>3. /\ answer \in Messages /\ answer.to = "a" /\ answer.kind = "2xx" /\ answer.method = "CANCEL"
      /\ final \in Messages /\ final.to = "a" /\ final.kind = "final" /\ final.method = "INVITE"
  BY ReplyIs, PeerIs DEF Sides, Kinds, Methods
<1>4. Act("b", Ended(B, "peer"), {x}, client["b"], server["b"], {}, {answer} \cup {final})
  BY <1>1, <1>2 DEF Early_iCANCEL, OnRequest, B
<1> HIDE DEF answer, final
<1>5. CalleeMayEnd(B, "peer", user'["b"])
  BY <1>1, <1>2, Known, Arrives DEF CalleeMayEnd, PairInv, Callee, Undecided, Accepted
<1>6. CalleeLeaves(answer) /\ CalleeLeaves(final) /\ "peer" \in Whys
  BY <1>3 DEF CalleeLeaves, Whys
<1> QED BY <1>2, <1>3, <1>4, <1>5, <1>6, CalleeFinishes

(* The dialog that has sent a BYE is in no call any more.                  *)
LEMMA ByeArrives ==
  ASSUME DialogsInv, NEW x \in net, Any_2_Terminated_iBYE(x)
  PROVE  DialogsInv'
<1> DEFINE d == x.to
           s == [server[d] EXCEPT !["BYE"] = "2xx"]
           answer == Reply(d, "2xx", "BYE")
<1>1. NewRequest(x, "BYE") /\ dlg[d].fsm \notin {"Started", "Terminated"}
  BY DEF Any_2_Terminated_iBYE, Lives, Is
<1>2. /\ UserOf(d) /\ user' = user /\ x.kind = "request" /\ x.method = "BYE"
      /\ s \in [Methods -> ServerStates]
      /\ client[d] \in [Methods -> ClientStates] /\ dlg[d] \in DialogType
  BY <1>1, RequestActs DEF Any_2_Terminated_iBYE, ServerStates
<1>3. answer \in Messages /\ answer.to = Peer(d) /\ answer.kind = "2xx" /\ answer.method = "BYE"
  BY <1>1, ReplyIs, Arrives DEF Kinds, Methods
<1>4. Act(d, Ended(dlg[d], "peer"), {x}, client[d], s, {}, {answer} \cup {})
  <2>1. OnRequest(x, Ended(dlg[d], "peer"), answer, {})
    BY DEF Any_2_Terminated_iBYE
  <2> HIDE DEF answer
  <2> QED BY <1>2, <1>3, <2>1 DEF OnRequest
<1> HIDE DEF s, answer
<1>5. dlg[Peer(d)].fsm \in {"Trying", "Terminated"}
  BY <1>2, Arrives DEF Sound
<1>6. CASE d = "a"
  <2>1. CallerMayEnd(A, "peer", user'["a"])
    BY <1>1, <1>2, <1>5, <1>6, Known, Arrives DEF CallerMayEnd, PairInv, Caller, InCall, A, B
  <2>2. CallerLeaves(answer) /\ "peer" \in Whys
    BY <1>3, <1>6, PeerIs DEF CallerLeaves, Whys
  <2> QED BY <1>2, <1>3, <1>4, <1>6, <2>1, <2>2, CallerFinishes DEF A
<1>7. CASE d = "b"
  <2>1. CalleeMayEnd(B, "peer", user'["b"])
    BY <1>1, <1>2, <1>5, <1>7, Known, Arrives DEF CalleeMayEnd, PairInv, Callee, InCall, A, B, Accepted
  <2>2. CalleeLeaves(answer) /\ "peer" \in Whys
    BY <1>3, <1>7, PeerIs DEF CalleeLeaves, Whys
  <2> QED BY <1>2, <1>3, <1>4, <1>7, <2>1, <2>2, CalleeFinishes DEF B
<1> QED BY <1>6, <1>7, Arrives

LEMMA RequestSwallowed ==
  ASSUME DialogsInv, NEW x \in net, SwallowedRequest(x)
  PROVE  DialogsInv'
<1> DEFINE d == x.to
           r == [dlg[d] EXCEPT !.races = @ \cup {"swallowed"}]
           k == IF x.method = "reINVITE" THEN "100" ELSE "trying"
           s == [server[d] EXCEPT ![x.method] = k]
           trying == Reply(d, "100", "reINVITE")
<1>1. /\ x.method \in {"reINVITE", "UPDATE", "CANCEL"} /\ NewRequest(x, x.method)
      /\ dlg[d].fsm \notin {"Started", "Terminated"}
      /\ \/ x.method = "UPDATE" /\ Act(d, r, {x}, client[d], s, {}, {})
         \/ x.method = "reINVITE" /\ Act(d, r, {x}, client[d], s, {}, {trying})
         \/ x.method = "CANCEL" /\ Act(d, dlg[d], {x}, client[d], server[d], {}, {})
  BY DEF SwallowedRequest, NewRequest, Lives, Is
<1>2. /\ UserOf(d) /\ user' = user /\ x.kind = "request"
      /\ s \in [Methods -> ServerStates]
      /\ \A n \in Methods : s[n] = IF n = x.method THEN k ELSE server[d][n]
      /\ client[d] \in [Methods -> ClientStates] /\ dlg[d] \in DialogType
      /\ server[d] \in [Methods -> ServerStates]
  BY <1>1, RequestActs DEF SwallowedRequest, ServerStates
<1>3. trying \in Messages /\ trying.to = Peer(d) /\ trying.kind = "100" /\ trying.method = "reINVITE"
  BY <1>1, ReplyIs, Arrives DEF Kinds, Methods
<1>4. /\ r \in DialogType /\ r.fsm = dlg[d].fsm /\ r.state = dlg[d].state /\ r.rseq = dlg[d].rseq
      /\ r.rsvp = dlg[d].rsvp /\ r.closing = dlg[d].closing /\ r.refresh = dlg[d].refresh
      /\ r.why = dlg[d].why /\ r.sent = dlg[d].sent /\ r.resends = dlg[d].resends
      /\ r.rel = dlg[d].rel /\ r.races = dlg[d].races \cup {"swallowed"}
  BY <1>2, Raced DEF Races
<1>5. x.method = "reINVITE" /\ dlg[d].fsm # "Terminated" /\ dlg[Peer(d)].fsm # "Terminated"
       => client[Peer(d)]["reINVITE"] # "none"
  BY <1>2, Arrives DEF Sound
<1> HIDE DEF r, s, trying
<1>6. CASE d = "a"
  <2>1. CallerFits(A, client["a"], server["a"], user["a"], {}) /\ After(client["a"], {}) = client["a"]
    BY <1>1, <1>2, <1>6, CallerStands, Known, AfterIs DEF A
  <2>2. CASE x.method = "CANCEL"
    BY <1>1, <1>2, <1>6, <2>1, <2>2, CallerActs DEF A
  <2>3. CASE x.method # "CANCEL"
    <3>1. Side(r, client["a"], s, user["a"])
      BY <1>1, <1>2, <1>4, <1>6, <2>1, <2>3 DEF CallerFits, Side, Methods, Invites, A
    <3>2. Caller(r, client["a"], s, user["a"])
      BY <1>1, <1>2, <1>4, <1>6, <2>1, <2>3 DEF CallerFits, Caller, Methods, InCall, A
    <3>3. CallerFits(r, client["a"], s, user'["a"], {})
      BY <1>1, <1>2, <1>4, <1>5, <1>6, <2>1, <2>3, <3>1, <3>2, PeerIs DEF CallerFits, Methods, InCall, A, B
    <3>4. CallerSays(trying, After(client["a"], {}))
      BY <1>3, <1>6, PeerIs DEF CallerSays
    <3> QED BY <1>1, <1>2, <1>3, <1>4, <1>6, <2>3, <3>3, <3>4, CallerActs
  <2> QED BY <2>2, <2>3
<1>7. CASE d = "b"
  <2>1. CalleeFits(B, client["b"], server["b"], user["b"], {}) /\ After(client["b"], {}) = client["b"]
    BY <1>1, <1>2, <1>7, CalleeStands, Known, AfterIs DEF B
  <2>2. CASE x.method = "CANCEL"
    BY <1>1, <1>2, <1>7, <2>1, <2>2, CalleeActs DEF B
  <2>3. CASE x.method # "CANCEL"
    <3>1. Side(r, client["b"], s, user["b"])
      BY <1>1, <1>2, <1>4, <1>7, <2>1, <2>3 DEF CalleeFits, Side, Methods, Invites, B
    <3>2. Callee(r, client["b"], s, user["b"])
      BY <1>1, <1>2, <1>4, <1>7, <2>1, <2>3 DEF CalleeFits, Callee, InCall, Undecided, Methods, B
    <3>3. CalleeFits(r, client["b"], s, user'["b"], {})
      BY <1>1, <1>2, <1>4, <1>5, <1>7, <2>1, <2>3, <3>1, <3>2, PeerIs DEF CalleeFits, Methods, InCall, A, B
    <3>4. CalleeSays(trying, r, user'["b"])
      BY <1>3, <1>7, PeerIs DEF CalleeSays
    <3> QED BY <1>1, <1>2, <1>3, <1>4, <1>7, <2>3, <3>3, <3>4, CalleeActs
  <2> QED BY <2>2, <2>3
<1> QED BY <1>6, <1>7, Arrives

-----------------------------------------------------------------------------
(* The users.                                                              *)
LEMMA CallStarts ==
  ASSUME DialogsInv, Started_2_Outgoing_oINVITE
  PROVE  DialogsInv'
<1> DEFINE r == With("a", "Outgoing")
           c == After(client["a"], {"INVITE"})
<1>1. A.fsm = "Started" /\ Act("a", r, {}, client["a"], server["a"], {"INVITE"}, {})
      /\ UNCHANGED <<mode, user>>
  BY DEF Started_2_Outgoing_oINVITE, Is, ActAlone, A
<1>2. UserOf("a") /\ user' = user
  BY <1>1, UsersStay, PeerIs DEF UserOf, Sides
<1>3. /\ A = Fresh /\ user["a"].hangup = "no" /\ B.fsm = "Started"
      /\ \A m \in Methods : client["a"][m] = "none" /\ server["a"][m] = "none"
      /\ A \in DialogType /\ client["a"] \in [Methods -> ClientStates]
      /\ server["a"] \in [Methods -> ServerStates]
  BY <1>1, Known DEF Side, PairInv
<1>4. /\ r \in DialogType /\ r.fsm = "Outgoing" /\ r.state = "initial" /\ r.rseq = 0
      /\ r.rsvp = "none" /\ ~r.refresh /\ ~r.closing
      /\ r.why = "none" /\ r.resends = 0 /\ r.rel = {} /\ r.races = {} /\ A.races = {} /\ A.rseq = 0
  <2>1. "Outgoing" \in FsmStates
    BY DEF FsmStates
  <2>2. r = [A EXCEPT !.fsm = "Outgoing"]
    BY DEF With, A
  <2> HIDE DEF r
  <2>3. /\ A.state = "initial" /\ A.rseq = 0 /\ A.rsvp = "none" /\ ~A.refresh /\ ~A.closing
        /\ A.why = "none" /\ A.resends = 0 /\ A.rel = {} /\ A.races = {}
    BY <1>3 DEF Fresh
  <2> QED BY <1>3, <2>1, <2>2, <2>3, MovedTo
<1> HIDE DEF r
<1>5. \A m \in Methods : c[m] = IF m = "INVITE" THEN "calling" ELSE "none"
  BY <1>3 DEF After
<1> HIDE DEF c
<1>6. Side(r, c, server["a"], user["a"])
  BY <1>3, <1>4, <1>5, InviteDialogAssumption DEF Side, Methods, Invites
<1>7. Caller(r, c, server["a"], user["a"])
  BY <1>3, <1>4, <1>5 DEF Caller, Methods, InCall
<1>8. CallerFits(r, client["a"], server["a"], user'["a"], {"INVITE"})
  BY <1>1, <1>2, <1>3, <1>4, <1>5, <1>6, <1>7, Known DEF CallerFits, c, Methods, Heard, PairInv
<1> QED BY <1>1, <1>2, <1>3, <1>4, <1>8, CallerActs DEF Methods

(* What a user has asked for.                                              *)
LEMMA Asked ==
  ASSUME DialogsInv, NEW d \in Sides, mode' = mode,
         NEW what \in {"accept", "hold", "resume", "shutdown"}, Asks(d, what)
  PROVE  /\ UserOf(d) /\ what \notin user[d].asked
         /\ user'[d].asked = user[d].asked \cup {what} /\ user'[d].hangup = user[d].hangup
<1>1. user \in [Sides -> UserType] /\ Peer(d) \in Sides /\ Peer(d) # d
  BY UsersStay, PeerIs
<1> DEFINE u == [user[d] EXCEPT !.asked = @ \cup {what}]
<1>2. user' = [user EXCEPT ![d] = u] /\ what \notin user[d].asked
  BY <1>1 DEF Asks
<1>3. u \in UserType /\ u.asked = user[d].asked \cup {what} /\ u.hangup = user[d].hangup
  BY <1>1 DEF UserType
<1> QED BY <1>1, <1>2, <1>3 DEF UserOf

LEMMA CallAccepted ==
  ASSUME DialogsInv, NEW d \in Sides, Accept(d)
  PROVE  DialogsInv'
<1> DEFINE q == Cancel100rel(B)
           r == Refreshed([q EXCEPT !.fsm = "Connected"])
           s == [server["b"] EXCEPT !["INVITE"] = "2xx"]
           answer == Reply("b", "2xx", "INVITE")
<1>1. d = "b" /\ B.fsm = "Ringing" /\ Asks("b", "accept") /\ mode' = mode
      /\ Act("b", r, {}, client["b"], s, {}, {answer})
  BY Known DEF Accept, Is, A, B, Caller, Sides
<1>2. /\ UserOf("b") /\ user'["b"].asked = user["b"].asked \cup {"accept"}
      /\ user'["b"].hangup = user["b"].hangup
  BY <1>1, Asked DEF Sides
<1>3. CalleeFits(B, client["b"], server["b"], user["b"], {}) /\ After(client["b"], {}) = client["b"]
      /\ client["b"] \in [Methods -> ClientStates] /\ B \in DialogType
  BY <1>1, CalleeStands, Known, AfterIs
<1>4. /\ s \in [Methods -> ServerStates]
      /\ \A n \in Methods : s[n] = IF n = "INVITE" THEN "2xx" ELSE server["b"][n]
  BY Known DEF ServerStates
<1>5. answer \in Messages /\ answer.to = "a" /\ answer.kind = "2xx" /\ answer.method = "INVITE"
  BY ReplyIs, PeerIs DEF Sides, Kinds, Methods
<1>6. /\ q \in DialogType /\ q.fsm = B.fsm /\ q.state = B.state /\ q.rseq = B.rseq
      /\ q.rsvp = B.rsvp /\ q.refresh = B.refresh /\ q.closing = B.closing
      /\ q.why = B.why /\ q.sent = B.sent /\ q.resends = B.resends
      /\ B.races \subseteq q.races /\ (q.rel # {} => "late" \in q.races)
  BY <1>3, Cancel100relIs
<1> HIDE DEF q
<1>7. /\ r \in DialogType /\ r.fsm = "Connected" /\ r.state = q.state /\ r.rseq = q.rseq
      /\ r.rsvp = q.rsvp /\ r.closing = q.closing
      /\ r.why = q.why /\ r.sent = q.sent /\ r.resends = q.resends /\ r.rel = q.rel /\ r.races = q.races
  BY <1>6 DEF Refreshed, DialogType, FsmStates
<1> HIDE DEF r, s, answer
<1>8. ~Accepted /\ "accept" \in user'["b"].asked
  BY <1>1, <1>2, Known DEF Callee, Undecided, Accepted
<1>9. Side(r, client["b"], s, user'["b"])
  BY <1>1, <1>2, <1>3, <1>4, <1>6, <1>7 DEF CalleeFits, Side, Methods, Invites
<1>10. Callee(r, client["b"], s, user'["b"])
  BY <1>1, <1>2, <1>3, <1>4, <1>6, <1>7, <1>8 DEF CalleeFits, Callee, InCall, Undecided, Methods
<1>11. CalleeFits(r, client["b"], s, user'["b"], {})
  BY <1>1, <1>2, <1>3, <1>4, <1>6, <1>7, <1>8, <1>9, <1>10 DEF CalleeFits, Methods, InCall
<1>12. CalleeSays(answer, r, user'["b"])
  BY <1>5, <1>8 DEF CalleeSays
<1> QED BY <1>1, <1>2, <1>3, <1>4, <1>5, <1>7, <1>11, <1>12, CalleeActs

LEMMA HeldOrResumed ==
  ASSUME DialogsInv, NEW d \in Sides, NEW what \in {"hold", "resume"},
         NEW fsm \in {"Holding", "Resuming"}, HoldOrResume(d, what, fsm)
  PROVE  DialogsInv'
<1> DEFINE r == With(d, fsm)
<1>1. dlg[d].fsm = "Connected" /\ Asks(d, what) /\ mode' = mode
  BY DEF HoldOrResume, Is
<1>2. /\ UserOf(d) /\ user'[d].asked = user[d].asked \cup {what}
      /\ user'[d].hangup = user[d].hangup
  BY <1>1, Asked
<1>3. \/ Act(d, r, {}, client[d], server[d], {"reINVITE"}, {})
      \/ Exchange(d, r, {}, client[d], server[d], {}, {}) /\ Fault("refused")
  BY DEF HoldOrResume, Act
<1>4. /\ dlg[d] \in DialogType /\ client[d] \in [Methods -> ClientStates]
      /\ server[d] \in [Methods -> ServerStates]
  BY DEF DialogsInv, TypeOK, ClientStates, ServerStates
<1>5. /\ r \in DialogType /\ r.fsm = fsm /\ r.state = dlg[d].state /\ r.rseq = dlg[d].rseq
      /\ r.rsvp = dlg[d].rsvp /\ r.refresh = dlg[d].refresh /\ r.closing = dlg[d].closing
      /\ r.why = dlg[d].why /\ r.sent = dlg[d].sent /\ r.resends = dlg[d].resends
      /\ r.rel = dlg[d].rel /\ r.races = dlg[d].races
  <2>1. fsm \in FsmStates
    BY DEF FsmStates
  <2> QED BY <1>4, <2>1, MovedTo DEF With
<1> HIDE DEF r
<1>6. ASSUME Exchange(d, r, {}, client[d], server[d], {}, {}), Fault("refused")
      PROVE  Around(d) /\ Does(d, r, client[d], server[d], {}, {})
  <2>1. Does(d, r, client[d], server[d], {}, {})
    BY <1>4, <1>5, <1>6, ExchangeDoes DEF DialogsInv
  <2>2. mishaps \subseteq Faults
    BY UsersStay
  <2> QED BY <1>2, <1>6, <2>1, <2>2 DEF Around, UserOf, Fault, Faults
<1>7. CASE d = "a"
  <2>1. CallerFits(A, client["a"], server["a"], user["a"], {}) /\ After(client["a"], {}) = client["a"]
    BY <1>1, <1>4, <1>7, CallerStands, AfterIs DEF A
  <2>2. ASSUME NEW starts \in {{}, {"reINVITE"}}
        PROVE  CallerFits(r, client["a"], server["a"], user'["a"], starts)
    <3> DEFINE c == After(client["a"], starts)
    <3>1. /\ \A m \in Methods : m # "reINVITE" => c[m] = client["a"][m]
          /\ client["a"]["reINVITE"] # "none" => c["reINVITE"] # "none"
      BY DEF After, Methods
    <3> HIDE DEF c
    <3>2. Side(r, c, server["a"], user'["a"])
      BY <1>1, <1>2, <1>5, <1>7, <2>1, <3>1 DEF CallerFits, Side, Methods, Invites, A
    <3>3. Caller(r, c, server["a"], user'["a"])
      BY <1>1, <1>2, <1>5, <1>7, <2>1, <3>1 DEF CallerFits, Caller, Methods, InCall, A
    <3> QED BY <1>1, <1>5, <1>7, <2>1, <3>1, <3>2, <3>3 DEF CallerFits, c, Methods, InCall, A
  <2>3. CASE Act(d, r, {}, client[d], server[d], {"reINVITE"}, {})
    BY <1>2, <1>4, <1>5, <1>7, <2>2, <2>3, CallerActs DEF Methods
  <2>4. CASE Exchange(d, r, {}, client[d], server[d], {}, {}) /\ Fault("refused")
    BY <1>4, <1>5, <1>6, <1>7, <2>2, <2>4, CallerGoesOn
  <2> QED BY <1>3, <2>3, <2>4
<1>8. CASE d = "b"
  <2>1. CalleeFits(B, client["b"], server["b"], user["b"], {}) /\ After(client["b"], {}) = client["b"]
    BY <1>1, <1>4, <1>8, CalleeStands, AfterIs DEF B
  <2>2. ASSUME NEW starts \in {{}, {"reINVITE"}}
        PROVE  CalleeFits(r, client["b"], server["b"], user'["b"], starts)
    <3> DEFINE c == After(client["b"], starts)
    <3>1. /\ \A m \in Methods : m # "reINVITE" => c[m] = client["b"][m]
          /\ client["b"]["reINVITE"] # "none" => c["reINVITE"] # "none"
      BY DEF After, Methods
    <3> HIDE DEF c
    <3>2. Side(r, c, server["b"], user'["b"])
      BY <1>1, <1>2, <1>5, <1>8, <2>1, <3>1 DEF CalleeFits, Side, Methods, Invites, B
    <3>3. Callee(r, c, server["b"], user'["b"])
      BY <1>1, <1>2, <1>5, <1>8, <2>1, <3>1 DEF CalleeFits, Callee, Methods, InCall, Undecided, B
    <3> QED BY <1>1, <1>2, <1>5, <1>8, <2>1, <3>1, <3>2, <3>3 DEF CalleeFits, c, Methods, InCall, B
  <2>3. CASE Act(d, r, {}, client[d], server[d], {"reINVITE"}, {})
    BY <1>2, <1>4, <1>5, <1>8, <2>2, <2>3, CalleeActs DEF Methods, Accepted
  <2>4. CASE Exchange(d, r, {}, client[d], server[d], {}, {}) /\ Fault("refused")
    BY <1>4, <1>5, <1>6, <1>8, <2>2, <2>4, CalleeGoesOn
  <2> QED BY <1>3, <2>3, <2>4
<1> QED BY <1>7, <1>8 DEF Sides

(* The dialogs and the network stay as they are.                           *)
LEMMA Still ==
  ASSUME DialogsInv, NEW d \in Sides, UNCHANGED <<dlg, client, server, net>>,
         dlg[d].fsm # "Terminated"
  PROVE  Does(d, dlg[d], client[d], server[d], {}, {})
<1>1. dlg \in [Sides -> DialogType] /\ client \in [Sides -> [Methods -> ClientStates]]
      /\ server \in [Sides -> [Methods -> ServerStates]] /\ net \subseteq Messages
  BY DEF DialogsInv, TypeOK, ClientStates, ServerStates
<1>2. After(client[d], {}) = client[d]
  BY <1>1, AfterIs
<1> QED BY <1>1, <1>2 DEF Does

(* hangup() has read the state of the dialog, or acts on what it has read. *)
LEMMA UserHangsUp ==
  ASSUME DialogsInv, NEW d \in Sides, mode' = mode, NEW h \in {"BYE", "CANCEL", "done"},
         user' = [user EXCEPT ![d].hangup = h]
  PROVE  /\ UserOf(d) /\ user'[d].asked = user[d].asked /\ user'[d].hangup = h
<1>1. user \in [Sides -> UserType] /\ Peer(d) \in Sides /\ Peer(d) # d
  BY UsersStay, PeerIs
<1> DEFINE u == [user[d] EXCEPT !.hangup = h]
<1>2. user' = [user EXCEPT ![d] = u]
  BY <1>1
<1>3. u \in UserType /\ u.asked = user[d].asked /\ u.hangup = h
  BY <1>1 DEF UserType
<1> QED BY <1>1, <1>2, <1>3 DEF UserOf

LEMMA StateRead ==
  ASSUME DialogsInv, NEW d \in Sides, HangupRead(d)
  PROVE  DialogsInv'
<1> DEFINE h == IF dlg[d].state = "established" THEN "BYE" ELSE "CANCEL"
<1>1. /\ dlg[d].fsm \notin {"Started", "Terminated"} /\ user' = [user EXCEPT ![d].hangup = h]
      /\ UNCHANGED <<mode, dlg, client, server, net, mishaps>>
  BY DEF HangupRead, Lives, Is
<1>2. UserOf(d) /\ user'[d].asked = user[d].asked /\ user'[d].hangup = h
  BY <1>1, UserHangsUp
<1>3. Around(d) /\ Does(d, dlg[d], client[d], server[d], {}, {})
  BY <1>1, <1>2, Still, UsersStay DEF Around, UserOf
<1>4. /\ dlg[d] \in DialogType /\ client[d] \in [Methods -> ClientStates]
      /\ server[d] \in [Methods -> ServerStates]
  BY DEF DialogsInv, TypeOK, ClientStates, ServerStates
<1>5. CASE d = "a"
  <2>1. CallerFits(A, client["a"], server["a"], user["a"], {}) /\ After(client["a"], {}) = client["a"]
    BY <1>1, <1>4, <1>5, CallerStands, AfterIs DEF A
  <2>2. CallerFits(A, client["a"], server["a"], user'["a"], {})
    BY <1>1, <1>2, <1>5, <2>1 DEF CallerFits, Side, Caller, A
  <2> QED BY <1>3, <1>4, <1>5, <2>2, CallerGoesOn DEF A
<1>6. CASE d = "b"
  <2>1. CalleeFits(B, client["b"], server["b"], user["b"], {}) /\ After(client["b"], {}) = client["b"]
    BY <1>1, <1>4, <1>6, CalleeStands, AfterIs DEF B
  <2>2. CalleeFits(B, client["b"], server["b"], user'["b"], {})
    BY <1>1, <1>2, <1>6, <2>1 DEF CalleeFits, Side, Callee, B
  <2> QED BY <1>3, <1>4, <1>6, <2>2, CalleeGoesOn DEF B
<1> QED BY <1>5, <1>6 DEF Sides

(* A dialog that has ended stays ended.                                    *)
LEMMA EndedActs ==
  ASSUME DialogsInv, NEW d \in Sides, dlg[d].fsm = "Terminated", mode' = mode,
         user' = [user EXCEPT ![d].hangup = "done"], ActAlone(d, dlg[d], {}, {})
  PROVE  DialogsInv'
<1>1. UserOf(d) /\ user'[d].asked = user[d].asked /\ user'[d].hangup = "done"
  BY UserHangsUp
<1>2. /\ dlg \in [Sides -> DialogType] /\ client \in [Sides -> [Methods -> ClientStates]]
      /\ server \in [Sides -> [Methods -> ServerStates]] /\ net \subseteq Messages
      /\ \A m \in Methods : client[d][m] = "none"
      /\ A.fsm = "Started" => net = {}
  BY DEF DialogsInv, TypeOK, SidesInv, Side, ClientStates, ServerStates, PairInv
<1>3. Around(d) /\ Does(d, dlg[d], client[d], server[d], {}, {})
  BY <1>1, <1>2, ActDoes DEF ActAlone
<1>4. \A e \in Sides : e = d \/ e = Peer(d)
  BY PeerIs DEF Sides
<1>5. client[d] = NoTransaction
  BY <1>2 DEF NoTransaction
<1>6. \A e \in Sides : dlg'[e] = dlg[e] /\ client'[e] = client[e]
  BY <1>3, <1>4, <1>5 DEF Does
<1>7. UNCHANGED <<mode, dlg, client>>
  BY <1>2, <1>3, <1>6 DEF Does, Around
<1>8. \A e \in Sides, m \in Methods : Moved(e, m)
  BY <1>3, <1>4 DEF Does, Moved, NoTransaction
<1>9. /\ server' \in [Sides -> [Methods -> ServerStates]]
      /\ net' \subseteq net /\ mishaps \subseteq mishaps' /\ mishaps' \subseteq Faults
      /\ user' \in [Sides -> UserType] /\ user'[Peer(d)] = user[Peer(d)]
  BY <1>3 DEF Does, Around
<1>10. \A e \in Sides :
           \/ user'[e] = user[e]
           \/ /\ dlg[e].fsm = "Terminated"
              /\ user'[e].asked = user[e].asked /\ user'[e].hangup = "done"
  BY <1>1, <1>4, <1>9
<1> QED BY <1>2, <1>7, <1>8, <1>9, <1>10, Quietly

(* A request that leaves its dialog waiting for the end.                   *)
LEMMA CallerGivesUp ==
  ASSUME DialogsInv, UserOf("a"), A.fsm \notin {"Started", "Terminated"},
         user'["a"].asked \subseteq user["a"].asked \cup {"shutdown"},
         user'["a"].hangup = "BYE" => A.state = "established",
         NEW r \in DialogType, NEW starts \in {{"BYE"}, {"CANCEL"}, {}},
         r.fsm = "Trying", r.state = A.state, r.rseq = A.rseq, r.why = A.why,
         r.refresh => A.refresh,
         r.sent = A.sent, r.resends = A.resends, r.rel = A.rel, r.races = A.races,
         starts = {"BYE"} => A.state = "established",
         starts = {"CANCEL"} => A.state # "established",
         Act("a", r, {}, client["a"], server["a"], starts, {})
  PROVE  DialogsInv'
<1> DEFINE c == After(client["a"], starts)
<1>1. CallerFits(A, client["a"], server["a"], user["a"], {}) /\ After(client["a"], {}) = client["a"]
      /\ client["a"] \in [Methods -> ClientStates] /\ server["a"] \in [Methods -> ServerStates]
  BY CallerStands, Known, AfterIs
<1>2. \A m \in Methods : c[m] = IF m \in starts THEN "calling" ELSE client["a"][m]
  BY DEF After
<1> HIDE DEF c
<1>3. Side(r, c, server["a"], user'["a"])
  BY <1>1, <1>2 DEF CallerFits, Side, Methods, Invites
<1>4. Caller(r, c, server["a"], user'["a"])
  BY <1>1, <1>2 DEF CallerFits, Caller, Methods, InCall
<1>5. CallerFits(r, client["a"], server["a"], user'["a"], starts)
  BY <1>1, <1>2, <1>3, <1>4 DEF CallerFits, c, Methods, InCall
<1> QED BY <1>1, <1>5, CallerActs DEF Methods

LEMMA CalleeGivesUp ==
  ASSUME DialogsInv, UserOf("b"), B.fsm \notin {"Started", "Terminated"},
         "accept" \in user'["b"].asked <=> "accept" \in user["b"].asked,
         user'["b"].hangup # "CANCEL",
         NEW r \in DialogType,
         r.fsm = "Trying", r.state = B.state, r.rseq = B.rseq, r.why = B.why,
         r.sent = B.sent, r.resends = B.resends, r.rel = B.rel, r.races = B.races,
         Act("b", r, {}, client["b"], server["b"], {"BYE"}, {})
  PROVE  DialogsInv'
<1> DEFINE c == After(client["b"], {"BYE"})
<1>1. CalleeFits(B, client["b"], server["b"], user["b"], {}) /\ After(client["b"], {}) = client["b"]
      /\ client["b"] \in [Methods -> ClientStates] /\ server["b"] \in [Methods -> ServerStates]
  BY CalleeStands, Known, AfterIs
<1>2. \A m \in Methods : c[m] = IF m = "BYE" THEN "calling" ELSE client["b"][m]
  BY DEF After
<1> HIDE DEF c
<1>3. Side(r, c, server["b"], user'["b"])
  BY <1>1, <1>2 DEF CalleeFits, Side, Methods, Invites
<1>4. Callee(r, c, server["b"], user'["b"])
  BY <1>1, <1>2 DEF CalleeFits, Callee, Methods, InCall, Undecided
<1>5. CalleeFits(r, client["b"], server["b"], user'["b"], {"BYE"})
  BY <1>1, <1>2, <1>3, <1>4 DEF CalleeFits, c, Methods, InCall
<1> QED BY <1>1, <1>5, CalleeActs DEF Methods, Accepted

LEMMA HungUp ==
  ASSUME DialogsInv, NEW d \in Sides, HangupAct(d)
  PROVE  DialogsInv'
<1> DEFINE what == user[d].hangup
           stayed == [dlg[d] EXCEPT !.races = @ \cup {"dropped"}]
<1>1. /\ what \in {"BYE", "CANCEL"} /\ mode' = mode
      /\ user' = [user EXCEPT ![d].hangup = "done"]
  BY DEF HangupAct
<1>2. /\ UserOf(d) /\ user'[d].asked = user[d].asked /\ user'[d].hangup = "done"
      /\ Side(dlg[d], client[d], server[d], user[d])
      /\ dlg[d] \in DialogType /\ client[d] \in [Methods -> ClientStates]
      /\ server[d] \in [Methods -> ServerStates]
  BY <1>1, UserHangsUp DEF DialogsInv, SidesInv, TypeOK, ClientStates, ServerStates
<1>3. dlg[d].fsm # "Started"
  BY <1>1, <1>2 DEF Side
<1>4. CASE dlg[d].fsm = "Terminated"
  <2>1. ActAlone(d, dlg[d], {}, {})
    BY <1>4 DEF HangupAct, Lives, Is
  <2> QED BY <1>1, <1>4, <2>1, EndedActs
<1>5. CASE what = "BYE" /\ dlg[d].fsm = "Ringing"
  <2> DEFINE q == Cancel100rel(B)
             answer == Reply("b", "final", "INVITE")
  <2>1. d = "b"
    BY <1>5, Known DEF Caller, A, Sides
  <2>2. Act("b", Ended(q, "peer"), {}, client["b"], server["b"], {}, {answer})
    BY <1>5, <2>1 DEF HangupAct, ActAlone, Is, Lives, B
  <2>3. answer \in Messages /\ answer.to = "a" /\ answer.kind = "final" /\ answer.method = "INVITE"
    BY ReplyIs, PeerIs DEF Sides, Kinds, Methods
  <2>4. /\ q \in DialogType /\ q.state = B.state /\ q.rseq = B.rseq /\ q.sent = B.sent
        /\ B.races \subseteq q.races
    BY <1>2, <2>1, Cancel100relIs DEF B
  <2> HIDE DEF q, answer
  <2>5. CalleeMayEnd(q, "peer", user'["b"])
    BY <1>2, <1>5, <2>1, <2>4, Known DEF CalleeMayEnd, PairInv, Callee, Undecided, Accepted, B
  <2>6. CalleeLeaves(answer) /\ "peer" \in Whys
    BY <2>3 DEF CalleeLeaves, Whys
  <2> QED BY <1>2, <2>1, <2>2, <2>3, <2>4, <2>5, <2>6, CalleeFinishes
<1>6. CASE what = "BYE" /\ dlg[d].fsm \notin {"Ringing", "Terminated"}
  <2> DEFINE r == With(d, "Trying")
  <2>1. Act(d, r, {}, client[d], server[d], {"BYE"}, {})
    BY <1>3, <1>6 DEF HangupAct, ActAlone, Is, Lives
  <2>2. /\ r \in DialogType /\ r.fsm = "Trying" /\ r.state = dlg[d].state /\ r.rseq = dlg[d].rseq
        /\ r.refresh = dlg[d].refresh
        /\ r.why = dlg[d].why /\ r.sent = dlg[d].sent /\ r.resends = dlg[d].resends
        /\ r.rel = dlg[d].rel /\ r.races = dlg[d].races
    <3>1. "Trying" \in FsmStates
      BY DEF FsmStates
    <3> QED BY <1>2, <3>1, MovedTo DEF With
  <2> HIDE DEF r
  <2>3. CASE d = "a"
    <3>1. A.state = "established"
      BY <1>6, <2>3, Known DEF Caller
    <3> QED BY <1>2, <1>3, <1>6, <2>1, <2>2, <2>3, <3>1, CallerGivesUp DEF A
  <2>4. CASE d = "b"
    BY <1>2, <1>3, <1>6, <2>1, <2>2, <2>4, CalleeGivesUp DEF B
  <2> QED BY <2>3, <2>4 DEF Sides
<1>7. CASE what = "CANCEL" /\ dlg[d].fsm = "Outgoing"
  <2> DEFINE r == With("a", "Cancelling")
             c == After(client["a"], {"CANCEL"})
  <2>1. d = "a"
    BY <1>7, Known DEF Callee, B, Sides
  <2>2. Act("a", r, {}, client["a"], server["a"], {"CANCEL"}, {})
    BY <1>7, <2>1 DEF HangupAct, ActAlone, Is, Lives
  <2>3. /\ r \in DialogType /\ r.fsm = "Cancelling" /\ r.state = A.state /\ r.rseq = A.rseq
        /\ r.refresh = A.refresh /\ r.rsvp = A.rsvp /\ r.closing = A.closing
        /\ r.why = A.why /\ r.sent = A.sent /\ r.resends = A.resends
        /\ r.rel = A.rel /\ r.races = A.races
    <3>1. "Cancelling" \in FsmStates
      BY DEF FsmStates
    <3> QED BY <1>2, <2>1, <3>1, MovedTo DEF With, A
  <2> HIDE DEF r
  <2>4. CallerFits(A, client["a"], server["a"], user["a"], {}) /\ After(client["a"], {}) = client["a"]
    BY <1>3, <1>7, <2>1, CallerStands, Known, AfterIs DEF A
  <2>5. \A m \in Methods : c[m] = IF m = "CANCEL" THEN "calling" ELSE client["a"][m]
    BY DEF After
  <2> HIDE DEF c
  <2>6. Side(r, c, server["a"], user'["a"])
    BY <1>2, <1>7, <2>1, <2>3, <2>4, <2>5 DEF CallerFits, Side, Methods, Invites, A
  <2>7. Caller(r, c, server["a"], user'["a"])
    BY <1>2, <1>7, <2>1, <2>3, <2>4, <2>5 DEF CallerFits, Caller, Methods, InCall, A
  <2>8. CallerFits(r, client["a"], server["a"], user'["a"], {"CANCEL"})
    BY <1>7, <2>1, <2>3, <2>4, <2>5, <2>6, <2>7 DEF CallerFits, c, Methods, InCall, A
  <2> QED BY <1>2, <2>1, <2>2, <2>3, <2>8, CallerActs DEF Methods
<1>8. CASE what = "CANCEL" /\ dlg[d].fsm \notin {"Outgoing", "Terminated"}
  <2>1. d = "a"
    BY <1>8, Known DEF Callee, Sides
  <2>2. Act("a", stayed, {}, client["a"], server["a"], {}, {})
    BY <1>3, <1>8, <2>1 DEF HangupAct, ActAlone, Is, Lives
  <2>3. /\ stayed \in DialogType /\ stayed.fsm = A.fsm /\ stayed.state = A.state /\ stayed.rseq = A.rseq
        /\ stayed.refresh = A.refresh /\ stayed.rsvp = A.rsvp /\ stayed.closing = A.closing
        /\ stayed.why = A.why /\ stayed.sent = A.sent /\ stayed.resends = A.resends
        /\ stayed.rel = A.rel /\ stayed.races = A.races \cup {"dropped"}
    <3>1. "dropped" \in Races /\ A \in DialogType
      BY Known DEF Races
    <3>2. stayed = [A EXCEPT !.races = @ \cup {"dropped"}]
      BY <2>1 DEF A
    <3> HIDE DEF stayed
    <3> QED BY <3>1, <3>2, Raced
  <2> HIDE DEF stayed
  <2>4. CallerFits(A, client["a"], server["a"], user["a"], {}) /\ After(client["a"], {}) = client["a"]
    BY <1>3, <1>8, <2>1, CallerStands, Known, AfterIs DEF A
  <2>5. Side(stayed, client["a"], server["a"], user'["a"])
    BY <1>2, <1>3, <1>8, <2>1, <2>3, <2>4 DEF CallerFits, Side, Methods, Invites, A
  <2>6. Caller(stayed, client["a"], server["a"], user'["a"])
    BY <1>2, <1>8, <2>1, <2>3, <2>4 DEF CallerFits, Caller, Methods, InCall, A
  <2>7. CallerFits(stayed, client["a"], server["a"], user'["a"], {})
    BY <1>3, <1>8, <2>1, <2>3, <2>4, <2>5, <2>6 DEF CallerFits, Methods, InCall, A
  <2> QED BY <1>2, <2>1, <2>2, <2>3, <2>7, CallerActs
<1> QED BY <1>1, <1>4, <1>5, <1>6, <1>7, <1>8

LEMMA ShutDown ==
  ASSUME DialogsInv, NEW d \in Sides, Shutdown(d)
  PROVE  DialogsInv'
<1> DEFINE starts == CASE dlg[d].state = "established" -> {"BYE"}
                       [] dlg[d].state = "early" -> {"CANCEL"}
                       [] OTHER -> {}
           q == With(d, "Trying")
           r == [q EXCEPT !.closing = TRUE]
<1>1. /\ dlg[d].fsm \notin {"Started", "Terminated"} /\ Asks(d, "shutdown") /\ mode' = mode
      /\ Act(d, r, {}, client[d], server[d], starts, {})
  BY DEF Shutdown, Lives, Is, ActAlone
<1>2. /\ UserOf(d) /\ user'[d].asked = user[d].asked \cup {"shutdown"}
      /\ user'[d].hangup = user[d].hangup
  BY <1>1, Asked
<1>3. dlg[d] \in DialogType
  BY DEF DialogsInv, TypeOK
<1>4. /\ starts \in {{"BYE"}, {"CANCEL"}, {}}
      /\ starts = {"BYE"} => dlg[d].state = "established"
      /\ starts = {"CANCEL"} => dlg[d].state # "established"
      /\ dlg[d].state = "established" => starts = {"BYE"}
  BY <1>3 DEF DialogType
<1> HIDE DEF starts
<1>5. /\ q \in DialogType /\ q.fsm = "Trying" /\ q.state = dlg[d].state /\ q.rseq = dlg[d].rseq
      /\ q.refresh = dlg[d].refresh
      /\ q.why = dlg[d].why /\ q.sent = dlg[d].sent /\ q.resends = dlg[d].resends
      /\ q.rel = dlg[d].rel /\ q.races = dlg[d].races
  <2>1. "Trying" \in FsmStates
    BY DEF FsmStates
  <2> QED BY <1>3, <2>1, MovedTo DEF With
<1> HIDE DEF q
<1>6. /\ r \in DialogType /\ r.fsm = q.fsm /\ r.state = q.state /\ r.rseq = q.rseq
      /\ r.refresh = q.refresh
      /\ r.why = q.why /\ r.sent = q.sent /\ r.resends = q.resends /\ r.rel = q.rel /\ r.races = q.races
  BY <1>5 DEF DialogType
<1> HIDE DEF r
<1>7. CASE d = "a"
  <2>1. user'["a"].hangup = "BYE" => A.state = "established"
    BY <1>2, <1>7, Known DEF Caller
  <2> QED BY <1>1, <1>2, <1>4, <1>5, <1>6, <1>7, <2>1, CallerGivesUp DEF A
<1>8. CASE d = "b"
  <2>1. starts = {"BYE"} /\ user'["b"].hangup # "CANCEL"
    BY <1>1, <1>2, <1>4, <1>8, Known DEF Callee, B
  <2> QED BY <1>1, <1>2, <1>5, <1>6, <1>8, <2>1, CalleeGivesUp DEF B
<1> QED BY <1>7, <1>8 DEF Sides

-----------------------------------------------------------------------------
(* The timers.                                                             *)
LEMMA NobodyAsks ==
  ASSUME DialogsInv, NEW d \in Sides, UNCHANGED <<mode, user>>
  PROVE  UserOf(d) /\ user' = user
BY UsersStay DEF UserOf

(* A timer that may send an UPDATE.                                        *)
LEMMA CallerUpdates ==
  ASSUME DialogsInv, UNCHANGED <<mode, user>>, A.fsm \notin {"Started", "Terminated"},
         NEW r \in DialogType, NEW starts \in {{"UPDATE"}, {}},
         r.fsm = A.fsm, r.state = A.state, r.rseq = A.rseq, r.why = A.why,
         r.refresh => A.refresh,
         r.sent = A.sent, r.resends = A.resends, r.rel = A.rel, r.races = A.races,
         Act("a", r, {}, client["a"], server["a"], starts, {})
  PROVE  DialogsInv'
<1> DEFINE c == After(client["a"], starts)
<1>1. CallerFits(A, client["a"], server["a"], user["a"], {}) /\ After(client["a"], {}) = client["a"]
      /\ client["a"] \in [Methods -> ClientStates] /\ server["a"] \in [Methods -> ServerStates]
  BY CallerStands, Known, AfterIs
<1>2. \A m \in Methods : c[m] = IF m \in starts THEN "calling" ELSE client["a"][m]
  BY DEF After
<1> HIDE DEF c
<1>3. Side(r, c, server["a"], user["a"])
  BY <1>1, <1>2 DEF CallerFits, Side, Methods, Invites
<1>4. Caller(r, c, server["a"], user["a"])
  BY <1>1, <1>2 DEF CallerFits, Caller, Methods, InCall
<1>5. CallerFits(r, client["a"], server["a"], user'["a"], starts)
  BY <1>1, <1>2, <1>3, <1>4 DEF CallerFits, c, Methods, InCall
<1> QED BY <1>1, <1>5, CallerActs, NobodyAsks DEF Methods, Sides

LEMMA CalleeUpdates ==
  ASSUME DialogsInv, UNCHANGED <<mode, user>>, B.fsm \notin {"Started", "Terminated"},
         NEW r \in DialogType, NEW starts \in {{"UPDATE"}, {}},
         r.fsm = B.fsm, r.state = B.state, r.rseq = B.rseq, r.why = B.why,
         r.sent = B.sent, r.resends = B.resends, r.rel = B.rel, r.races = B.races,
         Act("b", r, {}, client["b"], server["b"], starts, {})
  PROVE  DialogsInv'
<1> DEFINE c == After(client["b"], starts)
<1>1. CalleeFits(B, client["b"], server["b"], user["b"], {}) /\ After(client["b"], {}) = client["b"]
      /\ client["b"] \in [Methods -> ClientStates] /\ server["b"] \in [Methods -> ServerStates]
  BY CalleeStands, Known, AfterIs
<1>2. \A m \in Methods : c[m] = IF m \in starts THEN "calling" ELSE client["b"][m]
  BY DEF After
<1> HIDE DEF c
<1>3. Side(r, c, server["b"], user["b"])
  BY <1>1, <1>2 DEF CalleeFits, Side, Methods, Invites
<1>4. Callee(r, c, server["b"], user["b"])
  BY <1>1, <1>2 DEF CalleeFits, Callee, Methods, InCall, Undecided
<1>5. CalleeFits(r, client["b"], server["b"], user'["b"], starts)
  BY <1>1, <1>2, <1>3, <1>4 DEF CalleeFits, c, Methods, InCall
<1> QED BY <1>1, <1>5, CalleeActs, NobodyAsks DEF Methods, Sides, Accepted

(* A timer or a transaction that ends its dialog.                          *)
LEMMA CallerExpires ==
  ASSUME DialogsInv, UNCHANGED <<mode, user>>, A.fsm \notin {"Started", "Terminated"},
         NEW why \in Whys, Act("a", Ended(A, why), {}, client["a"], server["a"], {}, {}),
         Heard /\ B.fsm \in InCall => Excuses(why, A.races, B)
  PROVE  DialogsInv'
<1>1. CallerMayEnd(A, why, user'["a"])
  BY Known DEF CallerMayEnd, PairInv, Caller
<1> QED BY <1>1, Known, NobodyAsks, CallerFinishes DEF Sides

LEMMA CalleeExpires ==
  ASSUME DialogsInv, UNCHANGED <<mode, user>>, B.fsm \notin {"Started", "Terminated"},
         NEW q \in DialogType, q.state = B.state, q.sent = B.sent, q.rseq = B.rseq, q.races = B.races,
         NEW why \in Whys, Act("b", Ended(q, why), {}, client["b"], server["b"], {}, {}),
         Accepted /\ A.fsm \in InCall \cup {"Outgoing"} => Excuses(why, B.races, A)
  PROVE  DialogsInv'
<1>1. CalleeMayEnd(q, why, user'["b"])
  BY Known DEF CalleeMayEnd, PairInv, Callee, Accepted
<1> QED BY <1>1, Known, NobodyAsks, CalleeFinishes DEF Sides

LEMMA TimerRaised ==
  ASSUME DialogsInv, NEW d \in Sides, Raise100rel(d)
  PROVE  DialogsInv'
<1> DEFINE r == [B EXCEPT !.rel = {"raised"}]
<1>1. /\ d = "b" /\ B.rel # {} /\ B.fsm \notin {"Started", "Terminated"}
      /\ UNCHANGED <<mode, client, server, net, user, mishaps>>
  BY Known DEF Raise100rel, Caller, Side, Fresh, Sides, A, B
<1>2. /\ dlg \in [Sides -> DialogType] /\ client \in [Sides -> [Methods -> ClientStates]]
      /\ server \in [Sides -> [Methods -> ServerStates]] /\ net \subseteq Messages
  BY DEF DialogsInv, TypeOK, ClientStates, ServerStates
<1>3. dlg' = [dlg EXCEPT !["b"] = r]
  BY <1>1, <1>2 DEF Raise100rel, B
<1>4. /\ r \in DialogType /\ r.fsm = B.fsm /\ r.state = B.state /\ r.rseq = B.rseq
      /\ r.rsvp = B.rsvp /\ r.refresh = B.refresh /\ r.closing = B.closing
      /\ r.why = B.why /\ r.sent = B.sent /\ r.resends = B.resends /\ r.races = B.races
  <2>1. {"raised"} \in SUBSET {"armed", "raised"}
    OBVIOUS
  <2> QED BY <2>1, Known DEF DialogType
<1> HIDE DEF r
<1>5. CalleeFits(B, client["b"], server["b"], user["b"], {}) /\ After(client["b"], {}) = client["b"]
  BY <1>1, CalleeStands, Known, AfterIs
<1>6. Does("b", r, client["b"], server["b"], {}, {})
  BY <1>1, <1>2, <1>3, <1>4, <1>5, PeerIs DEF Does, Sides
<1>7. Around("b")
  BY <1>1, UsersStay DEF Around
<1>8. Side(r, client["b"], server["b"], user["b"])
  BY <1>1, <1>4, <1>5 DEF CalleeFits, Side
<1>9. Callee(r, client["b"], server["b"], user["b"])
  BY <1>1, <1>4, <1>5 DEF CalleeFits, Callee, InCall, Undecided
<1>10. CalleeFits(r, client["b"], server["b"], user'["b"], {})
  BY <1>1, <1>4, <1>5, <1>8, <1>9 DEF CalleeFits, InCall
<1> QED BY <1>1, <1>2, <1>4, <1>6, <1>7, <1>10, CalleeGoesOn, Known

(* The limit ends the dialog; below it the response is sent again.         *)
LEMMA TimerDoubles ==
  ASSUME DialogsInv, NEW d \in Sides, Any_2_Any_timer100rel(d)
  PROVE  DialogsInv'
<1> DEFINE p == [B EXCEPT !.rel = @ \ {"raised"}, !.resends = @ + 1]
           r == [p EXCEPT !.rel = {"armed"}]
           y == Sent("b", "1xxrel", "INVITE", p.sent)
           replies == IF server["b"]["INVITE"] = "1xxrel" THEN {y} ELSE {}
<1>1. /\ d = "b" /\ B.rel # {} /\ B.fsm \notin {"Started", "Terminated"}
      /\ UNCHANGED <<mode, user>>
  BY Known DEF Any_2_Any_timer100rel, Caller, Side, Fresh, Sides, A, B
<1>2. \/ Act("b", Ended(p, "100rel"), {}, client["b"], server["b"], {}, {})
      \/ /\ p.resends # MaxResends
         /\ Act("b", r, {}, client["b"], server["b"], {}, replies)
  BY <1>1 DEF Any_2_Any_timer100rel, ActAlone, B
<1>3. /\ p \in DialogType /\ p.fsm = B.fsm /\ p.state = B.state /\ p.rseq = B.rseq
      /\ p.rsvp = B.rsvp /\ p.refresh = B.refresh /\ p.closing = B.closing
      /\ p.why = B.why /\ p.sent = B.sent /\ p.resends = B.resends + 1 /\ p.races = B.races
      /\ B.resends < MaxResends /\ B.resends \in Nat /\ MaxResends \in Nat
  <2>1. B.resends < MaxResends /\ B.resends \in Nat /\ MaxResends \in Nat /\ B \in DialogType
    BY <1>1, Known, InviteDialogAssumption DEF Side, DialogType
  <2>2. B.resends + 1 \in 0..MaxResends /\ B.rel \ {"raised"} \in SUBSET {"armed", "raised"}
    BY <2>1 DEF DialogType
  <2> QED BY <2>1, <2>2 DEF DialogType
<1> HIDE DEF p
<1>4. CASE Act("b", Ended(p, "100rel"), {}, client["b"], server["b"], {}, {})
  <2>1. "100rel" \in Whys /\ Excuses("100rel", B.races, A)
    BY DEF Whys, Excuses
  <2> QED BY <1>1, <1>3, <1>4, <2>1, CalleeExpires
<1>5. CASE /\ p.resends # MaxResends
           /\ Act("b", r, {}, client["b"], server["b"], {}, replies)
  <2>1. /\ r \in DialogType /\ r.fsm = B.fsm /\ r.state = B.state /\ r.rseq = B.rseq
        /\ r.rsvp = B.rsvp /\ r.refresh = B.refresh /\ r.closing = B.closing
        /\ r.why = B.why /\ r.sent = B.sent /\ r.resends < MaxResends /\ r.races = B.races
    <3>1. {"armed"} \in SUBSET {"armed", "raised"}
      OBVIOUS
    <3>2. r.resends = p.resends /\ p.resends < MaxResends
      BY <1>3, <1>5 DEF DialogType
    <3> QED BY <1>3, <3>1, <3>2 DEF DialogType
  <2> HIDE DEF r
  <2>2. y \in Messages /\ y.to = "a" /\ y.method = "INVITE" /\ y.kind = "1xxrel" /\ y.rseq = B.sent
    BY <1>3, PeerIs DEF Sent, Messages, Kinds, Methods, DialogType, Sides
  <2> HIDE DEF y
  <2>3. CalleeFits(B, client["b"], server["b"], user["b"], {}) /\ After(client["b"], {}) = client["b"]
    BY <1>1, CalleeStands, Known, AfterIs
  <2>4. Side(r, client["b"], server["b"], user["b"])
    BY <1>1, <2>1, <2>3 DEF CalleeFits, Side
  <2>5. Callee(r, client["b"], server["b"], user["b"])
    BY <1>1, <2>1, <2>3 DEF CalleeFits, Callee, InCall, Undecided
  <2>6. CalleeFits(r, client["b"], server["b"], user'["b"], {})
    BY <1>1, <2>1, <2>3, <2>4, <2>5 DEF CalleeFits, InCall
  <2>7. CalleeSays(y, r, user'["b"])
    BY <2>1, <2>2, Known DEF CalleeSays
  <2> QED BY <1>1, <1>5, <2>1, <2>2, <2>6, <2>7, Known, CalleeActs, NobodyAsks DEF Sides
<1> QED BY <1>2, <1>4, <1>5

LEMMA RefreshDue ==
  ASSUME DialogsInv, NEW d \in Sides, Connected_timerRefresh(d)
  PROVE  DialogsInv'
<1> DEFINE q == [dlg[d] EXCEPT !.refresh = FALSE]
           r == [With(d, "Trying") EXCEPT !.refresh = FALSE]
<1>1. /\ UNCHANGED <<mode, user>> /\ dlg[d].refresh
      /\ \/ \E starts \in {{"UPDATE"}, {}} : Act(d, q, {}, client[d], server[d], starts, {})
         \/ Act(d, r, {}, client[d], server[d], {"BYE"}, {})
  <2>1. CASE ~Is(d, {"Connected"})
    BY <2>1 DEF Connected_timerRefresh, ActAlone
  <2>2. CASE Is(d, {"Connected"}) /\ mode.refresher = d
    <3>1. ActAlone(d, q, {"UPDATE"}, {})
      BY <2>2 DEF Connected_timerRefresh
    <3> QED BY <3>1 DEF ActAlone, Connected_timerRefresh
  <2>3. CASE Is(d, {"Connected"}) /\ mode.refresher # d
    <3>1. ActAlone(d, r, {"BYE"}, {})
      BY <2>3 DEF Connected_timerRefresh
    <3> QED BY <3>1 DEF ActAlone, Connected_timerRefresh
  <2> QED BY <2>1, <2>2, <2>3
<1>2. /\ Side(dlg[d], client[d], server[d], user[d]) /\ dlg[d] \in DialogType
      /\ dlg[d].fsm \notin {"Started", "Terminated"}
  BY <1>1 DEF DialogsInv, SidesInv, TypeOK, Side, Fresh
<1>3. /\ q \in DialogType /\ q.fsm = dlg[d].fsm /\ q.state = dlg[d].state /\ q.rseq = dlg[d].rseq
      /\ ~q.refresh /\ q.why = dlg[d].why /\ q.sent = dlg[d].sent /\ q.resends = dlg[d].resends
      /\ q.rel = dlg[d].rel /\ q.races = dlg[d].races
  BY <1>2 DEF DialogType
<1>4. /\ r \in DialogType /\ r.fsm = "Trying" /\ r.state = dlg[d].state /\ r.rseq = dlg[d].rseq
      /\ ~r.refresh /\ r.why = dlg[d].why /\ r.sent = dlg[d].sent /\ r.resends = dlg[d].resends
      /\ r.rel = dlg[d].rel /\ r.races = dlg[d].races
  BY <1>2 DEF DialogType, With, FsmStates
<1> HIDE DEF q, r
<1>5. CASE d = "a"
  <2>1. A.state = "established" /\ UserOf("a") /\ user' = user
    BY <1>1, <1>5, Known, NobodyAsks DEF Caller, A, Sides
  <2>2. ASSUME NEW starts \in {{"UPDATE"}, {}}, Act(d, q, {}, client[d], server[d], starts, {})
        PROVE  DialogsInv'
    BY <1>1, <1>2, <1>3, <1>5, <2>2, CallerUpdates DEF A
  <2>3. ASSUME Act(d, r, {}, client[d], server[d], {"BYE"}, {})
        PROVE  DialogsInv'
    BY <1>1, <1>2, <1>4, <1>5, <2>1, <2>3, CallerGivesUp DEF A
  <2> QED BY <1>1, <2>2, <2>3
<1>6. CASE d = "b"
  <2>1. user["b"].hangup # "CANCEL" /\ UserOf("b") /\ user' = user
    BY <1>1, <1>6, Known, NobodyAsks DEF Callee, Sides
  <2>2. ASSUME NEW starts \in {{"UPDATE"}, {}}, Act(d, q, {}, client[d], server[d], starts, {})
        PROVE  DialogsInv'
    BY <1>1, <1>2, <1>3, <1>6, <2>2, CalleeUpdates DEF B
  <2>3. ASSUME Act(d, r, {}, client[d], server[d], {"BYE"}, {})
        PROVE  DialogsInv'
    BY <1>1, <1>2, <1>4, <1>6, <2>1, <2>3, CalleeGivesUp DEF B
  <2> QED BY <1>1, <2>2, <2>3
<1> QED BY <1>5, <1>6 DEF Sides

LEMMA ReservationDone ==
  ASSUME DialogsInv, NEW d \in Sides, Any_2_Any_timerRSVP(d)
  PROVE  DialogsInv'
<1> DEFINE r == [dlg[d] EXCEPT !.rsvp = "done"]
<1>1. UNCHANGED <<mode, user>> /\ dlg[d].rsvp = "armed" /\ Act(d, r, {}, client[d], server[d], {"UPDATE"}, {})
  BY DEF Any_2_Any_timerRSVP, ActAlone
<1>2. /\ dlg[d] \in DialogType /\ dlg[d].fsm \notin {"Started", "Terminated"}
  BY <1>1 DEF DialogsInv, SidesInv, TypeOK, Side, Fresh
<1>3. /\ r \in DialogType /\ r.fsm = dlg[d].fsm /\ r.state = dlg[d].state /\ r.rseq = dlg[d].rseq
      /\ r.refresh = dlg[d].refresh /\ r.why = dlg[d].why /\ r.sent = dlg[d].sent
      /\ r.resends = dlg[d].resends /\ r.rel = dlg[d].rel /\ r.races = dlg[d].races
  BY <1>2 DEF DialogType
<1> HIDE DEF r
<1>4. CASE d = "a"
  BY <1>1, <1>2, <1>3, <1>4, CallerUpdates DEF A
<1>5. CASE d = "b"
  BY <1>1, <1>2, <1>3, <1>5, CalleeUpdates DEF B
<1> QED BY <1>4, <1>5 DEF Sides

LEMMA PatienceEnds ==
  ASSUME DialogsInv, NEW d \in Sides, ShutdownTimedout(d)
  PROVE  DialogsInv'
<1>1. /\ UNCHANGED <<mode, user>> /\ dlg[d].closing
      /\ Act(d, Ended(dlg[d], "shutdown"), {}, client[d], server[d], {}, {})
  BY DEF ShutdownTimedout, ActAlone
<1>2. dlg[d].fsm \notin {"Started", "Terminated"}
  BY <1>1 DEF DialogsInv, SidesInv, Side, Fresh
<1>3. "shutdown" \in Whys /\ Excuses("shutdown", A.races, B) /\ Excuses("shutdown", B.races, A)
  BY DEF Whys, Excuses
<1>4. CASE d = "a"
  BY <1>1, <1>2, <1>3, <1>4, CallerExpires DEF A
<1>5. CASE d = "b"
  BY <1>1, <1>2, <1>3, <1>5, CalleeExpires, Known DEF B
<1> QED BY <1>4, <1>5 DEF Sides

-----------------------------------------------------------------------------
(* The transactions.                                                       *)
LEMMA RequestRepeated ==
  ASSUME DialogsInv, NEW d \in Sides, NEW m \in Methods, Retransmit(d, m)
  PROVE  DialogsInv'
<1> DEFINE n == IF m = "PRACK" THEN dlg[d].rseq ELSE 0
           x == Sent(d, "request", m, n)
<1>1. /\ client[d][m] = "calling" /\ net' = net \cup {x}
      /\ UNCHANGED mishaps \/ Fault("repeated")
      /\ UNCHANGED <<mode, dlg, client, server, user>>
  BY DEF Retransmit
<1>2. /\ Side(dlg[d], client[d], server[d], user[d]) /\ dlg[d] \in DialogType
      /\ net \subseteq Messages
  BY DEF DialogsInv, SidesInv, TypeOK
<1>3. dlg[d].fsm \notin {"Started", "Terminated"} /\ (m = "BYE" => dlg[d].fsm = "Trying")
  BY <1>1, <1>2 DEF Side
<1>4. A.fsm # "Started"
  BY <1>3, Known DEF PairInv, A, B, Sides
<1>5. mishaps \subseteq mishaps' /\ mishaps' \subseteq Faults
  BY <1>1, UsersStay DEF Fault, Faults
<1>6. x \in Messages /\ x.to = Peer(d) /\ x.kind = "request" /\ x.method = m /\ x.rseq = n
  BY <1>2, PeerIs DEF Sent, Messages, Kinds, DialogType, MaxRSeq
<1>7. m \in {"INVITE", "PRACK", "CANCEL"} => d = "a"
  BY <1>1, Known DEF Callee, Sides
<1>8. m = "PRACK" => x.rseq = A.rseq /\ A.rseq # 0 /\ A.rseq \in Nat
  BY <1>1, <1>6, <1>7, Known DEF Caller, A
<1>9. m = "BYE" => dlg[Peer(d)].fsm # "Started"
  BY <1>1, <1>3, <1>4, Known, PeerIs DEF Caller, PairInv, A, B, Sides
<1> HIDE DEF x
<1>10. Peer(x.to) = d /\ (x.to = "b" <=> d = "a") /\ (x.to = "a" => B.fsm # "Started")
  BY <1>3, <1>6, PeerIs DEF Sides, B
<1>11. Sound(x)
  BY <1>1, <1>3, <1>6, <1>7, <1>8, <1>9, <1>10 DEF Sound
<1> QED BY <1>1, <1>2, <1>4, <1>5, <1>6, <1>11, AllStay, UsersStay, Quietly

LEMMA RequestTimesOut ==
  ASSUME DialogsInv, NEW d \in Sides, NEW m \in Methods, TimesOut(d, m)
  PROVE  DialogsInv'
<1>1. /\ UNCHANGED <<mode, user>> /\ client[d][m] = "calling" /\ Ignored(d, m)
      /\ Act(d, Ended(dlg[d], "error"), {}, client[d], server[d], {}, {})
  BY DEF TimesOut, ActAlone
<1>2. dlg[d].fsm \notin {"Started", "Terminated"}
  BY <1>1 DEF DialogsInv, SidesInv, Side
<1>3. "error" \in Whys
  BY DEF Whys
<1>4. CASE d = "a"
  <2>1. Heard => Excuses("error", A.races, B)
    BY <1>1, <1>4, Known, PeerIs DEF Ignored, Excuses, Side, Caller, Heard
  <2> QED BY <1>1, <1>2, <1>3, <1>4, <2>1, CallerExpires DEF A
<1>5. CASE d = "b"
  <2>1. Excuses("error", B.races, A)
    BY <1>1, <1>5, Known, PeerIs DEF Ignored, Excuses, Side, Callee
  <2> QED BY <1>1, <1>2, <1>3, <1>5, <2>1, CalleeExpires, Known DEF B
<1> QED BY <1>4, <1>5 DEF Sides

LEMMA SuccessRepeated ==
  ASSUME DialogsInv, NEW d \in Sides, NEW m \in Methods, Retransmit2xx(d, m)
  PROVE  DialogsInv'
<1> DEFINE x == Reply(d, "2xx", m)
<1>1. /\ server[d][m] = "2xx" /\ m \in Invites /\ net' = net \cup {x}
      /\ UNCHANGED <<mode, dlg, client, server, user, mishaps>>
  BY DEF Retransmit2xx, Unacknowledged
<1>2. dlg[d].fsm # "Started" /\ net \subseteq Messages
  BY <1>1 DEF DialogsInv, SidesInv, Side, TypeOK
<1>3. A.fsm # "Started"
  BY <1>2, Known DEF PairInv, A, B, Sides
<1>4. x \in Messages /\ x.to = Peer(d) /\ x.kind = "2xx" /\ x.method = m
  BY ReplyIs DEF Kinds
<1>5. m = "INVITE" => d = "b" /\ Accepted
  BY <1>1, Known DEF Caller, Callee, Accepted, Sides
<1> HIDE DEF x
<1>6. Peer(x.to) = d /\ (x.to = "b" <=> d = "a") /\ (x.to = "a" => B.fsm # "Started")
  BY <1>2, <1>4, PeerIs DEF Sides, B
<1>7. Sound(x)
  BY <1>1, <1>4, <1>5, <1>6 DEF Sound, Invites
<1> QED BY <1>1, <1>2, <1>3, <1>4, <1>7, AllStay, UsersStay, Quietly

(* Nobody acknowledges the 2xx: its sender is in a call with nobody.       *)
LEMMA SuccessExpires ==
  ASSUME DialogsInv, NEW d \in Sides, NEW m \in Methods, UnackedExpires(d, m)
  PROVE  DialogsInv'
<1>1. /\ UNCHANGED <<mode, user>> /\ server[d][m] = "2xx" /\ m \in Invites
      /\ client[Peer(d)][m] = "none"
      /\ Act(d, Ended(dlg[d], "error"), {}, client[d], server[d], {}, {})
  BY DEF UnackedExpires, Unacknowledged, ActAlone
<1>2. dlg[d].fsm \notin {"Started", "Terminated"}
  BY <1>1 DEF DialogsInv, SidesInv, Side
<1>3. m = "INVITE" => d = "b" /\ A.fsm \notin InCall \cup {"Outgoing"}
  BY <1>1, Known, PeerIs DEF Caller, Sides
<1>4. m = "reINVITE" => dlg[Peer(d)].fsm = "Terminated"
  BY <1>1, <1>2, Known, PeerIs DEF PairInv
<1>5. "error" \in Whys
  BY DEF Whys
<1>6. CASE d = "a"
  <2>1. B.fsm \notin InCall
    BY <1>1, <1>3, <1>4, <1>6, PeerIs DEF Invites, InCall, B
  <2> QED BY <1>1, <1>2, <1>5, <1>6, <2>1, CallerExpires DEF A
<1>7. CASE d = "b"
  <2>1. A.fsm \notin InCall \cup {"Outgoing"}
    BY <1>1, <1>3, <1>4, <1>7, PeerIs DEF Invites, InCall, A
  <2> QED BY <1>1, <1>2, <1>5, <1>7, <2>1, CalleeExpires, Known DEF B
<1> QED BY <1>6, <1>7 DEF Sides

-----------------------------------------------------------------------------
(* The whole program.                                                      *)
LEMMA DialogsStart == Init => DialogsInv
<1> SUFFICES ASSUME Init PROVE DialogsInv
  OBVIOUS
<1> USE PeerIs DEF Sides
<1>1. /\ mode \in Modes /\ net = {} /\ mishaps = {}
      /\ \A d \in Sides : dlg[d] = Fresh /\ client[d] = NoTransaction /\ server[d] = NoTransaction
                          /\ user[d] = [asked |-> {}, hangup |-> "no"]
  BY DEF Init
<1>2. \A m \in Methods : NoTransaction[m] = "none"
  BY DEF NoTransaction
<1>3. Fresh \in DialogType
  BY InviteDialogAssumption DEF Fresh, DialogType, FsmStates, MaxRSeq
<1>4. /\ Fresh.fsm = "Started" /\ Fresh.state = "initial" /\ Fresh.rseq = 0 /\ Fresh.sent = 0
      /\ Fresh.rel = {} /\ Fresh.resends = 0 /\ Fresh.rsvp = "none" /\ ~Fresh.refresh /\ ~Fresh.closing
      /\ Fresh.why = "none" /\ Fresh.races = {}
  BY DEF Fresh
<1>5. /\ NoTransaction \in [Methods -> {"none", "calling", "proceeding", "accepted"}]
      /\ NoTransaction \in [Methods -> {"none", "trying", "100", "1xx", "1xxrel", "2xx", "final", "acked"}]
  BY DEF NoTransaction
<1>6. TypeOK
  BY <1>1, <1>3, <1>5 DEF TypeOK, Init
<1>7. \A u : u = [asked |-> {}, hangup |-> "no"] => u.asked = {} /\ u.hangup = "no"
  OBVIOUS
<1>8. Side(Fresh, NoTransaction, NoTransaction, [asked |-> {}, hangup |-> "no"])
  BY <1>2, <1>4, InviteDialogAssumption DEF Side, Methods, Invites
<1>9. Caller(Fresh, NoTransaction, NoTransaction, [asked |-> {}, hangup |-> "no"])
  BY <1>2, <1>4 DEF Caller, Methods, InCall
<1>10. Callee(Fresh, NoTransaction, NoTransaction, [asked |-> {}, hangup |-> "no"])
  BY <1>2, <1>4 DEF Callee, Methods, InCall, Undecided
<1>11. SidesInv
  BY <1>1, <1>8, <1>9, <1>10 DEF SidesInv, A, B
<1>12. PairInv
  BY <1>1, <1>2, <1>4 DEF PairInv, A, B, Heard, Accepted, InCall, Methods
<1> QED BY <1>1, <1>6, <1>11, <1>12 DEF DialogsInv, NetInv

LEMMA DialogsStep == DialogsInv /\ [Next]_vars => DialogsInv'
<1> SUFFICES ASSUME DialogsInv, [Next]_vars PROVE DialogsInv'
  OBVIOUS
<1>1. CASE Started_2_Outgoing_oINVITE
  BY <1>1, CallStarts
<1>2. ASSUME NEW x \in net, Receive(x)
      PROVE  DialogsInv'
  <2>1. CASE \/ Outgoing_2_Connected_i2xxINVITE(x) \/ Outgoing_2_Terminated_i300_to_i699INVITE(x)
             \/ Cancelling_iCANCELresponse(x) \/ Any_2_Any_i1xx(x)
             \/ Any_2_Any_i2xxINVITEorUPDATE(x) \/ Any_2_Terminated_iBYEresponse(x)
             \/ IgnoredResponse(x) \/ Holding_2_Connected_ixxx(x)
    BY <2>1, OutgoingConnects, OutgoingEnds, CancelAnswered, ProvisionalHeard, SuccessHeard,
       ByeAnswered, ResponseIgnored, HoldAnswered
  <2>2. CASE \/ Started_iINVITE(x) \/ InProgress_iPRACK(x) \/ Ringing_iPRACK(x) \/ Any_iPRACK(x)
             \/ InProgress_iUPDATE(x) \/ Connected_iINVITEorUPDATE(x) \/ Early_iCANCEL(x)
             \/ Any_2_Terminated_iBYE(x) \/ SwallowedRequest(x) \/ Any_iACK(x)
    BY <2>2, InviteArrives, PrackInProgress, PrackRinging, PrackLater, UpdateInProgress,
       SessionModified, CancelArrives, ByeArrives, RequestSwallowed, AckArrives
  <2>3. CASE LateResponse(x) \/ Retransmitted(x) \/ NoDialog(x) \/ StrayINVITE(x)
    BY <2>3, Dropped, AnsweredAgain, NoDialogAnswers, StrayAnswered DEF LateResponse
  <2> QED BY <1>2, <2>1, <2>2, <2>3 DEF Receive
<1>3. ASSUME NEW x \in net, Lose(x)
      PROVE  DialogsInv'
  BY <1>3, LostIs
<1>4. ASSUME NEW d \in Sides, Users(d)
      PROVE  DialogsInv'
  <2>1. CASE Hold(d) \/ Resume(d)
    BY <2>1, HeldOrResumed DEF Hold, Resume
  <2> QED BY <1>4, <2>1, CallAccepted, StateRead, HungUp, ShutDown DEF Users
<1>5. ASSUME NEW d \in Sides, Timers(d)
      PROVE  DialogsInv'
  BY <1>5, TimerRaised, TimerDoubles, RefreshDue, ReservationDone, PatienceEnds DEF Timers
<1>6. ASSUME NEW d \in Sides, NEW m \in Methods, Transactions(d, m)
      PROVE  DialogsInv'
  BY <1>6, RequestRepeated, RequestTimesOut, SuccessRepeated, SuccessExpires DEF Transactions
<1>7. CASE UNCHANGED vars
  <2>1. \A d \in Sides, m \in Methods : Moved(d, m)
    BY <1>7 DEF vars, Moved
  <2>2. A.fsm = "Started" => net = {}
    BY Known DEF PairInv
  <2>3. net \subseteq Messages /\ server \in [Sides -> [Methods -> ServerStates]]
    BY DEF DialogsInv, TypeOK, ServerStates
  <2> QED BY <1>7, <2>1, <2>2, <2>3, UsersStay, Quietly DEF vars
<1> QED BY <1>1, <1>2, <1>3, <1>4, <1>5, <1>6, <1>7 DEF Next

(* The invariant of the two dialogs and of the messages between them, for  *)
(* any modes and any limit of timer100rel: what tsip_dialog_invite.c and   *)
(* its client, server, hold, timers and qos files keep at every step.      *)
THEOREM DialogsCorrect == Spec => []DialogsInv
<1> QED BY DialogsStart, DialogsStep, PTL DEF Spec

(* Every variable keeps its type: timer100rel never doubles more often     *)
(* than the limit and RSeq stays below its bound, however many PRACKs,     *)
(* repetitions and late answers arrive.                                    *)
THEOREM InviteTyped == Spec => []TypeOK
<1>1. DialogsInv => TypeOK
  BY DEF DialogsInv
<1> QED BY DialogsCorrect, <1>1, PTL

(* Nobody is left alone in a call, unless the dialog at the other end      *)
(* ended in one of the ways in which the code sends no BYE.                *)
THEOREM NobodyIsOrphaned == Spec => []NoOrphan
<1>1. DialogsInv => NoOrphan
  <2> SUFFICES ASSUME DialogsInv, NEW d \in Sides, Alone(d)
               PROVE  Excused(Peer(d))
    BY PeerIs DEF NoOrphan, Excused
  <2>1. CASE d = "a"
    <3>1. A.fsm \in InCall /\ B.fsm = "Terminated"
      BY <2>1, PeerIs DEF Alone, Is, InCall, A, B
    <3>2. Accepted
      BY <3>1, Known DEF Caller, PairInv, Heard
    <3> QED BY <2>1, <3>1, <3>2, Known, PeerIs DEF PairInv
  <2>2. CASE d = "b"
    <3>1. B.fsm \in InCall /\ A.fsm = "Terminated" /\ server["b"]["INVITE"] # "2xx"
      BY <2>2, PeerIs DEF Alone, Is, InCall, Invites, A, B
    <3>2. server["b"]["INVITE"] = "acked"
      BY <3>1, Known DEF Callee
    <3> QED BY <2>2, <3>1, <3>2, Known, PeerIs DEF PairInv
  <2> QED BY <2>1, <2>2 DEF Sides
<1> QED BY DialogsCorrect, <1>1, PTL

-----------------------------------------------------------------------------
(* Only timer100rel ends a dialog with the reason "100rel".                *)
NotGivenUp == \A d \in Sides : dlg'[d].why = "100rel" => dlg[d].why = "100rel"

Elsewise == {"peer", "error", "shutdown"}

LEMMA EndedWhy ==
  ASSUME NEW q, NEW why, Ended(q, why) \in DialogType
  PROVE  Ended(q, why).why = why
<1>1. DOMAIN Ended(q, why) = DOMAIN q
  BY DEF Ended
<1>2. "why" \in DOMAIN Ended(q, why)
  BY DEF DialogType
<1> QED BY <1>1, <1>2 DEF Ended

LEMMA ExchangeKeeps ==
  ASSUME TypeOK, TypeOK', NEW d \in Sides, NEW r, NEW took, NEW c, NEW s, NEW starts, NEW replies,
         Exchange(d, r, took, c, s, starts, replies),
         \/ r.why = dlg[d].why
         \/ r.why \in Elsewise
         \/ \E q, why : r = Ended(q, why) /\ why \in Elsewise
  PROVE  NotGivenUp
<1>1. dlg' = [dlg EXCEPT ![d] = r] /\ dlg \in [Sides -> DialogType] /\ dlg' \in [Sides -> DialogType]
  BY DEF Exchange, TypeOK
<1>2. dlg'[d] = r /\ r \in DialogType /\ \A e \in Sides : e # d => dlg'[e] = dlg[e]
  BY <1>1
<1>3. r.why = dlg[d].why \/ r.why \in Elsewise
  BY <1>2, EndedWhy
<1> QED BY <1>2, <1>3 DEF NotGivenUp, Elsewise

LEMMA ActKeeps ==
  ASSUME TypeOK, TypeOK', NEW d \in Sides, NEW r, NEW took, NEW c, NEW s, NEW starts, NEW replies,
         Act(d, r, took, c, s, starts, replies),
         \/ r.why = dlg[d].why
         \/ r.why \in Elsewise
         \/ \E q, why : r = Ended(q, why) /\ why \in Elsewise
  PROVE  NotGivenUp
<1>1. CASE Exchange(d, r, took, c, s, starts, replies)
  BY <1>1, ExchangeKeeps
<1>2. CASE Exchange(d, Ended(r, "error"), took, c, s, {}, replies)
  <2>1. "error" \in Elsewise
    BY DEF Elsewise
  <2> QED BY <1>2, <2>1, ExchangeKeeps
<1> QED BY <1>1, <1>2 DEF Act

(* The handlers change a dialog without a word on why it may end.          *)
LEMMA ResponsesKeep ==
  ASSUME TypeOK, TypeOK', NEW x \in net,
         \/ Outgoing_2_Connected_i2xxINVITE(x) \/ Outgoing_2_Terminated_i300_to_i699INVITE(x)
         \/ Cancelling_iCANCELresponse(x) \/ Any_2_Any_i1xx(x)
         \/ Any_2_Any_i2xxINVITEorUPDATE(x) \/ Any_2_Terminated_iBYEresponse(x)
         \/ IgnoredResponse(x) \/ Holding_2_Connected_ixxx(x)
  PROVE  NotGivenUp
<1> DEFINE d == x.to
<1>1. d \in Sides /\ dlg[d] \in DialogType /\ "peer" \in Elsewise /\ "error" \in Elsewise
  BY DEF TypeOK, Messages, Elsewise
<1>2. ASSUME NEW r, NEW starts, NEW replies, OnResponse(x, r, starts, replies),
             \/ r.why = dlg[d].why
             \/ \E q, why : r = Ended(q, why) /\ why \in Elsewise
      PROVE  NotGivenUp
  BY <1>1, <1>2, ActKeeps DEF OnResponse
<1>3. CASE Outgoing_2_Connected_i2xxINVITE(x)
  <2> DEFINE q == [With("a", "Connected") EXCEPT !.state = "established"]
  <2>1. d = "a" /\ \/ OnResponse(x, Refreshed(q), {}, {Ack("a", "INVITE")})
                   \/ OnResponse(x, Ended(q, "error"), {}, {Reply("a", "request", "BYE")})
    BY <1>3 DEF Outgoing_2_Connected_i2xxINVITE
  <2>2. Refreshed(q).why = dlg[d].why
    BY <1>1, <2>1 DEF Refreshed, With, DialogType
  <2> HIDE DEF q
  <2> QED BY <1>1, <1>2, <2>1, <2>2
<1>4. CASE Outgoing_2_Terminated_i300_to_i699INVITE(x)
  BY <1>1, <1>2, <1>4 DEF Outgoing_2_Terminated_i300_to_i699INVITE
<1>5. CASE Cancelling_iCANCELresponse(x)
  BY <1>1, <1>2, <1>5 DEF Cancelling_iCANCELresponse
<1>6. CASE Any_2_Any_i1xx(x)
  <2> DEFINE r == [dlg[d] EXCEPT
             !.state = IF x.kind = "100" \/ @ = "established" THEN @ ELSE "early",
             !.rsvp = IF @ = "none" /\ x.kind # "100" /\ mode.qos = "mandatory"
                      THEN "armed" ELSE @]
             p == [r EXCEPT !.rseq = x.rseq]
  <2>1. OnResponse(x, p, {"PRACK"}, {}) \/ OnResponse(x, r, {}, {})
    BY <1>6 DEF Any_2_Any_i1xx
  <2>2. r.why = dlg[d].why /\ p.why = dlg[d].why
    BY <1>1 DEF DialogType
  <2> HIDE DEF r, p
  <2> QED BY <1>2, <2>1, <2>2
<1>7. CASE Any_2_Any_i2xxINVITEorUPDATE(x)
  <2> DEFINE r == Refreshed([dlg[d] EXCEPT !.state = "established",
                        !.races = @ \cup IF x.method = "INVITE" /\ client[d]["INVITE"] # "accepted"
                                         THEN {"crossed"} ELSE {}])
  <2>1. OnResponse(x, r, {}, IF x.method = "UPDATE" THEN {} ELSE {Ack(d, x.method)})
    BY <1>7 DEF Any_2_Any_i2xxINVITEorUPDATE
  <2>2. r.why = dlg[d].why
    BY <1>1 DEF DialogType, Refreshed
  <2> HIDE DEF r
  <2> QED BY <1>2, <2>1, <2>2
<1>8. CASE Any_2_Terminated_iBYEresponse(x)
  BY <1>1, <1>2, <1>8 DEF Any_2_Terminated_iBYEresponse
<1>9. CASE IgnoredResponse(x)
  BY <1>1, <1>2, <1>9 DEF IgnoredResponse
<1>10. CASE Holding_2_Connected_ixxx(x)
  <2> DEFINE r == With(d, "Connected")
  <2>1. OnResponse(x, r, {}, IF x.method = "UPDATE" THEN {} ELSE {Ack(d, x.method)})
    BY <1>10 DEF Holding_2_Connected_ixxx
  <2>2. r.why = dlg[d].why
    BY <1>1 DEF DialogType, With
  <2> HIDE DEF r
  <2> QED BY <1>2, <2>1, <2>2
<1> QED BY <1>3, <1>4, <1>5, <1>6, <1>7, <1>8, <1>9, <1>10

LEMMA RequestsKeep ==
  ASSUME TypeOK, TypeOK', NEW x \in net,
         \/ Started_iINVITE(x) \/ InProgress_iPRACK(x) \/ Ringing_iPRACK(x) \/ Any_iPRACK(x)
         \/ InProgress_iUPDATE(x) \/ Connected_iINVITEorUPDATE(x) \/ Early_iCANCEL(x)
         \/ Any_2_Terminated_iBYE(x) \/ SwallowedRequest(x)
  PROVE  NotGivenUp
<1> DEFINE d == x.to
           q == Cancel100rel(dlg[d])
<1>1. d \in Sides /\ dlg[d] \in DialogType /\ "peer" \in Elsewise /\ "error" \in Elsewise /\ mode.rel \in BOOLEAN
  BY InviteDialogAssumption DEF TypeOK, Messages, Elsewise, ModeType
<1>2. ASSUME NEW r, NEW answer, NEW more, OnRequest(x, r, answer, more),
             \/ r.why = dlg[d].why
             \/ r.why = "none" /\ dlg[d].why = "none"
             \/ \E p, why : r = Ended(p, why) /\ why \in Elsewise
      PROVE  NotGivenUp
  BY <1>1, <1>2, ActKeeps DEF OnRequest
<1>3. q \in DialogType /\ q.why = dlg[d].why
  BY <1>1, Cancel100relIs
<1>4. CASE Started_iINVITE(x)
  <2> DEFINE new == [Fresh EXCEPT !.state = "established", !.rseq = IF mode.rel THEN 1 ELSE 0,
                           !.fsm = IF mode.qos = "none" THEN "Ringing" ELSE "InProgress"]
             r == Ringback(new, mode.rel)
  <2>1. \/ OnRequest(x, r, Rings("b", r, mode.rel), {})
        \/ OnRequest(x, Ended(new, "error"), Reply("b", "final", "INVITE"), {})
    BY <1>4 DEF Started_iINVITE
  <2>2. r.why = "none"
    BY DEF Ringback, Fresh
  <2> HIDE DEF r, new
  <2>3. CASE OnRequest(x, r, Rings("b", r, mode.rel), {})
    <3>1. Act(d, r, {x}, client[d], IF x.method = "CANCEL" THEN server[d]
               ELSE [server[d] EXCEPT ![x.method] = Rings("b", r, mode.rel).kind], {},
              {Rings("b", r, mode.rel)} \cup {})
      BY <2>3 DEF OnRequest
    <3>2. Exchange(d, r, {x}, client[d], IF x.method = "CANCEL" THEN server[d]
               ELSE [server[d] EXCEPT ![x.method] = Rings("b", r, mode.rel).kind], {},
              {Rings("b", r, mode.rel)} \cup {})
      BY <3>1 DEF Act
    <3>3. dlg' = [dlg EXCEPT ![d] = r] /\ dlg \in [Sides -> DialogType]
      BY <3>2 DEF Exchange, TypeOK
    <3> QED BY <1>1, <2>2, <3>3 DEF NotGivenUp
  <2> QED BY <1>1, <1>2, <2>1, <2>3
<1>5. CASE InProgress_iPRACK(x)
  <2> DEFINE r == Ringback([q EXCEPT !.fsm = "Ringing", !.rseq = @ + 2], mode.rel)
             p == [q EXCEPT !.rseq = @ + 1]
             answer == Reply(d, "2xx", "PRACK")
  <2>1. \/ OnRequest(x, p, answer, {})
        \/ OnRequest(x, r, answer, {Rings(d, r, mode.rel)})
    BY <1>5 DEF InProgress_iPRACK
  <2>2. p.why = dlg[d].why /\ r.why = dlg[d].why
    <3> HIDE DEF q
    <3> QED BY <1>3 DEF Ringback, DialogType
  <2> HIDE DEF p, r, answer
  <2> QED BY <1>2, <2>1, <2>2
<1>6. CASE Ringing_iPRACK(x)
  <2> DEFINE p == [q EXCEPT !.rseq = @ + 1]
  <2>1. OnRequest(x, p, Reply(d, "2xx", "PRACK"), {})
    BY <1>6 DEF Ringing_iPRACK
  <2>2. p.why = dlg[d].why
    <3> HIDE DEF q
    <3> QED BY <1>3 DEF DialogType
  <2> HIDE DEF p
  <2> QED BY <1>2, <2>1, <2>2
<1>7. CASE Any_iPRACK(x)
  <2> DEFINE p == [dlg[d] EXCEPT !.rseq = @ + 1]
  <2>1. OnRequest(x, p, Reply(d, "2xx", "PRACK"), {}) \/ OnRequest(x, dlg[d], Reply(d, "final", "PRACK"), {})
    BY <1>7 DEF Any_iPRACK
  <2>2. p.why = dlg[d].why
    BY <1>1 DEF DialogType
  <2> HIDE DEF p
  <2> QED BY <1>2, <2>1, <2>2
<1>8. CASE InProgress_iUPDATE(x)
  <2> DEFINE r == Ringback(With(d, "Ringing"), mode.rel)
             answer == Reply(d, "2xx", "UPDATE")
  <2>1. OnRequest(x, r, answer, {Rings(d, r, mode.rel)}) \/ OnRequest(x, dlg[d], answer, {})
    BY <1>8 DEF InProgress_iUPDATE
  <2>2. r.why = dlg[d].why
    BY <1>1 DEF Ringback, With, DialogType
  <2> HIDE DEF r, answer
  <2> QED BY <1>2, <2>1, <2>2
<1>9. CASE Connected_iINVITEorUPDATE(x)
  <2> DEFINE r == IF Is(d, {"Connected"}) THEN Refreshed(dlg[d]) ELSE dlg[d]
  <2>1. OnRequest(x, r, Reply(d, "2xx", x.method), {})
    BY <1>9 DEF Connected_iINVITEorUPDATE
  <2>2. r.why = dlg[d].why
    BY <1>1 DEF Refreshed, DialogType
  <2> HIDE DEF r
  <2> QED BY <1>2, <2>1, <2>2
<1>10. CASE Early_iCANCEL(x)
  BY <1>1, <1>2, <1>10 DEF Early_iCANCEL
<1>11. CASE Any_2_Terminated_iBYE(x)
  BY <1>1, <1>2, <1>11 DEF Any_2_Terminated_iBYE
<1>12. CASE SwallowedRequest(x)
  <2> DEFINE r == [dlg[d] EXCEPT !.races = @ \cup {"swallowed"}]
             s == [server[d] EXCEPT ![x.method] = IF x.method = "reINVITE" THEN "100" ELSE "trying"]
  <2>1. \/ Act(d, r, {x}, client[d], s, {}, {})
        \/ Act(d, r, {x}, client[d], s, {}, {Reply(d, "100", "reINVITE")})
        \/ Act(d, dlg[d], {x}, client[d], server[d], {}, {})
    BY <1>12 DEF SwallowedRequest
  <2>2. r.why = dlg[d].why
    BY <1>1 DEF DialogType
  <2> HIDE DEF r, s
  <2> QED BY <1>1, <2>1, <2>2, ActKeeps
<1> QED BY <1>4, <1>5, <1>6, <1>7, <1>8, <1>9, <1>10, <1>11, <1>12

LEMMA UsersKeep ==
  ASSUME TypeOK, TypeOK', NEW d \in Sides, Users(d)
  PROVE  NotGivenUp
<1> DEFINE q == Cancel100rel(dlg[d])
<1>1. dlg[d] \in DialogType /\ "peer" \in Elsewise
  BY DEF TypeOK, Elsewise
<1>2. \A f \in FsmStates : With(d, f).why = dlg[d].why
  BY <1>1 DEF With, DialogType
<1>3. q \in DialogType /\ q.why = dlg[d].why
  BY <1>1, Cancel100relIs
<1>4. CASE Accept(d)
  <2> DEFINE r == Refreshed([q EXCEPT !.fsm = "Connected"])
  <2>1. Act(d, r, {}, client[d], [server[d] EXCEPT !["INVITE"] = "2xx"], {}, {Reply(d, "2xx", "INVITE")})
    BY <1>4 DEF Accept
  <2>2. r.why = dlg[d].why
    <3> HIDE DEF q
    <3> QED BY <1>3 DEF Refreshed, DialogType
  <2> HIDE DEF r
  <2> QED BY <2>1, <2>2, ActKeeps
<1>5. ASSUME NEW what, NEW fsm \in {"Holding", "Resuming"}, HoldOrResume(d, what, fsm)
      PROVE  NotGivenUp
  <2>1. fsm \in FsmStates
    BY DEF FsmStates
  <2> QED BY <1>2, <1>5, <2>1, ExchangeKeeps DEF HoldOrResume
<1>6. CASE HangupRead(d)
  BY <1>6 DEF HangupRead, NotGivenUp
<1>7. CASE HangupAct(d)
  <2> DEFINE r == [dlg[d] EXCEPT !.races = @ \cup {"dropped"}]
  <2>1. \/ ActAlone(d, dlg[d], {}, {})
        \/ ActAlone(d, Ended(q, "peer"), {}, {Reply(d, "final", "INVITE")})
        \/ ActAlone(d, With(d, "Trying"), {"BYE"}, {})
        \/ ActAlone(d, With(d, "Cancelling"), {"CANCEL"}, {})
        \/ ActAlone(d, r, {}, {})
    BY <1>7 DEF HangupAct
  <2>2. r.why = dlg[d].why /\ "Trying" \in FsmStates /\ "Cancelling" \in FsmStates
    BY <1>1 DEF DialogType, FsmStates
  <2> HIDE DEF q, r
  <2> QED BY <1>1, <1>2, <2>1, <2>2, ActKeeps DEF ActAlone
<1>8. CASE Shutdown(d)
  <2> DEFINE r == [With(d, "Trying") EXCEPT !.closing = TRUE]
             starts == CASE dlg[d].state = "established" -> {"BYE"}
                         [] dlg[d].state = "early" -> {"CANCEL"}
                         [] OTHER -> {}
  <2>1. ActAlone(d, r, starts, {})
    BY <1>8 DEF Shutdown
  <2>2. r.why = dlg[d].why
    BY <1>1 DEF DialogType, With
  <2> HIDE DEF r, starts
  <2> QED BY <2>1, <2>2, ActKeeps DEF ActAlone
<1> QED BY <1>4, <1>5, <1>6, <1>7, <1>8 DEF Users, Hold, Resume

LEMMA TimersKeep ==
  ASSUME TypeOK, TypeOK', NEW d \in Sides, Timers(d), ~Any_2_Any_timer100rel(d)
  PROVE  NotGivenUp
<1>1. dlg[d] \in DialogType /\ dlg \in [Sides -> DialogType] /\ "shutdown" \in Elsewise
  BY DEF TypeOK, Elsewise
<1>2. CASE Raise100rel(d)
  <2>1. dlg' = [dlg EXCEPT ![d].rel = {"raised"}]
    BY <1>2 DEF Raise100rel
  <2>2. dlg'[d].why = dlg[d].why /\ \A e \in Sides : e # d => dlg'[e] = dlg[e]
    BY <1>1, <2>1 DEF DialogType
  <2> QED BY <2>2 DEF NotGivenUp
<1>3. CASE Connected_timerRefresh(d)
  <2> DEFINE q == [dlg[d] EXCEPT !.refresh = FALSE]
             r == [With(d, "Trying") EXCEPT !.refresh = FALSE]
  <2>1. ActAlone(d, q, {}, {}) \/ ActAlone(d, q, {"UPDATE"}, {}) \/ ActAlone(d, r, {"BYE"}, {})
    BY <1>3 DEF Connected_timerRefresh
  <2>2. q.why = dlg[d].why /\ r.why = dlg[d].why
    BY <1>1 DEF DialogType, With
  <2> HIDE DEF q, r
  <2> QED BY <2>1, <2>2, ActKeeps DEF ActAlone
<1>4. CASE Any_2_Any_timerRSVP(d)
  <2> DEFINE r == [dlg[d] EXCEPT !.rsvp = "done"]
  <2>1. ActAlone(d, r, {"UPDATE"}, {})
    BY <1>4 DEF Any_2_Any_timerRSVP
  <2>2. r.why = dlg[d].why
    BY <1>1 DEF DialogType
  <2> HIDE DEF r
  <2> QED BY <2>1, <2>2, ActKeeps DEF ActAlone
<1>5. CASE ShutdownTimedout(d)
  BY <1>1, <1>5, ActKeeps DEF ShutdownTimedout, ActAlone
<1> QED BY <1>2, <1>3, <1>4, <1>5 DEF Timers

LEMMA TransactionsKeep ==
  ASSUME TypeOK, TypeOK', NEW d \in Sides, NEW m \in Methods, Transactions(d, m)
  PROVE  NotGivenUp
<1>1. "error" \in Elsewise
  BY DEF Elsewise
<1>2. CASE Retransmit(d, m) \/ Retransmit2xx(d, m)
  BY <1>2 DEF Retransmit, Retransmit2xx, NotGivenUp
<1>3. CASE TimesOut(d, m)
  BY <1>1, <1>3, ActKeeps DEF TimesOut, ActAlone
<1>4. CASE UnackedExpires(d, m)
  BY <1>1, <1>4, ActKeeps DEF UnackedExpires, ActAlone
<1> QED BY <1>2, <1>3, <1>4 DEF Transactions

LEMMA GivesUpRightly ==
  ASSUME DialogsInv, DialogsInv', [Next]_vars, NEW d \in Sides,
         dlg'[d].why = "100rel", ~Is(d, {"Trying", "Terminated"})
  PROVE  dlg[d].rseq = dlg[d].sent \/ "late" \in dlg[d].races
<1>1. TypeOK /\ TypeOK' /\ dlg[d].why = "none"
  BY DEF DialogsInv, SidesInv, Side, Is
<1>2. ~NotGivenUp
  BY <1>1 DEF NotGivenUp
<1>3. PICK e \in Sides : Any_2_Any_timer100rel(e)
  <2>1. ASSUME Started_2_Outgoing_oINVITE
        PROVE  NotGivenUp
    <3> DEFINE r == With("a", "Outgoing")
    <3>1. Act("a", r, {}, client["a"], server["a"], {"INVITE"}, {})
      BY <2>1 DEF Started_2_Outgoing_oINVITE, ActAlone
    <3>2. r.why = dlg["a"].why
      BY <1>1 DEF With, TypeOK, DialogType, Sides
    <3> HIDE DEF r
    <3> QED BY <1>1, <3>1, <3>2, ActKeeps DEF Sides
  <2>2. ASSUME NEW x \in net, Receive(x)
        PROVE  NotGivenUp
    <3>1. CASE UNCHANGED dlg
      BY <3>1 DEF NotGivenUp
    <3> QED BY <1>1, <2>2, <3>1, ResponsesKeep, RequestsKeep
            DEF Receive, Any_iACK, LateResponse, Drop, Retransmitted, NoDialog, StrayINVITE
  <2>3. ASSUME NEW x \in net, Lose(x)
        PROVE  NotGivenUp
    BY <2>3 DEF Lose, NotGivenUp
  <2>4. CASE UNCHANGED vars
    BY <1>2, <2>4 DEF vars, NotGivenUp
  <2> QED BY <1>1, <1>2, <2>1, <2>2, <2>3, <2>4, UsersKeep, TimersKeep, TransactionsKeep DEF Next
<1>4. e = "b" /\ B.rel # {}
  BY <1>3, Known DEF Any_2_Any_timer100rel, Caller, A, B, Sides
<1>5. \A f \in Sides : f # e => dlg'[f] = dlg[f]
  BY <1>1, <1>3 DEF Any_2_Any_timer100rel, ActAlone, Act, Exchange, TypeOK
<1>6. d = "b"
  BY <1>1, <1>4, <1>5 DEF Sides
<1> QED BY <1>4, <1>6, Known DEF Callee, Is, B

(* Only timer100rel gives a call up as unacknowledged, and only while its  *)
(* last reliable response is, unless a raised timer was canceled too late: *)
(* a PRACK that has come stops it in every other interleaving.             *)
THEOREM AcknowledgedCallSurvives == Spec => AcknowledgedSurvives
<1>1. DialogsInv /\ DialogsInv' /\ [Next]_vars =>
        [\A d \in Sides :
           dlg'[d].why = "100rel" /\ ~Is(d, {"Trying", "Terminated"}) =>
             dlg[d].rseq = dlg[d].sent \/ "late" \in dlg[d].races]_vars
  BY GivesUpRightly
<1> QED BY DialogsCorrect, <1>1, PTL DEF Spec, AcknowledgedSurvives

-----------------------------------------------------------------------------
(* RefreshDialog.                                                          *)
USE DEF dialogVars, timerVars, netVars, Never, NoRequest, NoLife

\* The delay to the next refresh is a length of time.
LEMMA NewDelayType ==
  ASSUME NEW life \in Nat
  PROVE  NewDelay(life) \in Nat
<1>1. CASE life > LongLife
  BY <1>1, RefreshDialogAssumption DEF NewDelay
<1>2. CASE ~(life > LongLife)
  BY <1>2 DEF NewDelay
<1>3. QED
  BY <1>1, <1>2

\* Every variable keeps its type.
LEMMA TypeStep ==
  ASSUME RefreshTypeOK, [RefreshNext]_refreshVars
  PROVE  RefreshTypeOK'
<1> USE RefreshDialogAssumption DEF RefreshTypeOK, NoNotify, Responses
<1>1. CASE Started_2_Trying_oREQUEST
  BY <1>1 DEF Started_2_Trying_oREQUEST, Send
<1>2. CASE Connected_2_Trying_oREQUEST
  BY <1>2 DEF Connected_2_Trying_oREQUEST, Send
<1>3. CASE RefreshIgnored
  BY <1>3 DEF RefreshIgnored
<1>4. CASE HangupLooks
  BY <1>4 DEF HangupLooks
<1>5. CASE Any_2_Trying_hangup
  <2>1. CASE silent
    BY <1>5, <2>1 DEF Any_2_Trying_hangup, Send, Terminates
  <2>2. CASE ~(silent)
    BY <1>5, <2>2 DEF Any_2_Trying_hangup, Send, Terminates
  <2>3. QED
    BY <2>1, <2>2
<1>6. CASE Trying_2_Terminated_hangup
  BY <1>6 DEF Trying_2_Terminated_hangup, Terminates
<1>7. CASE Trying_2_Terminated_cancel
  BY <1>7 DEF Trying_2_Terminated_cancel, Terminates
<1>8. CASE HangupIgnored
  BY <1>8 DEF HangupIgnored
<1>9. CASE Any_2_Trying_shutdown
  <2>1. CASE silent
    BY <1>9, <2>1 DEF Any_2_Trying_shutdown, Send, Terminates
  <2>2. CASE ~(silent)
    BY <1>9, <2>2 DEF Any_2_Trying_shutdown, Send, Terminates
  <2>3. QED
    BY <2>1, <2>2
<1>10. CASE Trying_2_Terminated_shutdown
  BY <1>10 DEF Trying_2_Terminated_shutdown, Terminates
<1>11. CASE Any_2_Terminated_shutdownTimedout
  <2>1. armed' \in BOOLEAN
    BY <1>11 DEF Any_2_Terminated_shutdownTimedout
  <2>2. state' \in {state, "Terminated"} /\ how' \in {how, "late"}
    BY <1>11 DEF Any_2_Terminated_shutdownTimedout, Terminates
  <2>3. QED
    BY <1>11, <2>1, <2>2 DEF Any_2_Terminated_shutdownTimedout
<1>12. CASE Trying_2_Trying_1xx
  BY <1>12 DEF Trying_2_Trying_1xx, Receives, Alive
<1>13. CASE Trying_2_Terminated_2xx
  BY <1>13 DEF Trying_2_Terminated_2xx, Receives, Terminates, Concludes, Alive
<1>14. CASE Trying_2_Connected_2xx
  <2>1. PICK life \in Lifetimes :
              /\ Concludes([code |-> "2xx", life |-> life])
              /\ state' = "Connected" /\ sip' = "established" /\ transac' = "none"
              /\ refresh' = now + NewDelay(life) /\ vague' = FALSE
    BY <1>14 DEF Trying_2_Connected_2xx
  <2>2. refresh' \in Nat
    BY <2>1, NewDelayType
  <2>3. answers' = {}
    BY <2>1 DEF Concludes
  <2>4. QED
    BY <1>14, <2>1, <2>2, <2>3 DEF Trying_2_Connected_2xx
<1>15. CASE Trying_2_Trying_401_407_421_494
  <2>1. PICK stale \in BOOLEAN : Concludes([code |-> "401", stale |-> stale]) /\
              IF MayRetry(stale)
              THEN Send(expires, leaving) /\ challenged' = TRUE /\ UNCHANGED <<state, how>>
              ELSE Terminates("refused") /\ transac' = "none" /\ UNCHANGED <<expires, challenged, deadline, toServer>>
    BY <1>15 DEF Trying_2_Trying_401_407_421_494
  <2>2. answers' = {}
    BY <2>1 DEF Concludes
  <2>3. CASE MayRetry(stale)
    BY <1>15, <2>1, <2>2, <2>3 DEF Trying_2_Trying_401_407_421_494, Send
  <2>4. CASE ~MayRetry(stale)
    BY <1>15, <2>1, <2>2, <2>4 DEF Trying_2_Trying_401_407_421_494, Terminates
  <2>5. QED
    BY <2>3, <2>4
<1>16. CASE Trying_2_Trying_423
  BY <1>16 DEF Trying_2_Trying_423, Receives, Send, Terminates, Concludes, Alive
<1>17. CASE Any_2_Terminated_Error
  BY <1>17 DEF Any_2_Terminated_Error, Receives, Terminates, Concludes, Alive
<1>18. CASE Any_2_Terminated_transportError
  BY <1>18 DEF Any_2_Terminated_transportError, Terminates, Alive
<1>19. CASE OrphanEnds
  BY <1>19 DEF OrphanEnds, Alive
<1>20. CASE NOTIFY
  <2>1. CASE state = "Connected" /\ notify.final
    BY <1>20, <2>1 DEF NOTIFY, Terminates
  <2>2. CASE ~(state = "Connected" /\ notify.final) /\ state \in {"Trying", "Connected"}
    <3>1. refresh' \in Nat
      <4>1. CASE notify.life > 0
        BY <1>20, <2>2, <4>1, NewDelayType DEF NOTIFY
      <4>2. CASE ~(notify.life > 0)
        BY <1>20, <2>2, <4>2, NewDelayType DEF NOTIFY
      <4>3. QED
        BY <4>1, <4>2
    <3>2. vague' \in BOOLEAN
      BY <1>20, <2>2 DEF NOTIFY
    <3>3. QED
      BY <1>20, <2>2, <3>1, <3>2 DEF NOTIFY
  <2>3. CASE state \notin {"Trying", "Connected"}
    BY <1>20, <2>3 DEF NOTIFY
  <2>4. QED
    BY <2>1, <2>2, <2>3
<1>21. CASE ServerGrants
  BY <1>21 DEF ServerGrants, ServerAnswers
<1>22. CASE ServerRefuses
  BY <1>22 DEF ServerRefuses, ServerAnswers
<1>23. CASE ServerTries
  BY <1>23 DEF ServerTries
<1>24. CASE ServerNotifies
  BY <1>24 DEF ServerNotifies
<1>25. CASE Loss
  <2>1. answers' \in SUBSET answers
    BY <1>25 DEF Loss
  <2>2. notify' \in {notify, NoNotify} /\ toServer' \in {toServer, NoRequest}
    BY <1>25 DEF Loss
  <2>3. answers' \subseteq Responses
    BY <2>1
  <2>4. notify' \in [life : Nat \cup {NoLife}, final : BOOLEAN, sent : BOOLEAN]
    <3>1. NoNotify \in [life : Nat \cup {NoLife}, final : BOOLEAN, sent : BOOLEAN]
      OBVIOUS
    <3>2. QED
      BY <2>2, <3>1
  <2>5. toServer' \in Nat \cup {NoRequest}
    BY <2>2
  <2>6. QED
    BY <1>25, <2>3, <2>4, <2>5 DEF Loss
<1>26. CASE Tick
  BY <1>26 DEF Tick
<1>27. CASE UNCHANGED refreshVars
  BY <1>27 DEF refreshVars
<1>28. QED
  BY <1>1, <1>2, <1>3, <1>4, <1>5, <1>6, <1>7, <1>8, <1>9, <1>10, <1>11, <1>12, <1>13, <1>14, <1>15, <1>16, <1>17, <1>18, <1>19, <1>20, <1>21, <1>22, <1>23, <1>24, <1>25, <1>26, <1>27 DEF RefreshNext, User, Inbound, Environment

\* Only an answer or its absence ends the waiting, and it ends both ways at once.
LEMMA WaitStep ==
  ASSUME OneRequestAtATime, [RefreshNext]_refreshVars
  PROVE  OneRequestAtATime'
<1> USE RefreshDialogAssumption DEF OneRequestAtATime, Alive
<1>1. CASE Started_2_Trying_oREQUEST
  BY <1>1 DEF Started_2_Trying_oREQUEST, Send
<1>2. CASE Connected_2_Trying_oREQUEST
  BY <1>2 DEF Connected_2_Trying_oREQUEST, Send
<1>3. CASE RefreshIgnored
  BY <1>3 DEF RefreshIgnored
<1>4. CASE HangupLooks
  BY <1>4 DEF HangupLooks
<1>5. CASE Any_2_Trying_hangup
  BY <1>5 DEF Any_2_Trying_hangup, Send, Terminates
<1>6. CASE Trying_2_Terminated_hangup
  BY <1>6 DEF Trying_2_Terminated_hangup, Terminates
<1>7. CASE Trying_2_Terminated_cancel
  BY <1>7 DEF Trying_2_Terminated_cancel, Terminates
<1>8. CASE HangupIgnored
  BY <1>8 DEF HangupIgnored
<1>9. CASE Any_2_Trying_shutdown
  BY <1>9 DEF Any_2_Trying_shutdown, Send, Terminates
<1>10. CASE Trying_2_Terminated_shutdown
  BY <1>10 DEF Trying_2_Terminated_shutdown, Terminates
<1>11. CASE Any_2_Terminated_shutdownTimedout
  BY <1>11 DEF Any_2_Terminated_shutdownTimedout, Terminates
<1>12. CASE Trying_2_Trying_1xx
  BY <1>12 DEF Trying_2_Trying_1xx, Receives
<1>13. CASE Trying_2_Terminated_2xx
  BY <1>13 DEF Trying_2_Terminated_2xx, Receives, Terminates, Concludes
<1>14. CASE Trying_2_Connected_2xx
  BY <1>14 DEF Trying_2_Connected_2xx, Receives, Concludes, NewDelay
<1>15. CASE Trying_2_Trying_401_407_421_494
  BY <1>15 DEF Trying_2_Trying_401_407_421_494, Receives, Send, Terminates, Concludes, MayRetry
<1>16. CASE Trying_2_Trying_423
  BY <1>16 DEF Trying_2_Trying_423, Receives, Send, Terminates, Concludes
<1>17. CASE Any_2_Terminated_Error
  BY <1>17 DEF Any_2_Terminated_Error, Receives, Terminates, Concludes
<1>18. CASE Any_2_Terminated_transportError
  BY <1>18 DEF Any_2_Terminated_transportError, Terminates
<1>19. CASE OrphanEnds
  BY <1>19 DEF OrphanEnds
<1>20. CASE NOTIFY
  BY <1>20 DEF NOTIFY, Terminates, NewDelay
<1>21. CASE ServerGrants
  BY <1>21 DEF ServerGrants, ServerAnswers
<1>22. CASE ServerRefuses
  BY <1>22 DEF ServerRefuses, ServerAnswers
<1>23. CASE ServerTries
  BY <1>23 DEF ServerTries
<1>24. CASE ServerNotifies
  BY <1>24 DEF ServerNotifies
<1>25. CASE Loss
  BY <1>25 DEF Loss
<1>26. CASE Tick
  BY <1>26 DEF Tick
<1>27. CASE UNCHANGED refreshVars
  BY <1>27 DEF refreshVars
<1>28. QED
  BY <1>1, <1>2, <1>3, <1>4, <1>5, <1>6, <1>7, <1>8, <1>9, <1>10, <1>11, <1>12, <1>13, <1>14, <1>15, <1>16, <1>17, <1>18, <1>19, <1>20, <1>21, <1>22, <1>23, <1>24, <1>25, <1>26, <1>27 DEF RefreshNext, User, Inbound, Environment

\* A request is sent only when nothing of the last one is on its way.  That what
\* a NOTIFY ends was not ended before comes from LeavesForGood.
LEMMA MatchStep ==
  ASSUME RefreshTypeOK, OneRequestAtATime, AnswersMatch, LeavesForGood, [RefreshNext]_refreshVars
  PROVE  AnswersMatch'
<1> USE RefreshDialogAssumption DEF RefreshTypeOK, OneRequestAtATime, AnswersMatch, Alive, Provisional, Granted
<1>1. CASE Started_2_Trying_oREQUEST
  BY <1>1 DEF Started_2_Trying_oREQUEST, Send
<1>2. CASE Connected_2_Trying_oREQUEST
  BY <1>2 DEF Connected_2_Trying_oREQUEST, Send
<1>3. CASE RefreshIgnored
  BY <1>3 DEF RefreshIgnored
<1>4. CASE HangupLooks
  BY <1>4 DEF HangupLooks
<1>5. CASE Any_2_Trying_hangup
  BY <1>5 DEF Any_2_Trying_hangup, Send, Terminates
<1>6. CASE Trying_2_Terminated_hangup
  BY <1>6 DEF Trying_2_Terminated_hangup, Terminates
<1>7. CASE Trying_2_Terminated_cancel
  BY <1>7 DEF Trying_2_Terminated_cancel, Terminates
<1>8. CASE HangupIgnored
  BY <1>8 DEF HangupIgnored
<1>9. CASE Any_2_Trying_shutdown
  BY <1>9 DEF Any_2_Trying_shutdown, Send, Terminates
<1>10. CASE Trying_2_Terminated_shutdown
  BY <1>10 DEF Trying_2_Terminated_shutdown, Terminates
<1>11. CASE Any_2_Terminated_shutdownTimedout
  BY <1>11 DEF Any_2_Terminated_shutdownTimedout, Terminates
<1>12. CASE Trying_2_Trying_1xx
  BY <1>12 DEF Trying_2_Trying_1xx, Receives
<1>13. CASE Trying_2_Terminated_2xx
  BY <1>13 DEF Trying_2_Terminated_2xx, Receives, Terminates, Concludes
<1>14. CASE Trying_2_Connected_2xx
  BY <1>14 DEF Trying_2_Connected_2xx, Receives, Concludes, NewDelay
<1>15. CASE Trying_2_Trying_401_407_421_494
  BY <1>15 DEF Trying_2_Trying_401_407_421_494, Receives, Send, Terminates, Concludes, MayRetry
<1>16. CASE Trying_2_Trying_423
  BY <1>16 DEF Trying_2_Trying_423, Receives, Send, Terminates, Concludes
<1>17. CASE Any_2_Terminated_Error
  BY <1>17 DEF Any_2_Terminated_Error, Receives, Terminates, Concludes
<1>18. CASE Any_2_Terminated_transportError
  BY <1>18 DEF Any_2_Terminated_transportError, Terminates
<1>19. CASE OrphanEnds
  BY <1>19 DEF OrphanEnds
<1>20. CASE NOTIFY
  BY <1>20 DEF NOTIFY, Terminates, NewDelay
<1>21. CASE ServerGrants
  BY <1>21 DEF ServerGrants, ServerAnswers
<1>22. CASE ServerRefuses
  BY <1>22 DEF ServerRefuses, ServerAnswers
<1>23. CASE ServerTries
  BY <1>23 DEF ServerTries
<1>24. CASE ServerNotifies
  <2>1. PICK final \in BOOLEAN : kept' = (IF final THEN now ELSE kept) /\ dropped' = final
    BY <1>24 DEF ServerNotifies
  <2>2. ~dropped
    BY <1>24 DEF ServerNotifies, LeavesForGood
  <2>3. CASE final
    BY <1>24, <2>1, <2>3 DEF ServerNotifies
  <2>4. CASE ~final
    BY <1>24, <2>1, <2>2, <2>4 DEF ServerNotifies
  <2>5. QED
    BY <2>3, <2>4
<1>25. CASE Loss
  BY <1>25 DEF Loss
<1>26. CASE Tick
  BY <1>26 DEF Tick
<1>27. CASE UNCHANGED refreshVars
  BY <1>27 DEF refreshVars
<1>28. QED
  BY <1>1, <1>2, <1>3, <1>4, <1>5, <1>6, <1>7, <1>8, <1>9, <1>10, <1>11, <1>12, <1>13, <1>14, <1>15, <1>16, <1>17, <1>18, <1>19, <1>20, <1>21, <1>22, <1>23, <1>24, <1>25, <1>26, <1>27 DEF RefreshNext, User, Inbound, Environment

\* Who starts to leave has no answer on its way, and no request of a later one
\* names a lifetime.
LEMMA LeaveStep ==
  ASSUME RefreshTypeOK, OneRequestAtATime, AnswersMatch, LeavesForGood, [RefreshNext]_refreshVars
  PROVE  LeavesForGood'
<1> USE RefreshDialogAssumption DEF RefreshTypeOK, OneRequestAtATime, AnswersMatch, LeavesForGood, Alive, Provisional, Granted
<1>1. CASE Started_2_Trying_oREQUEST
  BY <1>1 DEF Started_2_Trying_oREQUEST, Send
<1>2. CASE Connected_2_Trying_oREQUEST
  BY <1>2 DEF Connected_2_Trying_oREQUEST, Send
<1>3. CASE RefreshIgnored
  BY <1>3 DEF RefreshIgnored
<1>4. CASE HangupLooks
  BY <1>4 DEF HangupLooks
<1>5. CASE Any_2_Trying_hangup
  BY <1>5 DEF Any_2_Trying_hangup, Send, Terminates
<1>6. CASE Trying_2_Terminated_hangup
  BY <1>6 DEF Trying_2_Terminated_hangup, Terminates
<1>7. CASE Trying_2_Terminated_cancel
  BY <1>7 DEF Trying_2_Terminated_cancel, Terminates
<1>8. CASE HangupIgnored
  BY <1>8 DEF HangupIgnored
<1>9. CASE Any_2_Trying_shutdown
  BY <1>9 DEF Any_2_Trying_shutdown, Send, Terminates
<1>10. CASE Trying_2_Terminated_shutdown
  BY <1>10 DEF Trying_2_Terminated_shutdown, Terminates
<1>11. CASE Any_2_Terminated_shutdownTimedout
  BY <1>11 DEF Any_2_Terminated_shutdownTimedout, Terminates
<1>12. CASE Trying_2_Trying_1xx
  BY <1>12 DEF Trying_2_Trying_1xx, Receives
<1>13. CASE Trying_2_Terminated_2xx
  BY <1>13 DEF Trying_2_Terminated_2xx, Receives, Terminates, Concludes
<1>14. CASE Trying_2_Connected_2xx
  BY <1>14 DEF Trying_2_Connected_2xx, Receives, Concludes, NewDelay
<1>15. CASE Trying_2_Trying_401_407_421_494
  BY <1>15 DEF Trying_2_Trying_401_407_421_494, Receives, Send, Terminates, Concludes, MayRetry
<1>16. CASE Trying_2_Trying_423
  BY <1>16 DEF Trying_2_Trying_423, Receives, Send, Terminates, Concludes
<1>17. CASE Any_2_Terminated_Error
  BY <1>17 DEF Any_2_Terminated_Error, Receives, Terminates, Concludes
<1>18. CASE Any_2_Terminated_transportError
  BY <1>18 DEF Any_2_Terminated_transportError, Terminates
<1>19. CASE OrphanEnds
  BY <1>19 DEF OrphanEnds
<1>20. CASE NOTIFY
  BY <1>20 DEF NOTIFY, Terminates, NewDelay
<1>21. CASE ServerGrants
  BY <1>21 DEF ServerGrants, ServerAnswers
<1>22. CASE ServerRefuses
  BY <1>22 DEF ServerRefuses, ServerAnswers
<1>23. CASE ServerTries
  BY <1>23 DEF ServerTries
<1>24. CASE ServerNotifies
  BY <1>24 DEF ServerNotifies
<1>25. CASE Loss
  BY <1>25 DEF Loss
<1>26. CASE Tick
  BY <1>26 DEF Tick
<1>27. CASE UNCHANGED refreshVars
  BY <1>27 DEF refreshVars
<1>28. QED
  BY <1>1, <1>2, <1>3, <1>4, <1>5, <1>6, <1>7, <1>8, <1>9, <1>10, <1>11, <1>12, <1>13, <1>14, <1>15, <1>16, <1>17, <1>18, <1>19, <1>20, <1>21, <1>22, <1>23, <1>24, <1>25, <1>26, <1>27 DEF RefreshNext, User, Inbound, Environment

\* The answer that ends a departure was for a lifetime of zero.
LEMMA LeftStep ==
  ASSUME RefreshTypeOK, AnswersMatch, LeavesForGood, NothingLeftBehind, [RefreshNext]_refreshVars
  PROVE  NothingLeftBehind'
<1> USE RefreshDialogAssumption DEF RefreshTypeOK, AnswersMatch, LeavesForGood, NothingLeftBehind, Alive, Granted
<1>1. CASE Started_2_Trying_oREQUEST
  BY <1>1 DEF Started_2_Trying_oREQUEST, Send
<1>2. CASE Connected_2_Trying_oREQUEST
  BY <1>2 DEF Connected_2_Trying_oREQUEST, Send
<1>3. CASE RefreshIgnored
  BY <1>3 DEF RefreshIgnored
<1>4. CASE HangupLooks
  BY <1>4 DEF HangupLooks
<1>5. CASE Any_2_Trying_hangup
  BY <1>5 DEF Any_2_Trying_hangup, Send, Terminates
<1>6. CASE Trying_2_Terminated_hangup
  BY <1>6 DEF Trying_2_Terminated_hangup, Terminates
<1>7. CASE Trying_2_Terminated_cancel
  BY <1>7 DEF Trying_2_Terminated_cancel, Terminates
<1>8. CASE HangupIgnored
  BY <1>8 DEF HangupIgnored
<1>9. CASE Any_2_Trying_shutdown
  BY <1>9 DEF Any_2_Trying_shutdown, Send, Terminates
<1>10. CASE Trying_2_Terminated_shutdown
  BY <1>10 DEF Trying_2_Terminated_shutdown, Terminates
<1>11. CASE Any_2_Terminated_shutdownTimedout
  BY <1>11 DEF Any_2_Terminated_shutdownTimedout, Terminates
<1>12. CASE Trying_2_Trying_1xx
  BY <1>12 DEF Trying_2_Trying_1xx, Receives
<1>13. CASE Trying_2_Terminated_2xx
  BY <1>13 DEF Trying_2_Terminated_2xx, Receives, Terminates, Concludes
<1>14. CASE Trying_2_Connected_2xx
  BY <1>14 DEF Trying_2_Connected_2xx, Receives, Concludes, NewDelay
<1>15. CASE Trying_2_Trying_401_407_421_494
  BY <1>15 DEF Trying_2_Trying_401_407_421_494, Receives, Send, Terminates, Concludes, MayRetry
<1>16. CASE Trying_2_Trying_423
  BY <1>16 DEF Trying_2_Trying_423, Receives, Send, Terminates, Concludes
<1>17. CASE Any_2_Terminated_Error
  BY <1>17 DEF Any_2_Terminated_Error, Receives, Terminates, Concludes
<1>18. CASE Any_2_Terminated_transportError
  BY <1>18 DEF Any_2_Terminated_transportError, Terminates
<1>19. CASE OrphanEnds
  BY <1>19 DEF OrphanEnds
<1>20. CASE NOTIFY
  BY <1>20 DEF NOTIFY, Terminates, NewDelay
<1>21. CASE ServerGrants
  BY <1>21 DEF ServerGrants, ServerAnswers
<1>22. CASE ServerRefuses
  BY <1>22 DEF ServerRefuses, ServerAnswers
<1>23. CASE ServerTries
  BY <1>23 DEF ServerTries
<1>24. CASE ServerNotifies
  BY <1>24 DEF ServerNotifies
<1>25. CASE Loss
  BY <1>25 DEF Loss
<1>26. CASE Tick
  BY <1>26 DEF Tick
<1>27. CASE UNCHANGED refreshVars
  BY <1>27 DEF refreshVars
<1>28. QED
  BY <1>1, <1>2, <1>3, <1>4, <1>5, <1>6, <1>7, <1>8, <1>9, <1>10, <1>11, <1>12, <1>13, <1>14, <1>15, <1>16, <1>17, <1>18, <1>19, <1>20, <1>21, <1>22, <1>23, <1>24, <1>25, <1>26, <1>27 DEF RefreshNext, User, Inbound, Environment

\* The delay is shorter than the lifetime it is computed from, and the server
\* keeps what it granted as long as no other request reaches it.
LEMMA DueStep ==
  ASSUME RefreshTypeOK, OneRequestAtATime, AnswersMatch, LeavesForGood, RefreshInTime, [RefreshNext]_refreshVars
  PROVE  RefreshInTime'
<1> USE RefreshDialogAssumption DEF RefreshTypeOK, OneRequestAtATime, AnswersMatch, LeavesForGood, RefreshInTime, Alive, Granted, NewDelay
<1>1. CASE Started_2_Trying_oREQUEST
  BY <1>1 DEF Started_2_Trying_oREQUEST, Send
<1>2. CASE Connected_2_Trying_oREQUEST
  BY <1>2 DEF Connected_2_Trying_oREQUEST, Send
<1>3. CASE RefreshIgnored
  BY <1>3 DEF RefreshIgnored
<1>4. CASE HangupLooks
  BY <1>4 DEF HangupLooks
<1>5. CASE Any_2_Trying_hangup
  BY <1>5 DEF Any_2_Trying_hangup, Send, Terminates
<1>6. CASE Trying_2_Terminated_hangup
  BY <1>6 DEF Trying_2_Terminated_hangup, Terminates
<1>7. CASE Trying_2_Terminated_cancel
  BY <1>7 DEF Trying_2_Terminated_cancel, Terminates
<1>8. CASE HangupIgnored
  BY <1>8 DEF HangupIgnored
<1>9. CASE Any_2_Trying_shutdown
  BY <1>9 DEF Any_2_Trying_shutdown, Send, Terminates
<1>10. CASE Trying_2_Terminated_shutdown
  BY <1>10 DEF Trying_2_Terminated_shutdown, Terminates
<1>11. CASE Any_2_Terminated_shutdownTimedout
  BY <1>11 DEF Any_2_Terminated_shutdownTimedout, Terminates
<1>12. CASE Trying_2_Trying_1xx
  BY <1>12 DEF Trying_2_Trying_1xx, Receives
<1>13. CASE Trying_2_Terminated_2xx
  BY <1>13 DEF Trying_2_Terminated_2xx, Receives, Terminates, Concludes
<1>14. CASE Trying_2_Connected_2xx
  BY <1>14 DEF Trying_2_Connected_2xx, Receives, Concludes
<1>15. CASE Trying_2_Trying_401_407_421_494
  BY <1>15 DEF Trying_2_Trying_401_407_421_494, Receives, Send, Terminates, Concludes, MayRetry
<1>16. CASE Trying_2_Trying_423
  BY <1>16 DEF Trying_2_Trying_423, Receives, Send, Terminates, Concludes
<1>17. CASE Any_2_Terminated_Error
  BY <1>17 DEF Any_2_Terminated_Error, Receives, Terminates, Concludes
<1>18. CASE Any_2_Terminated_transportError
  BY <1>18 DEF Any_2_Terminated_transportError, Terminates
<1>19. CASE OrphanEnds
  BY <1>19 DEF OrphanEnds
<1>20. CASE NOTIFY
  BY <1>20 DEF NOTIFY, Terminates
<1>21. CASE ServerGrants
  BY <1>21 DEF ServerGrants, ServerAnswers
<1>22. CASE ServerRefuses
  BY <1>22 DEF ServerRefuses, ServerAnswers
<1>23. CASE ServerTries
  BY <1>23 DEF ServerTries
<1>24. CASE ServerNotifies
  BY <1>24 DEF ServerNotifies
<1>25. CASE Loss
  BY <1>25 DEF Loss
<1>26. CASE Tick
  BY <1>26 DEF Tick
<1>27. CASE UNCHANGED refreshVars
  BY <1>27 DEF refreshVars
<1>28. QED
  BY <1>1, <1>2, <1>3, <1>4, <1>5, <1>6, <1>7, <1>8, <1>9, <1>10, <1>11, <1>12, <1>13, <1>14, <1>15, <1>16, <1>17, <1>18, <1>19, <1>20, <1>21, <1>22, <1>23, <1>24, <1>25, <1>26, <1>27 DEF RefreshNext, User, Inbound, Environment
-----------------------------------------------------------------------------
\* The program starts in a state of the invariant.
LEMMA InitInv == RefreshInit => RefreshInv
<1> SUFFICES ASSUME RefreshInit PROVE RefreshInv
  OBVIOUS
<1>1. RefreshTypeOK
  BY RefreshDialogAssumption DEF RefreshInit, RefreshTypeOK, NoNotify, Responses
<1>2. OneRequestAtATime /\ NothingLeftBehind /\ RefreshInTime
  BY DEF RefreshInit, OneRequestAtATime, NothingLeftBehind, RefreshInTime, Alive
<1>3. AnswersMatch /\ LeavesForGood
  BY DEF RefreshInit, AnswersMatch, LeavesForGood, Alive
<1>4. QED
  BY <1>1, <1>2, <1>3 DEF RefreshInv

\* Every step of a dialog, of its user, of the server and of the network keeps
\* the invariant.
THEOREM RefreshCorrect == RefreshSpec => []RefreshInv
<1>1. RefreshInv /\ [RefreshNext]_refreshVars => RefreshInv'
  BY TypeStep, WaitStep, MatchStep, LeaveStep, LeftStep, DueStep DEF RefreshInv
<1>2. QED
  BY InitInv, <1>1, PTL DEF RefreshSpec

\* Every variable has its type in every reachable state.
THEOREM RefreshTyped == RefreshSpec => []RefreshTypeOK
<1>1. RefreshInv => RefreshTypeOK
  BY DEF RefreshInv
<1>2. QED
  BY RefreshCorrect, <1>1, PTL

\* A dialog waits for an answer exactly as long as a transaction of its runs, and
\* once it leaves no answer connects it again.
THEOREM WaitsForOneAnswer == RefreshSpec => []OneRequestAtATime
<1>1. RefreshInv => OneRequestAtATime
  BY DEF RefreshInv
<1>2. QED
  BY RefreshCorrect, <1>1, PTL

\* A departure that was granted leaves nothing at the server, whatever challenges
\* and bargains came before.
THEOREM LeavesNothingBehind == RefreshSpec => []NothingLeftBehind
<1>1. RefreshInv => NothingLeftBehind
  BY DEF RefreshInv
<1>2. QED
  BY RefreshCorrect, <1>1, PTL

\* The refresh of a connected dialog is due before what the server keeps expires.
THEOREM RefreshesInTime == RefreshSpec => []RefreshInTime
<1>1. RefreshInv => RefreshInTime
  BY DEF RefreshInv
<1>2. QED
  BY RefreshCorrect, <1>1, PTL
============================================================================
