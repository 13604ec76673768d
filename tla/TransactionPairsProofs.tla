----------------------- MODULE TransactionPairsProofs -----------------------
(***************************************************************************)
(* Two transactions and the network between them keep their promise to     *)
(* their users, for every value of the constants: a pair of INVITE         *)
(* transactions implements InviteCall, a pair of others RequestReply.      *)
(*                                                                         *)
(* Each side is described by what it says and hears in each state; a step  *)
(* of a side is silent, or adds one event to what its user knows.  The two *)
(* are tied together by the messages: what one side has heard, and what is *)
(* on its way to it, the other has said.                                   *)
(***************************************************************************)
EXTENDS TransactionPairs, TLAPS

-----------------------------------------------------------------------------
(* The pair of INVITE transactions. *)

Last == IF cTu = <<>> THEN "nothing" ELSE cTu[Len(cTu)]
Said(e) == Invite!Told(sTu, e)

CallerInv ==
  /\ cState \in Invite!C!States /\ cTu \in Seq(Invite!C!Exchange)
  /\ cExec # "fail"
  /\ cEnding => cState = "Terminated"
  /\ cState \in {"Started", "Calling"} => Last = "nothing"
  /\ cState = "Proceeding" => Last = "1xx"
  /\ cState = "Accepted" => Last = "2xx"
  /\ cState = "Completed" => Last = "3xx"
  /\ cState = "Terminated" => Last \in {"2xx", "3xx", "timedout"}
  /\ "ACK" \in cOut => Last = "3xx"
  /\ userAck => Last = "2xx"

CalleeInv ==
  /\ sState \in Invite!S!States /\ sTu \in Seq(Invite!S!Exchange)
  /\ sExec # "fail"
  /\ sEnding => sState = "Terminated"
  /\ sState = "Started" <=> ~Said("INVITE")
  /\ sState \in {"Started", "Proceeding"} => ~Said("2xx") /\ ~Said("3xx")
  /\ sState = "Accepted" => Said("2xx")
  /\ sState \in {"Completed", "Confirmed"} => Said("3xx")
  /\ ~(Said("2xx") /\ Said("3xx"))
  /\ Said("transport_error") => sState = "Terminated"
  /\ sAcked => Said("2xx")
  /\ sOut # {} => Said("INVITE")
  /\ \A e \in {"2xx", "3xx"} : e \in sOut \/ sLastResponse = e => Said(e)

(* What the caller has heard was said, and an ACK answers it.              *)
CallInv ==
  /\ Last = "1xx" => Said("INVITE")
  /\ Last \in {"2xx", "3xx"} => Said(Last)
  /\ sAcked => Last = "2xx"
  /\ sState = "Confirmed" => Last = "3xx"

(* The steps of the caller's side.                                         *)
CallerRests ==
  /\ UNCHANGED cTu
  /\ cOut' \subseteq cOut \union {"INVITE"} \union IF cState = "Completed" THEN {"ACK"} ELSE {}
  /\ \/ cState' = cState
     \/ cState = "Started" /\ cState' = "Calling"
     \/ cState \in {"Completed", "Accepted"} /\ cState' = "Terminated"

CallerHears(e) ==
  /\ cTu' = cTu \o <<e>>
  /\ cOut' \subseteq cOut \union IF e = "3xx" THEN {"ACK"} ELSE {}
  /\ \/ e = "1xx" /\ cState \in {"Calling", "Proceeding"} /\ cState' = "Proceeding"
     \/ e = "2xx" /\ cState \in {"Calling", "Proceeding", "Accepted"} /\ cState' = "Accepted"
     \/ e = "3xx" /\ cState \in {"Calling", "Proceeding"} /\ cState' = "Completed"
     \/ e = "timedout" /\ cState = "Calling" /\ cState' = "Terminated"

CallerSound == cExec' # "fail" /\ (cEnding' => cState' = "Terminated")

(* The steps of the callee's side.                                         *)
CalleeRests ==
  /\ UNCHANGED <<sTu, sLastResponse, sAcked>>
  /\ sOut' \subseteq sOut \union IF sState = "Started" THEN {} ELSE {sLastResponse}
  /\ \/ sState' = sState
     \/ sState = "Completed" /\ sState' = "Confirmed" /\ ("ACK" \in cOut \/ userAck)
     \/ sState \in {"Accepted", "Confirmed"} /\ sState' = "Terminated"

CalleeIsAsked ==
  /\ sTu' = sTu \o <<"INVITE">> /\ sOut' \subseteq sOut \union {"100"}
  /\ sLastResponse' = "100" /\ UNCHANGED sAcked
  /\ sState = "Started" /\ sState' = "Proceeding"

CalleeSays(e) ==
  /\ sTu' = sTu \o <<e>> /\ sOut' \subseteq sOut \union {e}
  /\ sLastResponse' = e /\ UNCHANGED sAcked
  /\ \/ e = "1xx" /\ sState = "Proceeding" /\ sState' = "Proceeding"
     \/ e = "2xx" /\ sState \in {"Proceeding", "Accepted"} /\ sState' = "Accepted"
     \/ e = "3xx" /\ sState = "Proceeding" /\ sState' = "Completed"

CalleeIsAcked ==
  /\ sTu' = sTu \o <<"ACK">> /\ sAcked' = TRUE /\ UNCHANGED <<sOut, sLastResponse>>
  /\ sState = "Accepted" /\ sState' = "Accepted" /\ ("ACK" \in cOut \/ userAck)

CalleeFails ==
  /\ sTu' = sTu \o <<"transport_error">> /\ UNCHANGED <<sOut, sLastResponse, sAcked>>
  /\ sState = "Completed" \/ (sState = "Accepted" /\ ~sAcked)
  /\ sState' = "Terminated"

CalleeSound == sExec' # "fail" /\ (sEnding' => sState' = "Terminated")

(* The caller's transaction takes no other steps than these.               *)
LEMMA CallerReceives ==
  ASSUME CallerInv, NEW response, Invite!C!Receive(response)
  PROVE  /\ CallerSound
         /\ \/ CallerRests /\ response = "3xx"
            \/ CallerHears(response) /\ response \in {"1xx", "2xx", "3xx"}
<1>1. Invite!C!Sent = {TRUE}
  BY PairsAssumption DEF Invite!C!Sent
<1> USE DEF CallerInv, CallerSound, CallerRests, CallerHears
<1>2. CASE response = "1xx"
  <2>1. Invite!C!Calling_2_Proceeding_1xx \/ Invite!C!Proceeding_2_Proceeding_1xx
    BY <1>2 DEF Invite!C!Receive
  <2> QED
    BY <1>2, <2>1 DEF Invite!C!Calling_2_Proceeding_1xx, Invite!C!Proceeding_2_Proceeding_1xx,
          Invite!C!Handle, Invite!C!Effects
<1>3. CASE response = "2xx"
  <2>1. \/ Invite!C!Calling_2_Accepted_2xx \/ Invite!C!Proceeding_2_Accepted_2xx
        \/ Invite!C!Accepted_2_Accepted_2xx
    BY <1>3 DEF Invite!C!Receive
  <2> QED
    BY <1>3, <2>1 DEF Invite!C!Calling_2_Accepted_2xx, Invite!C!Proceeding_2_Accepted_2xx,
          Invite!C!Accepted_2_Accepted_2xx, Invite!C!Any_2_Accepted_2xx,
          Invite!C!Handle, Invite!C!Effects
<1>4. CASE response = "3xx"
  <2>1. CASE Invite!C!Calling_2_Completed_300_to_699 \/ Invite!C!Proceeding_2_Completed_300_to_699
    BY <1>1, <1>4, <2>1 DEF Invite!C!Calling_2_Completed_300_to_699,
          Invite!C!Proceeding_2_Completed_300_to_699, Invite!C!Any_2_Completed_300_to_699,
          Invite!C!Handle, Invite!C!Effects, Invite!C!Request
  <2>2. CASE Invite!C!Completed_2_Completed_300_to_699
    BY <1>1, <1>4, <2>2 DEF Invite!C!Completed_2_Completed_300_to_699, Invite!C!Handle,
          Invite!C!Effects, Invite!C!Request
  <2> QED BY <1>4, <2>1, <2>2 DEF Invite!C!Receive
<1> QED BY <1>2, <1>3, <1>4 DEF Invite!C!Receive

LEMMA CallerActsAlone ==
  ASSUME CallerInv,
         \/ Invite!C!Started_2_Calling_send \/ Invite!C!OnTimer \/ Invite!C!Dtor
         \/ Invite!C!Return \/ Invite!C!Finish \/ Invite!C!RaiseTimer \/ Invite!C!MatchTimer
         \/ Invite!C!Tick
  PROVE  CallerSound /\ (CallerRests \/ CallerHears("timedout"))
<1>1. Invite!C!Sent = {TRUE} /\ "refuse" \notin InviteFaults
  BY PairsAssumption DEF Invite!C!Sent
<1> USE DEF CallerInv, CallerSound, CallerRests, CallerHears
<1>2. CASE Invite!C!Started_2_Calling_send
  BY <1>1, <1>2 DEF Invite!C!Started_2_Calling_send, Invite!C!Handle, Invite!C!Effects,
        Invite!C!Request
<1>3. CASE Invite!C!OnTimer
  <2>1. CASE Invite!C!Calling_2_Calling_timerA
    BY <2>1 DEF Invite!C!Calling_2_Calling_timerA, Invite!C!Handle, Invite!C!Effects,
          Invite!C!Request
  <2>2. CASE Invite!C!Calling_2_Terminated_timerB
    BY <2>2 DEF Invite!C!Calling_2_Terminated_timerB, Invite!C!Handle, Invite!C!Effects
  <2>3. CASE Invite!C!Completed_2_Terminated_timerD
    BY <2>3 DEF Invite!C!Completed_2_Terminated_timerD, Invite!C!Handle, Invite!C!Effects
  <2>4. CASE Invite!C!Accepted_2_Terminated_timerM
    BY <2>4 DEF Invite!C!Accepted_2_Terminated_timerM, Invite!C!Handle, Invite!C!Effects
  <2>5. CASE Invite!C!IgnoreTimer(Invite!C!Expected)
    BY <2>5 DEF Invite!C!IgnoreTimer
  <2> QED BY <1>3, <2>1, <2>2, <2>3, <2>4, <2>5 DEF Invite!C!OnTimer, Invite!C!TimerFires
<1>4. CASE Invite!C!Dtor
  BY <1>4 DEF Invite!C!Dtor, Invite!C!Destroy
<1>5. CASE Invite!C!Return
  BY <1>1, <1>5 DEF Invite!C!Return
<1>6. CASE Invite!C!Finish
  BY <1>6 DEF Invite!C!Finish
<1>7. CASE Invite!C!RaiseTimer
  BY <1>7 DEF Invite!C!RaiseTimer
<1>8. CASE Invite!C!MatchTimer
  BY <1>8 DEF Invite!C!MatchTimer
<1>9. CASE Invite!C!Tick
  BY <1>9 DEF Invite!C!Tick
<1> QED BY <1>2, <1>3, <1>4, <1>5, <1>6, <1>7, <1>8, <1>9

(* Nor the callee's than these.                                            *)
LEMMA CalleeTakesINVITE ==
  ASSUME CalleeInv, Invite!S!ReceiveINVITE
  PROVE  CalleeSound /\ (CalleeRests \/ CalleeIsAsked)
<1>1. Invite!S!Sent = {TRUE}
  BY PairsAssumption DEF Invite!S!Sent
<1> USE <1>1 DEF CalleeInv, CalleeSound, CalleeRests, CalleeIsAsked, Invite!S!Handle,
            Invite!S!Effects, Invite!S!Response, Invite!S!Resend, Invite!S!SendResult
<1>2. CASE Invite!S!Started_2_Proceeding_INVITE
  BY <1>2 DEF Invite!S!Started_2_Proceeding_INVITE
<1>3. CASE Invite!S!Proceeding_2_Proceeding_INVITE
  BY <1>3 DEF Invite!S!Proceeding_2_Proceeding_INVITE
<1>4. CASE Invite!S!Completed_2_Completed_INVITE
  BY <1>4 DEF Invite!S!Completed_2_Completed_INVITE
<1>5. CASE Invite!S!Accepted_2_Accepted_INVITE
  BY <1>5 DEF Invite!S!Accepted_2_Accepted_INVITE
<1> QED BY <1>2, <1>3, <1>4, <1>5 DEF Invite!S!ReceiveINVITE

LEMMA CalleeTakesACK ==
  ASSUME CalleeInv, Invite!S!ReceiveACK, "ACK" \in cOut \/ userAck
  PROVE  CalleeSound /\ (CalleeRests \/ CalleeIsAcked)
BY DEF CalleeInv, CalleeSound, CalleeRests, CalleeIsAcked, Invite!S!Handle, Invite!S!Effects,
       Invite!S!ReceiveACK, Invite!S!Completed_2_Confirmed_ACK, Invite!S!Accepted_2_Accepted_iACK

LEMMA CalleeAnswers ==
  ASSUME CalleeInv, Invite!S!Answer
  PROVE  CalleeSound /\ \E e \in {"1xx", "2xx", "3xx"} : CalleeSays(e)
<1>1. Invite!S!Sent = {TRUE}
  BY PairsAssumption DEF Invite!S!Sent
<1> USE <1>1 DEF CalleeInv, CalleeSound, CalleeSays, Invite!S!Handle, Invite!S!HandleNested,
            Invite!S!Effects, Invite!S!Response, Invite!S!Respond, Invite!S!SendResult,
            Invite!S!InUser
<1>2. CASE Invite!S!Proceeding_2_Proceeding_1xx
  BY <1>2 DEF Invite!S!Proceeding_2_Proceeding_1xx
<1>3. CASE Invite!S!Proceeding_2_Completed_300_to_699
  BY <1>3 DEF Invite!S!Proceeding_2_Completed_300_to_699
<1>4. CASE Invite!S!Proceeding_2_Accepted_2xx
  BY <1>4 DEF Invite!S!Proceeding_2_Accepted_2xx
<1>5. CASE Invite!S!Accepted_2_Accepted_2xx
  BY <1>5 DEF Invite!S!Accepted_2_Accepted_2xx
<1> QED BY <1>2, <1>3, <1>4, <1>5 DEF Invite!S!Answer

LEMMA CalleeActsAlone ==
  ASSUME CalleeInv,
         \/ Invite!S!OnTimer \/ Invite!S!Dtor
         \/ (\/ Invite!S!Return \/ Invite!S!Finish \/ Invite!S!RaiseTimer
             \/ Invite!S!MatchTimer \/ Invite!S!Tick) /\ Invite!S!Own
  PROVE  CalleeSound /\ (CalleeRests \/ CalleeFails)
<1>1. Invite!S!Sent = {TRUE} /\ "refuse" \notin InviteFaults
  BY PairsAssumption DEF Invite!S!Sent
<1> USE DEF CalleeInv, CalleeSound, CalleeRests, CalleeFails, Invite!S!Own
<1>2. CASE Invite!S!OnTimer
  <2> USE DEF Invite!S!Handle, Invite!S!Effects
  <2>1. CASE Invite!S!Completed_2_Completed_timerG
    BY <1>1, <2>1 DEF Invite!S!Completed_2_Completed_timerG, Invite!S!Resend, Invite!S!Response,
          Invite!S!SendResult
  <2>2. CASE Invite!S!Completed_2_Terminated_timerH
    BY <2>2 DEF Invite!S!Completed_2_Terminated_timerH
  <2>3. CASE Invite!S!Accepted_2_Accepted_timerX
    BY <2>3 DEF Invite!S!Accepted_2_Accepted_timerX, Invite!S!Response
  <2>4. CASE Invite!S!Accepted_2_Terminated_timerL
    BY <2>4 DEF Invite!S!Accepted_2_Terminated_timerL
  <2>5. CASE Invite!S!Confirmed_2_Terminated_timerI
    BY <2>5 DEF Invite!S!Confirmed_2_Terminated_timerI
  <2>6. CASE Invite!S!IgnoreTimer(Invite!S!Expected) /\ Invite!S!Own
    BY <2>6 DEF Invite!S!IgnoreTimer
  <2> QED BY <1>2, <2>1, <2>2, <2>3, <2>4, <2>5, <2>6 DEF Invite!S!OnTimer, Invite!S!TimerFires
<1>3. CASE Invite!S!Dtor
  BY <1>3 DEF Invite!S!Dtor, Invite!S!Destroy
<1>4. CASE Invite!S!Return /\ Invite!S!Own
  BY <1>1, <1>4 DEF Invite!S!Return
<1>5. CASE Invite!S!Finish /\ Invite!S!Own
  BY <1>5 DEF Invite!S!Finish
<1>6. CASE Invite!S!RaiseTimer /\ Invite!S!Own
  BY <1>6 DEF Invite!S!RaiseTimer
<1>7. CASE Invite!S!MatchTimer /\ Invite!S!Own
  BY <1>7 DEF Invite!S!MatchTimer
<1>8. CASE Invite!S!Tick /\ Invite!S!Own
  BY <1>8 DEF Invite!S!Tick
<1> QED BY <1>2, <1>3, <1>4, <1>5, <1>6, <1>7, <1>8

(* One more event.                                                         *)
LEMMA CallerHeard ==
  ASSUME CallerInv, NEW e, CallerHears(e)
  PROVE  cTu' \in Seq(Invite!C!Exchange) /\ cTu' # <<>> /\ Last' = e
<1>1. e \in Invite!C!Exchange
  BY DEF CallerHears, Invite!C!Exchange, Invite!C!Verdicts
<1>2. cTu' \in Seq(Invite!C!Exchange) /\ Len(cTu') = Len(cTu) + 1 /\ cTu'[Len(cTu) + 1] = e
  BY <1>1 DEF CallerHears, CallerInv
<1>3. cTu' # <<>>
  BY <1>2 DEF CallerInv
<1> QED BY <1>2, <1>3 DEF Last

LEMMA CalleeSaid ==
  ASSUME CalleeInv, NEW e \in Invite!S!Exchange, sTu' = sTu \o <<e>>
  PROVE  /\ sTu' \in Seq(Invite!S!Exchange)
         /\ \A f : Said(f)' <=> Said(f) \/ f = e
<1>1. /\ sTu' \in Seq(Invite!S!Exchange) /\ Len(sTu') = Len(sTu) + 1 /\ Len(sTu) \in Nat
      /\ sTu'[Len(sTu) + 1] = e /\ \A i \in 1..Len(sTu) : sTu'[i] = sTu[i]
      /\ 1..(Len(sTu) + 1) = 1..Len(sTu) \union {Len(sTu) + 1}
  BY DEF CalleeInv
<1>2. ASSUME NEW f
      PROVE  Said(f)' <=> Said(f) \/ f = e
  BY <1>1 DEF Said, Invite!Told
<1> QED BY <1>1, <1>2

(* The steps of a side keep to what its user knows in each state.          *)
LEMMA CallerKeeps ==
  ASSUME CallerInv, CallerSound, CallerRests \/ \E e : CallerHears(e),
         userAck' => userAck \/ Last' = "2xx"
  PROVE  CallerInv'
<1>1. CASE CallerRests
  BY <1>1 DEF CallerRests, CallerInv, CallerSound, Last, Invite!C!States
<1>2. ASSUME NEW e, CallerHears(e)
      PROVE  CallerInv'
  <2>1. cTu' \in Seq(Invite!C!Exchange) /\ Last' = e
    BY <1>2, CallerHeard
  <2> QED BY <1>2, <2>1 DEF CallerHears, CallerInv, CallerSound, Invite!C!States
<1> QED BY <1>1, <1>2

LEMMA CalleeKeeps ==
  ASSUME CalleeInv, CalleeSound,
         \/ CalleeRests \/ CalleeIsAsked \/ CalleeIsAcked \/ CalleeFails
         \/ \E e \in {"1xx", "2xx", "3xx"} : CalleeSays(e)
  PROVE  CalleeInv'
<1>1. CASE CalleeRests
  <2>1. \A e : Said(e)' <=> Said(e)
    BY <1>1 DEF CalleeRests, Said, Invite!Told
  <2> QED BY <1>1, <2>1 DEF CalleeRests, CalleeInv, CalleeSound, Invite!S!States
<1>2. CASE CalleeIsAsked
  <2>1. sTu' \in Seq(Invite!S!Exchange) /\ \A f : Said(f)' <=> Said(f) \/ f = "INVITE"
    BY <1>2, CalleeSaid DEF CalleeIsAsked, Invite!S!Exchange, Invite!S!Answers
  <2> QED BY <1>2, <2>1 DEF CalleeIsAsked, CalleeInv, CalleeSound, Invite!S!States
<1>3. CASE CalleeIsAcked
  <2>1. sTu' \in Seq(Invite!S!Exchange) /\ \A f : Said(f)' <=> Said(f) \/ f = "ACK"
    BY <1>3, CalleeSaid DEF CalleeIsAcked, Invite!S!Exchange, Invite!S!Answers
  <2> QED BY <1>3, <2>1 DEF CalleeIsAcked, CalleeInv, CalleeSound, Invite!S!States
<1>4. CASE CalleeFails
  <2>1. sTu' \in Seq(Invite!S!Exchange) /\ \A f : Said(f)' <=> Said(f) \/ f = "transport_error"
    BY <1>4, CalleeSaid DEF CalleeFails, Invite!S!Exchange, Invite!S!Answers
  <2> QED BY <1>4, <2>1 DEF CalleeFails, CalleeInv, CalleeSound, Invite!S!States
<1>5. ASSUME NEW e \in {"1xx", "2xx", "3xx"}, CalleeSays(e)
      PROVE  CalleeInv'
  <2>1. sTu' \in Seq(Invite!S!Exchange) /\ \A f : Said(f)' <=> Said(f) \/ f = e
    BY <1>5, CalleeSaid DEF CalleeSays, Invite!S!Exchange, Invite!S!Answers
  <2> QED BY <1>5, <2>1 DEF CalleeSays, CalleeInv, CalleeSound, Invite!S!States
<1> QED BY <1>1, <1>2, <1>3, <1>4, <1>5

InviteInv == CallerInv /\ CalleeInv /\ CallInv

InviteNext ==
  \/ Invite!ClientAlone \/ Invite!ClientReceives \/ Invite!ServerAlone
  \/ Invite!ServerReceivesINVITE \/ Invite!ServerReceivesACK \/ Invite!Tick

(* One step of the pair is a step of one side that leaves the other alone. *)
CallerMoves ==
  /\ CallerSound
  /\ \/ CallerRests /\ (userAck' <=> userAck)
     \/ CallerHears("timedout") /\ (userAck' <=> userAck)
     \/ \E e \in {"1xx", "2xx", "3xx"} :
          /\ CallerHears(e) /\ (userAck' <=> userAck \/ e = "2xx")
          /\ \E msg \in sOut : Invite!Class(msg) = e

CalleeMoves ==
  /\ CalleeSound /\ UNCHANGED userAck
  /\ \/ CalleeRests \/ CalleeIsAsked \/ CalleeIsAcked \/ CalleeFails
     \/ \E e \in {"1xx", "2xx", "3xx"} : CalleeSays(e)

CallerStays == UNCHANGED <<cState, cExec, cEnding, cTu, cOut>>
CalleeStays == UNCHANGED <<sState, sExec, sEnding, sTu, sOut, sLastResponse, sAcked>>

LEMMA CallSteps ==
  ASSUME InviteInv, InviteNext
  PROVE  \/ CallerMoves /\ CalleeStays
         \/ CalleeMoves /\ CallerStays
<1>1. CASE Invite!ClientAlone
  <2>1. CallerSound /\ (CallerRests \/ CallerHears("timedout"))
    BY <1>1, CallerActsAlone DEF Invite!ClientAlone, InviteInv
  <2> QED BY <1>1, <2>1 DEF CallerMoves, CalleeStays, Invite!ClientAlone, Invite!sVars
<1>2. CASE Invite!ClientReceives
  <2>1. \E msg \in sOut : /\ Invite!C!Receive(Invite!Class(msg))
                          /\ userAck' = (userAck \/ (Invite!Class(msg) = "2xx"))
    BY <1>2 DEF Invite!ClientReceives
  <2>2. PICK e : /\ Invite!C!Receive(e) /\ (userAck' <=> userAck \/ e = "2xx")
                 /\ \E msg \in sOut : Invite!Class(msg) = e
    BY <2>1
  <2>3. /\ CallerSound
        /\ \/ CallerRests /\ e = "3xx"
           \/ CallerHears(e) /\ e \in {"1xx", "2xx", "3xx"}
    BY <2>2, CallerReceives DEF InviteInv
  <2>4. CallerMoves
    BY <2>2, <2>3 DEF CallerMoves
  <2> QED BY <1>2, <2>4 DEF CalleeStays, Invite!ClientReceives, Invite!sVars
<1>3. CASE Invite!ServerAlone
  <2>1. \/ Invite!S!Answer \/ Invite!S!OnTimer \/ Invite!S!Dtor
        \/ (Invite!S!Return \/ Invite!S!Finish \/ Invite!S!RaiseTimer \/ Invite!S!MatchTimer)
              /\ Invite!S!Own
    BY <1>3 DEF Invite!ServerAlone
  <2>2. CalleeMoves
    BY <1>3, <2>1, CalleeAnswers, CalleeActsAlone DEF CalleeMoves, InviteInv, Invite!ServerAlone
  <2> QED BY <1>3, <2>2 DEF CallerStays, Invite!ServerAlone, Invite!cVars
<1>4. CASE Invite!ServerReceivesINVITE
  BY <1>4, CalleeTakesINVITE
     DEF CalleeMoves, CallerStays, Invite!ServerReceivesINVITE, InviteInv, Invite!cVars
<1>5. CASE Invite!ServerReceivesACK
  BY <1>5, CalleeTakesACK
     DEF CalleeMoves, CallerStays, Invite!ServerReceivesACK, InviteInv, Invite!cVars
<1>6. CASE Invite!Tick
  <2>1. CASE Invite!C!Tick /\ Invite!S!Tick /\ Invite!S!Own
    <3>1. CallerRests /\ CallerSound
      BY <2>1 DEF Invite!C!Tick, CallerRests, CallerSound, InviteInv, CallerInv
    <3>2. CalleeStays
      BY <2>1 DEF Invite!S!Tick, Invite!S!Own, CalleeStays
    <3> QED BY <1>6, <3>1, <3>2 DEF CallerMoves, Invite!Tick
  <2>2. CASE Invite!C!Tick /\ UNCHANGED <<Invite!sVars, sOut>>
    <3>1. CallerRests /\ CallerSound
      BY <2>2 DEF Invite!C!Tick, CallerRests, CallerSound, InviteInv, CallerInv
    <3> QED BY <1>6, <2>2, <3>1 DEF CallerMoves, CalleeStays, Invite!Tick, Invite!sVars
  <2>3. CASE Invite!S!Tick /\ Invite!S!Own /\ UNCHANGED <<Invite!cVars, cOut>>
    <3>1. CalleeRests /\ CalleeSound
      BY <2>3 DEF Invite!S!Tick, Invite!S!Own, CalleeRests, CalleeSound, InviteInv, CalleeInv
    <3> QED BY <1>6, <2>3, <3>1 DEF CalleeMoves, CallerStays, Invite!Tick, Invite!cVars
  <2> QED BY <1>6, <2>1, <2>2, <2>3 DEF Invite!Tick
<1> QED BY <1>1, <1>2, <1>3, <1>4, <1>5, <1>6 DEF InviteNext

(* The caller hears what the callee has said, and the ACK of a 2xx, or of  *)
(* a rejection, is an answer to it.                                        *)
LEMMA InviteInductive ==
  ASSUME InviteInv, InviteNext
  PROVE  InviteInv'
<1>1. CASE CallerMoves /\ CalleeStays
  <2>1. \A f : Said(f)' <=> Said(f)
    BY <1>1 DEF CalleeStays, Said, Invite!Told
  <2>2. CalleeInv'
    BY <1>1, <2>1 DEF CalleeStays, CalleeInv, InviteInv
  <2>3. CASE CallerRests /\ (userAck' <=> userAck)
    <3>1. Last' = Last
      BY <2>3 DEF CallerRests, Last
    <3>2. CallerInv'
      BY <1>1, <2>3, CallerKeeps DEF CallerMoves, InviteInv
    <3> QED BY <1>1, <2>1, <2>2, <3>1, <3>2 DEF CalleeStays, CallInv, InviteInv
  <2>4. CASE CallerHears("timedout") /\ (userAck' <=> userAck)
    <3>1. Last' = "timedout" /\ CallerInv'
      BY <1>1, <2>4, CallerHeard, CallerKeeps DEF CallerMoves, InviteInv
    <3>2. Last = "nothing"
      BY <2>4 DEF CallerHears, CallerInv, InviteInv
    <3> QED BY <1>1, <2>1, <2>2, <3>1, <3>2 DEF CalleeStays, CallInv, InviteInv
  <2>5. ASSUME NEW e \in {"1xx", "2xx", "3xx"}, CallerHears(e),
               (userAck' <=> userAck \/ e = "2xx"), NEW msg \in sOut, Invite!Class(msg) = e
        PROVE  InviteInv'
    <3>1. Last' = e /\ CallerInv'
      BY <1>1, <2>5, CallerHeard, CallerKeeps DEF CallerMoves, InviteInv
    <3>2. Said("INVITE") /\ (e \in {"2xx", "3xx"} => Said(e))
      BY <2>5 DEF Invite!Class, CalleeInv, InviteInv
    <3>3. Last = "2xx" => e = "2xx"
      BY <2>5 DEF CallerHears, CallerInv, InviteInv
    <3>4. Last # "3xx"
      BY <2>5 DEF CallerHears, CallerInv, InviteInv
    <3> QED BY <1>1, <2>1, <2>2, <3>1, <3>2, <3>3, <3>4 DEF CalleeStays, CallInv, InviteInv
  <2> QED BY <1>1, <2>3, <2>4, <2>5 DEF CallerMoves
<1>2. CASE CalleeMoves /\ CallerStays
  <2>1. Last' = Last /\ CallerInv'
    BY <1>2 DEF CallerStays, Last, CallerInv, CalleeMoves, InviteInv
  <2>2. CalleeInv'
    BY <1>2, CalleeKeeps DEF CalleeMoves, InviteInv
  <2>3. CASE CalleeRests
    <3>1. \A f : Said(f)' <=> Said(f)
      BY <2>3 DEF CalleeRests, Said, Invite!Told
    <3>2. CallInv'
      BY <2>1, <2>3, <3>1 DEF CalleeRests, CallerInv, CalleeInv, CallInv, InviteInv
    <3> QED BY <2>1, <2>2, <3>2 DEF InviteInv
  <2>4. ASSUME NEW e \in Invite!S!Exchange, sTu' = sTu \o <<e>>, sAcked' => sAcked \/ e = "ACK",
               e = "ACK" => CalleeIsAcked, sState' # "Confirmed"
        PROVE  InviteInv'
    <3>1. \A f : Said(f)' <=> Said(f) \/ f = e
      BY <2>4, CalleeSaid DEF InviteInv
    <3>2. CallInv'
      BY <2>1, <2>4, <3>1 DEF CalleeIsAcked, CallerInv, CalleeInv, CallInv, InviteInv
    <3> QED BY <2>1, <2>2, <3>2 DEF InviteInv
  <2>5. CASE CalleeIsAsked
    BY <2>4, <2>5 DEF CalleeIsAsked, Invite!S!Exchange
  <2>6. CASE CalleeIsAcked
    BY <2>4, <2>6 DEF CalleeIsAcked, Invite!S!Exchange
  <2>7. CASE CalleeFails
    BY <2>4, <2>7 DEF CalleeFails, Invite!S!Exchange
  <2>8. ASSUME NEW e \in {"1xx", "2xx", "3xx"}, CalleeSays(e)
        PROVE  InviteInv'
    BY <2>4, <2>8 DEF CalleeSays, Invite!S!Exchange, Invite!S!Answers
  <2> QED BY <1>2, <2>3, <2>5, <2>6, <2>7, <2>8 DEF CalleeMoves
<1> QED BY <1>1, <1>2, CallSteps

(* What the caller believes, by what it has heard last.                    *)
CallerViewOf(last) ==
  CASE last = "nothing"  -> "waiting"
    [] last = "1xx"      -> "ringing"
    [] last = "2xx"      -> "accepted"
    [] last = "3xx"      -> "rejected"
    [] last = "timedout" -> "failed"

LEMMA Believes ==
  ASSUME NEW s \in Seq(Invite!C!Exchange), NEW last,
         last = IF s = <<>> THEN "nothing" ELSE s[Len(s)],
         last \in {"nothing", "1xx", "2xx", "3xx", "timedout"}
  PROVE  (IF s = <<>> THEN "waiting" ELSE Invite!Meaning(s[Len(s)])) = CallerViewOf(last)
<1>1. s # <<>> => last \in Invite!C!Exchange
  OBVIOUS
<1>2. last = "nothing" <=> s = <<>>
  BY <1>1 DEF Invite!C!Exchange, Invite!C!Verdicts
<1> QED BY <1>2 DEF Invite!Meaning, CallerViewOf

CalleeViewOf(failed, acked, accepted, rejected, asked) ==
  IF failed THEN "failed"
  ELSE IF acked    THEN "established"
  ELSE IF accepted THEN "accepted"
  ELSE IF rejected THEN "rejected"
  ELSE IF asked    THEN "asked"
  ELSE "idle"

(* Every step of the pair is one of the promise, or changes no view.       *)
LEMMA CallRefined ==
  ASSUME method = "INVITE", UNCHANGED method, InviteInv, InviteNext
  PROVE  Call!CallNext \/ UNCHANGED <<Caller, Callee>>
<1> DEFINE er == CallerViewOf(Last)
           ee == CalleeViewOf(Said("transport_error"), sAcked, Said("2xx"), Said("3xx"),
                              Said("INVITE"))
<1>1. InviteInv'
  BY InviteInductive
<1>2. Caller = er
  <2>1. Last \in {"nothing", "1xx", "2xx", "3xx", "timedout"}
    BY DEF InviteInv, CallerInv, Invite!C!States
  <2> QED BY <2>1, Believes DEF Caller, Invite!CallerView, InviteInv, CallerInv, Last
<1>3. Caller' = er'
  <2>1. Last' \in {"nothing", "1xx", "2xx", "3xx", "timedout"}
    BY <1>1 DEF InviteInv, CallerInv, Invite!C!States
  <2> QED BY <1>1, <2>1, Believes DEF Caller, Invite!CallerView, InviteInv, CallerInv, Last
<1>4. Callee = ee
  BY DEF Callee, Invite!CalleeView, CalleeViewOf, Said
<1>5. Callee' = ee'
  BY DEF Callee, Invite!CalleeView, CalleeViewOf, Said
<1>6. CASE CallerMoves /\ CalleeStays
  <2>1. ee' = ee /\ \A f : Said(f)' <=> Said(f)
    BY <1>6 DEF CalleeStays, Said, Invite!Told
  <2>2. CASE CallerRests
    BY <1>2, <1>3, <1>4, <1>5, <2>1, <2>2 DEF CallerRests, Last
  <2>3. CASE CallerHears("timedout")
    <3>1. Last = "nothing" /\ Last' = "timedout"
      BY <2>3, CallerHeard DEF CallerHears, CallerInv, InviteInv
    <3>2. er = "waiting" /\ er' = "failed"
      BY <3>1 DEF CallerViewOf
    <3> QED BY <1>2, <1>3, <1>4, <1>5, <2>1, <3>2 DEF Call!CallNext, Call!CallerGivesUp
  <2>4. ASSUME NEW e \in {"1xx", "2xx", "3xx"}, CallerHears(e)
        PROVE  Call!CallNext \/ UNCHANGED <<Caller, Callee>>
    <3>1. /\ Last' = e
          /\ \/ Last \in {"nothing", "1xx"}
             \/ Last = "2xx" /\ e = "2xx"
      BY <2>4, CallerHeard DEF CallerHears, CallerInv, InviteInv
    <3>2. Said(IF e = "1xx" THEN "INVITE" ELSE e)'
      BY <1>1, <3>1 DEF InviteInv, CallInv
    <3>3. CASE e = "1xx"
      <4>1. /\ er' = "ringing" /\ er \in {"waiting", "ringing"}
            /\ (er = "ringing" \/ ee # "idle")
        BY <2>1, <3>1, <3>2, <3>3 DEF CallerViewOf, CalleeViewOf
      <4> QED BY <1>2, <1>3, <1>4, <1>5, <2>1, <4>1 DEF Call!CallNext, Call!HearRinging
    <3>4. CASE e = "2xx" /\ Last = "2xx"
      BY <1>2, <1>3, <1>4, <1>5, <2>1, <3>1, <3>4
    <3>5. CASE e = "2xx" /\ Last # "2xx"
      <4>1. ~sAcked /\ Said("2xx")
        BY <2>1, <3>2, <3>5 DEF InviteInv, CallInv
      <4>2. /\ er' = "accepted" /\ er \in {"waiting", "ringing"}
            /\ ee \in {"accepted", "failed"}
        BY <3>1, <3>5, <4>1 DEF CallerViewOf, CalleeViewOf
      <4> QED BY <1>2, <1>3, <1>4, <1>5, <2>1, <4>2 DEF Call!CallNext, Call!HearAccepted
    <3>6. CASE e = "3xx"
      <4>1. ~sAcked /\ Said("3xx") /\ ~Said("2xx")
        BY <2>1, <3>2, <3>6 DEF InviteInv, CalleeInv
      <4>2. /\ er' = "rejected" /\ er \in {"waiting", "ringing"}
            /\ ee \in {"rejected", "failed"}
        BY <3>1, <3>6, <4>1 DEF CallerViewOf, CalleeViewOf
      <4> QED BY <1>2, <1>3, <1>4, <1>5, <2>1, <4>2 DEF Call!CallNext, Call!HearRejected
    <3> QED BY <3>3, <3>4, <3>5, <3>6
  <2> QED BY <1>6, <2>2, <2>3, <2>4 DEF CallerMoves
<1>7. CASE CalleeMoves /\ CallerStays
  <2>1. er' = er /\ Last' = Last
    BY <1>7 DEF CallerStays, Last
  <2>2. CASE CalleeRests
    <3>1. ee' = ee
      BY <2>2 DEF CalleeRests, Said, Invite!Told
    <3> QED BY <1>2, <1>3, <1>4, <1>5, <2>1, <3>1
  <2>3. CASE CalleeIsAsked
    <3>1. \A f : Said(f)' <=> Said(f) \/ f = "INVITE"
      BY <2>3, CalleeSaid DEF CalleeIsAsked, Invite!S!Exchange, InviteInv
    <3>2. ee = "idle" /\ ee' = "asked"
      BY <2>3, <3>1 DEF CalleeIsAsked, InviteInv, CalleeInv, CalleeViewOf
    <3> QED BY <1>2, <1>3, <1>4, <1>5, <2>1, <3>2 DEF Call!CallNext, Call!Ask
  <2>4. CASE CalleeIsAcked
    <3>1. \A f : Said(f)' <=> Said(f) \/ f = "ACK"
      BY <2>4, CalleeSaid DEF CalleeIsAcked, Invite!S!Exchange, InviteInv
    <3>2. ~Said("transport_error") /\ Said("2xx") /\ ~Said("3xx") /\ sAcked'
      BY <2>4 DEF CalleeIsAcked, InviteInv, CalleeInv
    <3>3. Last = "2xx"
      BY <1>1, <2>1, <3>2 DEF InviteInv, CallInv
    <3>4. er = "accepted" /\ ee \in {"accepted", "established"} /\ ee' = "established"
      BY <3>1, <3>2, <3>3 DEF CallerViewOf, CalleeViewOf
    <3> QED BY <1>2, <1>3, <1>4, <1>5, <2>1, <3>4 DEF Call!CallNext, Call!Establish
  <2>5. CASE CalleeFails
    <3>1. \A f : Said(f)' <=> Said(f) \/ f = "transport_error"
      BY <2>5, CalleeSaid DEF CalleeFails, Invite!S!Exchange, InviteInv
    <3>2. ~Said("transport_error") /\ ~sAcked /\ (Said("2xx") \/ Said("3xx"))
      BY <2>5 DEF CalleeFails, InviteInv, CalleeInv
    <3>3. ee \in {"accepted", "rejected"} /\ ee' = "failed"
      BY <3>1, <3>2 DEF CalleeViewOf
    <3> QED BY <1>2, <1>3, <1>4, <1>5, <2>1, <3>3 DEF Call!CallNext, Call!CalleeGivesUp
  <2>6. ASSUME NEW e \in {"1xx", "2xx", "3xx"}, CalleeSays(e)
        PROVE  Call!CallNext \/ UNCHANGED <<Caller, Callee>>
    <3>1. \A f : Said(f)' <=> Said(f) \/ f = e
      BY <2>6, CalleeSaid DEF CalleeSays, Invite!S!Exchange, Invite!S!Answers, InviteInv
    <3>2. ~Said("transport_error") /\ ~Said("3xx") /\ (sAcked' <=> sAcked)
      BY <2>6 DEF CalleeSays, InviteInv, CalleeInv
    <3>3. CASE Said(e) \/ e = "1xx"
      <4>1. ee' = ee
        BY <3>1, <3>2, <3>3 DEF CalleeViewOf
      <4> QED BY <1>2, <1>3, <1>4, <1>5, <2>1, <4>1
    <3>4. CASE ~Said(e) /\ e # "1xx"
      <4>1. sState = "Proceeding"
        BY <2>6, <3>4 DEF CalleeSays, InviteInv, CalleeInv
      <4>2. ~sAcked /\ ~Said("2xx") /\ Said("INVITE")
        BY <4>1 DEF InviteInv, CalleeInv
      <4>3. ee = "asked" /\ ee' \in {"accepted", "rejected"}
        BY <3>1, <3>2, <3>4, <4>2 DEF CalleeViewOf
      <4> QED BY <1>2, <1>3, <1>4, <1>5, <2>1, <4>3 DEF Call!CallNext, Call!AnswerCall
    <3> QED BY <3>3, <3>4
  <2> QED BY <1>7, <2>2, <2>3, <2>4, <2>5, <2>6 DEF CalleeMoves
<1> QED BY <1>6, <1>7, CallSteps

-----------------------------------------------------------------------------
(* The pair of non-INVITE transactions. *)

LastHeard == NonInvite!LastHeard
Canceled == NonInvite!Told(cTu, "canceled")

RequesterInv ==
  /\ cState \in NonInvite!C!States /\ cTu \in Seq(NonInvite!C!Exchange)
  /\ cExec \notin {"fail", "user"}
  /\ cEnding => cState = "Terminated"
  /\ cState \in {"Started", "Trying"} => Last = "nothing"
  /\ cState = "Proceeding" => Last = "1xx"
  /\ cState = "Completed" => Last = "final"
  /\ cState = "Terminated" => Canceled \/ LastHeard \in {"final", "timedout", "transport_error"}
  /\ Canceled => cState = "Terminated"

ResponderInv ==
  /\ sState \in NonInvite!S!States /\ sTu \in Seq(NonInvite!S!Exchange)
  /\ sState = "Started" => ~Said("request")
  /\ sState \in {"Trying", "Proceeding"} => Said("request")
  /\ sState \in {"Started", "Trying", "Proceeding"} => ~Said("final")
  /\ "1xx" \in sOut \/ sLastResponse = "1xx" => Said("request")
  /\ "final" \in sOut \/ sLastResponse = "final" => Said("final")

(* What the requester has heard was said.                                  *)
RequestInv ==
  /\ LastHeard = "1xx" => Said("request")
  /\ LastHeard = "final" => Said("final")

(* The steps of the requester's side.                                      *)
RequesterSound == cExec' \notin {"fail", "user"} /\ (cEnding' => cState' = "Terminated")

RequesterRests ==
  /\ UNCHANGED cTu
  /\ \/ cState' = cState
     \/ cState = "Started" /\ cState' = "Trying"
     \/ cState = "Completed" /\ cState' = "Terminated"

RequesterHears(e) ==
  /\ cTu' = cTu \o <<e>>
  /\ \/ e = "1xx" /\ cState \in {"Trying", "Proceeding"} /\ cState' = "Proceeding"
     \/ e = "final" /\ cState \in {"Trying", "Proceeding"} /\ cState' = "Completed"
     \/ /\ e \in {"timedout", "transport_error"} /\ cState \in {"Trying", "Proceeding"}
        /\ cState' = "Terminated"
     \/ e = "canceled" /\ cState \notin {"Started", "Terminated"} /\ cState' = "Terminated"

(* The steps of the responder's side.                                      *)
ResponderRests ==
  /\ UNCHANGED <<sTu, sLastResponse>>
  /\ sOut' \subseteq sOut \union {sLastResponse}
  /\ sState' \in {sState, "Terminated"}

ResponderIsAsked ==
  /\ sTu' = sTu \o <<"request">> /\ UNCHANGED <<sOut, sLastResponse>>
  /\ sState = "Started" /\ sState' = "Trying"

ResponderSays(e) ==
  /\ sTu' = sTu \o <<e>> /\ sOut' \subseteq sOut \union {e} /\ sLastResponse' = e
  /\ sState \in {"Trying", "Proceeding"}
  /\ \/ sState' = "Terminated"
     \/ e = "1xx" /\ sState' = "Proceeding"
     \/ e = "final" /\ sState' = "Completed"

ResponderBacksOut(e) ==
  /\ sTu' = sTu \o <<e>> /\ UNCHANGED <<sOut, sLastResponse>>
  /\ sState' \in {sState, "Terminated"}

LEMMA RequesterReceives ==
  ASSUME RequesterInv, NEW response, NonInvite!C!Receive(response)
  PROVE  RequesterSound /\ RequesterHears(response) /\ response \in {"1xx", "final"}
<1> USE DEF RequesterInv, RequesterSound, RequesterHears, NonInvite!C!Handle,
            NonInvite!C!Effects
<1>1. CASE response = "1xx"
  <2>1. NonInvite!C!Trying_2_Proceedding_1xx \/ NonInvite!C!Proceeding_2_Proceeding_1xx
    BY <1>1 DEF NonInvite!C!Receive
  <2> QED
    BY <1>1, <2>1 DEF NonInvite!C!Trying_2_Proceedding_1xx, NonInvite!C!Proceeding_2_Proceeding_1xx
<1>2. CASE response = "final"
  <2>1. \/ NonInvite!C!Trying_2_Completed_200_to_699
        \/ NonInvite!C!Proceeding_2_Completed_200_to_699
    BY <1>2 DEF NonInvite!C!Receive
  <2> QED
    BY <1>2, <2>1
       DEF NonInvite!C!Trying_2_Completed_200_to_699, NonInvite!C!Proceeding_2_Completed_200_to_699,
           NonInvite!C!Any_2_Completed_200_to_699
<1> QED BY <1>1, <1>2 DEF NonInvite!C!Receive

LEMMA RequesterActsAlone ==
  ASSUME RequesterInv,
         \/ NonInvite!C!Started_2_Trying_send \/ NonInvite!C!ScheduleK \/ NonInvite!C!OnTimer
         \/ NonInvite!C!Fault \/ NonInvite!C!Dtor \/ NonInvite!C!Return \/ NonInvite!C!Finish
         \/ NonInvite!C!RaiseTimer \/ NonInvite!C!MatchTimer \/ NonInvite!C!Tick
  PROVE  /\ RequesterSound
         /\ \/ RequesterRests
            \/ \E e \in {"timedout", "transport_error", "canceled"} : RequesterHears(e)
<1> USE DEF RequesterInv, RequesterSound, RequesterRests, RequesterHears
<1>1. CASE NonInvite!C!Started_2_Trying_send
  BY <1>1 DEF NonInvite!C!Started_2_Trying_send, NonInvite!C!Handle, NonInvite!C!Effects
<1>2. CASE NonInvite!C!ScheduleK
  BY <1>2 DEF NonInvite!C!ScheduleK, NonInvite!C!ThenSchedule
<1>3. CASE NonInvite!C!OnTimer
  <2> USE DEF NonInvite!C!Handle, NonInvite!C!Effects
  <2>1. CASE NonInvite!C!Trying_2_Trying_timerE \/ NonInvite!C!Proceeding_2_Proceeding_timerE
    BY <2>1 DEF NonInvite!C!Trying_2_Trying_timerE, NonInvite!C!Proceeding_2_Proceeding_timerE,
          NonInvite!C!Any_2_Any_timerE
  <2>2. CASE NonInvite!C!Trying_2_Terminated_timerF
    BY <2>2 DEF NonInvite!C!Trying_2_Terminated_timerF
  <2>3. CASE NonInvite!C!Proceeding_2_Terminated_timerF
    BY <2>3 DEF NonInvite!C!Proceeding_2_Terminated_timerF
  <2>4. CASE NonInvite!C!Completed_2_Terminated_timerK
    BY <2>4 DEF NonInvite!C!Completed_2_Terminated_timerK
  <2>5. CASE NonInvite!C!IgnoreTimer(NonInvite!C!Expected)
    BY <2>5 DEF NonInvite!C!IgnoreTimer
  <2> QED BY <1>3, <2>1, <2>2, <2>3, <2>4, <2>5 DEF NonInvite!C!OnTimer, NonInvite!C!TimerFires
<1>4. CASE NonInvite!C!Fault
  <2>1. NonInvite!C!Any_2_Terminated_cancel
    BY <1>4, PairsAssumption
       DEF NonInvite!C!Fault, NonInvite!C!Any_2_Terminated_transportError,
           NonInvite!C!Any_2_Terminated_Error
  <2> QED BY <2>1 DEF NonInvite!C!Any_2_Terminated_cancel, NonInvite!C!Alive,
                NonInvite!C!Handle, NonInvite!C!Effects
<1>5. CASE NonInvite!C!Dtor
  BY <1>5 DEF NonInvite!C!Dtor, NonInvite!C!Destroy
<1>6. CASE NonInvite!C!Return
  BY <1>6 DEF NonInvite!C!Return
<1>7. CASE NonInvite!C!Finish
  BY <1>7 DEF NonInvite!C!Finish
<1>8. CASE NonInvite!C!RaiseTimer
  BY <1>8 DEF NonInvite!C!RaiseTimer
<1>9. CASE NonInvite!C!MatchTimer
  BY <1>9 DEF NonInvite!C!MatchTimer
<1>10. CASE NonInvite!C!Tick
  BY <1>10 DEF NonInvite!C!Tick
<1> QED BY <1>1, <1>2, <1>3, <1>4, <1>5, <1>6, <1>7, <1>8, <1>9, <1>10

LEMMA ResponderReceives ==
  ASSUME ResponderInv, NonInvite!S!ReceiveRequest
  PROVE  ResponderRests \/ ResponderIsAsked
<1> USE DEF ResponderInv, ResponderRests, ResponderIsAsked, NonInvite!S!Handle,
            NonInvite!S!Effects, NonInvite!S!Resend, NonInvite!S!Response
<1>1. CASE NonInvite!S!Started_2_Trying_request
  BY <1>1 DEF NonInvite!S!Started_2_Trying_request
<1>2. CASE NonInvite!S!Trying_2_Trying_request
  BY <1>2 DEF NonInvite!S!Trying_2_Trying_request
<1>3. CASE NonInvite!S!Proceeding_2_Proceeding_request
  BY <1>3 DEF NonInvite!S!Proceeding_2_Proceeding_request
<1>4. CASE NonInvite!S!Completed_2_Completed_request
  BY <1>4 DEF NonInvite!S!Completed_2_Completed_request
<1> QED BY <1>1, <1>2, <1>3, <1>4 DEF NonInvite!S!ReceiveRequest

LEMMA ResponderAnswers ==
  ASSUME ResponderInv, NonInvite!S!Answer
  PROVE  \E e \in {"1xx", "final"} : ResponderSays(e)
<1> USE DEF ResponderSays, NonInvite!S!Respond, NonInvite!S!Handle, NonInvite!S!HandleNested,
            NonInvite!S!Effects, NonInvite!S!Response
<1>1. CASE NonInvite!S!Trying_2_Proceeding_send_1xx
  BY <1>1 DEF NonInvite!S!Trying_2_Proceeding_send_1xx
<1>2. CASE NonInvite!S!Proceeding_2_Proceeding_send_1xx
  BY <1>2 DEF NonInvite!S!Proceeding_2_Proceeding_send_1xx
<1>3. CASE NonInvite!S!Trying_2_Completed_send_200_to_699
  BY <1>3 DEF NonInvite!S!Trying_2_Completed_send_200_to_699, NonInvite!S!Any_2_Completed_send_200_to_699
<1>4. CASE NonInvite!S!Proceeding_2_Completed_send_200_to_699
  BY <1>4 DEF NonInvite!S!Proceeding_2_Completed_send_200_to_699, NonInvite!S!Any_2_Completed_send_200_to_699
<1> QED BY <1>1, <1>2, <1>3, <1>4 DEF NonInvite!S!Answer

LEMMA ResponderActsAlone ==
  ASSUME ResponderInv,
         \/ NonInvite!S!OnTimer \/ NonInvite!S!Fault \/ NonInvite!S!Dtor
         \/ (\/ NonInvite!S!Return \/ NonInvite!S!Finish \/ NonInvite!S!RaiseTimer
             \/ NonInvite!S!MatchTimer \/ NonInvite!S!Tick) /\ NonInvite!S!Own
  PROVE  ResponderRests \/ \E e \in {"refused", "canceled"} : ResponderBacksOut(e)
<1> USE DEF ResponderInv, ResponderRests, ResponderBacksOut, NonInvite!S!Own
<1>1. CASE NonInvite!S!OnTimer
  BY <1>1 DEF NonInvite!S!OnTimer, NonInvite!S!Completed_2_Terminated_tirmerJ,
        NonInvite!S!IgnoreTimer, NonInvite!S!Handle, NonInvite!S!Effects
<1>2. CASE NonInvite!S!Fault
  <2>1. NonInvite!S!Any_2_Terminated_cancel
    BY <1>2, PairsAssumption
       DEF NonInvite!S!Fault, NonInvite!S!Any_2_Terminated_transportError,
           NonInvite!S!Any_2_Terminated_Error
  <2> QED BY <2>1 DEF NonInvite!S!Any_2_Terminated_cancel, NonInvite!S!Handle, NonInvite!S!Effects
<1>3. CASE NonInvite!S!Dtor
  BY <1>3 DEF NonInvite!S!Dtor, NonInvite!S!Destroy
<1>4. CASE NonInvite!S!Return /\ NonInvite!S!Own
  <2>1. sTu' = sTu \/ sTu' = Append(sTu, "refused")
    BY <1>4 DEF NonInvite!S!Return
  <2>2. Append(sTu, "refused") = sTu \o <<"refused">>
    OBVIOUS
  <2> QED BY <1>4, <2>1, <2>2 DEF NonInvite!S!Return
<1>5. CASE NonInvite!S!Finish /\ NonInvite!S!Own
  BY <1>5 DEF NonInvite!S!Finish
<1>6. CASE NonInvite!S!RaiseTimer /\ NonInvite!S!Own
  BY <1>6 DEF NonInvite!S!RaiseTimer
<1>7. CASE NonInvite!S!MatchTimer /\ NonInvite!S!Own
  BY <1>7 DEF NonInvite!S!MatchTimer
<1>8. CASE NonInvite!S!Tick /\ NonInvite!S!Own
  BY <1>8 DEF NonInvite!S!Tick
<1> QED BY <1>1, <1>2, <1>3, <1>4, <1>5, <1>6, <1>7, <1>8

(* What is heard last: the last event, or the one a cancel left.           *)
LEMMA LastIndex ==
  ASSUME NEW n \in Nat, NEW I \in SUBSET (1..n), NEW m \in I, \A j \in I : j <= m
  PROVE  (CHOOSE i \in I : \A j \in I : j <= i) = m
<1>1. \A i \in I : (\A j \in I : j <= i) <=> i = m
  OBVIOUS
<1> QED BY <1>1

HeardEvents == NonInvite!C!Verdicts \union {"1xx"}

LEMMA HearsLast ==
  ASSUME cTu \in Seq(NonInvite!C!Exchange), Last \in HeardEvents \union {"nothing"}
  PROVE  LastHeard = Last
<1>1. CASE cTu = <<>>
  <2>1. NonInvite!Heard = {}
    BY <1>1 DEF NonInvite!Heard
  <2> QED BY <1>1, <2>1 DEF LastHeard, NonInvite!LastHeard, Last
<1>2. CASE cTu # <<>>
  <2>1. Len(cTu) \in 1..Len(cTu) /\ Last = cTu[Len(cTu)] /\ Last \in NonInvite!C!Exchange
    BY <1>2 DEF Last
  <2>2. Last \in HeardEvents
    BY <2>1 DEF NonInvite!C!Exchange, NonInvite!C!Verdicts
  <2>3. Len(cTu) \in NonInvite!Heard /\ NonInvite!Heard \in SUBSET (1..Len(cTu)) /\ Len(cTu) \in Nat
    BY <2>1, <2>2 DEF NonInvite!Heard, HeardEvents
  <2>4. \A j \in NonInvite!Heard : j <= Len(cTu)
    BY <2>3
  <2>5. (CHOOSE i \in NonInvite!Heard : \A j \in NonInvite!Heard : j <= i) = Len(cTu)
    BY <2>3, <2>4, LastIndex
  <2> QED BY <2>1, <2>3, <2>5 DEF LastHeard, NonInvite!LastHeard
<1> QED BY <1>1, <1>2

LEMMA RequesterHeard ==
  ASSUME RequesterInv, NEW e, RequesterHears(e)
  PROVE  /\ cTu' \in Seq(NonInvite!C!Exchange)
         /\ Last' = e /\ Last' # "nothing"
         /\ LastHeard' = IF e = "canceled" THEN LastHeard ELSE e
         /\ Canceled' <=> e = "canceled"
<1>1. e \in NonInvite!C!Exchange /\ (e # "canceled" => e \in HeardEvents)
  BY DEF RequesterHears, NonInvite!C!Exchange, NonInvite!C!Verdicts, HeardEvents
<1>2. /\ cTu' \in Seq(NonInvite!C!Exchange) /\ Len(cTu') = Len(cTu) + 1 /\ Len(cTu) \in Nat
      /\ cTu'[Len(cTu) + 1] = e /\ \A i \in 1..Len(cTu) : cTu'[i] = cTu[i]
      /\ 1..(Len(cTu) + 1) = 1..Len(cTu) \union {Len(cTu) + 1}
  BY <1>1 DEF RequesterHears, RequesterInv
<1>3. cTu' # <<>>
  BY <1>2
<1>4. Last' = e /\ Last' # "nothing"
  BY <1>1, <1>2, <1>3 DEF Last, NonInvite!C!Exchange, NonInvite!C!Verdicts
<1>5. Canceled' <=> e = "canceled"
  <2>1. ~Canceled
    BY DEF RequesterHears, RequesterInv
  <2> QED BY <1>2, <2>1 DEF Canceled, NonInvite!Told
<1>6. CASE e # "canceled"
  <2>1. e \in HeardEvents /\ Len(cTu') \in NonInvite!Heard'
    BY <1>1, <1>2, <1>6 DEF NonInvite!Heard, HeardEvents
  <2>2. NonInvite!Heard' \in SUBSET (1..Len(cTu')) /\ Len(cTu') \in Nat
    BY <1>2 DEF NonInvite!Heard
  <2>3. \A j \in NonInvite!Heard' : j <= Len(cTu')
    BY <2>2
  <2>4. (CHOOSE i \in NonInvite!Heard' : \A j \in NonInvite!Heard' : j <= i) = Len(cTu')
    BY <2>1, <2>2, <2>3, LastIndex
  <2>5. LastHeard' = e
    BY <1>2, <2>1, <2>4 DEF LastHeard, NonInvite!LastHeard
  <2> QED BY <1>2, <1>4, <1>5, <1>6, <2>5
<1>7. CASE e = "canceled"
  <2>1. NonInvite!Heard' = NonInvite!Heard
    BY <1>2, <1>7 DEF NonInvite!Heard, NonInvite!C!Verdicts
  <2>2. Last \in HeardEvents \union {"nothing"}
    BY <1>7 DEF RequesterHears, RequesterInv, HeardEvents, NonInvite!C!Verdicts, NonInvite!C!States
  <2>3. CASE NonInvite!Heard = {}
    BY <1>2, <1>4, <1>5, <1>7, <2>1, <2>3 DEF LastHeard, NonInvite!LastHeard
  <2>4. CASE NonInvite!Heard # {}
    <3>1. cTu # <<>> /\ Len(cTu) \in 1..Len(cTu)
      BY <1>2, <2>4 DEF NonInvite!Heard
    <3>2. Last = cTu[Len(cTu)] /\ Last \in HeardEvents
      <4>1. Last = cTu[Len(cTu)] /\ Last \in NonInvite!C!Exchange
        BY <3>1 DEF Last, RequesterInv
      <4> QED BY <2>2, <4>1 DEF NonInvite!C!Exchange, NonInvite!C!Verdicts
    <3>3. Len(cTu) \in NonInvite!Heard /\ NonInvite!Heard \in SUBSET (1..Len(cTu))
      BY <3>1, <3>2 DEF NonInvite!Heard, HeardEvents
    <3>4. \A j \in NonInvite!Heard : j <= Len(cTu)
      BY <1>2, <3>3
    <3>5. (CHOOSE i \in NonInvite!Heard : \A j \in NonInvite!Heard : j <= i) = Len(cTu)
      BY <1>2, <3>3, <3>4, LastIndex
    <3>6. LastHeard = cTu[Len(cTu)]
      BY <2>4, <3>5 DEF LastHeard, NonInvite!LastHeard
    <3>7. LastHeard' = cTu'[Len(cTu)]
      BY <2>1, <2>4, <3>5 DEF LastHeard, NonInvite!LastHeard
    <3> QED BY <1>2, <1>4, <1>5, <1>7, <3>1, <3>6, <3>7
  <2> QED BY <2>3, <2>4
<1> QED BY <1>6, <1>7

LEMMA ResponderSaid ==
  ASSUME ResponderInv, NEW e \in NonInvite!S!Exchange, sTu' = sTu \o <<e>>
  PROVE  /\ sTu' \in Seq(NonInvite!S!Exchange)
         /\ \A f : Said(f)' <=> Said(f) \/ f = e
<1>1. /\ sTu' \in Seq(NonInvite!S!Exchange) /\ Len(sTu') = Len(sTu) + 1 /\ Len(sTu) \in Nat
      /\ sTu'[Len(sTu) + 1] = e /\ \A i \in 1..Len(sTu) : sTu'[i] = sTu[i]
      /\ 1..(Len(sTu) + 1) = 1..Len(sTu) \union {Len(sTu) + 1}
  BY DEF ResponderInv
<1>2. ASSUME NEW f
      PROVE  Said(f)' <=> Said(f) \/ f = e
  BY <1>1 DEF Said, Invite!Told
<1> QED BY <1>1, <1>2

LEMMA RequesterKeeps ==
  ASSUME RequesterInv, RequesterSound, RequesterRests \/ \E e : RequesterHears(e)
  PROVE  RequesterInv'
<1>1. CASE RequesterRests
  <2>1. Last' = Last /\ LastHeard' = LastHeard /\ (Canceled' <=> Canceled)
    BY <1>1 DEF RequesterRests, Last, LastHeard, NonInvite!LastHeard, NonInvite!Heard, Canceled,
          NonInvite!Told
  <2>2. cState = "Completed" => LastHeard = "final"
    BY HearsLast DEF RequesterInv, HeardEvents, NonInvite!C!Verdicts
  <2> QED BY <1>1, <2>1, <2>2 DEF RequesterRests, RequesterInv, RequesterSound, NonInvite!C!States
<1>2. ASSUME NEW e, RequesterHears(e)
      PROVE  RequesterInv'
  <2>1. /\ cTu' \in Seq(NonInvite!C!Exchange) /\ Last' = e
        /\ LastHeard' = IF e = "canceled" THEN LastHeard ELSE e
        /\ Canceled' <=> e = "canceled"
    BY <1>2, RequesterHeard
  <2> QED BY <1>2, <2>1 DEF RequesterHears, RequesterInv, RequesterSound, NonInvite!C!States
<1> QED BY <1>1, <1>2

LEMMA ResponderKeeps ==
  ASSUME ResponderInv,
         \/ ResponderRests \/ ResponderIsAsked
         \/ \E e \in {"1xx", "final"} : ResponderSays(e)
         \/ \E e \in {"refused", "canceled"} : ResponderBacksOut(e)
  PROVE  ResponderInv'
<1>1. CASE ResponderRests
  <2>1. \A f : Said(f)' <=> Said(f)
    BY <1>1 DEF ResponderRests, Said, Invite!Told
  <2> QED BY <1>1, <2>1 DEF ResponderRests, ResponderInv, NonInvite!S!States
<1>2. CASE ResponderIsAsked
  <2>1. sTu' \in Seq(NonInvite!S!Exchange) /\ \A f : Said(f)' <=> Said(f) \/ f = "request"
    BY <1>2, ResponderSaid DEF ResponderIsAsked, NonInvite!S!Exchange
  <2> QED BY <1>2, <2>1 DEF ResponderIsAsked, ResponderInv, NonInvite!S!States
<1>3. ASSUME NEW e \in {"1xx", "final"}, ResponderSays(e)
      PROVE  ResponderInv'
  <2>1. sTu' \in Seq(NonInvite!S!Exchange) /\ \A f : Said(f)' <=> Said(f) \/ f = e
    BY <1>3, ResponderSaid DEF ResponderSays, NonInvite!S!Exchange, NonInvite!S!Answers
  <2> QED BY <1>3, <2>1 DEF ResponderSays, ResponderInv, NonInvite!S!States
<1>4. ASSUME NEW e \in {"refused", "canceled"}, ResponderBacksOut(e)
      PROVE  ResponderInv'
  <2>1. sTu' \in Seq(NonInvite!S!Exchange) /\ \A f : Said(f)' <=> Said(f) \/ f = e
    BY <1>4, ResponderSaid DEF ResponderBacksOut, NonInvite!S!Exchange
  <2> QED BY <1>4, <2>1 DEF ResponderBacksOut, ResponderInv, NonInvite!S!States
<1> QED BY <1>1, <1>2, <1>3, <1>4

NonInviteInv == RequesterInv /\ ResponderInv /\ RequestInv

NonInviteNext ==
  \/ NonInvite!ClientAlone \/ NonInvite!ClientReceives
  \/ NonInvite!ServerAlone \/ NonInvite!ServerReceives \/ NonInvite!Tick

RequesterMoves ==
  /\ RequesterSound
  /\ \/ RequesterRests
     \/ \E e \in {"timedout", "transport_error", "canceled"} : RequesterHears(e)
     \/ \E e \in {"1xx", "final"} : RequesterHears(e) /\ e \in sOut

ResponderMoves ==
  \/ ResponderRests \/ ResponderIsAsked
  \/ \E e \in {"1xx", "final"} : ResponderSays(e)
  \/ \E e \in {"refused", "canceled"} : ResponderBacksOut(e)

RequesterStays == UNCHANGED <<cState, cExec, cEnding, cTu>>
ResponderStays == UNCHANGED <<sState, sTu, sOut, sLastResponse>>

LEMMA RequestSteps ==
  ASSUME NonInviteInv, NonInviteNext
  PROVE  \/ RequesterMoves /\ ResponderStays
         \/ ResponderMoves /\ RequesterStays
<1>1. CASE NonInvite!ClientAlone
  <2>1. RequesterMoves
    BY <1>1, RequesterActsAlone DEF NonInvite!ClientAlone, RequesterMoves, NonInviteInv
  <2> QED BY <1>1, <2>1 DEF NonInvite!ClientAlone, ResponderStays, NonInvite!sVars
<1>2. CASE NonInvite!ClientReceives
  <2>1. PICK e \in sOut : NonInvite!C!Receive(e)
    BY <1>2 DEF NonInvite!ClientReceives
  <2>2. RequesterSound /\ RequesterHears(e) /\ e \in {"1xx", "final"}
    BY <2>1, RequesterReceives DEF NonInviteInv
  <2> QED BY <1>2, <2>2 DEF NonInvite!ClientReceives, RequesterMoves, ResponderStays, NonInvite!sVars
<1>3. CASE NonInvite!ServerAlone
  <2>1. \/ NonInvite!S!Answer \/ NonInvite!S!OnTimer \/ NonInvite!S!Fault \/ NonInvite!S!Dtor
        \/ (\/ NonInvite!S!Return \/ NonInvite!S!Finish \/ NonInvite!S!RaiseTimer
            \/ NonInvite!S!MatchTimer) /\ NonInvite!S!Own
    BY <1>3 DEF NonInvite!ServerAlone
  <2>2. ResponderMoves
    BY <2>1, ResponderAnswers, ResponderActsAlone DEF ResponderMoves, NonInviteInv
  <2> QED BY <1>3, <2>2 DEF NonInvite!ServerAlone, RequesterStays, NonInvite!cVars
<1>4. CASE NonInvite!ServerReceives
  BY <1>4, ResponderReceives
     DEF NonInvite!ServerReceives, ResponderMoves, RequesterStays, NonInvite!cVars, NonInviteInv
<1>5. CASE NonInvite!Tick
  <2>1. CASE NonInvite!C!Tick /\ NonInvite!S!Tick /\ NonInvite!S!Own
    <3>1. RequesterMoves
      BY <2>1, RequesterActsAlone DEF RequesterMoves, NonInviteInv
    <3>2. ResponderStays
      BY <2>1 DEF NonInvite!S!Tick, NonInvite!S!Own, ResponderStays
    <3> QED BY <3>1, <3>2
  <2>2. CASE NonInvite!C!Tick /\ UNCHANGED NonInvite!sVars
    <3>1. RequesterMoves
      BY <2>2, RequesterActsAlone DEF RequesterMoves, NonInviteInv
    <3> QED BY <2>2, <3>1 DEF ResponderStays, NonInvite!sVars
  <2>3. CASE NonInvite!S!Tick /\ NonInvite!S!Own /\ UNCHANGED NonInvite!cVars
    <3>1. ResponderMoves
      BY <2>3, ResponderActsAlone DEF ResponderMoves, NonInviteInv
    <3> QED BY <2>3, <3>1 DEF RequesterStays, NonInvite!cVars
  <2> QED BY <1>5, <2>1, <2>2, <2>3 DEF NonInvite!Tick
<1> QED BY <1>1, <1>2, <1>3, <1>4, <1>5 DEF NonInviteNext

(* What the requester hears is in flight, and what is in flight was said.  *)
LEMMA NonInviteInductive ==
  ASSUME NonInviteInv, NonInviteNext
  PROVE  NonInviteInv'
<1>1. CASE RequesterMoves /\ ResponderStays
  <2>1. \A f : Said(f)' <=> Said(f)
    BY <1>1 DEF ResponderStays, Said, Invite!Told
  <2>2. ResponderInv'
    BY <1>1, <2>1 DEF ResponderStays, ResponderInv, NonInviteInv
  <2>3. RequesterInv'
    BY <1>1, RequesterKeeps DEF RequesterMoves, NonInviteInv
  <2>4. RequestInv'
    <3>1. CASE RequesterRests
      <4>1. LastHeard' = LastHeard
        BY <3>1 DEF RequesterRests, LastHeard, NonInvite!LastHeard, NonInvite!Heard
      <4> QED BY <2>1, <4>1 DEF RequestInv, NonInviteInv
    <3>2. ASSUME NEW e \in {"timedout", "transport_error", "canceled"}, RequesterHears(e)
          PROVE  RequestInv'
      BY <2>1, <3>2, RequesterHeard DEF RequestInv, NonInviteInv
    <3>3. ASSUME NEW e \in {"1xx", "final"}, RequesterHears(e), e \in sOut
          PROVE  RequestInv'
      BY <2>1, <3>3, RequesterHeard DEF RequestInv, NonInviteInv, ResponderInv
    <3> QED BY <1>1, <3>1, <3>2, <3>3 DEF RequesterMoves
  <2> QED BY <2>2, <2>3, <2>4 DEF NonInviteInv
<1>2. CASE ResponderMoves /\ RequesterStays
  <2>1. /\ Last' = Last /\ LastHeard' = LastHeard /\ (Canceled' <=> Canceled)
    BY <1>2 DEF RequesterStays, Last, LastHeard, NonInvite!LastHeard, NonInvite!Heard, Canceled,
          NonInvite!Told
  <2>2. RequesterInv'
    BY <1>2, <2>1 DEF RequesterStays, RequesterInv, NonInviteInv
  <2>3. ResponderInv'
    BY <1>2, ResponderKeeps DEF ResponderMoves, NonInviteInv
  <2>4. \A f : Said(f) => Said(f)'
    <3>1. CASE ResponderRests
      BY <3>1 DEF ResponderRests, Said, Invite!Told
    <3>2. ASSUME NEW e \in NonInvite!S!Exchange, sTu' = sTu \o <<e>>
          PROVE  \A f : Said(f) => Said(f)'
      BY <3>2, ResponderSaid DEF NonInviteInv
    <3> QED BY <1>2, <3>1, <3>2
            DEF ResponderMoves, ResponderIsAsked, ResponderSays, ResponderBacksOut,
                NonInvite!S!Exchange, NonInvite!S!Answers
  <2> QED BY <2>1, <2>2, <2>3, <2>4 DEF NonInviteInv, RequestInv
<1> QED BY <1>1, <1>2, RequestSteps

(* What the requester believes, by what it has heard last.                 *)
RequesterViewOf(heard, canceled) ==
  IF heard = "final" THEN "answered"
  ELSE IF heard \in {"timedout", "transport_error", "error"} \/ canceled THEN "failed"
  ELSE IF heard = "1xx" THEN "progress"
  ELSE "waiting"

ResponderViewOf(answered, asked) ==
  IF answered THEN "answered" ELSE IF asked THEN "asked" ELSE "idle"

(* Every step of the pair is one of the promise, or changes no view.       *)
LEMMA RequestRefined ==
  ASSUME method # "INVITE", UNCHANGED method, NonInviteInv, NonInviteNext
  PROVE  Pair!RRNext \/ UNCHANGED <<Requester, Responder>>
<1> DEFINE er == RequesterViewOf(LastHeard, Canceled)
           ee == ResponderViewOf(Said("final"), Said("request"))
<1>1. NonInviteInv'
  BY NonInviteInductive
<1>2. /\ Requester = er /\ Requester' = er'
      /\ Responder = ee /\ Responder' = ee'
  BY DEF Requester, Responder, NonInvite!RequesterView, NonInvite!ResponderView,
         NonInvite!C!Verdicts, LastHeard, Canceled, RequesterViewOf, ResponderViewOf, Said,
         Invite!Told, NonInvite!Told
<1>3. CASE RequesterMoves /\ ResponderStays
  <2>1. ee' = ee /\ \A f : Said(f)' <=> Said(f)
    BY <1>3 DEF ResponderStays, Said, Invite!Told
  <2>2. CASE RequesterRests
    <3>1. er' = er
      BY <2>2 DEF RequesterRests, LastHeard, NonInvite!LastHeard, NonInvite!Heard, Canceled,
            NonInvite!Told
    <3> QED BY <1>2, <2>1, <3>1
  <2>3. ASSUME NEW e, RequesterHears(e)
        PROVE  /\ LastHeard = Last /\ ~Canceled /\ Last \in {"nothing", "1xx", "final"}
               /\ Last = "final" => e = "canceled"
               /\ LastHeard' = IF e = "canceled" THEN Last ELSE e
               /\ Canceled' <=> e = "canceled"
    <3>1. /\ ~Canceled /\ Last \in {"nothing", "1xx", "final"}
          /\ Last = "final" => e = "canceled"
      BY <2>3 DEF RequesterHears, NonInviteInv, RequesterInv, NonInvite!C!States
    <3>2. LastHeard = Last
      BY <3>1, HearsLast DEF HeardEvents, NonInvite!C!Verdicts, NonInviteInv, RequesterInv
    <3> QED BY <2>3, <3>1, <3>2, RequesterHeard DEF NonInviteInv
  <2>4. ASSUME NEW e \in {"timedout", "transport_error", "canceled"}, RequesterHears(e)
        PROVE  Pair!RRNext \/ UNCHANGED <<Requester, Responder>>
    <3>1. CASE Last = "final"
      <4>1. er' = "answered" /\ er = "answered"
        BY <2>3, <2>4, <3>1 DEF RequesterViewOf
      <4> QED BY <1>2, <2>1, <4>1
    <3>2. CASE Last # "final"
      <4>1. er' = "failed" /\ er \in {"waiting", "progress"}
        BY <2>3, <2>4, <3>2 DEF RequesterViewOf
      <4> QED BY <1>2, <2>1, <4>1 DEF Pair!RRNext, Pair!GiveUp
    <3> QED BY <3>1, <3>2
  <2>5. ASSUME NEW e \in {"1xx", "final"}, RequesterHears(e)
        PROVE  Pair!RRNext \/ UNCHANGED <<Requester, Responder>>
    <3>1. Said(IF e = "1xx" THEN "request" ELSE "final")
      BY <1>1, <2>1, <2>3, <2>5 DEF NonInviteInv, RequestInv
    <3>2. CASE e = "1xx"
      <4>1. er' = "progress" /\ er \in {"waiting", "progress"} /\ ee # "idle"
        BY <2>3, <2>5, <3>1, <3>2 DEF RequesterViewOf, ResponderViewOf
      <4> QED BY <1>2, <2>1, <4>1 DEF Pair!RRNext, Pair!HearProgress
    <3>3. CASE e = "final"
      <4>1. er' = "answered" /\ er \in {"waiting", "progress"} /\ ee = "answered"
        BY <2>3, <2>5, <3>1, <3>3 DEF RequesterViewOf, ResponderViewOf
      <4> QED BY <1>2, <2>1, <4>1 DEF Pair!RRNext, Pair!HearAnswer
    <3> QED BY <3>2, <3>3
  <2> QED BY <1>3, <2>2, <2>4, <2>5 DEF RequesterMoves
<1>4. CASE ResponderMoves /\ RequesterStays
  <2>1. er' = er
    BY <1>4 DEF RequesterStays, LastHeard, NonInvite!LastHeard, NonInvite!Heard, Canceled,
          NonInvite!Told
  <2>2. CASE ResponderRests
    <3>1. ee' = ee
      BY <2>2 DEF ResponderRests, Said, Invite!Told
    <3> QED BY <1>2, <2>1, <3>1
  <2>3. CASE ResponderIsAsked
    <3>1. \A f : Said(f)' <=> Said(f) \/ f = "request"
      BY <2>3, ResponderSaid DEF ResponderIsAsked, NonInvite!S!Exchange, NonInviteInv
    <3>2. ee = "idle" /\ ee' = "asked"
      BY <2>3, <3>1 DEF ResponderIsAsked, ResponderInv, NonInviteInv, ResponderViewOf
    <3> QED BY <1>2, <2>1, <3>2 DEF Pair!RRNext, Pair!Ask
  <2>4. ASSUME NEW e \in {"1xx", "final"}, ResponderSays(e)
        PROVE  Pair!RRNext \/ UNCHANGED <<Requester, Responder>>
    <3>1. \A f : Said(f)' <=> Said(f) \/ f = e
      BY <2>4, ResponderSaid DEF ResponderSays, NonInvite!S!Exchange, NonInvite!S!Answers, NonInviteInv
    <3>2. Said("request") /\ ~Said("final")
      BY <2>4 DEF ResponderSays, ResponderInv, NonInviteInv
    <3>3. ee = "asked" /\ ee' = IF e = "final" THEN "answered" ELSE "asked"
      BY <3>1, <3>2 DEF ResponderViewOf
    <3> QED BY <1>2, <2>1, <3>3 DEF Pair!RRNext, Pair!AnswerRequest
  <2>5. ASSUME NEW e \in {"refused", "canceled"}, ResponderBacksOut(e)
        PROVE  Pair!RRNext \/ UNCHANGED <<Requester, Responder>>
    <3>1. \A f : Said(f)' <=> Said(f) \/ f = e
      BY <2>5, ResponderSaid DEF ResponderBacksOut, NonInvite!S!Exchange, NonInviteInv
    <3>2. ee' = ee
      BY <3>1 DEF ResponderViewOf
    <3> QED BY <1>2, <2>1, <3>2
  <2> QED BY <1>4, <2>2, <2>3, <2>4, <2>5 DEF ResponderMoves
<1> QED BY <1>3, <1>4, RequestSteps

-----------------------------------------------------------------------------
(* The two pairs together. *)

PairsInv == IF method = "INVITE" THEN InviteInv ELSE NonInviteInv

LEMMA PairsInvariance == Spec => []PairsInv
<1>1. ASSUME Init
      PROVE  PairsInv
  <2>1. /\ cTu = <<>> /\ sTu = <<>> /\ cOut = {} /\ sOut = {} /\ sLastResponse = "none"
        /\ cState = "Started" /\ cExec = "no" /\ cEnding = FALSE
        /\ sState = "Started" /\ sExec = "no" /\ sEnding = FALSE
        /\ userAck = FALSE /\ sAcked = FALSE
    BY <1>1 DEF Init, Invite!Init, NonInvite!Init, Invite!C!Init, Invite!S!Init,
          NonInvite!C!Init, NonInvite!S!Init, Invite!C!TransacInit, Invite!S!TransacInit,
          NonInvite!C!TransacInit, NonInvite!S!TransacInit
  <2>2. Last = "nothing" /\ (\A f : ~Said(f)) /\ ~Canceled
    BY <2>1 DEF Last, Said, Invite!Told, Canceled, NonInvite!Told
  <2>3. LastHeard = "nothing"
    BY <2>1, <2>2, HearsLast
  <2>4. InviteInv
    BY <2>1, <2>2 DEF InviteInv, CallerInv, CalleeInv, CallInv, Invite!C!States, Invite!S!States
  <2>5. NonInviteInv
    BY <2>1, <2>2, <2>3 DEF NonInviteInv, RequesterInv, ResponderInv, RequestInv,
          NonInvite!C!States, NonInvite!S!States
  <2> QED BY <2>4, <2>5 DEF PairsInv
<1>2. ASSUME PairsInv, Next
      PROVE  PairsInv'
  <2>1. \/ method = "INVITE" /\ method' = "INVITE" /\ InviteNext
        \/ method # "INVITE" /\ method' = method /\ NonInviteNext
    BY <1>2 DEF Next, Inviting, Requesting, InviteNext, NonInviteNext
  <2> QED BY <1>2, <2>1, InviteInductive, NonInviteInductive DEF PairsInv
<1>3. ASSUME PairsInv, UNCHANGED vars
      PROVE  PairsInv'
  <2>1. /\ Last' = Last /\ LastHeard' = LastHeard /\ (Canceled' <=> Canceled)
        /\ \A f : Said(f)' <=> Said(f)
    BY <1>3 DEF vars, Last, LastHeard, NonInvite!LastHeard, NonInvite!Heard, Canceled, NonInvite!Told,
          Said, Invite!Told
  <2> QED BY <1>3, <2>1 DEF vars, inviteVars, PairsInv, InviteInv, CallerInv, CalleeInv, CallInv,
                NonInviteInv, RequesterInv, ResponderInv, RequestInv
<1>4. PairsInv /\ [Next]_vars => PairsInv'
  BY <1>2, <1>3
<1> QED BY <1>1, <1>4, PTL DEF Spec

(* A rejection the INVITE server transaction takes as confirmed was heard  *)
(* by the caller, whatever the timeouts and the network.                   *)
THEOREM ConfirmedRejectionsWereHeard == Spec => []ConfirmedWasHeard
<1>1. ASSUME PairsInv
      PROVE  ConfirmedWasHeard
  <2> SUFFICES ASSUME method = "INVITE", sState = "Confirmed"
               PROVE  Invite!Told(cTu, "3xx")
    BY DEF ConfirmedWasHeard
  <2>1. Last = "3xx" /\ cTu \in Seq(Invite!C!Exchange)
    BY <1>1 DEF PairsInv, InviteInv, CallInv, CallerInv
  <2>2. cTu # <<>> /\ cTu[Len(cTu)] = "3xx"
    BY <2>1 DEF Last
  <2> QED BY <2>1, <2>2 DEF Invite!Told
<1> QED BY <1>1, PairsInvariance, PTL

(* Two INVITE transactions implement InviteCall.                           *)
THEOREM PairImplementsCall == Spec => ImplementsCall
<1>1. ASSUME Init
      PROVE  Call!CallInit
  <2>1. CASE method = "INVITE"
    <3>1. cTu = <<>> /\ sTu = <<>> /\ sAcked = FALSE
      BY <1>1, <2>1 DEF Init, Invite!Init, Invite!C!Init, Invite!S!Init, Invite!C!TransacInit,
            Invite!S!TransacInit
    <3>2. \A e : ~Invite!Told(sTu, e)
      BY <3>1 DEF Invite!Told
    <3>3. Invite!CallerView = "waiting" /\ Invite!CalleeView = "idle"
      BY <3>1, <3>2 DEF Invite!CallerView, Invite!CalleeView
    <3> QED BY <2>1, <3>3 DEF Call!CallInit, Caller, Callee
  <2>2. CASE method # "INVITE"
    BY <2>2 DEF Call!CallInit, Caller, Callee
  <2> QED BY <2>1, <2>2
<1>2. PairsInv /\ [Next]_vars => [Call!CallNext]_<<Caller, Callee>>
  <2>1. ASSUME PairsInv, Next
        PROVE  Call!CallNext \/ UNCHANGED <<Caller, Callee>>
    <3>1. \/ method = "INVITE" /\ UNCHANGED method /\ InviteNext
          \/ method # "INVITE" /\ UNCHANGED method
      BY <2>1 DEF Next, Inviting, Requesting, InviteNext
    <3>2. CASE method = "INVITE"
      BY <2>1, <3>1, <3>2, CallRefined DEF PairsInv
    <3>3. CASE method # "INVITE"
      BY <3>1, <3>3 DEF Caller, Callee
    <3> QED BY <3>2, <3>3
  <2>2. ASSUME UNCHANGED vars
        PROVE  UNCHANGED <<Caller, Callee>>
    BY <2>2 DEF vars, inviteVars, Caller, Callee, Invite!CallerView, Invite!CalleeView, Invite!Told
  <2> QED BY <2>1, <2>2
<1> QED BY <1>1, <1>2, PairsInvariance, PTL DEF Spec, ImplementsCall, Call!CallSpec

(* Two non-INVITE transactions implement RequestReply.                     *)
THEOREM PairImplementsRequestReply == Spec => ImplementsRequestReply
<1>1. ASSUME Init
      PROVE  Pair!RRInit
  <2>1. CASE method = "INVITE"
    BY <2>1 DEF Pair!RRInit, Requester, Responder
  <2>2. CASE method # "INVITE"
    <3>1. cTu = <<>> /\ sTu = <<>>
      BY <1>1, <2>2 DEF Init, NonInvite!Init, NonInvite!C!Init, NonInvite!S!Init,
            NonInvite!C!TransacInit, NonInvite!S!TransacInit
    <3>2. NonInvite!Heard = {}
      BY <3>1 DEF NonInvite!Heard
    <3>3. NonInvite!LastHeard = "nothing"
      BY <3>2 DEF NonInvite!LastHeard
    <3>4. ~NonInvite!Told(cTu, "canceled") /\ ~NonInvite!Told(sTu, "final") /\ ~NonInvite!Told(sTu, "request")
      BY <3>1 DEF NonInvite!Told
    <3> QED BY <2>2, <3>3, <3>4 DEF Pair!RRInit, Requester, Responder, NonInvite!RequesterView,
                  NonInvite!ResponderView, NonInvite!C!Verdicts
  <2> QED BY <2>1, <2>2
<1>2. PairsInv /\ [Next]_vars => [Pair!RRNext]_<<Requester, Responder>>
  <2>1. ASSUME PairsInv, Next
        PROVE  Pair!RRNext \/ UNCHANGED <<Requester, Responder>>
    <3>1. \/ method # "INVITE" /\ UNCHANGED method /\ NonInviteNext
          \/ method = "INVITE" /\ UNCHANGED method
      BY <2>1 DEF Next, Inviting, Requesting, NonInviteNext
    <3>2. CASE method # "INVITE"
      BY <2>1, <3>1, <3>2, RequestRefined DEF PairsInv
    <3>3. CASE method = "INVITE"
      BY <3>1, <3>3 DEF Requester, Responder
    <3> QED BY <3>2, <3>3
  <2>2. ASSUME UNCHANGED vars
        PROVE  UNCHANGED <<Requester, Responder>>
    BY <2>2 DEF vars, inviteVars, Requester, Responder, NonInvite!RequesterView, NonInvite!ResponderView,
          NonInvite!LastHeard, NonInvite!Heard, NonInvite!Told
  <2> QED BY <2>1, <2>2
<1> QED BY <1>1, <1>2, PairsInvariance, PTL DEF Spec, ImplementsRequestReply, Pair!RRSpec
=============================================================================
