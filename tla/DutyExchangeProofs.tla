-------------------------- MODULE DutyExchangeProofs --------------------------
(***************************************************************************)
(* What DutyExchange promises for every number of luminaires: the model    *)
(* checker covers three.                                                   *)
(***************************************************************************)
EXTENDS DutyExchange, TLAPS

(* The slots form a ring: Succ and Pred stay in it and undo each other.    *)
LEMMA Ring ==
  ASSUME NEW i \in Node
  PROVE  /\ Succ(i) \in Node /\ Succ(i) # i
         /\ Pred(i) \in Node /\ Pred(i) # i
         /\ Succ(Pred(i)) = i /\ Pred(Succ(i)) = i
  BY NAssumption DEF Node, Succ, Pred

(* Leaving a slot keeps slot and pc in their types, and enters the next    *)
(* slot at its beginning or ends the round.                                *)
LEMMA NextSlotType ==
  ASSUME TypeOK, NEW n \in Node, NextSlot(n)
  PROVE  slot' \in [Node -> Node] /\ pc' \in [Node -> PcState]
  <1>1. Succ(slot[n]) \in Node
    BY Ring DEF TypeOK
  <1> QED
    BY <1>1 DEF TypeOK, NextSlot, Goto, Enter, PcState, Talking, Hushed

(* Every step keeps every variable in its type.                            *)
LEMMA TypeStep ==
  ASSUME TypeOK, [Next]_vars
  PROVE  TypeOK'
  <1> USE MessageAssumption DEF TypeOK, BusTypeOK, Message
  <1>1. ASSUME NEW n \in Node, StartRound(n) PROVE TypeOK'
    BY <1>1 DEF StartRound, Goto, Enter, PcState, Talking, Hushed, busVars, history
  <1>2. ASSUME NEW n \in Node, EndRound(n) PROVE TypeOK'
    BY <1>2 DEF EndRound, Goto, PcState, busVars, history
  <1>3. ASSUME NEW n \in Node, TalkU(n) PROVE TypeOK'
    BY <1>3 DEF TalkU, Send, Goto, PcState, Talking, TwiState, history
  <1>4. ASSUME NEW n \in Node, GetDuty(n) PROVE TypeOK'
    BY <1>4 DEF GetDuty, TakeSent, Goto, PcState, Talking, history
  <1>5. ASSUME NEW n \in Node, TalkDuty(n) PROVE TypeOK'
    BY <1>5 DEF TalkDuty, Send, Goto, PcState, Talking, TwiState, history
  <1>6. ASSUME NEW n \in Node, EndTalk(n) PROVE TypeOK'
    BY <1>6, NextSlotType DEF EndTalk, TakeSent, history
  <1>7. ASSUME NEW n \in Node, HearFirst(n) PROVE TypeOK'
    BY <1>7 DEF HearFirst, TakeReceived, Goto, PcState, Hushed, history
  <1>8. ASSUME NEW n \in Node, CheckU(n) PROVE TypeOK'
    <2>1. CASE rI2C[n] = U /\ Goto(n, "await") /\ UNCHANGED slot
      BY <1>8, <2>1 DEF CheckU, Goto, PcState, Hushed, busVars, history
    <2>2. CASE NextSlot(n)
      BY <1>8, <2>2, NextSlotType DEF CheckU, busVars, history
    <2> QED
      BY <1>8, <2>1, <2>2 DEF CheckU
  <1>9. ASSUME NEW n \in Node, HearSecond(n) PROVE TypeOK'
    BY <1>9 DEF HearSecond, TakeReceived, Goto, PcState, Hushed, history
  <1>10. ASSUME NEW n \in Node, ApplyDuty(n) PROVE TypeOK'
    BY <1>10, NextSlotType DEF ApplyDuty, busVars, history
  <1>11. ASSUME NEW n \in Node, Timer(n) PROVE TypeOK'
    BY <1>11 DEF Timer, busVars, history
  <1>12. ASSUME NEW n \in Node, Broadcast(n) PROVE TypeOK'
    <2>1. twi' \in [Node -> TwiState] /\ UNCHANGED deaf
      BY <1>12 DEF Broadcast, Transfer, TwiState
    <2>2. rx' \in [Node -> Message \cup {NoMsg}] /\ UNCHANGED <<out, rI2C, recvflag, sendflag>>
      BY <1>12 DEF Broadcast, Transfer
    <2>3. said' \in [Node -> Duty] /\ turn' \in Node
      BY <1>12, Ring DEF Broadcast, history
    <2> QED
      BY <1>12, <2>1, <2>2, <2>3 DEF Broadcast, mainVars
  <1>13. ASSUME NEW n \in Node, Sent(n) PROVE TypeOK'
    BY <1>13 DEF Sent, SentISR, TwiState, mainVars, history
  <1>14. ASSUME NEW n \in Node, Received(n) PROVE TypeOK'
    BY <1>14 DEF Received, ReceiveISR, mainVars, history
  <1>15. CASE UNCHANGED vars
    BY <1>15 DEF vars, busVars, mainVars, history
  <1> QED
    BY <1>1, <1>2, <1>3, <1>4, <1>5, <1>6, <1>7, <1>8, <1>9, <1>10,
       <1>11, <1>12, <1>13, <1>14, <1>15 DEF Next, Main

(* The board that counted may have a sendflag, the others have none.       *)
LEMMA InitFlags ==
  ASSUME BusInit
  PROVE  /\ sendflag \in [Node -> BOOLEAN]
         /\ \A n \in Node : sendflag[n] => n = N-1
  <1>1. CASE sendflag = [n \in Node |-> FALSE]
    BY <1>1
  <1>2. CASE sendflag = [n \in Node |-> n = N-1]
    BY <1>2
  <1> QED
    BY <1>1, <1>2 DEF BusInit

(* Type correctness, whatever the delays cover.                            *)
THEOREM TypeCorrect == Safety => []TypeOK
  <1>1. Init => TypeOK
    BY MessageAssumption, NAssumption, InitFlags
       DEF Init, BusInit, TypeOK, BusTypeOK, Message, Node, PcState, TwiState
  <1> QED
    BY <1>1, TypeStep, PTL DEF Safety

--------------------------------------------------------------------------------
(* Under the hypothesis on the delays the boards keep step.                *)

(* The slot before the turn is that of another board.                      *)
LEMMA RingFacts ==
  /\ \A i \in Node : /\ Succ(i) \in Node /\ Succ(i) # i /\ Pred(i) \in Node /\ Pred(i) # i
                     /\ Succ(Pred(i)) = i /\ Pred(Succ(i)) = i
  /\ 0 \in Node /\ N-1 \in Node /\ Succ(N-1) = 0
  /\ \A i \in Node : i # N-1 => Succ(i) = i + 1
  BY Ring, NAssumption DEF Node, Succ

(* The delay before "U" ends when nobody has a message of the last slot    *)
(* left: whoever waits for "U" has not heard one.                          *)
LEMMA TalkUKeeps ==
  ASSUME TypeOK, LockStep, DelaysCover, NEW n \in Node, TalkU(n)
  PROVE  LockStep'
  <1> USE RingFacts, MessageAssumption
      DEF TypeOK, BusTypeOK, LockStep, Quiet, Spare, NoMail, Mail, Message
  <1>1. n = turn /\ slot[n] = n /\ pc[n] = "talk" /\ Talker(n) /\ ~SaidU /\ ~SaidDuty
    BY DEF TalkU, Talker, LastTalker, EarlyTalker, Listener, Late, SaidU, SaidDuty, Ahead
  <1>2. ~SaidU' /\ ~SaidDuty'
    BY <1>1 DEF TalkU, Send, Goto, history, SaidU, SaidDuty, Ahead
  <1>3. ASSUME NEW k \in Node, k # n
        PROVE  \/ Listener(k) /\ NoMail(k)
               \/ LastTalker(k) /\ NoMail(k) /\ twi[k] = "idle"
    BY <1>1, <1>3 DEF TalkU, Calm, Settled, Talker, LastTalker, EarlyTalker, Listener, Late
  <1>4. ASSUME NEW k \in Node, k # n PROVE (Listener(k) \/ LastTalker(k))'
    BY <1>1, <1>2, <1>3, <1>4 DEF TalkU, Send, Goto, history, Listener, LastTalker
  <1>5. Talker(n)'
    BY <1>1 DEF TalkU, Send, Goto, history, Talker
  <1> QED
    BY <1>1, <1>4, <1>5 DEF TalkU, Send, Goto

(* The delay before the value ends when everybody has heard "U" and waits  *)
(* for a second message.                                                   *)
LEMMA TalkDutyHeard ==
  ASSUME TypeOK, LockStep, DelaysCover, NEW n \in Node, TalkDuty(n)
  PROVE  /\ n = turn /\ slot[n] = n /\ Talker(n) /\ SaidU
         /\ \A k \in Node \ {n} : Listener(k) /\ pc[k] = "await" /\ NoMail(k)
  <1> USE RingFacts DEF TypeOK, LockStep
  <1>1. n = turn /\ slot[n] = n /\ Talker(n) /\ SaidU
    BY DEF TalkDuty, Send, Talker, LastTalker, EarlyTalker, Listener, Late, SaidU
  <1>2. ASSUME NEW k \in Node, k # n
        PROVE  Listener(k) /\ pc[k] = "await" /\ NoMail(k)
    <2>1. Settled(k) /\ pc[k] # "lookU"
      BY <1>2 DEF TalkDuty, Calm
    <2>2. ~Mail(k, U)
      BY <2>1, MessageAssumption DEF Settled, Mail
    <2>3. Listener(k)
      BY <1>1, <1>2, <2>1, <2>2 DEF Settled, Talker, LastTalker, EarlyTalker, Late
    <2> QED
      BY <1>1, <2>1, <2>2, <2>3 DEF Listener
  <1> QED
    BY <1>1, <1>2

(* So the value finds every board in its place, and leaves it there.       *)
LEMMA TalkDutyKeeps ==
  ASSUME TypeOK, LockStep, DelaysCover, NEW n \in Node, TalkDuty(n)
  PROVE  LockStep'
  <1> USE RingFacts, MessageAssumption DEF TypeOK, BusTypeOK, LockStep
  <1>1. n = turn /\ slot[n] = n /\ Talker(n)
    BY TalkDutyHeard
  <1>2. SaidU' /\ Talker(n)'
    BY <1>1 DEF TalkDuty, Send, Goto, SaidU, Ahead, Talker, NoMail, Quiet, Spare, Message, history
  <1>3. ASSUME NEW k \in Node, k # n PROVE Listener(k)' /\ pc'[k] = "await"
    BY <1>1, <1>2, <1>3, TalkDutyHeard
       DEF TalkDuty, Send, Goto, Listener, NoMail, Quiet, Spare, history
  <1> QED
    BY <1>1, <1>2, <1>3 DEF TalkDuty, Send, Goto

(* A transaction has only one candidate, reaches every other board, and    *)
(* hands over "U" or, with the turn, the value.                            *)
LEMMA BroadcastReaches ==
  ASSUME TypeOK, LockStep, NEW n \in Node, Broadcast(n)
  PROVE  /\ n = turn /\ twi[n] = "start" /\ (Talker(n) \/ EarlyTalker(n))
         /\ Listeners(n) = Node \ {n}
         /\ twi' = [twi EXCEPT ![n] = "stop"]
         /\ \A m \in Node \ {n} : twi[m] = "idle"
         /\ \A m \in Node : deaf'[m] => twi'[m] # "idle"
         /\ rx' = [m \in Node |-> IF m = n THEN NoMsg ELSE out[n]]
  <1> USE RingFacts DEF TypeOK, BusTypeOK, LockStep
  <1>0. twi[n] = "start"
    BY DEF Broadcast, Transfer
  <1>1. n = turn /\ (Talker(n) \/ EarlyTalker(n))
    BY <1>0 DEF Talker, LastTalker, EarlyTalker, Listener, Late, Quiet
  <1>2. \A k \in Node \ {n} : twi[k] = "idle"
    BY <1>0, <1>1 DEF Talker, LastTalker, EarlyTalker, Listener, Late, Quiet
  <1>3. Rivals(n) = {} /\ Listeners(n) = Node \ {n} /\ Listeners(n) # {}
    BY <1>2, NAssumption DEF Rivals, Listeners, Node
  <1>4. \A tied \in SUBSET Rivals(n) : tied = {}
    BY <1>3
  <1>5. twi' = [m \in Node |-> IF m = n THEN "stop" ELSE twi[m]]
    BY <1>3, <1>4 DEF Broadcast, Transfer
  <1>6. \A m \in Node : deaf'[m] => twi'[m] # "idle"
    BY <1>5 DEF Broadcast, Transfer
  <1>7. rx' = [m \in Node |-> IF m \in Listeners(n) THEN out[n] ELSE NoMsg]
    BY DEF Broadcast, Transfer
  <1> QED
    BY <1>0, <1>1, <1>2, <1>3, <1>5, <1>6, <1>7

(* While the value is with send_msg everybody else waits for it.           *)
LEMMA ValueAwaited ==
  ASSUME TypeOK, LockStep, SaidDuty, NEW k \in Node, k # turn
  PROVE  Listener(k) /\ slot[k] = turn /\ pc[k] = "await" /\ Quiet(k) /\ NoMail(k)
  <1> USE RingFacts DEF TypeOK, LockStep
  <1>1. SaidU
    BY DEF SaidU, SaidDuty
  <1>2. ~EarlyTalker(k)
    BY <1>1 DEF EarlyTalker
  <1> QED
    BY <1>1, <1>2 DEF Talker, LastTalker, Listener, Late

(* Whoever is reached by it has the mail its role calls for.               *)
LEMMA BroadcastKeeps ==
  ASSUME TypeOK, LockStep, NEW n \in Node, Broadcast(n)
  PROVE  LockStep'
  <1> USE RingFacts, MessageAssumption
      DEF TypeOK, BusTypeOK, LockStep, Quiet, Spare, NoMail, Mail, Message
  <1>1. /\ n = turn /\ twi[n] = "start" /\ (Talker(n) \/ EarlyTalker(n))
        /\ twi' = [twi EXCEPT ![n] = "stop"]
        /\ \A m \in Node \ {n} : twi[m] = "idle"
        /\ \A m \in Node : deaf'[m] => twi'[m] # "idle"
        /\ rx' = [m \in Node |-> IF m = n THEN NoMsg ELSE out[n]]
    BY BroadcastReaches
  <1>2. UNCHANGED <<pc, slot, rI2C, recvflag, sendflag>>
    BY DEF Broadcast, Transfer, mainVars
  <1>3. CASE Talker(n) /\ pc[n] \in {"sentU", "value"}
    <2>1. UNCHANGED <<turn, said>> /\ SaidU' /\ ~SaidDuty' /\ ~SaidU
      BY <1>1, <1>2, <1>3 DEF Broadcast, history, Talker, SaidU, SaidDuty, Ahead
    <2>2. ASSUME NEW k \in Node, k # n PROVE (Listener(k) \/ LastTalker(k))'
      <3>1. out[n] = U
        BY <1>1, <1>3 DEF Talker
      <3>2. ~EarlyTalker(k)
        BY <1>1, <2>2 DEF EarlyTalker
      <3> QED
        BY <1>1, <1>2, <2>1, <2>2, <3>1, <3>2 DEF Talker, LastTalker, Listener, Late
    <2> QED
      BY <1>1, <1>2, <1>3, <2>1, <2>2 DEF Talker
  <1>4. CASE (Talker(n) /\ pc[n] = "sentDuty") \/ EarlyTalker(n)
    <2>1. SaidDuty /\ out[n] \in Duty
      BY <1>1, <1>4 DEF SaidDuty, Ahead, Talker, EarlyTalker
    <2>2. /\ said' = [said EXCEPT ![n] = out[n]]
          /\ turn' = Succ(turn) /\ n = Pred(turn') /\ turn' # n
      BY <1>1, <2>1 DEF Broadcast, history
    <2>3. ASSUME NEW k \in Node, k # n
          PROVE  slot[k] = n /\ pc[k] = "await" /\ Quiet(k) /\ NoMail(k)
      BY <1>1, <2>1, <2>3, ValueAwaited
    <2>4. twi'[turn'] = "idle" /\ slot[turn'] = n
      BY <1>1, <2>2, <2>3
    <2>5. ~SaidU'
      BY <1>2, <2>2, <2>4 DEF SaidU, Ahead
    <2>6. ASSUME NEW k \in Node, k # n PROVE Late(k)'
      BY <1>1, <1>2, <2>1, <2>2, <2>3, <2>4, <2>5, <2>6 DEF Late
    <2>7. CASE Talker(n) /\ pc[n] = "sentDuty"
      <3>1. LastTalker(n)'
        BY <1>1, <1>2, <2>2, <2>4, <2>5, <2>7 DEF LastTalker, Talker
      <3> QED
        BY <1>1, <1>2, <2>3, <2>6, <2>7, <3>1
    <2>8. CASE EarlyTalker(n)
      <3>1. EarlyTalker(n)'
        BY <1>1, <1>2, <2>2, <2>4, <2>5, <2>8 DEF EarlyTalker
      <3> QED
        BY <1>1, <1>2, <2>3, <2>6, <2>8, <3>1 DEF EarlyTalker
    <2> QED
      BY <1>4, <2>7, <2>8
  <1> QED
    BY <1>1, <1>3, <1>4 DEF Talker

(* Whoever sees its sendflag in "sentDuty" was the last talker and joins   *)
(* the listeners, with the "U" it may already have got; with a flag to     *)
(* spare it does not wait for the value to be on the bus.                  *)
LEMMA EndTalkKeeps ==
  ASSUME TypeOK, LockStep, NEW n \in Node, EndTalk(n)
  PROVE  LockStep'
  <1> USE RingFacts, MessageAssumption
      DEF TypeOK, BusTypeOK, LockStep, Quiet, Spare, NoMail, Mail, Message
  <1>1. slot[n] = n /\ pc[n] = "sentDuty" /\ sendflag[n] /\ (LastTalker(n) \/ Talker(n))
    BY DEF EndTalk, TakeSent, Talker, LastTalker, EarlyTalker, Listener, Late
  <1>2. /\ slot' = [slot EXCEPT ![n] = Succ(n)]
        /\ pc' = [pc EXCEPT ![n] = pc'[n]] /\ pc'[n] \in {"tail", "hush"}
        /\ pc'[n] = "tail" <=> n = N-1
    BY <1>1, NAssumption DEF EndTalk, NextSlot, Goto, Enter, Node, Succ
  <1>3. /\ UNCHANGED <<twi, out, deaf, rx, rI2C, recvflag, turn, said>>
        /\ sendflag' = [sendflag EXCEPT ![n] = FALSE]
    BY DEF EndTalk, TakeSent, history
  <1>4. pc'[n] = "tail" => slot'[n] = 0
    BY <1>2
  <1>5. CASE LastTalker(n)
    <2>1. n = Pred(turn) /\ turn = Succ(n) /\ n # turn /\ slot'[n] = turn
      BY <1>2, <1>5 DEF LastTalker
    <2>2. (SaidU' <=> SaidU) /\ (SaidDuty' <=> SaidDuty)
      BY <1>2, <1>3, <2>1 DEF SaidU, SaidDuty, Ahead
    <2>3. Listener(n)' \/ EarlyTalker(n)'
      <3>1. twi[n] = "idle" => Listener(n)'
        BY <1>1, <1>2, <1>3, <1>5, <2>1, <2>2 DEF LastTalker, Listener
      <3>2. twi[n] = "stop" => EarlyTalker(n)'
        BY <1>1, <1>2, <1>3, <1>5, <2>1, <2>2 DEF LastTalker, EarlyTalker
      <3> QED
        BY <1>5, <3>1, <3>2 DEF LastTalker
    <2>4. ASSUME NEW k \in Node, k # n
          PROVE  (Talker(k) \/ EarlyTalker(k) \/ Listener(k) \/ Late(k))'
      BY <1>2, <1>3, <2>1, <2>2, <2>4
         DEF Talker, LastTalker, EarlyTalker, Listener, Late
    <2> QED
      BY <1>2, <1>3, <1>4, <2>3, <2>4
  <1>6. CASE Talker(n)
    <2>1. n = turn /\ n = N-1 /\ SaidDuty /\ SaidU
      BY <1>1, <1>6 DEF Talker, SaidDuty, SaidU
    <2>2. EarlyTalker(n)'
      BY <1>1, <1>2, <1>3, <1>6, <2>1 DEF Talker, EarlyTalker
    <2>3. Ahead' /\ SaidU' /\ SaidDuty'
      BY <1>1, <1>2, <1>3, <1>6, <2>1 DEF Talker, Ahead, SaidU, SaidDuty
    <2>4. ASSUME NEW k \in Node, k # n PROVE Listener(k)' /\ pc'[k] = "await"
      BY <1>2, <1>3, <2>1, <2>3, <2>4, ValueAwaited DEF Listener
    <2> QED
      BY <1>2, <1>3, <1>4, <2>2, <2>4
  <1> QED
    BY <1>1, <1>5, <1>6

(* Every step keeps all boards in their roles.                             *)
LEMMA LockStepStep ==
  ASSUME TypeOK, LockStep, DelaysCover, [Next]_vars
  PROVE  LockStep'
  <1> USE RingFacts, MessageAssumption
      DEF TypeOK, BusTypeOK, Message, LockStep, Talker, LastTalker, EarlyTalker, Listener, Late,
          SaidU, SaidDuty, Ahead, Quiet, Spare, NoMail, Mail
  <1>1. ASSUME NEW n \in Node, StartRound(n) PROVE LockStep'
    BY <1>1 DEF StartRound, Goto, Enter, busVars, history
  <1>2. ASSUME NEW n \in Node, EndRound(n) PROVE LockStep'
    BY <1>2 DEF EndRound, Goto, busVars, history
  <1>3. ASSUME NEW n \in Node, GetDuty(n) PROVE LockStep'
    BY <1>3 DEF GetDuty, TakeSent, Goto, history
  <1>4. ASSUME NEW n \in Node, HearFirst(n) PROVE LockStep'
    BY <1>4 DEF HearFirst, TakeReceived, Goto, history
  <1>5. ASSUME NEW n \in Node, CheckU(n) PROVE LockStep'
    <2>1. n # turn /\ Listener(n) /\ rI2C[n] = U
      BY <1>5 DEF CheckU
    <2>2. pc' = [pc EXCEPT ![n] = "await"] /\ UNCHANGED <<busVars, slot, history>>
      BY <1>5, <2>1 DEF CheckU, Goto
    <2> QED
      BY <1>5, <2>1, <2>2 DEF CheckU, busVars, history
  <1>6. ASSUME NEW n \in Node, HearSecond(n) PROVE LockStep'
    BY <1>6 DEF HearSecond, TakeReceived, Goto, history
  <1>7. ASSUME NEW n \in Node, ApplyDuty(n) PROVE LockStep'
    BY <1>7 DEF ApplyDuty, NextSlot, Goto, Enter, history, busVars
  <1>8. ASSUME NEW n \in Node, Timer(n) PROVE LockStep'
    BY <1>8 DEF Timer, history, busVars
  <1>9. ASSUME NEW n \in Node, Sent(n) PROVE LockStep'
    BY <1>9 DEF Sent, SentISR, mainVars, history
  <1>10. ASSUME NEW n \in Node, Received(n) PROVE LockStep'
    BY <1>10 DEF Received, ReceiveISR, mainVars, history
  <1>11. CASE UNCHANGED vars
    BY <1>11 DEF vars, busVars, mainVars, history
  <1> QED
    BY <1>1, <1>2, <1>3, <1>4, <1>5, <1>6, <1>7, <1>8, <1>9, <1>10, <1>11,
       TalkUKeeps, TalkDutyKeeps, EndTalkKeeps, BroadcastKeeps DEF Next, Main

(* However many boards there are, none falls out of step as long as the    *)
(* delays of 20 ms cover the receivers.                                    *)
THEOREM BoardsKeepStep ==
  ASSUME DelaysCover
  PROVE  Safety => []LockStep
  <1>1. Init => LockStep
    BY NAssumption, InitFlags
       DEF Init, BusInit, LockStep, Talker, Listener, Quiet, Spare, NoMail, SaidU, Ahead, Node
  <1> QED
    BY <1>1, TypeCorrect, LockStepStep, PTL DEF Safety

--------------------------------------------------------------------------------
(* What keeping step gives.                                                *)

(* The bus is never contended.                                             *)
THEOREM OneTalkerHolds ==
  ASSUME DelaysCover
  PROVE  Safety => []OneTalker
  <1>1. ASSUME TypeOK, LockStep PROVE OneTalker
    <2>1. ASSUME NEW k \in Node, twi[k] # "idle"
          PROVE  k = turn \/ (k = Pred(turn) /\ twi[turn] = "idle")
      <3>1. Talker(k) \/ LastTalker(k) \/ EarlyTalker(k)
        BY <1>1, <2>1 DEF LockStep, Listener, Late, Quiet
      <3> QED
        BY <2>1, <3>1 DEF Talker, LastTalker, EarlyTalker, Pred
    <2> QED
      BY <2>1 DEF OneTalker
  <1> QED
    BY <1>1, TypeCorrect, BoardsKeepStep, PTL

(* No message is overwritten before the main program has taken it.         *)
THEOREM NoOverrunHolds ==
  ASSUME DelaysCover
  PROVE  Safety => []NoOverrun
  <1>1. TypeOK /\ LockStep => NoOverrun
    BY DEF LockStep, NoOverrun, Talker, LastTalker, EarlyTalker, Listener, Late, NoMail, Mail
  <1> QED
    BY <1>1, TypeCorrect, BoardsKeepStep, PTL

(* "U" and values are never taken for each other.                          *)
THEOREM FramingHolds ==
  ASSUME DelaysCover
  PROVE  Safety => []Framing
  <1>1. TypeOK /\ LockStep => Framing
    BY DEF LockStep, Framing, Talker, LastTalker, EarlyTalker, Listener, Late
  <1> QED
    BY <1>1, TypeCorrect, BoardsKeepStep, PTL

(* A step changes what a board holds for another, or what that one said,   *)
(* only inside the slot in which they differ.                              *)
LEMMA ViewStep ==
  ASSUME TypeOK, LockStep, ViewAgreement, DelaysCover, [Next]_vars
  PROVE  ViewAgreement'
  <1> USE RingFacts, MessageAssumption DEF TypeOK, ViewAgreement
  <1>1. ASSUME NEW n \in Node, StartRound(n) \/ EndRound(n) PROVE ViewAgreement'
    <2>1. \A k \in Node : pc[k] \in {"await", "lookDuty"} => pc'[k] \in {"await", "lookDuty"}
      BY <1>1 DEF StartRound, EndRound, Goto
    <2>2. UNCHANGED <<u, said, slot>>
      BY <1>1 DEF StartRound, EndRound, history
    <2> QED
      BY <2>1, <2>2
  <1>2. ASSUME NEW n \in Node, TalkU(n) \/ GetDuty(n) \/ TalkDuty(n)
        PROVE  ViewAgreement'
    <2>1. \A k \in Node : pc[k] \in {"await", "lookDuty"} => pc'[k] = pc[k]
      BY <1>2 DEF TalkU, GetDuty, TalkDuty, Goto
    <2>2. UNCHANGED <<u, said, slot>>
      BY <1>2 DEF TalkU, GetDuty, TalkDuty, history
    <2> QED
      BY <2>1, <2>2
  <1>3. ASSUME NEW n \in Node, Broadcast(n) PROVE ViewAgreement'
    <2>1. n = turn /\ twi[n] = "start" /\ (Talker(n) \/ EarlyTalker(n))
      BY <1>3, BroadcastReaches
    <2>2. CASE out[n] \in Duty
      <3>1. SaidDuty
        BY <2>1, <2>2 DEF Talker, EarlyTalker, SaidDuty, Ahead, Quiet
      <3>2. \A k \in Node \ {n} : slot[k] = n /\ pc[k] = "await"
        BY <2>1, <3>1, ValueAwaited
      <3>3. said' = [said EXCEPT ![n] = out[n]] /\ UNCHANGED <<u, slot, pc>>
        BY <1>3, <2>2 DEF Broadcast, mainVars, history
      <3> QED
        BY <3>2, <3>3
    <2>3. CASE out[n] \notin Duty
      BY <1>3, <2>3 DEF Broadcast, mainVars, history
    <2> QED
      BY <2>2, <2>3
  <1>4. ASSUME NEW n \in Node, EndTalk(n) PROVE ViewAgreement'
    BY <1>4 DEF EndTalk, NextSlot, Goto, history
  <1>5. ASSUME NEW n \in Node, HearFirst(n) \/ HearSecond(n) PROVE ViewAgreement'
    <2>1. \A k \in Node : pc[k] \in {"await", "lookDuty"} => pc'[k] \in {"await", "lookDuty"}
      BY <1>5 DEF HearFirst, HearSecond, Goto
    <2>2. UNCHANGED <<u, said, slot>>
      BY <1>5 DEF HearFirst, HearSecond, history
    <2> QED
      BY <2>1, <2>2
  <1>6. ASSUME NEW n \in Node, CheckU(n) PROVE ViewAgreement'
    BY <1>6 DEF CheckU, NextSlot, Goto, history
  <1>7. ASSUME NEW n \in Node, ApplyDuty(n) PROVE ViewAgreement'
    <2>1. rI2C[n] = said[slot[n]]
      BY <1>7 DEF ApplyDuty, LockStep, Talker, LastTalker, EarlyTalker, Listener, Late
    <2>2. u' = [u EXCEPT ![n][slot[n]] = said[slot[n]]] /\ UNCHANGED said
      BY <1>7, <2>1 DEF ApplyDuty, history
    <2>3. \A k \in Node \ {n} : pc'[k] = pc[k] /\ slot'[k] = slot[k]
      BY <1>7 DEF ApplyDuty, NextSlot, Goto
    <2> QED
      BY <2>2, <2>3
  <1>8. ASSUME NEW n \in Node, Timer(n) PROVE ViewAgreement'
    BY <1>8 DEF Timer, history
  <1>9. ASSUME NEW n \in Node, Sent(n) \/ Received(n) PROVE ViewAgreement'
    BY <1>9 DEF Sent, Received, mainVars, history
  <1>10. CASE UNCHANGED vars
    BY <1>10 DEF vars, mainVars, history
  <1> QED
    BY <1>1, <1>2, <1>3, <1>4, <1>5, <1>6, <1>7, <1>8, <1>9, <1>10 DEF Next, Main

(* Outside the slot in which it is told, a board holds for every other     *)
(* board exactly what that board last said.                                *)
THEOREM ViewAgreementHolds ==
  ASSUME DelaysCover
  PROVE  Safety => []ViewAgreement
  <1>1. Init => ViewAgreement
    BY DEF Init, ViewAgreement
  <1> QED
    BY <1>1, TypeCorrect, BoardsKeepStep, ViewStep, PTL DEF Safety

(* The boards implement RoundRobin: a value is announced only when         *)
(* everybody stored the last, and storing is all that happens in between.  *)
LEMMA RoundRobinStep ==
  ASSUME TypeOK, LockStep, ViewAgreement, DelaysCover, [Next]_vars
  PROVE  [RR!Next]_(RR!vars)
  <1> DEFINE view == [n \in Node |-> [i \in Node |-> IF i = n THEN Dark ELSE u[n][i]]]
  <1> USE RingFacts DEF TypeOK
  <1> SUFFICES \/ RR!Announce
               \/ \E n \in Node : RR!Store(n)
               \/ UNCHANGED <<turn, said, view>>
    BY DEF RR!Next, RR!vars, RR!Node, Node
  <1>1. ASSUME NEW n \in Node, Broadcast(n), out[n] \in Duty PROVE RR!Announce
    <2>1. n = turn /\ twi[n] = "start" /\ (Talker(n) \/ EarlyTalker(n))
      BY <1>1, BroadcastReaches
    <2>2. SaidDuty
      BY <1>1, <2>1, MessageAssumption DEF Talker, EarlyTalker, SaidDuty, Ahead, Quiet
    <2>3. \A k \in Node \ {n} : slot[k] = turn /\ pc[k] = "await"
      BY <2>1, <2>2, ValueAwaited
    <2>4. RR!Previous = Pred(turn)
      BY DEF RR!Previous, Pred
    <2>5. \A k \in Node \ {Pred(turn)} : u[k][Pred(turn)] = said[Pred(turn)]
      BY <2>1, <2>3 DEF ViewAgreement, Talker, EarlyTalker
    <2>6. said' = [said EXCEPT ![turn] = out[n]] /\ turn' = Succ(turn) /\ u' = u
      BY <1>1, <2>1, MessageAssumption DEF Broadcast, mainVars, history
    <2> QED
      BY <1>1, <2>4, <2>5, <2>6 DEF RR!Announce, RR!Stored, RR!Node, Node, Succ
  <1>2. ASSUME NEW n \in Node, ApplyDuty(n) PROVE RR!Store(n)
    <2>1. /\ slot[n] = Pred(turn) /\ slot[n] # n
          /\ rI2C[n] = said[slot[n]] /\ said[slot[n]] \in Duty
      BY <1>2 DEF ApplyDuty, LockStep, Talker, LastTalker, EarlyTalker, Listener, Late
    <2>2. u' = [u EXCEPT ![n][slot[n]] = said[slot[n]]] /\ UNCHANGED <<said, turn>>
      BY <1>2, <2>1 DEF ApplyDuty, history
    <2>3. RR!Previous = Pred(turn)
      BY DEF RR!Previous, Pred
    <2>4. view' = [view EXCEPT ![n][Pred(turn)] = said[Pred(turn)]]
      <3>1. ASSUME NEW k \in Node, k # n PROVE u'[k] = u[k]
        BY <2>2, <3>1
      <3>2. u'[n] = [u[n] EXCEPT ![Pred(turn)] = said[Pred(turn)]]
        BY <2>1, <2>2
      <3>3. view'[n] = [view[n] EXCEPT ![Pred(turn)] = said[Pred(turn)]]
        BY <2>1, <3>2
      <3>4. ASSUME NEW k \in Node, k # n PROVE view'[k] = view[k]
        BY <3>1, <3>4
      <3>5. /\ view  = [k \in Node |-> view[k]]
            /\ view' = [k \in Node |-> view'[k]]
        OBVIOUS
      <3> HIDE DEF view
      <3> QED
        BY <3>3, <3>4, <3>5
    <2> QED
      BY <2>1, <2>2, <2>3, <2>4 DEF RR!Store
  <1>3. ASSUME NEW n \in Node, Timer(n) PROVE UNCHANGED <<turn, said, view>>
    BY <1>3 DEF Timer, history
  <1>4. ASSUME NEW n \in Node,
               \/ StartRound(n) \/ EndRound(n) \/ TalkU(n) \/ GetDuty(n) \/ TalkDuty(n)
               \/ EndTalk(n) \/ HearFirst(n) \/ CheckU(n) \/ HearSecond(n)
               \/ Broadcast(n) /\ out[n] \notin Duty
               \/ Sent(n) \/ Received(n)
        PROVE  UNCHANGED <<turn, said, view>>
    BY <1>4 DEF StartRound, EndRound, TalkU, GetDuty, TalkDuty, EndTalk, HearFirst, CheckU,
                HearSecond, Broadcast, Sent, Received, mainVars, history
  <1>5. CASE UNCHANGED vars
    BY <1>5 DEF vars, mainVars, history
  <1> QED
    BY <1>1, <1>2, <1>3, <1>4, <1>5 DEF Next, Main

(* The exchange implements RoundRobin, for every number of boards and      *)
(* every set of duty cycles.                                               *)
THEOREM Refinement ==
  ASSUME DelaysCover
  PROVE  Safety => ImplementsRoundRobin
  <1>1. Init => RR!Init
    BY DEF Init, RR!Init, RR!Node, Node
  <1> QED
    BY <1>1, TypeCorrect, BoardsKeepStep, ViewAgreementHolds, RoundRobinStep, PTL
       DEF Safety, ImplementsRoundRobin, RR!Spec

================================================================================
