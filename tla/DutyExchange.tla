------------------------------ MODULE DutyExchange -----------------------------
(***************************************************************************)
(* Meta::setu_vec inside loop(): the round in which every luminaire, in    *)
(* the order of arduinoIndex, tells the others its duty cycle.  In slot i  *)
(* node i talks ("U", then the value) and the others are hushed: they wait *)
(* for one message, check that it is "U", and wait for the value.          *)
(*                                                                         *)
(* The nodes are separate boards.  Only the messages and the delays of     *)
(* 20 ms before each of them keep them in step.                            *)
(***************************************************************************)
EXTENDS GeneralCall

CONSTANTS
  Duty,           \* the duty cycles told apart
  Dark,           \* the one setZeroUvec leaves
  U,              \* the message "U"
  DelaysCover     \* do the delays of 20 ms outlast every receiver? (see Calm)

ASSUME MessageAssumption ==
  /\ Dark \in Duty
  /\ U \notin Duty
  /\ NoMsg \notin Duty \cup {U}
  /\ DelaysCover \in BOOLEAN

Message == Duty \cup {U}

VARIABLES
  pc,       \* where the main program of a node is
  slot,     \* the loop variable i of setu_vec
  dc,       \* the local dc of setu_vec on the talking side
  u,        \* LightController::u of every node, as duty cycles
  flag,     \* the flag of the Timer1 interrupt
  said,     \* history: the value of each node that was last on the bus
  turn      \* history: the slot whose value has not been on the bus yet

mainVars == <<pc, slot, dc, u, flag>>
history  == <<said, turn>>
vars     == <<busVars, mainVars, history>>

(* "poll": loop() waits for flag.  Talking: "talk", "sentU", "value",      *)
(* "sentDuty".  Hushed: "hush", "lookU", "await", "lookDuty".  "tail": the *)
(* rest of loop() after setu_vec.                                          *)
Talking == {"talk", "sentU", "value", "sentDuty"}
Hushed  == {"hush", "lookU", "await", "lookDuty"}
PcState == {"poll", "tail"} \cup Talking \cup Hushed

TypeOK ==
  /\ BusTypeOK(Message)
  /\ pc   \in [Node -> PcState]
  /\ slot \in [Node -> Node]
  /\ dc   \in [Node -> Duty]
  /\ u    \in [Node -> [Node -> Duty]]
  /\ flag \in [Node -> BOOLEAN]
  /\ said \in [Node -> Duty]
  /\ turn \in Node

(* setup() is over: the calibration left no message behind, and no flag    *)
(* but the sendflag that BusInit allows (see CleanHandover there).         *)
Init ==
  /\ BusInit
  /\ pc   = [n \in Node |-> "poll"]
  /\ slot = [n \in Node |-> 0]
  /\ dc   = [n \in Node |-> Dark]
  /\ u    = [n \in Node |-> [i \in Node |-> Dark]]
  /\ flag = [n \in Node |-> FALSE]
  /\ said = [n \in Node |-> Dark]
  /\ turn = 0

(* Faulty variant: the index does not start again.                         *)
SuccNoWrap(i) == i+1

Succ(i) == IF i = N-1 THEN 0 ELSE i+1

Goto(n, label) == pc' = [pc EXCEPT ![n] = label]

(* The for loop of setu_vec: the choice of TALK or SHUT for slot i, and    *)
(* what follows slot[n].                                                   *)
Enter(n, i) == IF i = n THEN "talk" ELSE "hush"

NextSlot(n) ==
  /\ slot' = [slot EXCEPT ![n] = Succ(slot[n])]
  /\ Goto(n, IF slot[n] = N-1 THEN "tail" ELSE Enter(n, slot[n] + 1))

--------------------------------------------------------------------------------
(* The main program.                                                       *)

(* if(flag): sendPI() prints, then setu_vec() begins with i = 0.           *)
StartRound(n) ==
  /\ pc[n] = "poll"
  /\ flag[n]
  /\ Goto(n, Enter(n, 0))
  /\ UNCHANGED <<busVars, slot, dc, u, flag, history>>

(* The hypothesis on the 20 ms: when they are over, every other node has   *)
(* served its interrupts and acted on what it received.                    *)
Calm(n) ==
  DelaysCover => \A m \in Node \ {n} : Settled(m) /\ pc[m] \notin {"lookU", "lookDuty"}

(* Faulty variant: no delay before "U".                                    *)
TalkUAtOnce(n) ==
  /\ pc[n] = "talk"
  /\ Send(n, U)
  /\ Goto(n, "sentU")
  /\ UNCHANGED <<rx, rI2C, recvflag, sendflag, slot, dc, u, flag, history>>

(* delay(20); TWI::send_msg(0,"U",1);                                      *)
TalkU(n) ==
  /\ pc[n] = "talk"
  /\ Calm(n)
  /\ Send(n, U)
  /\ Goto(n, "sentU")
  /\ UNCHANGED <<rx, rI2C, recvflag, sendflag, slot, dc, u, flag, history>>

(* The wait for sendflag, then dc = getOwnDutyCycle().  The four bytes of  *)
(* u[n] are read with interrupts on, and a timer interrupt may come before *)
(* the first or between two of them: dc is the old input, the new one or a *)
(* mixture of both, which leaves every value open.                         *)
GetDuty(n) ==
  /\ pc[n] = "sentU"
  /\ TakeSent(n)
  /\ \E v \in Duty : dc' = [dc EXCEPT ![n] = v]
  /\ Goto(n, "value")
  /\ UNCHANGED <<twi, out, deaf, rx, rI2C, recvflag, slot, u, flag, history>>

(* Faulty variant: no delay before the value.                              *)
TalkDutyAtOnce(n) ==
  /\ pc[n] = "value"
  /\ Send(n, dc[n])
  /\ Goto(n, "sentDuty")
  /\ UNCHANGED <<rx, rI2C, recvflag, sendflag, slot, dc, u, flag, history>>

(* delay(20); TWI::send_msg(0,send,strlen(send));                          *)
TalkDuty(n) ==
  /\ pc[n] = "value"
  /\ Calm(n)
  /\ Send(n, dc[n])
  /\ Goto(n, "sentDuty")
  /\ UNCHANGED <<rx, rI2C, recvflag, sendflag, slot, dc, u, flag, history>>

(* The second wait for sendflag; break; i++.                               *)
EndTalk(n) ==
  /\ pc[n] = "sentDuty"
  /\ TakeSent(n)
  /\ NextSlot(n)
  /\ UNCHANGED <<twi, out, deaf, rx, rI2C, recvflag, dc, u, flag, history>>

(* case SHUT: the wait for a first message ...                             *)
HearFirst(n) ==
  /\ pc[n] = "hush"
  /\ TakeReceived(n)
  /\ Goto(n, "lookU")
  /\ UNCHANGED <<twi, out, deaf, rx, rI2C, sendflag, slot, dc, u, flag, history>>

(* Faulty variant: the comparison with 'U' is inverted.                    *)
CheckNotU(n) ==
  /\ pc[n] = "lookU"
  /\ \/ rI2C[n] # U /\ Goto(n, "await") /\ UNCHANGED slot
     \/ rI2C[n] = U /\ NextSlot(n)
  /\ UNCHANGED <<busVars, dc, u, flag, history>>

(* ... of which only the first character is looked at: anything but "U"    *)
(* ends the slot.                                                          *)
CheckU(n) ==
  /\ pc[n] = "lookU"
  /\ \/ rI2C[n] = U /\ Goto(n, "await") /\ UNCHANGED slot
     \/ rI2C[n] # U /\ NextSlot(n)
  /\ UNCHANGED <<busVars, dc, u, flag, history>>

(* Faulty variant: the second wait is missing.                             *)
HearSecondAtOnce(n) ==
  /\ pc[n] = "await"
  /\ Goto(n, "lookDuty")
  /\ UNCHANGED <<busVars, slot, dc, u, flag, history>>

(* The wait for the second message ...                                     *)
HearSecond(n) ==
  /\ pc[n] = "await"
  /\ TakeReceived(n)
  /\ Goto(n, "lookDuty")
  /\ UNCHANGED <<twi, out, deaf, rx, rI2C, sendflag, slot, dc, u, flag, history>>

(* Faulty variant: the value is stored after i++.                          *)
ApplyDutyLate(n) ==
  /\ pc[n] = "lookDuty"
  /\ \E v \in Duty :
       /\ rI2C[n] \in Duty => v = rI2C[n]
       /\ u' = [u EXCEPT ![n][Succ(slot[n])] = v]
  /\ NextSlot(n)
  /\ UNCHANGED <<busVars, dc, flag, history>>

(* ... and setUnFromdc(dc, i).  If the message is not a number, sscanf     *)
(* leaves dc as it was: some earlier value, or an uninitialised one.       *)
ApplyDuty(n) ==
  /\ pc[n] = "lookDuty"
  /\ \E v \in Duty :
       /\ rI2C[n] \in Duty => v = rI2C[n]
       /\ u' = [u EXCEPT ![n][slot[n]] = v]
  /\ NextSlot(n)
  /\ UNCHANGED <<busVars, dc, flag, history>>

(* The rest of loop(): receive_message and setOccupancy only influence the *)
(* next output of the controller, which Timer leaves open; flag = 0 drops  *)
(* every tick that came during the round.                                  *)
EndRound(n) ==
  /\ pc[n] = "tail"
  /\ flag' = [flag EXCEPT ![n] = FALSE]
  /\ Goto(n, "poll")
  /\ UNCHANGED <<busVars, slot, dc, u, history>>

Main(n) ==
  \/ StartRound(n) \/ EndRound(n)
  \/ TalkU(n) \/ GetDuty(n) \/ TalkDuty(n) \/ EndTalk(n)
  \/ HearFirst(n) \/ CheckU(n) \/ HearSecond(n) \/ ApplyDuty(n)

--------------------------------------------------------------------------------
(* The interrupts, which preempt the main program of their node anywhere.  *)

(* ISR(TIMER1_COMPA_vect): calcController() stores a new own input (any    *)
(* value here: the control law is a matter of its own), flag = 1.          *)
Timer(n) ==
  /\ \E v \in Duty : u' = [u EXCEPT ![n][n] = v]
  /\ flag' = [flag EXCEPT ![n] = TRUE]
  /\ UNCHANGED <<busVars, pc, slot, dc, history>>

(* A transaction on the bus; the history notes that a value went by.       *)
Broadcast(n) ==
  /\ Transfer(n)
  /\ \/ /\ out[n] \in Duty
        /\ said' = [said EXCEPT ![n] = out[n]]
        /\ turn' = Succ(turn)
     \/ out[n] \notin Duty /\ UNCHANGED history
  /\ UNCHANGED mainVars

Sent(n)     == SentISR(n)    /\ UNCHANGED <<mainVars, history>>
Received(n) == ReceiveISR(n) /\ UNCHANGED <<mainVars, history>>

Next == \E n \in Node : Main(n) \/ Timer(n) \/ Broadcast(n) \/ Sent(n) \/ Received(n)

Safety == Init /\ [][Next]_vars

(* Each board runs its main program and serves its interrupts, and the bus *)
(* hardware completes what was started.                                    *)
Fairness ==
  \A n \in Node : /\ WF_vars(Main(n))     /\ WF_vars(Timer(n))
                  /\ WF_vars(Broadcast(n)) /\ WF_vars(Sent(n)) /\ WF_vars(Received(n))

Spec == Safety /\ Fairness

--------------------------------------------------------------------------------
(* Properties.                                                             *)

Pred(i) == IF i = 0 THEN N-1 ELSE i-1

(* The board with the last index may have a sendflag to spare: it takes    *)
(* that for the end of a message it has only just handed over, and gets    *)
(* another one when the message really ends.                               *)
Spare(n) == sendflag[n] => n = N-1

NoMail(n) == rx[n] = NoMsg /\ ~recvflag[n]
Mail(n, msg) ==
  \/ rx[n] = msg /\ ~recvflag[n]
  \/ rx[n] = NoMsg /\ recvflag[n] /\ rI2C[n] = msg
Quiet(n) == twi[n] = "idle" /\ Spare(n)

(* Such a board may leave its slot before its value has been on the bus.   *)
Ahead == turn = N-1 /\ slot[turn] = 0 /\ twi[turn] = "start"

(* How far the node whose turn it is has come: has "U" been on the bus, is *)
(* the value with send_msg.                                                *)
SaidU ==
  \/ Ahead
  \/ slot[turn] = turn /\ pc[turn] = "sentDuty"
  \/ slot[turn] = turn /\ pc[turn] \in {"sentU", "value"} /\ twi[turn] # "start"
SaidDuty == Ahead \/ (slot[turn] = turn /\ pc[turn] = "sentDuty")

(* The roles of a node, given that it is the turn of node turn.            *)

(* It is the turn of n, which has not begun, says "U" or says its value.   *)
Talker(n) ==
  /\ n = turn /\ slot[n] = n /\ NoMail(n)
  /\ \/ pc[n] \in {"poll", "tail", "talk", "value"} /\ Quiet(n)
     \/ pc[n] = "sentU" /\ twi[n] = "start" /\ Spare(n) /\ out[n] = U
     \/ pc[n] = "sentU" /\ twi[n] = "stop" /\ Spare(n)
     \/ pc[n] = "sentU" /\ twi[n] = "idle" /\ sendflag[n]
     \/ pc[n] = "value" /\ n = N-1 /\ ~sendflag[n] /\ twi[n] = "start" /\ out[n] = U
     \/ pc[n] = "value" /\ n = N-1 /\ ~sendflag[n] /\ twi[n] = "stop"
     \/ pc[n] = "sentDuty" /\ twi[n] = "start" /\ Spare(n) /\ out[n] \in Duty

(* The turn of n is just over; it has not seen its sendflag yet, while the *)
(* "U" of the next node may already have come.                             *)
LastTalker(n) ==
  /\ n = Pred(turn) /\ slot[n] = n /\ pc[n] = "sentDuty"
  /\ \/ twi[n] = "stop" /\ Spare(n) /\ NoMail(n) /\ ~SaidU /\ twi[turn] = "idle"
     \/ twi[n] = "idle" /\ sendflag[n] /\ NoMail(n) /\ ~SaidU
     \/ twi[n] = "idle" /\ sendflag[n] /\ Mail(n, U) /\ SaidU /\ ~SaidDuty

(* n has gone on to the next slot while its value is being sent.           *)
EarlyTalker(n) ==
  /\ n = N-1 /\ slot[n] = 0 /\ pc[n] \in {"poll", "tail", "hush"} /\ ~sendflag[n] /\ NoMail(n)
  /\ \/ turn = n /\ twi[n] = "start" /\ out[n] \in Duty
     \/ turn = 0 /\ twi[n] = "stop" /\ ~SaidU /\ twi[turn] = "idle"

(* n is in the slot of the turn, and has been told what has been said.     *)
Listener(n) ==
  /\ n # turn /\ slot[n] = turn /\ Quiet(n)
  /\ \/ pc[n] \in {"poll", "tail", "hush"} /\ NoMail(n) /\ ~SaidU
     \/ pc[n] \in {"poll", "tail", "hush"} /\ Mail(n, U) /\ SaidU /\ ~SaidDuty
     \/ pc[n] = "lookU" /\ NoMail(n) /\ rI2C[n] = U /\ SaidU /\ ~SaidDuty
     \/ pc[n] = "await" /\ NoMail(n) /\ SaidU

(* n has the value of the slot before and has not stored it yet.           *)
Late(n) ==
  /\ slot[n] = Pred(turn) /\ slot[n] # n /\ Quiet(n) /\ ~SaidU /\ twi[turn] = "idle"
  /\ \/ pc[n] = "await" /\ Mail(n, said[slot[n]])
     \/ pc[n] = "lookDuty" /\ NoMail(n) /\ rI2C[n] = said[slot[n]]

(* The boards keep step although nothing but the delays holds them         *)
(* together: each is in one of five roles, a board that is behind is       *)
(* behind by one slot and holds in its buffer what it needs to catch up,   *)
(* and a board that is ahead will have been heard before anybody notices.  *)
LockStep ==
  \A n \in Node :
    /\ deaf[n] => twi[n] # "idle"
    /\ pc[n] \in {"poll", "tail"} => slot[n] = 0
    /\ Talker(n) \/ LastTalker(n) \/ EarlyTalker(n) \/ Listener(n) \/ Late(n)

(* At most one node has a message of its own between send_msg and the end  *)
(* of its send interrupt, so the bus is never contended: send_msg, which   *)
(* has no recovery from lost arbitration (TWI.cpp:343), never needs one.   *)
OneTalker == \A m, n \in Node : twi[m] # "idle" /\ twi[n] # "idle" => m = n

(* receivedI2C never overwrites a message the main program has not taken:  *)
(* the single buffer rI2C and the one-bit recvflag are enough.             *)
NoOverrun ==
  \A n \in Node : rx[n] # NoMsg => ~recvflag[n] /\ pc[n] \notin {"lookU", "lookDuty"}

(* A hushed node that looks for "U" finds "U" and one that looks for a     *)
(* value finds the value of the node whose slot it is in: the two kinds of *)
(* message, which carry neither sender nor slot, are never mistaken.       *)
Framing ==
  \A n \in Node : /\ pc[n] = "lookU"    => rI2C[n] = U
                  /\ pc[n] = "lookDuty" => rI2C[n] = said[slot[n]]

(* What node n holds for node i is what node i last said, except while n   *)
(* is in slot i and about to be told: feed-forward never uses a value of   *)
(* an older round or of another luminaire.                                 *)
ViewAgreement ==
  \A n, i \in Node :
    n # i /\ u[n][i] # said[i] => slot[n] = i /\ pc[n] \in {"await", "lookDuty"}

(* The exchange implements RoundRobin: the steps of the boards, seen       *)
(* through what was on the bus and what they hold for each other, are      *)
(* announcements in turn, each stored by everybody before the next.        *)
RR == INSTANCE RoundRobin
        WITH view <- [n \in Node |-> [i \in Node |-> IF i = n THEN Dark ELSE u[n][i]]]

ImplementsRoundRobin == RR!Spec

(* Every node stores a value of every other node again and again: no round *)
(* ends with everyone waiting for everyone.                                *)
RoundsGoOn ==
  \A n, i \in Node : n # i => []<>(slot[n] = i /\ pc[n] = "lookDuty")

================================================================================
