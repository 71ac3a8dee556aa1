------------------------------ MODULE GeneralCall ------------------------------
(***************************************************************************)
(* The I2C bus of the luminaires seen from Meta: TWI::send_msg(0, msg, n)  *)
(* as a broadcast ("general call"), and the three callbacks the firmware   *)
(* hangs on it.  One message is one step here; the byte-by-byte interrupt  *)
(* routine of TWI.cpp is abstracted to the outcomes a whole transaction    *)
(* can have for its sender and for every other node.                       *)
(*                                                                         *)
(* A node is named by its position in arduinoIndex, the vector every node  *)
(* holds after the enumeration.                                            *)
(***************************************************************************)
EXTENDS Naturals

CONSTANTS
  N,        \* Narduinos, counting this one
  NoMsg     \* the empty string in rI2C, and "no interrupt pending" in rx

(* With a single Arduino nobody acknowledges a general call and the sender *)
(* waits for ever; the protocols need two.                                 *)
ASSUME NAssumption == N \in Nat \ {0, 1}

Node == 0 .. N-1

VARIABLES
  twi,        \* twi_status and the bus phase of a node's own message
  out,        \* the message in twi_buf of a node that is sending
  deaf,       \* TWCR was last written without TWEA: no call is acknowledged
  rx,         \* message whose STOP interrupt a slave has not served yet
  rI2C,       \* Meta::rI2C, the single receive buffer
  recvflag,   \* Meta::recvflag
  sendflag    \* Meta::sendflag

busVars == <<twi, out, deaf, rx, rI2C, recvflag, sendflag>>

(* "idle": twi_status = 0.  "start": buffer filled and START requested     *)
(* (twi_status 1 or 2).  "stop": STOP sent, the sender's last interrupt is *)
(* still running.  "lost": arbitration lost; twi_status is never cleared.  *)
TwiState == {"idle", "start", "stop", "lost"}

BusTypeOK(Message) ==
  /\ twi      \in [Node -> TwiState]
  /\ out      \in [Node -> Message \cup {NoMsg}]
  /\ deaf     \in [Node -> BOOLEAN]
  /\ rx       \in [Node -> Message \cup {NoMsg}]
  /\ rI2C     \in [Node -> Message \cup {NoMsg}]
  /\ recvflag \in [Node -> BOOLEAN]
  /\ sendflag \in [Node -> BOOLEAN]

(* The board that counted in the enumeration, which has the highest        *)
(* address and so the last index, may come out of it with a sendflag that  *)
(* belongs to none of its messages (see Enumeration).                      *)
BusInit ==
  /\ twi      = [n \in Node |-> "idle"]
  /\ out      = [n \in Node |-> NoMsg]
  /\ deaf     = [n \in Node |-> FALSE]
  /\ rx       = [n \in Node |-> NoMsg]
  /\ rI2C     = [n \in Node |-> NoMsg]
  /\ recvflag = [n \in Node |-> FALSE]
  /\ sendflag = [n \in Node |-> FALSE] \/ sendflag = [n \in Node |-> n = N-1]

--------------------------------------------------------------------------------
(* What the main program of node n does with the bus.                      *)

(* send_msg spins while twi_status # 0, which is also non-zero between the *)
(* reception of an address and the end of the STOP interrupt.  To request  *)
(* a START it writes TWCR without TWEA.                                    *)
Send(n, msg) ==
  /\ twi[n] = "idle"
  /\ rx[n] = NoMsg
  /\ twi' = [twi EXCEPT ![n] = "start"]
  /\ out' = [out EXCEPT ![n] = msg]
  /\ deaf' = [deaf EXCEPT ![n] = TRUE]

(* while(!sendflag){}; sendflag = false;                                   *)
TakeSent(n) ==
  /\ sendflag[n]
  /\ sendflag' = [sendflag EXCEPT ![n] = FALSE]

(* while(!recvflag){}; recvflag = false;  The buffer is read in a later    *)
(* step: an interrupt may overwrite it in between.                         *)
TakeReceived(n) ==
  /\ recvflag[n]
  /\ recvflag' = [recvflag EXCEPT ![n] = FALSE]

--------------------------------------------------------------------------------
(* The bus and the interrupts.                                             *)

(* Whoever has TWEA set acknowledges the general call.                     *)
Listeners(n) == {m \in Node \ {n} : ~deaf[m]}

(* Other nodes whose START may go out at the same instant.                 *)
Rivals(n) == {m \in Node \ {n} : twi[m] = "start"}

(* A whole transaction of node n and of the rivals that are tied with it.  *)
(* The address is the same for all.  If nobody acknowledges it, it ends in *)
(* MTX_ADR_NACK for each of them: twi_status returns to 0, but no callback *)
(* is installed and TWEA stays off.  If somebody does, those that send the *)
(* same bytes do not notice each other, and the others lose arbitration:   *)
(* status 0x38 falls to the default branch, which leaves twi_status as it  *)
(* is and TWEA off, so that they neither send nor hear again.  A slave     *)
(* that has not served its STOP interrupt holds the clock, so nothing      *)
(* moves until every rx is empty.                                          *)
Transfer(n) ==
  /\ twi[n] = "start"
  /\ \A m \in Node : rx[m] = NoMsg
  /\ \E tied \in SUBSET Rivals(n) :
       LET answered == Listeners(n) # {}
           lost     == {m \in tied : answered /\ out[m] # out[n]}
           ended    == ({n} \cup tied) \ lost
       IN  twi' = [m \in Node |-> IF m \in lost THEN "lost"
                                  ELSE IF m \notin ended THEN twi[m]
                                  ELSE IF answered THEN "stop" ELSE "idle"]
  /\ rx' = [m \in Node |-> IF m \in Listeners(n) THEN out[n] ELSE NoMsg]
  /\ UNCHANGED <<out, deaf, rI2C, recvflag, sendflag>>

(* Faulty variant: onSend was never installed.                             *)
SentISRSilent(n) ==
  /\ twi[n] = "stop"
  /\ twi' = [twi EXCEPT ![n] = "idle"]
  /\ UNCHANGED <<out, deaf, rx, rI2C, recvflag, sendflag>>

(* The end of the sender's last interrupt: set_slaveR, then sendI2CState.  *)
SentISR(n) ==
  /\ twi[n] = "stop"
  /\ twi' = [twi EXCEPT ![n] = "idle"]
  /\ deaf' = [deaf EXCEPT ![n] = FALSE]
  /\ sendflag' = [sendflag EXCEPT ![n] = TRUE]
  /\ UNCHANGED <<out, rx, rI2C, recvflag>>

(* A slave's STOP interrupt: data_received, metaI2CString, receivedI2C.    *)
ReceiveISR(n) ==
  /\ rx[n] # NoMsg
  /\ rI2C' = [rI2C EXCEPT ![n] = rx[n]]
  /\ recvflag' = [recvflag EXCEPT ![n] = TRUE]
  /\ rx' = [rx EXCEPT ![n] = NoMsg]
  /\ UNCHANGED <<twi, out, deaf, sendflag>>

(* Nothing that was delivered to node n, or sent by it, is still pending   *)
(* on the bus side.                                                        *)
Settled(n) == twi[n] = "idle" /\ rx[n] = NoMsg /\ ~recvflag[n]

(* The bus as a specification of its own, for any main programs.           *)
BusNext ==
  \E n \in Node :
    \/ Send(n, out'[n]) /\ UNCHANGED <<rx, rI2C, recvflag, sendflag>>
    \/ TakeSent(n)      /\ UNCHANGED <<twi, out, deaf, rx, rI2C, recvflag>>
    \/ TakeReceived(n)  /\ UNCHANGED <<twi, out, deaf, rx, rI2C, sendflag>>
    \/ Transfer(n) \/ SentISR(n) \/ ReceiveISR(n)

BusSpec == BusInit /\ [][BusNext]_busVars

================================================================================
