-------------------------------- MODULE TwiDriver --------------------------------
(***************************************************************************)
(* TWI.cpp byte by byte: send_msg on the side of the main program, the     *)
(* interrupt routine with one action per case of its switch, and as much   *)
(* of the two-wire hardware as decides which case comes next.  Every board *)
(* uses it as Meta does: calls go to address 0, and the callbacks are      *)
(* metaI2CString and sendI2CState.                                         *)
(*                                                                         *)
(* It is shown to implement GeneralCall, on which the protocols are built. *)
(***************************************************************************)
EXTENDS Naturals, Sequences

CONSTANTS
  N,          \* the boards on the bus
  NoMsg,      \* the empty rI2C
  Message,    \* the texts sent
  BufSize,    \* TWI_BUFFER_SIZE
  MaxSends,   \* how many messages are sent in all
  Timely      \* do the short stretches of code outrun the bus? (see Window)

(* Texts fit the buffer behind the address (send_msg returns -1 for the    *)
(* others), have no NUL, and none is the beginning of another: "U", "SR",  *)
(* "MS" and numbers with two decimals.                                     *)
ASSUME TextAssumption ==
  /\ \A m \in Message : /\ m \in Seq(Nat \ {0})
                        /\ Len(m) \in 1 .. BufSize-1
  /\ \A m, k \in Message :
       (Len(m) <= Len(k) /\ \A i \in 1 .. Len(m) : m[i] = k[i]) => m = k

(* Nobody acknowledges the address of a board alone; rI2C is empty before  *)
(* the first message, and no text is.                                      *)
ASSUME BusAssumption ==
  /\ N \in Nat \ {0, 1}
  /\ BufSize \in Nat \ {0}
  /\ MaxSends \in Nat
  /\ NoMsg \notin Message

Node == 0 .. N-1

VARIABLES
  prog,       \* main: where it is in send_msg, and the argument of that
  drv,        \* twi_status, twi_buf, twi_ptr, twi_msg_size; in the last send interrupt?
  hw,         \* TWEA and TWSTA; TWSR while TWINT is set; TWDR
  bus,        \* the wires
  sends,      \* history: the calls of send_msg so far
  rI2C, recvflag, sendflag    \* of Meta, as in GeneralCall

vars == <<prog, drv, hw, bus, sends, rI2C, recvflag, sendflag>>

(* TWSR: START, MTX_ADR_ACK, MTX_DATA_ACK, MTX_ADR_NACK, SRX_GEN_ACK,      *)
(* SRX_GEN_DATA_ACK, SRX_STOP_RESTART, and arbitration lost (0x38), which  *)
(* the switch does not know; "none" while TWINT is clear.                  *)
Code == {"START", "ADR_ACK", "DATA_ACK", "ADR_NACK",
         "GEN_ACK", "GEN_DATA_ACK", "STOP", "ARB_LOST", "none"}

Byte == {0} \cup UNION {{m[i] : i \in 1 .. Len(m)} : m \in Message}
Free == [phase |-> "free", starters |-> {}, masters |-> {}, slaves |-> {}]

TypeOK ==
  /\ prog \in [Node -> [pc : {"free", "fill", "go"}, msg : Message \cup {NoMsg}]]
  /\ drv  \in [Node -> [status : 0 .. 3, buf : [0 .. BufSize-1 -> Byte],
                        ptr : 0 .. BufSize, size : 0 .. BufSize, tail : BOOLEAN]]
  /\ hw   \in [Node -> [ea : BOOLEAN, sta : BOOLEAN, code : Code, data : Byte]]
  /\ bus  \in [phase : {"free", "address", "data", "nack"}, starters : SUBSET Node,
               masters : SUBSET Node, slaves : SUBSET Node]
  /\ sends \in 0 .. MaxSends
  /\ bus.masters \subseteq bus.starters
  /\ \A n \in Node : drv[n].status = 3 => drv[n].ptr < BufSize

(* TWI::begin, and nothing sent yet.                                       *)
Init ==
  /\ prog = [n \in Node |-> [pc |-> "free", msg |-> NoMsg]]
  /\ drv  = [n \in Node |-> [status |-> 0, buf |-> [i \in 0 .. BufSize-1 |-> 0],
                             ptr |-> 0, size |-> 0, tail |-> FALSE]]
  /\ hw   = [n \in Node |-> [ea |-> TRUE, sta |-> FALSE, code |-> "none", data |-> 0]]
  /\ bus  = Free
  /\ sends = 0
  /\ rI2C     = [n \in Node |-> NoMsg]
  /\ recvflag = [n \in Node |-> FALSE]
  /\ sendflag = [n \in Node |-> FALSE] \/ sendflag = [n \in Node |-> n = N-1]

--------------------------------------------------------------------------------
(* The main program, which runs while no interrupt is pending or running.  *)

Runs(n) == hw[n].code = "none" /\ ~drv[n].tail

(* send_msg: while(twi_status != 0) is over ...                            *)
Check(n) ==
  /\ Runs(n) /\ prog[n].pc = "free" /\ drv[n].status = 0
  /\ \E m \in Message : prog' = [prog EXCEPT ![n] = [pc |-> "fill", msg |-> m]]
  /\ sends < MaxSends /\ sends' = sends + 1
  /\ UNCHANGED <<drv, hw, bus, rI2C, recvflag, sendflag>>

Buffer(buf, m) ==
  [i \in 0 .. BufSize-1 |-> IF i = 0 THEN 0 ELSE IF i <= Len(m) THEN m[i] ELSE buf[i]]

(* Faulty variant: the address is not counted.                             *)
FillShort(n) ==
  /\ Runs(n) /\ prog[n].pc = "fill"
  /\ drv' = [drv EXCEPT ![n].buf = Buffer(@, prog[n].msg), ![n].ptr = 0,
                        ![n].size = Len(prog[n].msg)]
  /\ prog' = [prog EXCEPT ![n].pc = "go"]
  /\ UNCHANGED <<sends, hw, bus, rI2C, recvflag, sendflag>>

(* ... the address and the text go to the buffer ...                       *)
Fill(n) ==
  /\ Runs(n) /\ prog[n].pc = "fill"
  /\ drv' = [drv EXCEPT ![n].buf = Buffer(@, prog[n].msg), ![n].ptr = 0,
                        ![n].size = Len(prog[n].msg) + 1]
  /\ prog' = [prog EXCEPT ![n].pc = "go"]
  /\ UNCHANGED <<sends, hw, bus, rI2C, recvflag, sendflag>>

(* TWCR = TWINT and what else: the hardware goes on.                       *)
Control(n, ea, sta) == hw' = [hw EXCEPT ![n].ea = ea, ![n].sta = sta, ![n].code = "none"]

(* ... and send_start.                                                     *)
Go(n) ==
  /\ Runs(n) /\ prog[n].pc = "go"
  /\ drv' = [drv EXCEPT ![n].status = 1]
  /\ Control(n, FALSE, TRUE)
  /\ prog' = [prog EXCEPT ![n].pc = "free"]
  /\ UNCHANGED <<sends, bus, rI2C, recvflag, sendflag>>

(* Meta takes its flags.                                                   *)
TakeSent(n) ==
  /\ Runs(n) /\ prog[n].pc = "free" /\ sendflag[n]
  /\ sendflag' = [sendflag EXCEPT ![n] = FALSE]
  /\ UNCHANGED <<sends, prog, drv, hw, bus, rI2C, recvflag>>

TakeReceived(n) ==
  /\ Runs(n) /\ prog[n].pc = "free" /\ recvflag[n]
  /\ recvflag' = [recvflag EXCEPT ![n] = FALSE]
  /\ UNCHANGED <<sends, prog, drv, hw, bus, rI2C, sendflag>>

--------------------------------------------------------------------------------
(* ISR(TWI_vect).  Only the last send interrupt takes two steps: between   *)
(* them the STOP is on the wires.                                          *)

StartISR(n) ==
  /\ hw[n].code = "START"
  /\ hw' = [hw EXCEPT ![n].ea = FALSE, ![n].sta = FALSE, ![n].code = "none",
                      ![n].data = drv[n].buf[0]]
  /\ drv' = [drv EXCEPT ![n].ptr = 1]
  /\ UNCHANGED <<sends, prog, bus, rI2C, recvflag, sendflag>>

Acknowledged(n) == hw[n].code \in {"ADR_ACK", "DATA_ACK"}

(* The next byte of the text: after the address the first.                 *)
Next1(n) == IF hw[n].code = "ADR_ACK" THEN 1 ELSE drv[n].ptr

NextByteISR(n) ==
  /\ Acknowledged(n) /\ Next1(n) < drv[n].size
  /\ hw' = [hw EXCEPT ![n].ea = FALSE, ![n].sta = FALSE, ![n].code = "none",
                      ![n].data = drv[n].buf[Next1(n)]]
  /\ drv' = [drv EXCEPT ![n].ptr = Next1(n) + 1, ![n].status = 2]
  /\ UNCHANGED <<sends, prog, bus, rI2C, recvflag, sendflag>>

(* No byte is left: TWSTO ...                                              *)
LastByteISR(n) ==
  /\ Acknowledged(n) /\ Next1(n) >= drv[n].size
  /\ Control(n, FALSE, FALSE)
  /\ drv' = [drv EXCEPT ![n].ptr = Next1(n), ![n].tail = TRUE]
  /\ UNCHANGED <<sends, prog, bus, rI2C, recvflag, sendflag>>

(* Faulty variant: the board does not return to slave mode.                *)
SentISRDeaf(n) ==
  /\ drv[n].tail /\ n \notin bus.masters
  /\ drv' = [drv EXCEPT ![n].tail = FALSE, ![n].status = 0]
  /\ sendflag' = [sendflag EXCEPT ![n] = TRUE]
  /\ UNCHANGED <<sends, prog, hw, bus, rI2C, recvflag>>

(* ... set_slaveR, sendI2CState, twi_status = 0.                           *)
SentISR(n) ==
  /\ drv[n].tail /\ n \notin bus.masters
  /\ hw' = [hw EXCEPT ![n].ea = TRUE, ![n].sta = FALSE]
  /\ drv' = [drv EXCEPT ![n].tail = FALSE, ![n].status = 0]
  /\ sendflag' = [sendflag EXCEPT ![n] = TRUE]
  /\ UNCHANGED <<sends, prog, bus, rI2C, recvflag>>

(* onSendError(NULL) since the enumeration: no callback.                   *)
NackISR(n) ==
  /\ hw[n].code = "ADR_NACK"
  /\ Control(n, FALSE, FALSE)
  /\ drv' = [drv EXCEPT ![n].status = 0]
  /\ UNCHANGED <<sends, prog, bus, rI2C, recvflag, sendflag>>

(* Faulty variant: twi_ptr stays where the last message left it.           *)
CalledISRKeeps(n) ==
  /\ hw[n].code = "GEN_ACK"
  /\ Control(n, TRUE, FALSE)
  /\ drv' = [drv EXCEPT ![n].status = 3]
  /\ UNCHANGED <<sends, prog, bus, rI2C, recvflag, sendflag>>

CalledISR(n) ==
  /\ hw[n].code = "GEN_ACK"
  /\ Control(n, TRUE, FALSE)
  /\ drv' = [drv EXCEPT ![n].status = 3, ![n].ptr = 0]
  /\ UNCHANGED <<sends, prog, bus, rI2C, recvflag, sendflag>>

(* Faulty variant: room for the NUL is not kept.                           *)
DataISRFull(n) ==
  /\ hw[n].code = "GEN_DATA_ACK"
  /\ Control(n, TRUE, FALSE)
  /\ drv' = IF drv[n].ptr < BufSize - 2
            THEN [drv EXCEPT ![n].buf[drv[n].ptr] = hw[n].data, ![n].ptr = @ + 1]
            ELSE drv
  /\ UNCHANGED <<sends, prog, bus, rI2C, recvflag, sendflag>>

(* A byte beyond the buffer is dropped.                                    *)
DataISR(n) ==
  /\ hw[n].code = "GEN_DATA_ACK"
  /\ Control(n, TRUE, FALSE)
  /\ drv' = IF drv[n].ptr < BufSize - 1
            THEN [drv EXCEPT ![n].buf[drv[n].ptr] = hw[n].data, ![n].ptr = @ + 1]
            ELSE drv
  /\ UNCHANGED <<sends, prog, bus, rI2C, recvflag, sendflag>>

(* What the callback finds in the buffer once the NUL is behind the text.  *)
Heard(n) == [i \in 1 .. drv[n].ptr |-> drv[n].buf[i-1]]

(* data_received: metaI2CString copies the text, receivedI2C sets the flag.*)
StopISR(n) ==
  /\ hw[n].code = "STOP"
  /\ rI2C' = [rI2C EXCEPT ![n] = Heard(n)]
  /\ recvflag' = [recvflag EXCEPT ![n] = TRUE]
  /\ drv' = [drv EXCEPT ![n].buf[drv[n].ptr] = 0, ![n].ptr = 0, ![n].status = 0]
  /\ Control(n, TRUE, FALSE)
  /\ UNCHANGED <<sends, prog, bus, sendflag>>

(* default: twi_status stays as it is.                                     *)
OtherISR(n) ==
  /\ hw[n].code = "ARB_LOST"
  /\ Control(n, FALSE, FALSE)
  /\ UNCHANGED <<sends, prog, drv, bus, rI2C, recvflag, sendflag>>

--------------------------------------------------------------------------------
(* The two-wire hardware.                                                  *)

(* A board whose TWINT is set holds the clock.                             *)
Released == \A n \in Node : hw[n].code = "none"

(* The hypothesis on time: while an address goes by, which takes 180 us,   *)
(* nobody is between the look at twi_status and the write to TWCR, nor     *)
(* between TWSTO and set_slaveR.                                           *)
Window == Timely => \A n \in Node : prog[n].pc = "free" /\ ~drv[n].tail

Signal(who, code) == [n \in Node |-> IF n \in who THEN [hw[n] EXCEPT !.code = code] ELSE hw[n]]

(* The bus is free and boards that want to start do.  Who sees it in time  *)
(* joins in, the others wait for the STOP.                                 *)
StartCondition ==
  /\ bus.phase = "free"
  /\ \E S \in SUBSET {n \in Node : hw[n].sta} :
       /\ S # {}
       /\ hw' = Signal(S, "START")
       /\ bus' = [Free EXCEPT !.phase = "address", !.starters = S, !.masters = S]
  /\ UNCHANGED <<sends, prog, drv, rI2C, recvflag, sendflag>>

(* The address is 0 for all; who has TWEA set acknowledges it.             *)
AddressByte ==
  /\ bus.phase = "address" /\ Released /\ Window
  /\ LET slaves == {n \in Node \ bus.masters : hw[n].ea}
     IN  IF slaves = {}
         THEN /\ hw' = Signal(bus.masters, "ADR_NACK")
              /\ bus' = [bus EXCEPT !.phase = "nack"]
         ELSE /\ hw' = [n \in Node |-> IF n \in slaves THEN [hw[n] EXCEPT !.code = "GEN_ACK"]
                                       ELSE Signal(bus.masters, "ADR_ACK")[n]]
              /\ bus' = [bus EXCEPT !.phase = "data", !.slaves = slaves]
  /\ UNCHANGED <<sends, prog, drv, rI2C, recvflag, sendflag>>

(* A zero bit wins over a one: the lowest byte goes through.               *)
DataByte ==
  /\ bus.phase = "data" /\ Released /\ \A m \in bus.masters : ~drv[m].tail
  /\ \E low \in {hw[m].data : m \in bus.masters} :
       LET winners == {m \in bus.masters : hw[m].data = low}
       IN  /\ \A m \in bus.masters : low <= hw[m].data
           /\ hw' = [n \in Node |->
                       IF n \in winners THEN [hw[n] EXCEPT !.code = "DATA_ACK"]
                       ELSE IF n \in bus.masters THEN [hw[n] EXCEPT !.code = "ARB_LOST"]
                       ELSE IF n \in bus.slaves THEN [hw[n] EXCEPT !.code = "GEN_DATA_ACK",
                                                                   !.data = low]
                       ELSE hw[n]]
           /\ bus' = [bus EXCEPT !.masters = winners]
  /\ UNCHANGED <<sends, prog, drv, rI2C, recvflag, sendflag>>

(* STOP, which the slaves are told of.                                     *)
StopCondition ==
  /\ Released
  /\ bus.phase = "nack" \/ (bus.phase = "data" /\ \A m \in bus.masters : drv[m].tail)
  /\ hw' = Signal(bus.slaves, "STOP")
  /\ bus' = Free
  /\ UNCHANGED <<sends, prog, drv, rI2C, recvflag, sendflag>>

Main(n) == Check(n) \/ Fill(n) \/ Go(n) \/ TakeSent(n) \/ TakeReceived(n)

Interrupt(n) ==
  \/ StartISR(n) \/ NextByteISR(n) \/ LastByteISR(n) \/ SentISR(n) \/ NackISR(n)
  \/ CalledISR(n) \/ DataISR(n) \/ StopISR(n) \/ OtherISR(n)

Wires == StartCondition \/ AddressByte \/ DataByte \/ StopCondition

Next == (\E n \in Node : Main(n) \/ Interrupt(n)) \/ Wires

Spec == Init /\ [][Next]_vars

--------------------------------------------------------------------------------
(* The refinement.                                                         *)

(* send_msg is committed once it has seen twi_status = 0, and a message is *)
(* being sent until the STOP, or until its address is not acknowledged;    *)
(* who has lost the bus finds out for good at the STOP of the winner.      *)
Sending(n) == prog[n].pc # "free" \/ hw[n].sta \/ n \in bus.starters

twi ==
  [n \in Node |->
     IF hw[n].code = "ADR_NACK" \/ (drv[n].status \in {0, 3} /\ prog[n].pc = "free") THEN "idle"
     ELSE IF Sending(n) THEN "start"
     ELSE IF drv[n].tail THEN "stop" ELSE "lost"]

out  == [n \in Node |-> prog[n].msg]
deaf == [n \in Node |-> prog[n].pc # "free" \/ ~hw[n].ea]
rx   == [n \in Node |-> IF hw[n].code = "STOP" THEN Heard(n) ELSE NoMsg]

GC == INSTANCE GeneralCall

(* The driver delivers what GeneralCall promises: a message arrives whole  *)
(* at every board that was listening, or is answered by nobody; the one    *)
(* buffer, which serves both directions, is never used by both; who loses  *)
(* the bus while others listen is lost; flags are set once per message.    *)
ImplementsGeneralCall == GC!BusSpec

================================================================================
