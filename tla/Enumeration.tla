------------------------------ MODULE Enumeration ------------------------------
(***************************************************************************)
(* countArduinos: before anything else the boards find out who is there.   *)
(* Each waits for a time that depends on its address; the first to run out *)
(* of patience calls every address in turn, broadcasts how many answered   *)
(* (C) and then their addresses one by one (A).  The others listen.        *)
(*                                                                         *)
(* The bus is that of GeneralCall, one step per message, with calls to a   *)
(* single address, with errors, and with the callbacks as variables, which *)
(* this part of the program exchanges while the bus is in use.             *)
(***************************************************************************)
EXTENDS Naturals, Sequences, FiniteSets

CONSTANTS
  Board,    \* the addresses in the EEPROMs: boards that are there
  First,    \* 10, the first address called
  Last,     \* 120, the last
  Slots,    \* 10, the delay(100)s of the most patient board
  InTime    \* whether the hypotheses on time, below, hold

ASSUME EnumerationAssumption ==
  /\ First \in Nat \ {0} /\ Last \in Nat /\ Slots \in Nat /\ InTime \in BOOLEAN
  /\ Board \subseteq First .. Last /\ Cardinality(Board) > 1

VARIABLES
  bd,       \* of every board: its program counter and the globals of the sketch
  twi,      \* twi_status and the bus phase of a board's own message
  out,      \* its message
  rx,       \* a message whose STOP interrupt is still to be served
  deaf,     \* TWCR without TWEA
  stray     \* history: a callback of Meta has run on a board without a Meta

busVars == <<twi, out, rx, deaf>>
vars    == <<bd, busVars, stray>>

Address == First .. Last
All     == 0      \* the general call

(* "\n", "C n" and "A a"; to is an address or All.                         *)
Message == [to : Address \cup {All}, kind : {"call", "C", "A"}, arg : Nat]
NoMsg   == [to |-> All, kind |-> "none", arg |-> 0]

PcState == {"boot", "wait",
            "call", "called", "count", "counted", "index",  \* the board that counts
            "hear", "awaitC", "awaitA", "take",             \* the others
            "setup", "new", "done"}

(* n: polls of receive_success made; i: the loop variable of count_TWI and *)
(* of sendArduinoIndexes; ok, ko, heard: send_success, send_error and      *)
(* receive_success; found: the addresses in ArduinoIndex.                  *)
Globals ==
  [pc : PcState, n : 0 .. Slots, i : 0 .. Last + 1,
   ok : BOOLEAN, ko : BOOLEAN, heard : BOOLEAN,
   Narduinos : 0 .. Cardinality(Board), index : {0} \cup Board, found : SUBSET Board,
   vec : Seq(Board),
   onReceive : {"none", "heard", "count", "index", "meta"},
   onSend : {"none", "ok", "meta"}, onSendError : {"none", "ko"}]

TypeOK ==
  /\ bd   \in [Board -> Globals]
  /\ twi  \in [Board -> {"idle", "start", "stop", "nack", "lost"}]
  /\ out  \in [Board -> Message \cup {NoMsg}]
  /\ rx   \in [Board -> Message \cup {NoMsg}]
  /\ deaf \in [Board -> BOOLEAN]
  /\ stray \in BOOLEAN

Init ==
  /\ bd = [b \in Board |->
             [pc |-> "boot", n |-> 0, i |-> First, ok |-> FALSE, ko |-> FALSE, heard |-> FALSE,
              Narduinos |-> 0, index |-> 0, found |-> {}, vec |-> <<>>,
              onReceive |-> "none", onSend |-> "none", onSendError |-> "none"]]
  /\ twi  = [b \in Board |-> "idle"]
  /\ out  = [b \in Board |-> NoMsg]
  /\ rx   = [b \in Board |-> NoMsg]
  /\ deaf = [b \in Board |-> FALSE]
  /\ stray = FALSE

--------------------------------------------------------------------------------
(* The hypotheses on time.                                                 *)

Calling == {"call", "called"}

(* Faulty variant: the wait does not depend on the address.                *)
PatienceAlike(b) == Slots

(* How many delay(100)s a board makes: n > endereco-10 for n = 10, 9, ...  *)
Patience(b) == IF b - First < Slots THEN Slots - (b - First) ELSE 0

(* The boards were switched on together, well within one delay(100), and a *)
(* call reaches the addresses that wait within one: when a board polls for *)
(* the n-th time the others have polled n-1 times, and who began to call   *)
(* before has called it.                                                   *)
InStep(b) ==
  InTime => \A c \in Board \ {b} :
    /\ bd[c].pc = "boot" => bd[b].n = 0
    /\ bd[c].pc = "wait" => bd[c].n >= bd[b].n
    /\ bd[c].pc \in Calling /\ Patience(c) < bd[b].n => bd[c].i > b /\ rx[b] = NoMsg

(* A delay(100) between two broadcasts is longer than a poll of the others *)
(* (which is also a delay(100), but one that had begun) and what they do   *)
(* with a message.                                                         *)
Calm(b) ==
  InTime => \A c \in Board \ {b} :
    /\ rx[c] = NoMsg
    /\ bd[c].pc # "hear" /\ ~(bd[c].pc = "wait" /\ bd[c].heard)
    /\ ~(bd[c].pc = "awaitC" /\ bd[c].Narduinos > 0)

(* While a message goes over the bus a board that is waiting for an index  *)
(* has stored the one before.                                              *)
KeptUp ==
  InTime => \A c \in Board : bd[c].pc # "take" /\ ~(bd[c].pc = "awaitA" /\ bd[c].heard)

--------------------------------------------------------------------------------
(* The wait.                                                               *)

(* delay(2000), onReceive(count_I2Creceive)                                *)
Boot(b) ==
  /\ bd[b].pc = "boot"
  /\ bd' = [bd EXCEPT ![b].pc = "wait", ![b].onReceive = "heard"]
  /\ UNCHANGED <<busVars, stray>>

(* One turn of the loop, or the branch after it.                           *)
Poll(b) ==
  /\ bd[b].pc = "wait" /\ InStep(b)
  /\ \/ /\ bd[b].heard
        /\ bd' = [bd EXCEPT ![b].pc = "hear"]
     \/ /\ ~bd[b].heard /\ bd[b].n < Patience(b)
        /\ bd' = [bd EXCEPT ![b].n = @ + 1]
     \/ /\ ~bd[b].heard /\ bd[b].n >= Patience(b)
        /\ bd' = [bd EXCEPT ![b].pc = "call", ![b].onSend = "ok", ![b].onSendError = "ko"]
  /\ UNCHANGED <<busVars, stray>>

--------------------------------------------------------------------------------
(* The board that counts.                                                  *)

(* TWI::send_msg                                                           *)
Send(b, to, kind, arg) ==
  /\ twi[b] = "idle" /\ rx[b] = NoMsg
  /\ twi' = [twi EXCEPT ![b] = "start"]
  /\ out' = [out EXCEPT ![b] = [to |-> to, kind |-> kind, arg |-> arg]]
  /\ UNCHANGED <<rx, deaf, stray>>

Call(b) ==
  /\ bd[b].pc = "call"
  /\ Send(b, bd[b].i, "call", 0)
  /\ bd' = [bd EXCEPT ![b].pc = "called"]

(* Faulty variant: no answer counts as one.                                *)
FoundAny(b) == bd[b].found \cup {bd[b].i}

Found(b) == IF bd[b].ok THEN bd[b].found \cup {bd[b].i} ELSE bd[b].found

(* Faulty variant: the board does not enter its own address.               *)
EnteredOthers(b) == Found(b)

Entered(b) == Found(b) \cup {b}

(* An address has answered or not; after the last, the board enters itself *)
(* and returns the count.                                                  *)
Called(b) ==
  /\ bd[b].pc = "called" /\ (bd[b].ok \/ bd[b].ko)
  /\ LET last == bd[b].i = Last
         now  == [bd[b] EXCEPT !.ok = FALSE, !.ko = FALSE, !.i = @ + 1, !.found = Found(b)]
     IN  bd' = [bd EXCEPT ![b] =
           IF last THEN [now EXCEPT !.pc = "count", !.found = Entered(b),
                                    !.Narduinos = 1 + Cardinality(Found(b))]
                   ELSE [now EXCEPT !.pc = "call"]]
  /\ UNCHANGED <<busVars, stray>>

(* Faulty variant: no delay before the count is sent.                      *)
CountAtOnce(b) ==
  /\ bd[b].pc = "count"
  /\ Send(b, All, "C", bd[b].Narduinos)
  /\ bd' = [bd EXCEPT ![b].pc = "counted"]

(* delay(100), send_msg "C n"                                              *)
Count(b) ==
  /\ bd[b].pc = "count" /\ Calm(b)
  /\ Send(b, All, "C", bd[b].Narduinos)
  /\ bd' = [bd EXCEPT ![b].pc = "counted"]

(* The wait for its end, onSendError(NULL).                                *)
Counted(b) ==
  /\ bd[b].pc = "counted" /\ (bd[b].ok \/ bd[b].ko)
  /\ bd' = [bd EXCEPT ![b].pc = "index", ![b].onSendError = "none", ![b].i = 0]
  /\ UNCHANGED <<busVars, stray>>

(* delay(100) before the first, then send_msg "A a" as fast as the driver  *)
(* takes it.                                                               *)
SendIndex(b) ==
  /\ bd[b].pc = "index" /\ (bd[b].vec = <<>> => Calm(b))
  /\ \E a \in bd[b].found :
       /\ a > bd[b].i /\ \A c \in bd[b].found : c > bd[b].i => c >= a
       /\ Send(b, All, "A", a)
       /\ bd' = [bd EXCEPT ![b].vec = Append(@, a), ![b].i = a,
                 ![b].pc = IF \E c \in bd[b].found : c > a THEN "index" ELSE "setup"]

--------------------------------------------------------------------------------
(* The others.                                                             *)

(* onReceive(get_Narduinos)                                                *)
Hear(b) ==
  /\ bd[b].pc = "hear"
  /\ bd' = [bd EXCEPT ![b].pc = "awaitC", ![b].onReceive = "count"]
  /\ UNCHANGED <<busVars, stray>>

(* Faulty variant: receive_success, set by the call, is not cleared.       *)
HearCountStale(b) ==
  /\ bd[b].pc = "awaitC" /\ bd[b].Narduinos > 0
  /\ bd' = [bd EXCEPT ![b].pc = "awaitA", ![b].onReceive = "index"]
  /\ UNCHANGED <<busVars, stray>>

(* while(!Narduinos), receive_success = false, onReceive(receiveI2CIndex)  *)
HearCount(b) ==
  /\ bd[b].pc = "awaitC" /\ bd[b].Narduinos > 0
  /\ bd' = [bd EXCEPT ![b].pc = "awaitA", ![b].heard = FALSE, ![b].onReceive = "index"]
  /\ UNCHANGED <<busVars, stray>>

(* while(!receive_success), receive_success = false                        *)
HearIndex(b) ==
  /\ bd[b].pc = "awaitA" /\ bd[b].heard
  /\ bd' = [bd EXCEPT ![b].pc = "take", ![b].heard = FALSE]
  /\ UNCHANGED <<busVars, stray>>

(* NArduinoIndex[n] = index                                                *)
TakeIndex(b) ==
  /\ bd[b].pc = "take"
  /\ bd' = [bd EXCEPT ![b].vec = Append(@, bd[b].index),
                      ![b].pc = IF Len(bd[b].vec) + 1 = bd[b].Narduinos THEN "setup" ELSE "awaitA"]
  /\ UNCHANGED <<busVars, stray>>

--------------------------------------------------------------------------------
(* setup() goes on, on every board.                                        *)

(* onReceive(metaI2CString), onSend(sendI2CState)                          *)
Setup(b) ==
  /\ bd[b].pc = "setup"
  /\ bd' = [bd EXCEPT ![b].pc = "new", ![b].onReceive = "meta", ![b].onSend = "meta"]
  /\ UNCHANGED <<busVars, stray>>

(* meta = new Meta(...): here the enumeration is over.                     *)
New(b) ==
  /\ bd[b].pc = "new"
  /\ bd' = [bd EXCEPT ![b].pc = "done"]
  /\ UNCHANGED <<busVars, stray>>

--------------------------------------------------------------------------------
(* The bus and the interrupts.                                             *)

(* The boards that acknowledge a message of b.                             *)
Listeners(b) ==
  {c \in Board \ {b} : twi[c] = "idle" /\ ~deaf[c] /\ out[b].to \in {All, c}}

(* A message goes over the bus.  Boards that have asked for a START at the *)
(* same instant do not notice each other as long as they send the same: to *)
(* the end, or up to the address if nobody acknowledges that.  The others  *)
(* lose, which the driver never gets over (see GeneralCall).  Without an   *)
(* acknowledge a board stays deaf.                                         *)
Transfer(b) ==
  /\ twi[b] = "start" /\ (\A c \in Board : rx[c] = NoMsg) /\ KeptUp
  /\ \E tied \in SUBSET {c \in Board \ {b} : twi[c] = "start"} :
       LET answered == Listeners(b) # {}
           same     == {b} \cup {c \in tied : \/ out[c] = out[b]
                                              \/ ~answered /\ out[c].to = out[b].to}
       IN  /\ twi' = [c \in Board |-> IF c \in same THEN (IF answered THEN "stop" ELSE "nack")
                                      ELSE IF c \in tied THEN "lost" ELSE twi[c]]
           /\ deaf' = [c \in Board |->
                         deaf[c] \/ c \in tied \ same \/ (c \in same /\ ~answered)]
  /\ rx' = [c \in Board |-> IF c \in Listeners(b) THEN out[b] ELSE NoMsg]
  /\ UNCHANGED <<bd, out, stray>>

(* The sender's last interrupt, and onSend or onSendError in it.           *)
SentISR(b) ==
  /\ twi[b] \in {"stop", "nack"}
  /\ twi' = [twi EXCEPT ![b] = "idle"]
  /\ \/ /\ twi[b] = "stop"
        /\ deaf' = [deaf EXCEPT ![b] = FALSE]
        /\ bd' = [bd EXCEPT ![b].ok = @ \/ bd[b].onSend = "ok"]
        /\ stray' = (stray \/ (bd[b].onSend = "meta" /\ bd[b].pc = "new"))
     \/ /\ twi[b] = "nack"
        /\ bd' = [bd EXCEPT ![b].ko = @ \/ bd[b].onSendError = "ko"]
        /\ UNCHANGED <<deaf, stray>>
  /\ UNCHANGED <<out, rx>>

(* The STOP interrupt of a receiver: count_I2Creceive, get_Narduinos,      *)
(* receiveI2CIndex or metaI2CString.                                       *)
ReceiveISR(b) ==
  /\ rx[b] # NoMsg
  /\ LET callback == bd[b].onReceive
         msg      == rx[b]
     IN  /\ bd' = [bd EXCEPT
              ![b].heard = @ \/ callback = "heard" \/ (callback = "index" /\ msg.kind = "A"),
              ![b].Narduinos = IF callback = "count" /\ msg.kind = "C" THEN msg.arg ELSE @,
              ![b].index = IF callback = "index" /\ msg.kind = "A" THEN msg.arg ELSE @]
         /\ stray' = (stray \/ (callback = "meta" /\ bd[b].pc = "new"))
  /\ rx' = [rx EXCEPT ![b] = NoMsg]
  /\ UNCHANGED <<twi, out, deaf>>

Program(b) ==
  \/ Boot(b) \/ Poll(b)
  \/ Call(b) \/ Called(b) \/ Count(b) \/ Counted(b) \/ SendIndex(b)
  \/ Hear(b) \/ HearCount(b) \/ HearIndex(b) \/ TakeIndex(b)
  \/ Setup(b) \/ New(b)

Interrupt(b) == SentISR(b) \/ ReceiveISR(b)

Next == \E b \in Board : Program(b) \/ Transfer(b) \/ Interrupt(b)

Safety == Init /\ [][Next]_vars

(* Every board runs, its interrupts are served, the bus moves.             *)
Fairness ==
  \A b \in Board : WF_vars(Program(b)) /\ WF_vars(Transfer(b)) /\ WF_vars(Interrupt(b))

Spec == Safety /\ Fairness

--------------------------------------------------------------------------------
(* Properties.                                                             *)

Counts(b) == bd[b].pc \in {"call", "called", "count", "counted", "index"} \/ bd[b].found # {}

(* Only one board counts; the others have been called before they run out  *)
(* of patience.                                                            *)
OneCounts == \A b, c \in Board : Counts(b) /\ Counts(c) => b = c

(* Every board leaves with the same vector: all the boards that are there, *)
(* in the order of their addresses.  So all later protocols agree on whose *)
(* turn it is.                                                             *)
Ascending(s) == \A j, k \in 1 .. Len(s) : j < k => s[j] < s[k]
SameVector ==
  \A b \in Board : bd[b].pc \in {"setup", "new", "done"} =>
    /\ {bd[b].vec[k] : k \in 1 .. Len(bd[b].vec)} = Board /\ Ascending(bd[b].vec)
    /\ Len(bd[b].vec) = bd[b].Narduinos

(* The enumeration comes to an end on every board: no call, count or index *)
(* is waited for in vain.                                                  *)
Enumerated == <>(\A b \in Board : bd[b].pc = "done")

(* Whatever the timing, who is in a vector is there, and who counts knows  *)
(* itself: at worst boards are missing, or wait for ever.                  *)
NoGhost ==
  \A b \in Board :
    /\ \A k \in 1 .. Len(bd[b].vec) : bd[b].vec[k] \in Board
    /\ bd[b].pc \in {"count", "counted", "index"} => b \in bd[b].found

(* sendI2CState "modifies the flag of class Meta" (lightControl.ino:49-51). *)
FlagOfMeta == ~stray

================================================================================
