-------------------------------- MODULE Occupancy --------------------------------
(***************************************************************************)
(* The command "s" from the session of a client to the lamp: the handlers  *)
(* that write it to the serial line, character by character and without a  *)
(* lock; the loop() of the board, which puts lines together and decodes    *)
(* them; and the set point, which the main program stores byte by byte     *)
(* under the timer interrupt of the controller.                            *)
(*                                                                         *)
(* One luminaire.  An occupancy is "0" or "1", as on the line; any number  *)
(* but 0 is "1" to Meta::o, a bool.                                        *)
(***************************************************************************)
EXTENDS Integers, Sequences

CONSTANTS
  Clients,    \* how many requests can run at once, each on its thread
  LineSize,   \* char incoming[10]
  MaxSets     \* bound: commands in all

ASSUME OccupancyAssumption == Clients \in Nat /\ LineSize \in Nat /\ MaxSets \in Nat

(* Names only: a request takes the first that is free.                     *)
Client == 1 .. Clients

VARIABLES
  todo,     \* what a client's Serial::Write has left to write; <<>> outside
  o,        \* Arduino::o
  sets,     \* the commands so far
  mixed,    \* history: has the last command run beside another?
  peak,     \* history: the most requests that have written at once
  wire,     \* the serial line with the buffers at its ends
  incoming, \* SerialCom::incoming as far as current_char
  new_o,    \* SerialCom::new_o
  occupancy,\* SerialCom::occupancy, "0" for 0
  pc,       \* where loop() is; "overrun" behind the end of incoming
  meta_o,   \* Meta::o
  ref,      \* LightController::ref
  ffflag,   \* LightController::ffflag
  jump,     \* history: the set point of the last cycle of feedforward alone
  lamp,     \* history: the set point that the LED was last driven from
  flag      \* set by the timer interrupt for loop()

serverVars == <<todo, o, sets, mixed, peak>>
comVars    == <<incoming, new_o, occupancy>>
refVars    == <<meta_o, ref, ffflag>>
tickVars   == <<jump, lamp, flag>>
vars == <<serverVars, wire, comVars, pc, refVars, tickVars>>

Digit == {"0", "1"}
Char  == Digit \cup {"o", " ", "\n"}

(* 50.0 and 10.0 lux, "torn" in between, "none" before the first cycle.    *)
Lux == {"OCCUPIEDLUM", "NOTOCCUPIEDLUM", "torn"}
LuxOf(v) == IF v = "1" THEN "OCCUPIEDLUM" ELSE "NOTOCCUPIEDLUM"

TypeOK ==
  /\ todo \in [Client -> Seq(Char)]
  /\ o \in Digit
  /\ sets \in 0 .. MaxSets
  /\ mixed \in BOOLEAN
  /\ peak \in 0 .. Clients
  /\ wire \in Seq(Char)
  /\ incoming \in Seq(Char)
  /\ new_o \in BOOLEAN
  /\ occupancy \in Digit
  /\ pc \in {"wait", "receive", "new_oc", "setRef", "torn", "ffflag", "end", "overrun"}
  /\ meta_o \in Digit
  /\ ref \in Lux
  /\ ffflag \in BOOLEAN
  /\ jump \in Lux \cup {"none"}
  /\ lamp \in Lux \cup {"none"}
  /\ flag \in BOOLEAN

(* InitArduino on one side; the end of setup() on the other.               *)
Init ==
  /\ todo = [c \in Client |-> <<>>]
  /\ o = "1"
  /\ sets = 0
  /\ mixed = FALSE
  /\ peak = 0
  /\ wire = <<>>
  /\ incoming = <<>>
  /\ new_o = FALSE
  /\ occupancy = "1"
  /\ pc = "wait"
  /\ meta_o = "1"
  /\ ref = "OCCUPIEDLUM"
  /\ ffflag = TRUE
  /\ jump = "none"
  /\ lamp = "none"
  /\ flag = FALSE

--------------------------------------------------------------------------------
(* The server.                                                             *)

Writing == {c \in Client : todo[c] # <<>>}

(* Arduino::setOccupancy composes it, Serial::Write ends it.               *)
Command(value) == <<"o", " ", value, "\n">>

(* "s" with the id of the luminaire, as far as Arduino::setOccupancy: o is *)
(* stored before anything is written.  Nothing in the server limits how    *)
(* many are at it: when c starts to write, 1 .. c do.                      *)
SetOccupancy(c) ==
  /\ sets < MaxSets
  /\ todo[c] = <<>> /\ \A b \in 1 .. c-1 : todo[b] # <<>>
  /\ \E value \in Digit :
       /\ o' = value
       /\ todo' = [todo EXCEPT ![c] = Command(value)]
  /\ sets' = sets + 1
  /\ mixed' = (Writing # {})
  /\ peak' = IF c > peak THEN c ELSE peak
  /\ UNCHANGED <<wire, comVars, pc, refVars, tickVars>>

(* One write(2) of one character.                                          *)
WriteChar(c) ==
  /\ todo[c] # <<>>
  /\ wire' = Append(wire, Head(todo[c]))
  /\ todo' = [todo EXCEPT ![c] = Tail(@)]
  /\ UNCHANGED <<o, sets, mixed, peak, comVars, pc, refVars, tickVars>>

--------------------------------------------------------------------------------
(* loop() of the board.                                                    *)

(* A round: sendPI and setu_vec (see DutyExchange), then receive_message.  *)
Round ==
  /\ pc = "wait" /\ flag
  /\ pc' = "receive"
  /\ UNCHANGED <<serverVars, wire, comVars, refVars, tickVars>>

ReadChar ==
  /\ pc = "receive" /\ wire # <<>> /\ Head(wire) # "\n" /\ Len(incoming) < LineSize
  /\ incoming' = Append(incoming, Head(wire))
  /\ wire' = Tail(wire)
  /\ UNCHANGED <<serverVars, new_o, occupancy, pc, refVars, tickVars>>

(* The characters that "%i" takes for the number behind the first          *)
(* character: blanks are skipped, and it ends at the first other.          *)
Number(line) ==
  {i \in 2 .. Len(line) :
     /\ line[i] \in Digit
     /\ \A j \in 2 .. i : line[j] \in Digit \/
          (line[j] = " " /\ \A k \in 2 .. j : line[k] = " ")}

(* What process_request may store: tipo is not initialised when the line   *)
(* is empty, valor when no number follows.                                 *)
Meaning(line) ==
  IF line = <<>> THEN {"none"} \cup Digit
  ELSE IF line[1] # "o" THEN {"none"}
  ELSE IF Number(line) = {} THEN Digit
  ELSE {IF \E i \in Number(line) : line[i] = "1" THEN "1" ELSE "0"}

(* Faulty variants: current_char stays; new_o is not set; an order that is *)
(* not known falls through to that of the occupancy.                       *)
ReadLineKeeps ==
  /\ pc = "receive" /\ wire # <<>> /\ Head(wire) = "\n" /\ Len(incoming) < LineSize
  /\ wire' = Tail(wire)
  /\ \E valor \in Meaning(incoming) :
       /\ new_o' = (new_o \/ valor # "none")
       /\ occupancy' = IF valor = "none" THEN occupancy ELSE valor
  /\ UNCHANGED <<serverVars, incoming, pc, refVars, tickVars>>

ReadLineSilent ==
  /\ pc = "receive" /\ wire # <<>> /\ Head(wire) = "\n" /\ Len(incoming) < LineSize
  /\ wire' = Tail(wire)
  /\ incoming' = <<>>
  /\ \E valor \in Meaning(incoming) :
       occupancy' = IF valor = "none" THEN occupancy ELSE valor
  /\ UNCHANGED <<serverVars, new_o, pc, refVars, tickVars>>

ReadLineThrough ==
  /\ pc = "receive" /\ wire # <<>> /\ Head(wire) = "\n" /\ Len(incoming) < LineSize
  /\ wire' = Tail(wire)
  /\ incoming' = <<>>
  /\ occupancy' \in Meaning(incoming)
  /\ new_o' = TRUE
  /\ UNCHANGED <<serverVars, pc, refVars, tickVars>>

(* The end of a line, with process_request.                                *)
ReadLine ==
  /\ pc = "receive" /\ wire # <<>> /\ Head(wire) = "\n" /\ Len(incoming) < LineSize
  /\ wire' = Tail(wire)
  /\ incoming' = <<>>
  /\ \E valor \in Meaning(incoming) :
       /\ new_o' = (new_o \/ valor # "none")
       /\ occupancy' = IF valor = "none" THEN occupancy ELSE valor
  /\ UNCHANGED <<serverVars, pc, refVars, tickVars>>

(* incoming[current_char], for a character or for the '\0', without a test  *)
(* on current_char: behind the array the program is undefined, and all     *)
(* that is said of it is about the time before.                            *)
Overrun ==
  /\ pc = "receive" /\ wire # <<>> /\ Len(incoming) >= LineSize
  /\ pc' = "overrun"
  /\ UNCHANGED <<serverVars, wire, comVars, refVars, tickVars>>

(* available() is 0: receive_message returns, maybe within a line.         *)
NoMoreChars ==
  /\ pc = "receive" /\ wire = <<>>
  /\ pc' = "new_oc"
  /\ UNCHANGED <<serverVars, wire, comVars, refVars, tickVars>>

(* new_oc, getOccupancy and the beginning of Meta::setOccupancy.           *)
NewOccupancy ==
  /\ pc = "new_oc" /\ new_o
  /\ new_o' = FALSE
  /\ meta_o' = occupancy
  /\ pc' = "setRef"
  /\ UNCHANGED <<serverVars, wire, incoming, occupancy, ref, ffflag, tickVars>>

(* Faulty variant, with SetFlagEarlier: the flag before the set point ...  *)
SetRefFlagFirst ==
  /\ pc = "setRef"
  /\ ffflag' = TRUE
  /\ IF ref = LuxOf(meta_o)
     THEN pc' = "ffflag" /\ UNCHANGED ref
     ELSE pc' = "torn" /\ ref' = "torn"
  /\ UNCHANGED <<serverVars, wire, comVars, meta_o, tickVars>>

(* setRef stores a number of four bytes; on the way it is another one if   *)
(* it changes.                                                             *)
SetRef ==
  /\ pc = "setRef"
  /\ IF ref = LuxOf(meta_o)
     THEN pc' = "ffflag" /\ UNCHANGED ref
     ELSE pc' = "torn" /\ ref' = "torn"
  /\ UNCHANGED <<serverVars, wire, comVars, meta_o, ffflag, tickVars>>

SetRefEnd ==
  /\ pc = "torn"
  /\ ref' = LuxOf(meta_o)
  /\ pc' = "ffflag"
  /\ UNCHANGED <<serverVars, wire, comVars, meta_o, ffflag, tickVars>>

(* ... which was to come last.                                             *)
SetFlagEarlier ==
  /\ pc = "ffflag"
  /\ pc' = "end"
  /\ UNCHANGED <<serverVars, wire, comVars, refVars, tickVars>>

(* ffflag = 1.                                                             *)
SetFlag ==
  /\ pc = "ffflag"
  /\ ffflag' = TRUE
  /\ pc' = "end"
  /\ UNCHANGED <<serverVars, wire, comVars, meta_o, ref, tickVars>>

(* flag = 0: what the timer has said since the round began is lost.        *)
EndRound ==
  /\ pc = "end" \/ (pc = "new_oc" /\ ~new_o)
  /\ flag' = FALSE
  /\ pc' = "wait"
  /\ UNCHANGED <<serverVars, wire, comVars, refVars, jump, lamp>>

(* Faulty variant: ffflag = 1 comes first.                                 *)
LoopFlagFirst ==
  \/ Round \/ ReadChar \/ ReadLine \/ Overrun \/ NoMoreChars
  \/ NewOccupancy \/ SetRefFlagFirst \/ SetRefEnd \/ SetFlagEarlier \/ EndRound

Loop ==
  \/ Round \/ ReadChar \/ ReadLine \/ Overrun \/ NoMoreChars
  \/ NewOccupancy \/ SetRef \/ SetRefEnd \/ SetFlag \/ EndRound

--------------------------------------------------------------------------------
(* The timer interrupt, wherever loop() is.  Of the control law there is   *)
(* what it reads of the set point, which is ref in either branch, and that *)
(* it drives the LED in both.                                              *)

(* calcController with ffflag set: the feedforward of ref, alone.          *)
Jump ==
  /\ ffflag
  /\ ffflag' = FALSE
  /\ jump' = ref /\ lamp' = ref
  /\ flag' = TRUE
  /\ UNCHANGED <<serverVars, wire, comVars, pc, meta_o, ref>>

(* calcController without: the error, its dead zone and the feedforward    *)
(* are those of ref, and the LED gets what the PID makes of them.          *)
Pid ==
  /\ ~ffflag
  /\ lamp' = ref
  /\ flag' = TRUE
  /\ UNCHANGED <<serverVars, wire, comVars, pc, refVars, jump>>

Tick == Jump \/ Pid

Next == (\E c \in Client : SetOccupancy(c) \/ WriteChar(c)) \/ Loop \/ Tick

Spec == Init /\ [][Next]_vars

(* A write to the line ends, loop() goes on (setu_vec ends: RoundsGoOn of  *)
(* DutyExchange), the timer runs.  No client need ever send a command.     *)
Fairness ==
  /\ \A c \in Client : WF_vars(WriteChar(c))
  /\ WF_vars(Loop)
  /\ WF_vars(Tick)

FairSpec == Spec /\ Fairness

--------------------------------------------------------------------------------
(* Properties.                                                             *)

(* receive_message has no test on current_char (SerialCom.cpp:37), the     *)
(* lines of several threads can run into one another (Serial.cpp:58), and  *)
(* the server does not limit the threads.  So the buffer can overflow, but *)
(* it takes so many requests at once that three characters of each, the    *)
(* command without its '\n', leave no room for the '\0': four, with ten    *)
(* characters.                                                             *)
LineFits == pc = "overrun" => 3 * peak >= LineSize

(* A command that has run beside no other reaches the lamp, whatever       *)
(* commands that ran into one another were on the line before it, unless   *)
(* they have overrun the buffer: what the server answers to "g o" is then  *)
(* the state of the board, or a further command is under way.              *)
Settled   == Writing = {} /\ ~mixed /\ pc # "overrun"
Agreement == Settled ~> (meta_o = o \/ ~Settled)

(* Whenever the timer interrupt comes: a cycle of feedforward alone never  *)
(* takes a set point half stored; and a change of the set point does not   *)
(* escape it.  The PID, which reads ref in every cycle, drives the LED     *)
(* from the half-stored or the new one when it falls into setRef; then and *)
(* in any other case in which the LED or the last jump are not of the set  *)
(* point in force, the jump to it is due: ffflag is set, or setRef has yet *)
(* to set it.                                                              *)
RefFollows ==
  /\ jump # "torn"
  /\ lamp # ref \/ jump # ref => ffflag \/ pc \in {"torn", "ffflag"}

================================================================================
