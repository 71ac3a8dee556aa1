-------------------------------- MODULE History --------------------------------
(***************************************************************************)
(* One Arduino object of the server: the ring of samples that the serial   *)
(* thread fills in receiveInformation and that the threads of the clients  *)
(* read, through the getters, without any lock.                            *)
(*                                                                         *)
(* The vectors ref, y, d, e, t, E, Cerror and Verror are one vector of     *)
(* records here; of the values of a line only d, t and E take part in a    *)
(* computation that crosses cells and is checked, the others are the       *)
(* number of the line that they came with.                                 *)
(*                                                                         *)
(* Every access is a step of its own, in program order: the printing under *)
(* the mutex (Arduino.cpp:300) is a fence between the writes of a line and *)
(* that of K, and a getter's reads depend on the K it has read.            *)
(***************************************************************************)
EXTENDS Integers, Sequences

CONSTANTS
  N,          \* cells of a vector (2000: mainController.h:23)
  Reader,     \* threads that call getters
  Slack,      \* lines that may begin to arrive while one getter runs
  MaxDuty,    \* duty cycles are 0 .. MaxDuty (255)
  Step,       \* milliseconds between two lines
  Start,      \* milliseconds from the boot to the first line, at least
  Window,     \* the 1000 ms of get_minute
  MaxLines    \* bound: lines received

(* A lap takes N+1 lines, 40 s; a getter that would still run after that   *)
(* is left out.                                                            *)
ASSUME HistoryAssumption ==
  /\ N \in Nat /\ Slack \in Nat /\ Slack + 3 <= N
  /\ MaxDuty \in Nat
  /\ Step \subseteq Nat
  /\ Start \in Nat
  /\ Window \in Nat
  /\ MaxLines \in Nat

Index == 0 .. N-1
Duty  == 0 .. MaxDuty

VARIABLES
  wpc,      \* where receiveInformation is
  K,        \* Arduino::K
  cycle,    \* Arduino::cycle; line number cycle is the one to come
  cell,     \* the vectors
  now,      \* the steady clock
  rpc,      \* where the call of a reader is
  my,       \* the locals of that call
  since,    \* history: what happened since that call began
  told      \* the energy last returned to a reader

writerVars == <<wpc, K, cycle, cell, now>>
vars       == <<writerVars, rpc, my, since, told>>

Record == [line : Nat, d : Nat, t : Nat, E : Int]
Blank  == [line |-> 0, d |-> 0, t |-> 0, E |-> 0]

(* n: prevK of getPower, n of get_minute.  deltaE, deltat: those of        *)
(* getPower.  vec, millis, values: the parameter of get_minute (as line    *)
(* numbers), its millis, and its new_vec as far as ciclos.                 *)
Locals   == [n : Index, deltaE : Int, deltat : Int,
             vec : [Index -> Nat], millis : Nat, values : Seq(Nat)]
NoLocals == [n |-> 0, deltaE |-> 0, deltat |-> 0,
             vec |-> [c \in Index |-> 0], millis |-> 0, values |-> <<>>]

(* lag: lines that began to arrive.  newest: the last complete line when K *)
(* was read.  late: lines completed between the copy of vec and that.      *)
Since    == [lag : Nat, newest : Nat, late : Nat]
NotSince == [lag |-> 0, newest |-> 0, late |-> 0]

WriterState == {"idle", "stored", "counted"}
ReaderState == {"idle", "get", "deltaE", "deltat", "power", "copied", "loop", "minute"}

TypeOK ==
  /\ wpc   \in WriterState
  /\ K     \in 0 .. N
  /\ cycle \in Nat \ {0}
  /\ cell  \in [Index -> Record]
  /\ now   \in Nat
  /\ rpc   \in [Reader -> ReaderState]
  /\ my    \in [Reader -> Locals]
  /\ since \in [Reader -> Since]
  /\ told  \in [Reader -> Int]

(* InitArduino: every vector is filled with 0.                             *)
Init ==
  /\ wpc   = "idle"
  /\ K     = 0
  /\ cycle = 1
  /\ cell  = [c \in Index |-> Blank]
  /\ now   = Start
  /\ rpc   = [r \in Reader |-> "idle"]
  /\ my    = [r \in Reader |-> NoLocals]
  /\ since = [r \in Reader |-> NotSince]
  /\ told  = [r \in Reader |-> 0]

(* Faulty variant: k+1 wherever K is.                                      *)
getkNextEndless(k) == k+1

(* The test is k < N, where the last index is N-1: N follows N-1.          *)
getkNext(k) == IF k < N THEN k+1 ELSE 0

(* Faulty variant: the ring is not closed backwards.                       *)
getkPreviousStops(k) == IF k = 0 THEN 0 ELSE k-1

getkPrevious(k) == IF k = 0 THEN N-1 ELSE k-1

--------------------------------------------------------------------------------
(* The serial thread.                                                      *)

(* sscanf found a data line; its values and the time are stored at K.      *)
(* With K = N the assignments go past the end of the vectors, into the     *)
(* padding or the header of a heap block: no cell changes.                 *)
Receive ==
  /\ wpc = "idle"
  /\ cycle <= MaxLines
  /\ \A r \in Reader : rpc[r] # "idle" => since[r].lag < Slack
  /\ \E s \in Step : now' = now + s
  /\ \E v \in Duty :
       cell' = [c \in Index |->
                  IF c = K THEN [cell[c] EXCEPT !.line = cycle, !.d = v, !.t = now']
                           ELSE cell[c]]
  /\ since' = [r \in Reader |-> IF rpc[r] = "idle" THEN since[r]
                                ELSE [since[r] EXCEPT !.lag = @ + 1]]
  /\ wpc' = "stored"
  /\ UNCHANGED <<K, cycle, rpc, my, told>>

(* Faulty variant: the duty cycle of the line itself, and its time twice.  *)
CountEnergyAnew ==
  /\ wpc = "stored"
  /\ LET q == getkPrevious(K)
     IN  cell' = [c \in Index |->
                    IF c = K THEN [cell[c] EXCEPT !.E = cell[c].d * (cell[c].t - cell[q].t)]
                             ELSE cell[c]]
  /\ wpc' = "counted"
  /\ UNCHANGED <<K, cycle, now, rpc, my, since, told>>

(* calcEnergy (in units of 1/MaxDuty): nothing is done with K = N.         *)
CountEnergy ==
  /\ wpc = "stored"
  /\ LET q == getkPrevious(K)
     IN  cell' = [c \in Index |->
                    IF c = K
                    THEN [cell[c] EXCEPT !.E = cell[q].E + cell[q].d * (cell[c].t - cell[q].t)]
                    ELSE cell[c]]
  /\ wpc' = "counted"
  /\ UNCHANGED <<K, cycle, now, rpc, my, since, told>>

(* K = getkNext(K), cycle++; a reader sees the line from here on.          *)
Advance ==
  /\ wpc = "counted"
  /\ K' = getkNext(K)
  /\ cycle' = cycle + 1
  /\ since' = [r \in Reader |-> IF rpc[r] = "copied" THEN [since[r] EXCEPT !.late = @ + 1]
                                ELSE since[r]]
  /\ wpc' = "idle"
  /\ UNCHANGED <<cell, now, rpc, my, told>>

Writer == Receive \/ CountEnergy \/ Advance

--------------------------------------------------------------------------------
(* The threads of the clients.                                             *)

Goto(r, label) == rpc' = [rpc EXCEPT ![r] = label]

(* The K of a call is read, once.                                          *)
ReadK(r) == since' = [since EXCEPT ![r].newest = cycle - 1]

(* The locals go out of scope.                                             *)
Return(r) ==
  /\ Goto(r, "idle")
  /\ my' = [my EXCEPT ![r] = NoLocals]
  /\ since' = [since EXCEPT ![r] = NotSince]

(* getIlluminance, getDuty, getRef, getEnergy, ...: K, then one cell.      *)
GetBegin(r) ==
  /\ rpc[r] = "idle"
  /\ ReadK(r)
  /\ my' = [my EXCEPT ![r].n = getkPrevious(K)]
  /\ Goto(r, "get")
  /\ UNCHANGED <<writerVars, told>>

GetRead(r) ==
  /\ rpc[r] = "get"
  /\ told' = [told EXCEPT ![r] = cell[my[r].n].E]
  /\ Return(r)
  /\ UNCHANGED writerVars

(* getPower: K once, then the difference of two energies, then of their    *)
(* times.                                                                  *)
PowerBegin(r) ==
  /\ rpc[r] = "idle"
  /\ ReadK(r)
  /\ my' = [my EXCEPT ![r].n = getkPrevious(K)]
  /\ Goto(r, "deltaE")
  /\ UNCHANGED <<writerVars, told>>

PowerE(r) ==
  /\ rpc[r] = "deltaE"
  /\ LET n == my[r].n
     IN  my' = [my EXCEPT ![r].deltaE = cell[n].E - cell[getkPrevious(n)].E]
  /\ Goto(r, "deltat")
  /\ UNCHANGED <<writerVars, since, told>>

(* Faulty variant: K is read again.                                        *)
PowerTAgain(r) ==
  /\ rpc[r] = "deltat"
  /\ LET n == getkPrevious(K)
     IN  my' = [my EXCEPT ![r].deltat = cell[n].t - cell[getkPrevious(n)].t]
  /\ Goto(r, "power")
  /\ UNCHANGED <<writerVars, since, told>>

PowerT(r) ==
  /\ rpc[r] = "deltat"
  /\ LET n == my[r].n
     IN  my' = [my EXCEPT ![r].deltat = cell[n].t - cell[getkPrevious(n)].t]
  /\ Goto(r, "power")
  /\ UNCHANGED <<writerVars, since, told>>

(* getLastMinuteDuty: the whole vector is copied for the call of           *)
(* get_minute, which reads K only then.                                    *)
MinuteCopy(r) ==
  /\ rpc[r] = "idle"
  /\ my' = [my EXCEPT ![r].vec = [c \in Index |-> cell[c].line]]
  /\ Goto(r, "copied")
  /\ UNCHANGED <<writerVars, since, told>>

MinuteBegin(r) ==
  /\ rpc[r] = "copied"
  /\ ReadK(r)
  /\ LET n == getkPrevious(K)
     IN  my' = [my EXCEPT ![r].n = n, ![r].millis = cell[n].t]
  /\ Goto(r, "loop")
  /\ UNCHANGED <<writerVars, told>>

(* Faulty variant: the vector is walked forwards.                          *)
MinuteStepForwards(r) ==
  LET n == IF my[r].n = N-1 THEN 0 ELSE my[r].n + 1
  IN  /\ rpc[r] = "loop"
      /\ my' = [my EXCEPT ![r].values = Append(@, my[r].vec[my[r].n]), ![r].n = n]
      /\ Goto(r, IF my[r].millis <= cell[n].t + Window /\ Len(my'[r].values) <= N
                 THEN "loop" ELSE "minute")
      /\ UNCHANGED <<writerVars, since, told>>

(* One turn of do ... while; t is read in place, the values from the copy. *)
MinuteStep(r) ==
  LET n == getkPrevious(my[r].n)
  IN  /\ rpc[r] = "loop"
      /\ my' = [my EXCEPT ![r].values = Append(@, my[r].vec[my[r].n]), ![r].n = n]
      /\ Goto(r, IF my[r].millis <= cell[n].t + Window /\ Len(my'[r].values) <= N
                 THEN "loop" ELSE "minute")
      /\ UNCHANGED <<writerVars, since, told>>

Answer(r) ==
  /\ rpc[r] \in {"power", "minute"}
  /\ Return(r)
  /\ UNCHANGED <<writerVars, told>>

Call(r) ==
  \/ GetBegin(r) \/ GetRead(r)
  \/ PowerBegin(r) \/ PowerE(r) \/ PowerT(r)
  \/ MinuteCopy(r) \/ MinuteBegin(r) \/ MinuteStep(r)
  \/ Answer(r)

Next == Writer \/ \E r \in Reader : Call(r)

Spec == Init /\ [][Next]_vars

--------------------------------------------------------------------------------
(* Properties.                                                             *)

(* The comment of getkNext and getkPrevious (Arduino.cpp:103) has K run    *)
(* round the vectors: a line is stored in a cell of theirs.                *)
StoredInRing == wpc = "stored" => K \in Index

(* One line in N+1 is stored nowhere: the last of a lap.                   *)
Lost(line) == \E lap \in 1 .. line : line = lap * (N+1)

(* Without a lock, a getter still returns the newest complete line at the  *)
(* moment it read K, or the one before if the newest was lost at K = N:    *)
(* never a line half stored, never one of the lap before.                  *)
GetterIsFresh ==
  \A r \in Reader : rpc[r] = "get" =>
    LET line == cell[my[r].n].line
    IN  \/ line = since[r].newest
        \/ line = since[r].newest - 1 /\ Lost(since[r].newest)

(* The energy that a client is told never goes back from one answer to the *)
(* next: not at the end of the ring, not over the lost line.               *)
MeterRunsForward == [][\A r \in Reader : told'[r] >= told[r]]_vars

(* getPower never answers a negative power, nor more than the lamp draws   *)
(* at full duty: its two energies and two times are of the same two        *)
(* neighbouring lines, wherever the writer is.  And it does not divide by  *)
(* zero (Arduino.cpp:229), at the first line and at the end of the ring    *)
(* either: once a line has come the two times differ, unless two lines     *)
(* come in the same millisecond.  Before, the answer is 0/0, not a number. *)
PowerIsPower ==
  \A r \in Reader : rpc[r] = "power" =>
    /\ 0 <= my[r].deltaE /\ my[r].deltaE <= MaxDuty * my[r].deltat
    /\ since[r].newest > 0 /\ 0 \notin Step => my[r].deltat > 0

(* Once a line has come, get_minute stays inside new_vec, although its     *)
(* test would let it write new_vec[N] (before, all times are 0 and it      *)
(* does); and value i is that of the i-th line back, one further when a    *)
(* lost line lies between.  Only the first values, as many as lines were   *)
(* completed between the copy of the vector and the reading of K, are      *)
(* stale.                                                                  *)
MinuteValues ==
  \A r \in Reader : since[r].newest > 0 =>
    /\ Len(my[r].values) <= N
    /\ \A i \in 1 .. Len(my[r].values) :
         i > since[r].late => since[r].newest - i - my[r].values[i] \in {-1, 0}

================================================================================
