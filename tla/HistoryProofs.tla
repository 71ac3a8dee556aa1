----------------------------- MODULE HistoryProofs -----------------------------
(***************************************************************************)
(* What History promises for vectors of any length and any number of       *)
(* client threads.                                                         *)
(***************************************************************************)
EXTENDS History, TLAPS

(* getkPrevious leads from every K, the index past the end included, to a  *)
(* cell of the vectors: a getter never reads outside them.                 *)
LEMMA PreviousInRing ==
  ASSUME NEW k \in 0 .. N
  PROVE  getkPrevious(k) \in Index
  BY HistoryAssumption DEF getkPrevious, Index

(* getkNext never goes beyond N, one more than the ring has room for.      *)
LEMMA NextToN ==
  ASSUME NEW k \in 0 .. N
  PROVE  getkNext(k) \in 0 .. N
  BY HistoryAssumption DEF getkNext

(* Reading K, and changing locals one field at a time, keeps their types.  *)
LEMMA ReadKType ==
  ASSUME TypeOK, NEW r \in Reader, ReadK(r)
  PROVE  since' \in [Reader -> Since]
  <1>1. since \in [Reader -> Since] /\ cycle - 1 \in Nat
    BY DEF TypeOK
  <1> QED
    BY <1>1 DEF ReadK, Since

(* Every step keeps every variable in its type.                            *)
LEMMA TypeStep ==
  ASSUME TypeOK, [Next]_vars
  PROVE  TypeOK'
  <1> USE HistoryAssumption DEF TypeOK
  <1> \A k \in 0 .. N : getkPrevious(k) \in Index
    BY PreviousInRing
  <1>0. Index \subseteq 0 .. N
    BY DEF Index
  <1>1. CASE Receive
    <2>1. PICK s \in Step : now' = now + s
      BY <1>1 DEF Receive
    <2>2. now' \in Nat
      <3>1. s \in Nat /\ now \in Nat
        OBVIOUS
      <3> HIDE DEF TypeOK
      <3> QED
        BY <2>1, <3>1
    <2>3. PICK v \in Duty :
            cell' = [c \in Index |->
                       IF c = K THEN [cell[c] EXCEPT !.line = cycle, !.d = v, !.t = now']
                                ELSE cell[c]]
      BY <1>1 DEF Receive
    <2>4. cell' \in [Index -> Record]
      <3>1. cycle \in Nat /\ v \in Nat /\ cell \in [Index -> Record]
        BY DEF Duty
      <3> HIDE DEF TypeOK
      <3>2. ASSUME NEW c \in Index
            PROVE  [cell[c] EXCEPT !.line = cycle, !.d = v, !.t = now'] \in Record
        BY <2>2, <3>1 DEF Record
      <3> QED
        BY <2>3, <3>1, <3>2
    <2>5. since' \in [Reader -> Since]
      <3>1. since \in [Reader -> Since]
        OBVIOUS
      <3> HIDE DEF TypeOK
      <3>2. ASSUME NEW r \in Reader
            PROVE  [since[r] EXCEPT !.lag = @ + 1] \in Since
        BY <3>1 DEF Since
      <3> QED
        BY <1>1, <3>1, <3>2 DEF Receive
    <2> QED
      BY <1>1, <2>2, <2>4, <2>5 DEF Receive, WriterState
  <1>2. CASE CountEnergy
    <2> DEFINE q == getkPrevious(K)
    <2>1. q \in Index
      BY PreviousInRing
    <2>2. ASSUME NEW c \in Index
          PROVE  cell[q].E + cell[q].d * (cell[c].t - cell[q].t) \in Int
      BY <2>1 DEF Record
    <2>3. cell' \in [Index -> Record]
      BY <1>2, <2>2 DEF CountEnergy, Record
    <2> QED
      BY <1>2, <2>3 DEF CountEnergy, WriterState
  <1>3. CASE Advance
    <2>1. since' \in [Reader -> Since]
      BY <1>3 DEF Advance, Since
    <2>2. K' \in 0 .. N
      BY <1>3, NextToN DEF Advance
    <2> QED
      BY <1>3, <2>1, <2>2 DEF Advance, WriterState
  <1>4. ASSUME NEW r \in Reader, Call(r)
        PROVE  TypeOK'
    <2> USE DEF Goto, ReadK, ReaderState
    <2>0. NoLocals \in Locals /\ NotSince \in Since
      <3>1. 0 \in Index /\ [c \in Index |-> 0] \in [Index -> Nat]
        BY DEF Index
      <3>2. <<>> \in Seq(Nat)
        OBVIOUS
      <3> QED
        BY <3>1, <3>2 DEF NoLocals, Locals, NotSince, Since
    <2>1. CASE GetBegin(r)
      <3>1. since' \in [Reader -> Since]
        BY <2>1, ReadKType DEF GetBegin
      <3>2. my' \in [Reader -> Locals]
        BY <2>1 DEF GetBegin, Locals
      <3> QED
        BY <2>1, <3>1, <3>2 DEF GetBegin, writerVars
    <2>2. CASE GetRead(r)
      <3>1. cell[my[r].n].E \in Int
        BY DEF Locals, Record
      <3> QED
        BY <2>2, <2>0, <3>1 DEF GetRead, Return, writerVars
    <2>3. CASE PowerBegin(r)
      <3>1. since' \in [Reader -> Since]
        BY <2>3, ReadKType DEF PowerBegin
      <3>2. my' \in [Reader -> Locals]
        BY <2>3 DEF PowerBegin, Locals
      <3> QED
        BY <2>3, <3>1, <3>2 DEF PowerBegin, writerVars
    <2>4. CASE PowerE(r)
      <3>1. my[r].n \in Index /\ getkPrevious(my[r].n) \in Index
        BY <1>0 DEF Locals
      <3>2. cell[my[r].n].E - cell[getkPrevious(my[r].n)].E \in Int
        BY <3>1 DEF Record
      <3> QED
        BY <2>4, <3>2 DEF PowerE, writerVars, Locals
    <2>5. CASE PowerT(r)
      <3>1. my[r].n \in Index /\ getkPrevious(my[r].n) \in Index
        BY <1>0 DEF Locals
      <3>2. cell[my[r].n].t - cell[getkPrevious(my[r].n)].t \in Int
        BY <3>1 DEF Record
      <3> QED
        BY <2>5, <3>2 DEF PowerT, writerVars, Locals
    <2>6. CASE MinuteCopy(r)
      <3>1. [c \in Index |-> cell[c].line] \in [Index -> Nat]
        BY DEF Record
      <3>2. my' \in [Reader -> Locals]
        <4>1. my \in [Reader -> Locals]
          OBVIOUS
        <4> HIDE DEF TypeOK
        <4> QED
          BY <2>6, <3>1, <4>1 DEF MinuteCopy, Locals
      <3> QED
        BY <2>6, <3>2 DEF MinuteCopy, writerVars
    <2>7. CASE MinuteBegin(r)
      <3>1. cell[getkPrevious(K)].t \in Nat
        BY DEF Record
      <3>2. since' \in [Reader -> Since]
        BY <2>7, ReadKType DEF MinuteBegin
      <3>3. my' \in [Reader -> Locals]
        BY <2>7, <3>1 DEF MinuteBegin, Locals
      <3> QED
        BY <2>7, <3>2, <3>3 DEF MinuteBegin, writerVars
    <2>8. CASE MinuteStep(r)
      <3> DEFINE n == getkPrevious(my[r].n)
      <3>1. my[r].n \in Index /\ n \in Index /\ my[r].values \in Seq(Nat)
        BY <1>0 DEF Locals
      <3>2. my[r].vec[my[r].n] \in Nat
        BY <3>1 DEF Locals
      <3>3. Append(my[r].values, my[r].vec[my[r].n]) \in Seq(Nat)
        BY <3>1, <3>2
      <3>4. my' \in [Reader -> Locals]
        <4>1. my' = [my EXCEPT ![r].values = Append(@, my[r].vec[my[r].n]), ![r].n = n]
          BY <2>8 DEF MinuteStep
        <4>2. my \in [Reader -> Locals]
          OBVIOUS
        <4> HIDE DEF TypeOK, n
        <4> QED
          BY <3>1, <3>3, <4>1, <4>2 DEF Locals
      <3>5. rpc' \in [Reader -> ReaderState]
        BY <2>8 DEF MinuteStep
      <3> QED
        BY <2>8, <3>4, <3>5 DEF MinuteStep, writerVars
    <2>9. CASE Answer(r)
      BY <2>9, <2>0 DEF Answer, Return, writerVars
    <2> QED
      BY <1>4, <2>1, <2>2, <2>3, <2>4, <2>5, <2>6, <2>7, <2>8, <2>9 DEF Call
  <1>5. CASE UNCHANGED vars
    BY <1>5 DEF vars, writerVars
  <1> QED
    BY <1>1, <1>2, <1>3, <1>4, <1>5 DEF Next, Writer

--------------------------------------------------------------------------------
(* What the ring holds, in terms of the number of complete lines.          *)

last    == cycle - 1
Writing == wpc # "idle"

(* K counts the lines of the lap, the lost one included.                   *)
LapCount == \E lap \in 0 .. last : last = lap * (N+1) + K

(* The line in cell c: of this lap before K, of the one before from K on,  *)
(* none if there was no such line.                                         *)
Held(c) ==
  IF c < K THEN last - K + 1 + c
  ELSE IF last - K - N + c > 0 THEN last - K - N + c
  ELSE 0

RingHolds ==
  \A c \in Index : IF Writing /\ c = K THEN cell[c].line = cycle
                                       ELSE cell[c].line = Held(c)

(* A getter between its two reads: the writer has not gone far, and the    *)
(* cell the getter is about to read is what it was.                        *)
GetterHolds ==
  \A r \in Reader : rpc[r] = "get" =>
    /\ since[r].newest <= last
    /\ since[r].lag <= Slack
    /\ last + (IF Writing THEN 1 ELSE 0) <= since[r].newest + since[r].lag + 1
    /\ since[r].newest = 0 => my[r].n = N-1
    /\ cell[my[r].n].line \in {since[r].newest, since[r].newest - 1}
    /\ cell[my[r].n].line # since[r].newest => Lost(since[r].newest)

IdleIsFresh == \A r \in Reader : rpc[r] = "idle" => since[r].lag = 0

Inv == TypeOK /\ LapCount /\ RingHolds /\ GetterHolds /\ IdleIsFresh

(* The arithmetic of a lap: K never exceeds the number of lines, and at    *)
(* K = 0 the newest line is the one that was lost.                         *)
LEMMA LapFacts ==
  ASSUME TypeOK, LapCount
  PROVE  /\ last \in Nat /\ K <= last
         /\ K = 0 /\ last > 0 => Lost(last)
  <1>1. last \in Nat /\ K \in Nat /\ N \in Nat
    BY HistoryAssumption DEF TypeOK, last
  <1>2. PICK lap \in 0 .. last : last = lap * (N+1) + K
    BY DEF LapCount
  <1>3. lap * (N+1) >= 0
    BY <1>1
  <1>4. ASSUME K = 0, last > 0
        PROVE  Lost(last)
    <2>1. lap # 0
      BY <1>1, <1>2, <1>4
    <2> HIDE DEF last
    <2>2. lap \in 1 .. last /\ last = lap * (N+1)
      BY <1>1, <1>2, <1>4, <2>1
    <2> QED
      BY <2>2 DEF Lost
  <1> HIDE DEF last
  <1> QED
    BY <1>1, <1>2, <1>3, <1>4

(* A step keeps the count of the laps.                                     *)
LEMMA LapStep ==
  ASSUME TypeOK, LapCount, [Next]_vars
  PROVE  LapCount'
  <1>1. last \in Nat /\ K \in 0 .. N /\ N \in Nat
    BY HistoryAssumption DEF TypeOK, last
  <1>2. PICK lap \in 0 .. last : last = lap * (N+1) + K
    BY DEF LapCount
  <1>3. CASE Advance
    <2>1. last' = last + 1 /\ K' = getkNext(K)
      BY <1>3, <1>1 DEF Advance, last, TypeOK
    <2> HIDE DEF last
    <2>2. CASE K < N
      <3>1. lap \in 0 .. last' /\ last' = lap * (N+1) + K'
        BY <1>1, <1>2, <2>1, <2>2 DEF getkNext
      <3> QED
        BY <3>1 DEF LapCount
    <2>3. CASE K = N
      <3>1. K' = 0
        BY <1>1, <2>1, <2>3 DEF getkNext
      <3>2. (lap+1) * (N+1) = lap * (N+1) + (N+1)
        BY <1>1
      <3>3. lap + 1 \in 0 .. last' /\ last' = (lap+1) * (N+1) + K'
        BY <1>1, <1>2, <2>1, <2>3, <3>1, <3>2
      <3> QED
        BY <3>3 DEF LapCount
    <2> QED
      BY <1>1, <2>2, <2>3
  <1>4. CASE UNCHANGED <<K, cycle>>
    BY <1>2, <1>4 DEF LapCount, last
  <1> QED
    BY <1>3, <1>4 DEF Next, Writer, Receive, CountEnergy, Call, GetBegin, GetRead,
       PowerBegin, PowerE, PowerT, MinuteCopy, MinuteBegin, MinuteStep, Answer,
       vars, writerVars

(* A step keeps what is known of the lines in the cells.                   *)
LEMMA RingStep ==
  ASSUME TypeOK, LapCount, RingHolds, [Next]_vars
  PROVE  RingHolds'
  <1>1. /\ cycle \in Nat /\ last = cycle - 1 /\ K \in 0 .. N /\ N \in Nat
        /\ Index = 0 .. N-1 /\ cell \in [Index -> Record]
    BY HistoryAssumption DEF TypeOK, last, Index
  <1>2. K <= last
    BY LapFacts
  <1>3. CASE Receive
    <2>1. \A c \in Index : cell'[c].line = IF c = K THEN cycle ELSE cell[c].line
      BY <1>1, <1>3 DEF Receive, Record
    <2> QED
      BY <1>3, <2>1 DEF Receive, RingHolds, Writing, Held, last
  <1>4. CASE CountEnergy
    <2>1. \A c \in Index : cell'[c].line = cell[c].line
      BY <1>1, <1>4 DEF CountEnergy, Record
    <2> QED
      BY <1>4, <2>1 DEF CountEnergy, RingHolds, Writing, Held, last
  <1>5. CASE Advance
    <2>1. Writing /\ ~Writing' /\ K' = getkNext(K) /\ last' = last + 1 /\ cell' = cell
      BY <1>1, <1>5 DEF Advance, Writing, last
    <2>2. ASSUME NEW c \in Index
          PROVE  cell[c].line = Held(c)'
      <3>1. cell[c].line = IF c = K THEN cycle ELSE Held(c)
        BY <2>1 DEF RingHolds
      <3> QED
        BY <1>1, <1>2, <2>1, <3>1 DEF Held, getkNext
    <2> QED
      BY <2>1, <2>2 DEF RingHolds
  <1>6. CASE UNCHANGED writerVars
    BY <1>6 DEF writerVars, RingHolds, Writing, Held, last
  <1> QED
    BY <1>3, <1>4, <1>5, <1>6 DEF Next, Writer, Call, GetBegin, GetRead,
       PowerBegin, PowerE, PowerT, MinuteCopy, MinuteBegin, MinuteStep, Answer, vars

(* What GetterHolds says of one reader.                                    *)
Holds(r) ==
  /\ since[r].newest <= last
  /\ since[r].lag <= Slack
  /\ last + (IF Writing THEN 1 ELSE 0) <= since[r].newest + since[r].lag + 1
  /\ since[r].newest = 0 => my[r].n = N-1
  /\ cell[my[r].n].line \in {since[r].newest, since[r].newest - 1}
  /\ cell[my[r].n].line # since[r].newest => Lost(since[r].newest)

(* A getter that has just read K knows the cell it will read.              *)
LEMMA GetBeginHolds ==
  ASSUME Inv, NEW r \in Reader, GetBegin(r)
  PROVE  Holds(r)'
  <1> DEFINE n == getkPrevious(K)
  <1>1. /\ last = cycle - 1 /\ K \in 0 .. N /\ N \in Nat /\ N >= 3 /\ Slack \in Nat
        /\ Index = 0 .. N-1 /\ since \in [Reader -> Since] /\ my \in [Reader -> Locals]
    BY HistoryAssumption DEF Inv, TypeOK, last, Index
  <1>2. last \in Nat /\ K <= last /\ (K = 0 /\ last > 0 => Lost(last))
    BY LapFacts DEF Inv
  <1>3. /\ since'[r].newest = last /\ since'[r].lag = 0 /\ my'[r].n = n
        /\ UNCHANGED <<wpc, K, cycle, cell>>
    BY <1>1 DEF GetBegin, ReadK, Inv, IdleIsFresh, Since, Locals, writerVars
  <1>4. last' = last /\ Writing' = Writing
    BY <1>3 DEF last, Writing
  <1>5. n \in Index /\ n # K
    BY <1>1, PreviousInRing DEF getkPrevious
  <1>6. cell[n].line = Held(n)
    BY <1>5 DEF Inv, RingHolds
  <1> HIDE DEF last
  <1>7. CASE K = 0
    <2>1. n = N-1 /\ cell[n].line = IF last - 1 > 0 THEN last - 1 ELSE 0
      BY <1>1, <1>2, <1>6, <1>7 DEF getkPrevious, Held
    <2> QED
      BY <1>1, <1>2, <1>3, <1>4, <1>7, <2>1 DEF Holds, Lost
  <1>8. CASE K > 0
    <2>1. n = K-1 /\ cell[n].line = last /\ last > 0
      BY <1>1, <1>2, <1>6, <1>8 DEF getkPrevious, Held
    <2> QED
      BY <1>1, <1>2, <1>3, <1>4, <2>1 DEF Holds
  <1> QED
    BY <1>1, <1>7, <1>8

(* The line that begins to arrive does not go to the cell of a getter.     *)
LEMMA ReceiveSpares ==
  ASSUME Inv, NEW r \in Reader, rpc[r] = "get", Receive
  PROVE  my[r].n # K
  <1>1. /\ last = cycle - 1 /\ K \in 0 .. N /\ N \in Nat /\ Slack \in Nat /\ Slack + 3 <= N
        /\ Index = 0 .. N-1 /\ my[r].n \in Index
        /\ since[r].newest \in Nat /\ since[r].lag \in Nat
    BY HistoryAssumption DEF Inv, TypeOK, last, Index, Since, Locals
  <1>2. last \in Nat /\ K <= last
    BY LapFacts DEF Inv
  <1>3. since[r].lag < Slack /\ ~Writing
    BY DEF Receive, Writing
  <1>4. Holds(r)
    BY DEF Inv, GetterHolds, Holds
  <1>5. last <= since[r].newest + Slack
    <2> HIDE DEF last
    <2>1. last + 0 <= since[r].newest + since[r].lag + 1
      BY <1>3, <1>4 DEF Holds
    <2> QED
      BY <1>1, <1>2, <1>3, <2>1
  <1> HIDE DEF last
  <1>6. SUFFICES ASSUME my[r].n = K
                 PROVE  FALSE
    OBVIOUS
  <1>7. cell[K].line = IF last - N > 0 THEN last - N ELSE 0
    BY <1>1, <1>2, <1>3, <1>6 DEF Inv, RingHolds, Held
  <1>8. CASE cell[K].line = since[r].newest
    BY <1>1, <1>2, <1>4, <1>5, <1>6, <1>7, <1>8 DEF Holds
  <1>9. CASE cell[K].line = since[r].newest - 1 /\ Lost(since[r].newest)
    <2>1. PICK lap \in 1 .. since[r].newest : since[r].newest = lap * (N+1)
      BY <1>9 DEF Lost
    <2>2. lap * (N+1) >= N+1
      BY <1>1, <2>1
    <2>3. since[r].newest >= N+1
      BY <2>1, <2>2
    <2> QED
      BY <1>1, <1>2, <1>5, <1>7, <1>9, <2>3
  <1> QED
    BY <1>4, <1>6, <1>8, <1>9 DEF Holds

(* The writer lets a getter hold what it holds.                            *)
LEMMA WriterKeepsGetter ==
  ASSUME Inv, NEW r \in Reader, rpc[r] = "get", Writer
  PROVE  Holds(r)'
  <1>1. /\ last = cycle - 1 /\ cycle \in Nat \ {0} /\ Slack \in Nat /\ N \in Nat
        /\ my[r].n \in Index /\ since[r] \in Since /\ since[r].newest \in Nat
        /\ since[r].lag \in Nat
        /\ cell \in [Index -> Record]
    BY HistoryAssumption DEF Inv, TypeOK, last, Since, Locals
  <1>2. Holds(r)
    BY DEF Inv, GetterHolds, Holds
  <1>3. my' = my
    BY DEF Writer, Receive, CountEnergy, Advance
  <1>4. cell'[my[r].n].line = cell[my[r].n].line /\ since'[r].newest = since[r].newest
    <2>1. CASE Receive
      <3>1. my[r].n # K
        BY <2>1, ReceiveSpares
      <3> QED
        BY <1>1, <2>1, <3>1 DEF Receive, Since, Inv, TypeOK
    <2>2. CASE CountEnergy
      BY <1>1, <2>2 DEF CountEnergy, Record
    <2>3. CASE Advance
      BY <1>1, <2>3 DEF Advance, Since, Inv, TypeOK
    <2> QED
      BY <2>1, <2>2, <2>3 DEF Writer
  <1>5. /\ since'[r].newest <= last' /\ since'[r].lag <= Slack
        /\ last' + (IF Writing' THEN 1 ELSE 0) <= since'[r].newest + since'[r].lag + 1
    <2>1. CASE Receive
      <3>1. /\ since'[r].lag = since[r].lag + 1 /\ since[r].lag < Slack
            /\ last' = last /\ ~Writing /\ Writing'
        BY <1>1, <2>1 DEF Receive, Since, Writing, last, Inv, TypeOK
      <3> QED
        BY <1>1, <1>2, <1>4, <3>1 DEF Holds
    <2>2. CASE CountEnergy
      <3>1. since' = since /\ last' = last /\ Writing /\ Writing'
        BY <2>2 DEF CountEnergy, Writing, last
      <3> QED
        BY <1>2, <3>1 DEF Holds
    <2>3. CASE Advance
      <3>1. since'[r].lag = since[r].lag /\ last' = last + 1 /\ Writing /\ ~Writing'
        BY <1>1, <2>3 DEF Advance, Writing, last
      <3> QED
        BY <1>1, <1>2, <1>4, <3>1 DEF Holds
    <2> QED
      BY <2>1, <2>2, <2>3 DEF Writer
  <1> QED
    BY <1>2, <1>3, <1>4, <1>5 DEF Holds

(* A call of one reader leaves the others, and the ring, as they are.      *)
LEMMA CallKeepsGetters ==
  ASSUME Inv, NEW q \in Reader, Call(q), NEW r \in Reader, rpc'[r] = "get"
  PROVE  Holds(r)'
  <1>1. rpc \in [Reader -> ReaderState] /\ my \in [Reader -> Locals] /\ since \in [Reader -> Since]
    BY DEF Inv, TypeOK
  <1>2. CASE q = r
    <2>1. GetBegin(r)
      BY <1>1, <1>2 DEF Call, GetBegin, GetRead, PowerBegin, PowerE, PowerT, MinuteCopy,
         MinuteBegin, MinuteStep, Answer, Goto, Return
    <2> QED
      BY <2>1, GetBeginHolds
  <1>3. CASE q # r
    <2>1. rpc[r] = "get" /\ my'[r] = my[r] /\ since'[r] = since[r]
         /\ UNCHANGED <<wpc, K, cycle, cell>>
      BY <1>1, <1>3 DEF Call, GetBegin, GetRead, PowerBegin, PowerE, PowerT, MinuteCopy,
         MinuteBegin, MinuteStep, Answer, Goto, Return, ReadK, writerVars
    <2>2. Holds(r)
      BY <2>1 DEF Inv, GetterHolds, Holds
    <2> QED
      BY <2>1, <2>2 DEF Holds, last, Writing
  <1> QED
    BY <1>2, <1>3

(* A reader that makes no call has no line to wait out.                    *)
LEMMA IdleStep ==
  ASSUME TypeOK, IdleIsFresh, [Next]_vars
  PROVE  IdleIsFresh'
  <1>1. rpc \in [Reader -> ReaderState] /\ since \in [Reader -> Since]
    BY DEF TypeOK
  <1>2. CASE Writer
    BY <1>1, <1>2 DEF Writer, Receive, CountEnergy, Advance, IdleIsFresh
  <1>3. ASSUME NEW q \in Reader, Call(q)
        PROVE  IdleIsFresh'
    BY <1>1, <1>3 DEF Call, GetBegin, GetRead, PowerBegin, PowerE, PowerT, MinuteCopy,
       MinuteBegin, MinuteStep, Answer, Goto, Return, ReadK, NotSince, IdleIsFresh
  <1>4. CASE UNCHANGED vars
    BY <1>4 DEF vars, IdleIsFresh
  <1> QED
    BY <1>2, <1>3, <1>4 DEF Next

(* What is known of the getters survives every step.                       *)
LEMMA GetterStep ==
  ASSUME Inv, [Next]_vars
  PROVE  GetterHolds'
  <1>1. SUFFICES ASSUME NEW r \in Reader, rpc'[r] = "get"
                 PROVE  Holds(r)'
    BY DEF GetterHolds, Holds
  <1>2. CASE Writer
    <2>1. rpc[r] = "get"
      BY <1>1, <1>2 DEF Writer, Receive, CountEnergy, Advance
    <2> QED
      BY <1>2, <2>1, WriterKeepsGetter
  <1>3. ASSUME NEW q \in Reader, Call(q)
        PROVE  Holds(r)'
    BY <1>1, <1>3, CallKeepsGetters
  <1>4. CASE UNCHANGED vars
    BY <1>1, <1>4 DEF vars, writerVars, Inv, GetterHolds, Holds, last, Writing
  <1> QED
    BY <1>2, <1>3, <1>4 DEF Next

(* At the start the ring is blank and nobody reads.                        *)
LEMMA InvInit ==
  ASSUME Init
  PROVE  Inv
  <1>1. TypeOK
    <2>1. 0 \in Index /\ <<>> \in Seq(Nat)
      BY HistoryAssumption DEF Index
    <2> QED
      BY <2>1, HistoryAssumption
      DEF Init, TypeOK, WriterState, ReaderState, Record, Blank, Locals, NoLocals, Since, NotSince
  <1>2. LapCount
    <2>1. last = 0 /\ K = 0 /\ 0 = 0 * (N+1) + 0
      BY HistoryAssumption DEF Init, last
    <2> QED
      BY <2>1 DEF LapCount
  <1>3. RingHolds
    BY HistoryAssumption DEF Init, RingHolds, Writing, Held, last, Blank, Index
  <1>4. GetterHolds /\ IdleIsFresh
    BY DEF Init, GetterHolds, IdleIsFresh, NotSince
  <1> QED
    BY <1>1, <1>2, <1>3, <1>4 DEF Inv

(* The types hold of every execution; among them, K stays in 0 .. N and    *)
(* every index a getter reads at lies in the vectors.                      *)
THEOREM TypeCorrect == Spec => []TypeOK
  <1>1. Init => TypeOK
    BY InvInit DEF Inv
  <1> QED
    BY <1>1, TypeStep, PTL DEF Spec

(* Every getter returns the newest complete line of the moment at which it *)
(* read K, or the one before when the newest was lost: for vectors of any  *)
(* length and any number of threads, as long as fewer than N-2 lines       *)
(* arrive during one call.                                                 *)
THEOREM Freshness == Spec => []GetterIsFresh
  <1>1. Inv /\ [Next]_vars => Inv'
    BY TypeStep, LapStep, RingStep, GetterStep, IdleStep DEF Inv
  <1>2. Inv => GetterIsFresh
    BY DEF Inv, GetterHolds, GetterIsFresh
  <1> QED
    BY InvInit, <1>1, <1>2, PTL DEF Spec

--------------------------------------------------------------------------------
(* The energy of the lines, and the power between two of them.             *)

(* What calcEnergy adds from the line before the one in cell c to that.    *)
Chain(c) ==
  LET q == getkPrevious(c)
  IN  /\ cell[c].t >= cell[q].t
      /\ cell[c].E = cell[q].E + cell[q].d * (cell[c].t - cell[q].t)

(* The oldest line: the cell of the next one, or that behind the present.  *)
Oldest ==
  IF K = N THEN 0
  ELSE IF ~Writing THEN K
  ELSE IF K < N-1 THEN K+1 ELSE 0

(* All others follow on the line in the cell before theirs, but for the    *)
(* one whose energy is still to be counted.                                *)
Chained ==
  /\ \A c \in Index : cell[c].d \in Duty /\ cell[c].t <= now
  /\ wpc = "stored" => \A c \in Index : c = K => cell[c].t = now
  /\ \A c \in Index : c # Oldest /\ ~(wpc = "stored" /\ c = K) => Chain(c)

(* The energy of the newest line stored.                                   *)
Meter == cell[getkPrevious(K)].E

(* How far K has moved since a reader found it at k.                       *)
From(r, k) ==
  LET moved == last - since[r].newest
  IN  /\ moved >= 0 /\ since[r].lag <= Slack
      /\ moved + (IF Writing THEN 1 ELSE 0) <= since[r].lag + 1
      /\ K = IF k + moved <= N THEN k + moved ELSE k + moved - N - 1

Apart(r) == \E k \in 0 .. N : my[r].n = getkPrevious(k) /\ From(r, k)

(* The cells are counted backwards from k.                                 *)
Age(c, k) == IF c < k THEN k - c ELSE k - c + N

(* Unless two lines come in the same millisecond, a later line is of a     *)
(* later time.                                                             *)
Timed ==
  0 \notin Step =>
    \A c, d \in Index : cell[c].line > cell[d].line => cell[c].t > cell[d].t

(* The two lines that getPower divides by the times of.                    *)
Differ(r) ==
  since[r].newest > 0 /\ 0 \notin Step => cell[my[r].n].t > cell[getkPrevious(my[r].n)].t

Reads(r) ==
  /\ rpc[r] \in {"get", "deltaE", "deltat"} => Apart(r)
  /\ rpc[r] \in {"deltaE", "deltat"} => Chain(my[r].n) /\ Differ(r)
  /\ rpc[r] = "deltat" => my[r].deltaE = cell[my[r].n].E - cell[getkPrevious(my[r].n)].E
  /\ rpc[r] = "power"  => /\ 0 <= my[r].deltaE /\ my[r].deltaE <= MaxDuty * my[r].deltat
                          /\ since[r].newest > 0 /\ 0 \notin Step => my[r].deltat > 0

(* No reader has been told more than the newest energy.                    *)
Tells(r) ==
  /\ told[r] <= Meter
  /\ rpc[r] = "get" => told[r] <= cell[my[r].n].E /\ cell[my[r].n].E <= Meter

EInv == Inv /\ Chained /\ Timed /\ \A r \in Reader : Reads(r) /\ Tells(r)

(* The numbers of the ring.                                                *)
LEMMA RingFacts ==
  ASSUME TypeOK
  PROVE  /\ N \in Nat /\ N >= 3 /\ Slack \in Nat /\ Slack + 3 <= N /\ MaxDuty \in Nat
         /\ Index = 0 .. N-1 /\ K \in 0 .. N /\ getkPrevious(K) \in Index
         /\ cell \in [Index -> Record]
         /\ \A c \in Index : /\ getkPrevious(c) \in Index /\ getkPrevious(c) # c
                             /\ cell[c].t \in Nat /\ cell[c].d \in Nat /\ cell[c].E \in Int
         /\ now \in Nat /\ cycle \in Nat /\ cycle >= 1 /\ last \in Nat /\ last = cycle - 1
<1>1. N \in Nat /\ N >= 3 /\ Slack \in Nat /\ Slack + 3 <= N /\ MaxDuty \in Nat
  BY HistoryAssumption
<1>2. /\ Index = 0 .. N-1 /\ K \in 0 .. N /\ cell \in [Index -> Record] /\ now \in Nat
      /\ cycle \in Nat /\ cycle >= 1
  BY DEF TypeOK, Index
<1>3. getkPrevious(K) \in Index
  BY <1>2, PreviousInRing
<1>4. ASSUME NEW c \in Index
      PROVE  /\ getkPrevious(c) \in Index /\ getkPrevious(c) # c
             /\ cell[c].t \in Nat /\ cell[c].d \in Nat /\ cell[c].E \in Int
  BY <1>1, <1>2 DEF getkPrevious, Record
<1> QED
  BY <1>1, <1>2, <1>3, <1>4 DEF last

(* The line in cell c when K is k and l is the last line.                  *)
LineAt(k, l, c) ==
  IF c < k THEN l - k + 1 + c
  ELSE IF l - k - N + c > 0 THEN l - k - N + c
  ELSE 0

(* No cell holds a line that has not come.                                 *)
LEMMA HeldLines ==
  ASSUME TypeOK, LapCount, RingHolds, NEW c \in Index
  PROVE  /\ cell[c].line \in Nat /\ (~Writing => cell[c].line <= last)
         /\ ~Writing \/ c # K => cell[c].line = LineAt(K, last, c)
<1>1. N \in Nat /\ K \in 0 .. N /\ K <= last /\ last \in Nat /\ c \in 0 .. N-1 /\ cell[c] \in Record
  BY RingFacts, LapFacts DEF TypeOK
<1>2. cell[c].line \in Nat
  BY <1>1 DEF Record
<1>3. ~Writing \/ c # K => cell[c].line = LineAt(K, last, c)
  BY DEF RingHolds, Held, LineAt
<1> HIDE DEF last
<1>4. LineAt(K, last, c) <= last
  BY <1>1 DEF LineAt
<1> QED
  BY <1>2, <1>3, <1>4

(* A line that begins to arrive changes the cell at K only.                *)
LEMMA ReceiveCells ==
  ASSUME TypeOK, Receive
  PROVE  /\ wpc = "idle" /\ wpc' = "stored" /\ K' = K /\ cycle' = cycle
         /\ now' \in Nat /\ now' >= now
         /\ \A c \in Index : c # K => cell'[c] = cell[c]
         /\ \A c \in Index : c = K => /\ cell'[c].t = now' /\ cell'[c].d \in Duty
                                      /\ cell'[c].E = cell[c].E
<1>1. PICK s \in Step : now' = now + s
  BY DEF Receive
<1>2. s \in Nat /\ now \in Nat /\ cell \in [Index -> Record]
  BY HistoryAssumption, RingFacts
<1>3. now' \in Nat /\ now' >= now
  BY ONLY <1>1, <1>2
<1>4. PICK v \in Duty :
        cell' = [c \in Index |-> IF c = K THEN [cell[c] EXCEPT !.line = cycle, !.d = v, !.t = now']
                                 ELSE cell[c]]
  BY DEF Receive
<1>5. \A c \in Index : c = K => /\ cell'[c].t = now' /\ cell'[c].d = v
                                /\ cell'[c].E = cell[c].E
  BY <1>2, <1>4 DEF Record
<1> QED
  BY <1>3, <1>4, <1>5 DEF Receive

(* The energy is counted at K only.                                        *)
LEMMA CountCells ==
  ASSUME TypeOK, CountEnergy
  PROVE  /\ wpc = "stored" /\ wpc' = "counted" /\ K' = K /\ cycle' = cycle /\ now' = now
         /\ \A c \in Index : c # K => cell'[c] = cell[c]
         /\ \A c \in Index : cell'[c].t = cell[c].t /\ cell'[c].d = cell[c].d
         /\ \A c \in Index : c = K =>
              LET q == getkPrevious(c)
              IN  cell'[c].E = cell[q].E + cell[q].d * (cell[c].t - cell[q].t)
  BY RingFacts DEF CountEnergy, Record

(* The cells behind that at K.                                             *)
LEMMA Behind ==
  ASSUME TypeOK, NEW c \in Index, c # Oldest
  PROVE  Writing => getkPrevious(c) # K
  BY RingFacts DEF Oldest, getkPrevious

(* What a line says of the chain depends on two cells.                     *)
LEMMA ChainFrame ==
  ASSUME NEW c \in Index, Chain(c), cell'[c] = cell[c],
         cell'[getkPrevious(c)] = cell[getkPrevious(c)]
  PROVE  Chain(c)'
  BY DEF Chain, getkPrevious

(* The writer keeps the chain.                                             *)
LEMMA ChainStep ==
  ASSUME TypeOK, Chained, [Next]_vars
  PROVE  Chained'
<1>1. CASE Receive
  <2>1. Writing' /\ ~Writing
    BY <1>1, ReceiveCells DEF Writing
  <2>2. ASSUME NEW c \in Index PROVE cell'[c].d \in Duty /\ cell'[c].t <= now'
    <3>1. cell[c].d \in Duty /\ cell[c].t <= now /\ cell[c].t \in Nat /\ now \in Nat
      BY RingFacts DEF Chained
    <3>2. now' \in Nat /\ now' >= now
      BY <1>1, ReceiveCells
    <3>3. CASE c # K
      <4>1. cell'[c] = cell[c]
        BY <1>1, <3>3, ReceiveCells
      <4> QED
        BY <3>1, <3>2, <4>1
    <3>4. CASE c = K
      <4>1. cell'[c].d \in Duty /\ cell'[c].t = now'
        BY <1>1, <3>4, ReceiveCells
      <4> QED
        BY <3>2, <4>1
    <3> QED
      BY <3>3, <3>4
  <2>3. ASSUME NEW c \in Index, c # Oldest', c # K PROVE Chain(c)'
    <3>1. c # Oldest /\ getkPrevious(c) # K /\ getkPrevious(c) \in Index
      <4>1. /\ K \in 0 .. N /\ N \in Nat /\ N >= 3 /\ c \in 0 .. N-1
            /\ getkPrevious(c) \in Index
        BY RingFacts
      <4>2. c # IF K = N THEN 0 ELSE IF K < N-1 THEN K+1 ELSE 0
        BY <1>1, <2>1, <2>3, ReceiveCells DEF Oldest
      <4>3. Oldest = IF K = N THEN 0 ELSE K
        BY <2>1 DEF Oldest
      <4> QED
        BY <2>3, <4>1, <4>2, <4>3 DEF getkPrevious
    <3>2. Chain(c)
      BY <1>1, <2>3, <3>1, ReceiveCells DEF Chained
    <3> QED
      BY <1>1, <2>3, <3>1, <3>2, ReceiveCells, ChainFrame
  <2> QED
    BY <1>1, <2>2, <2>3, ReceiveCells DEF Chained
<1>2. CASE CountEnergy
  <2>1. Writing' /\ Writing /\ Oldest' = Oldest
    BY <1>2, CountCells DEF Writing, Oldest
  <2>2. ASSUME NEW c \in Index, c # Oldest PROVE Chain(c)'
    <3>1. getkPrevious(c) # K /\ getkPrevious(c) \in Index
      BY <2>1, <2>2, Behind, RingFacts
    <3>2. CASE c = K
      <4> DEFINE q == getkPrevious(c)
      <4>1. /\ cell'[c].t = cell[c].t /\ cell'[q] = cell[q] /\ q' = q
            /\ cell'[c].E = cell[q].E + cell[q].d * (cell[c].t - cell[q].t)
        BY <1>2, <3>1, <3>2, CountCells DEF getkPrevious
      <4>2. cell[c].t = now /\ cell[q].t <= now
        BY <1>2, <3>1, <3>2, CountCells DEF Chained
      <4> QED
        BY <4>1, <4>2 DEF Chain
    <3>3. CASE c # K
      BY <1>2, <2>2, <3>1, <3>3, CountCells, ChainFrame DEF Chained
    <3> QED
      BY <3>2, <3>3
  <2>3. \A c \in Index : cell'[c].d \in Duty /\ cell'[c].t <= now'
    BY <1>2, CountCells DEF Chained
  <2> QED
    BY <1>2, <2>1, <2>2, <2>3, CountCells DEF Chained
<1>3. CASE Advance
  <2>1. /\ wpc = "counted" /\ wpc' = "idle" /\ K' = getkNext(K) /\ cell' = cell /\ now' = now
        /\ Writing /\ ~Writing'
    BY <1>3 DEF Advance, Writing
  <2>2. Oldest' = Oldest
    BY <2>1, RingFacts DEF Oldest, getkNext
  <2> QED
    BY <2>1, <2>2 DEF Chained, Chain, getkPrevious
<1>4. CASE UNCHANGED writerVars
  BY <1>4 DEF writerVars, Chained, Oldest, Writing, Chain, getkPrevious
<1> QED
  BY <1>1, <1>2, <1>3, <1>4 DEF Next, Writer, Call, GetBegin, GetRead,
     PowerBegin, PowerE, PowerT, MinuteCopy, MinuteBegin, MinuteStep, Answer, vars

(* The writer stores a line at a time later than all before, and changes   *)
(* no line or time otherwise.                                              *)
LEMMA TimedStep ==
  ASSUME TypeOK, LapCount, RingHolds, Chained, Timed, [Next]_vars
  PROVE  Timed'
<1> SUFFICES ASSUME 0 \notin Step, NEW c \in Index, NEW d \in Index,
                    cell'[c].line > cell'[d].line
             PROVE  cell'[c].t > cell'[d].t
  BY DEF Timed
<1>1. CASE Receive
  <2>1. PICK s \in Step : now' = now + s
    BY <1>1 DEF Receive
  <2>2. s \in Nat /\ s # 0 /\ now \in Nat
    BY HistoryAssumption, RingFacts
  <2>3. now' \in Nat /\ now' > now
    BY ONLY <2>1, <2>2
  <2>4. /\ \A b \in Index : b # K => cell'[b] = cell[b]
        /\ \A b \in Index : b = K => cell'[b].t = now'
    BY <1>1, ReceiveCells
  <2>5. \A b \in Index : b = K => cell'[b].line = cycle
    BY <1>1, RingFacts DEF Receive, Record
  <2>6. /\ cell[c].t <= now /\ cell[d].t <= now /\ cell[c].t \in Nat /\ cell[d].t \in Nat
        /\ cell[c].line \in Nat /\ cell[c].line < cycle
    <3>1. cell[c].line \in Nat /\ cell[c].line <= last
      BY <1>1, HeldLines, ReceiveCells DEF Writing
    <3>2. cycle \in Nat /\ last \in Nat /\ last = cycle - 1
      BY RingFacts
    <3>3. cell[c].line < cycle
      BY ONLY <3>1, <3>2
    <3> QED
      BY <3>1, <3>3, RingFacts DEF Chained
  <2>7. CASE d = K
    <3>1. cell'[d].line = cycle /\ (c = K => cell'[c].line = cycle)
          /\ (c # K => cell'[c].line = cell[c].line)
      BY <2>4, <2>5, <2>7
    <3>2. cycle \in Nat
      BY RingFacts
    <3>3. ~(cell'[c].line > cell'[d].line)
      BY <2>6, <3>1, <3>2
    <3> QED
      BY <3>3
  <2>8. CASE d # K /\ c = K
    <3>1. cell'[c].t = now' /\ cell'[d].t = cell[d].t
      BY <2>4, <2>8
    <3> QED
      BY <2>2, <2>3, <2>6, <3>1
  <2>9. CASE d # K /\ c # K
    BY <2>4, <2>9 DEF Timed
  <2> QED
    BY <2>7, <2>8, <2>9
<1>2. CASE CountEnergy
  <2>1. \A b \in Index : cell'[b].line = cell[b].line /\ cell'[b].t = cell[b].t
    BY <1>2, RingFacts DEF CountEnergy, Record
  <2> QED
    BY <2>1 DEF Timed
<1>3. CASE Advance \/ UNCHANGED writerVars
  BY <1>3 DEF Advance, writerVars, Timed
<1> QED
  BY <1>1, <1>2, <1>3 DEF Next, Writer, Call, GetBegin, GetRead,
     PowerBegin, PowerE, PowerT, MinuteCopy, MinuteBegin, MinuteStep, Answer, vars

(* Once a line has come, whoever reads K finds two lines of which the one  *)
(* is later.                                                               *)
LEMMA NewestLater ==
  ASSUME TypeOK, LapCount, RingHolds, Timed, last > 0, 0 \notin Step
  PROVE  cell[getkPrevious(K)].t > cell[getkPrevious(getkPrevious(K))].t
<1> DEFINE n == getkPrevious(K)
           p == getkPrevious(n)
<1>1. /\ N \in Nat /\ N >= 3 /\ Index = 0 .. N-1 /\ K \in 0 .. N
      /\ last \in Nat /\ last > 0 /\ n \in Index /\ p \in Index
  BY RingFacts
<1>2. /\ n = (IF K = 0 THEN N-1 ELSE K-1) /\ p = (IF n = 0 THEN N-1 ELSE n-1)
      /\ K <= last /\ (K = 0 => last > N)
  <2>1. K <= last /\ (K = 0 => Lost(last))
    BY LapFacts, <1>1
  <2>2. ASSUME NEW l \in Nat, NEW lap \in 1 .. l, l = lap * (N+1) PROVE l > N
    <3>1. lap * (N+1) = (N+1) + (lap-1) * (N+1) /\ (lap-1) * (N+1) >= 0
      BY <1>1
    <3> QED
      BY <1>1, <2>2, <3>1
  <2>3. K = 0 => last > N
    BY <1>1, <2>1, <2>2 DEF Lost
  <2> QED
    BY <2>1, <2>3 DEF getkPrevious
<1> HIDE DEF n, p, last
<1>3. n # K /\ p # K
  BY <1>1, <1>2
<1>4. cell[n].line = LineAt(K, last, n) /\ cell[p].line = LineAt(K, last, p)
  BY <1>1, <1>3, HeldLines
<1>5. LineAt(K, last, n) > LineAt(K, last, p)
  <2>1. CASE K = 0
    BY <1>1, <1>2, <2>1 DEF LineAt
  <2>2. CASE K = 1
    BY <1>1, <1>2, <2>2 DEF LineAt
  <2>3. CASE K > 1
    BY <1>1, <1>2, <2>3 DEF LineAt
  <2> QED
    BY <1>1, <2>1, <2>2, <2>3
<1>6. cell[n].t > cell[p].t
  BY <1>1, <1>4, <1>5 DEF Timed
<1> QED
  BY <1>6 DEF n, p

(* Whoever reads K finds a line that follows on the one before.            *)
LEMMA NewestChained ==
  ASSUME TypeOK, Chained
  PROVE  Chain(getkPrevious(K))
<1>1. /\ getkPrevious(K) \in Index /\ getkPrevious(K) # Oldest /\ getkPrevious(K) # K
  BY RingFacts DEF Oldest, getkPrevious
<1> QED
  BY <1>1 DEF Chained

(* A duty cycle times a time.                                              *)
LEMMA Products ==
  ASSUME NEW a \in Nat, NEW m \in Nat, a <= m, NEW b \in Nat
  PROVE  0 <= a * b /\ a * b <= m * b
<1>1. m - a \in Nat /\ m * b = a * b + (m - a) * b
  OBVIOUS
<1>2. \A x, y \in Nat : x * y \in Nat
  OBVIOUS
<1>3. a * b \in Nat /\ (m - a) * b \in Nat
  BY <1>1, <1>2
<1> DEFINE p == a * b
           r == (m - a) * b
<1> HIDE DEF p, r
<1> QED
  BY <1>1, <1>3 DEF p, r

(* The meter runs forward.                                                 *)
LEMMA MeterStep ==
  ASSUME TypeOK, Chained, [Next]_vars
  PROVE  Meter \in Int /\ Meter' \in Int /\ Meter <= Meter'
<1>0. Meter \in Int
  BY RingFacts DEF Meter
<1>1. CASE Receive \/ CountEnergy
  <2>1. getkPrevious(K) \in Index /\ getkPrevious(K) # K /\ K' = K
    BY <1>1, RingFacts, ReceiveCells, CountCells DEF getkPrevious
  <2>2. cell'[getkPrevious(K)] = cell[getkPrevious(K)]
    BY <1>1, <2>1, ReceiveCells, CountCells
  <2> QED
    BY <1>0, <2>1, <2>2 DEF Meter, getkPrevious
<1>2. CASE Advance
  <2>1. wpc = "counted" /\ Writing /\ K' = getkNext(K) /\ cell' = cell
    BY <1>2 DEF Advance, Writing
  <2>2. CASE K = N
    BY <1>0, <2>1, <2>2, RingFacts DEF Meter, getkNext, getkPrevious
  <2>3. CASE K < N
    <3> DEFINE q == getkPrevious(K)
    <3>1. K \in Index /\ K # Oldest /\ q \in Index /\ getkPrevious(K') = K
      <4>1. K \in 0 .. N /\ N \in Nat /\ N >= 3 /\ Index = 0 .. N-1 /\ q \in Index
        BY RingFacts
      <4>2. K' = K+1
        BY <2>1, <2>3 DEF getkNext
      <4>3. Oldest = IF K < N-1 THEN K+1 ELSE 0
        BY <2>1, <2>3, <4>1 DEF Oldest
      <4> HIDE DEF q
      <4> QED
        BY <2>3, <4>1, <4>2, <4>3 DEF getkPrevious
    <3>2. Chain(K)
      BY <2>1, <3>1 DEF Chained
    <3>3. cell[K].E = cell[q].E + cell[q].d * (cell[K].t - cell[q].t) /\ cell[K].t >= cell[q].t
      BY <3>2 DEF Chain
    <3>4. /\ cell[K].E \in Int /\ cell[q].E \in Int /\ cell[q].d \in Nat
          /\ cell[K].t - cell[q].t \in Nat
      <4>1. /\ cell[K].E \in Int /\ cell[K].t \in Nat
            /\ cell[q].E \in Int /\ cell[q].d \in Nat /\ cell[q].t \in Nat
        BY <3>1, RingFacts
      <4> HIDE DEF q
      <4> QED
        BY <3>3, <4>1
    <3>5. 0 <= cell[q].d * (cell[K].t - cell[q].t)
      BY <3>4, Products
    <3>6. Meter = cell[q].E /\ Meter' = cell[K].E
      BY <2>1, <3>1 DEF Meter, getkPrevious
    <3> DEFINE p == cell[q].d * (cell[K].t - cell[q].t)
    <3>7. p \in Int
      BY <3>4
    <3> HIDE DEF p, q
    <3> QED
      BY <3>3, <3>4, <3>5, <3>6, <3>7 DEF p
  <2> QED
    BY <2>2, <2>3, RingFacts
<1>3. CASE UNCHANGED writerVars
  BY <1>0, <1>3 DEF writerVars, Meter, getkPrevious
<1> QED
  BY <1>1, <1>2, <1>3 DEF Next, Writer, Call, GetBegin, GetRead,
     PowerBegin, PowerE, PowerT, MinuteCopy, MinuteBegin, MinuteStep, Answer, vars

(* The locals of a reader.                                                 *)
LEMMA ReaderFacts ==
  ASSUME TypeOK, NEW r \in Reader
  PROVE  /\ since[r].lag \in Nat /\ since[r].newest \in Nat /\ since[r] \in Since
         /\ my[r] \in Locals /\ my[r].n \in Index /\ getkPrevious(my[r].n) \in Index
         /\ told[r] \in Int /\ rpc[r] \in ReaderState
<1>1. my[r] \in Locals /\ since[r] \in Since /\ told[r] \in Int /\ rpc[r] \in ReaderState
  BY DEF TypeOK
<1>2. my[r].n \in Index /\ since[r].lag \in Nat /\ since[r].newest \in Nat
  BY <1>1 DEF Locals, Since
<1>3. getkPrevious(my[r].n) \in Index
  BY <1>2, RingFacts
<1> QED
  BY <1>1, <1>2, <1>3

(* The numbers of a reader that found K at k.                              *)
LEMMA FromFacts ==
  ASSUME TypeOK, NEW r \in Reader, NEW k \in 0 .. N, From(r, k)
  PROVE  \E moved \in Nat :
           /\ last = since[r].newest + moved /\ moved <= since[r].lag + 1
           /\ Writing => moved <= since[r].lag
           /\ since[r].lag <= Slack
           /\ K = IF k + moved <= N THEN k + moved ELSE k + moved - N - 1
<1> DEFINE moved == last - since[r].newest
<1>1. last \in Nat /\ since[r].lag \in Nat /\ since[r].newest \in Nat
  BY RingFacts, ReaderFacts
<1>2. /\ moved >= 0 /\ since[r].lag <= Slack
      /\ moved + (IF Writing THEN 1 ELSE 0) <= since[r].lag + 1
      /\ K = IF k + moved <= N THEN k + moved ELSE k + moved - N - 1
  BY DEF From
<1> HIDE DEF last
<1>3. moved \in Nat /\ last = since[r].newest + moved
  BY <1>1, <1>2
<1>4. moved <= since[r].lag + 1 /\ (Writing => moved <= since[r].lag)
  BY <1>1, <1>2, <1>3
<1> QED
  BY <1>2, <1>3, <1>4

(* And back to the reader, after a step.                                   *)
LEMMA FromIntro ==
  ASSUME TypeOK', NEW r \in Reader, NEW k \in 0 .. N, NEW moved \in Nat,
         last' = since'[r].newest + moved, moved <= since'[r].lag + 1,
         Writing' => moved <= since'[r].lag, since'[r].lag <= Slack,
         K' = IF k + moved <= N THEN k + moved ELSE k + moved - N - 1
  PROVE  From(r, k)'
<1>1. last' \in Nat /\ since'[r].lag \in Nat /\ since'[r].newest \in Nat
  <2>1. cycle' \in Nat \ {0} /\ since'[r] \in Since /\ last' = cycle' - 1
    BY DEF TypeOK, last
  <2>2. since'[r].lag \in Nat /\ since'[r].newest \in Nat
    BY <2>1 DEF Since
  <2> QED
    BY <2>1, <2>2
<1> HIDE DEF last
<1>2. moved = last' - since'[r].newest
  BY <1>1
<1>3. moved + (IF Writing' THEN 1 ELSE 0) <= since'[r].lag + 1
  BY <1>1
<1> QED
  BY <1>2, <1>3 DEF From

(* The writer does not write to the cells behind k: by the bound on the    *)
(* lines that arrive during one call, it is Slack cells ahead at most.     *)
LEMMA Spares ==
  ASSUME TypeOK, NEW r \in Reader, NEW k \in 0 .. N, From(r, k),
         Writing \/ since[r].lag < Slack,
         NEW c \in Index, Age(c, k) <= N - Slack - 1
  PROVE  c # K
<1>1. N \in Nat /\ Slack \in Nat /\ Slack + 3 <= N /\ c \in 0 .. N-1 /\ since[r].lag \in Nat
  BY RingFacts, ReaderFacts
<1>2. PICK moved \in Nat :
        /\ moved <= since[r].lag + 1 /\ (Writing => moved <= since[r].lag)
        /\ since[r].lag <= Slack
        /\ K = IF k + moved <= N THEN k + moved ELSE k + moved - N - 1
  BY FromFacts
<1>3. moved <= Slack
  BY <1>1, <1>2
<1> QED
  BY <1>1, <1>2, <1>3 DEF Age

(* A reader in a call is not left behind.                                  *)
LEMMA FromStep ==
  ASSUME TypeOK, TypeOK', NEW r \in Reader, NEW k \in 0 .. N, From(r, k),
         rpc[r] # "idle", rpc[r] # "copied", Writer
  PROVE  /\ From(r, k)' /\ rpc' = rpc /\ my' = my /\ told' = told
         /\ since'[r].newest = since[r].newest /\ since'[r].late = since[r].late
         /\ \A c \in Index : Age(c, k) <= N - Slack - 1 => cell'[c] = cell[c]
<1>1. /\ N \in Nat /\ Slack \in Nat /\ since[r].lag \in Nat /\ since[r].newest \in Nat
      /\ since \in [Reader -> Since] /\ cycle \in Nat /\ last \in Nat /\ K \in 0 .. N
  BY RingFacts, ReaderFacts DEF TypeOK
<1>2. PICK moved \in Nat :
        /\ last = since[r].newest + moved /\ moved <= since[r].lag + 1
        /\ Writing => moved <= since[r].lag
        /\ since[r].lag <= Slack
        /\ K = IF k + moved <= N THEN k + moved ELSE k + moved - N - 1
  BY FromFacts
<1>3. CASE Receive
  <2>1. /\ since[r].lag < Slack /\ rpc' = rpc /\ my' = my /\ told' = told
        /\ since' = [q \in Reader |-> IF rpc[q] = "idle" THEN since[q]
                                      ELSE [since[q] EXCEPT !.lag = @ + 1]]
    BY <1>3 DEF Receive
  <2>2. /\ since'[r].lag = since[r].lag + 1 /\ since'[r].newest = since[r].newest
        /\ since'[r].late = since[r].late
    BY <1>1, <2>1 DEF Since
  <2>3. last' = last /\ K' = K
    BY <1>3, ReceiveCells DEF last
  <2>4. moved <= since'[r].lag /\ since'[r].lag <= Slack
    BY <1>1, <1>2, <2>1, <2>2
  <2>5. From(r, k)'
    <3>1. last' = since'[r].newest + moved /\ moved <= since'[r].lag + 1
      BY <1>1, <1>2, <2>2, <2>3, <2>4
    <3>2. K' = IF k + moved <= N THEN k + moved ELSE k + moved - N - 1
      BY <1>2, <2>3
    <3> QED
      BY <2>4, <3>1, <3>2, FromIntro
  <2> QED
    BY <1>3, <2>1, <2>2, <2>5, Spares, ReceiveCells
<1>4. CASE CountEnergy
  <2>1. since' = since /\ rpc' = rpc /\ my' = my /\ told' = told /\ Writing' /\ Writing
    BY <1>4 DEF CountEnergy, Writing
  <2>2. last' = last /\ K' = K
    BY <1>4, CountCells DEF last
  <2>3. From(r, k)'
    BY <2>1, <2>2 DEF From
  <2> QED
    BY <1>4, <2>1, <2>3, Spares, CountCells
<1>5. CASE Advance
  <2>1. /\ wpc = "counted" /\ wpc' = "idle" /\ K' = getkNext(K) /\ cycle' = cycle + 1
        /\ rpc' = rpc /\ my' = my /\ told' = told /\ cell' = cell
        /\ since' = [q \in Reader |-> IF rpc[q] = "copied" THEN [since[q] EXCEPT !.late = @ + 1]
                                      ELSE since[q]]
    BY <1>5 DEF Advance
  <2>2. since'[r] = since[r] /\ Writing /\ ~Writing'
    BY <2>1 DEF Writing
  <2>3. last' = last + 1
    BY <1>1, <2>1 DEF last
  <2>4. moved + 1 \in Nat /\ last' = since'[r].newest + (moved + 1)
    BY <1>1, <1>2, <2>2, <2>3
  <2>5. moved + 1 <= since'[r].lag + 1 /\ since'[r].lag <= Slack /\ moved <= Slack
    BY <1>1, <1>2, <2>2
  <2>6. K' = IF k + (moved+1) <= N THEN k + (moved+1) ELSE k + (moved+1) - N - 1
    <3>1. Slack + 3 <= N
      BY RingFacts
    <3> QED
      BY <1>1, <1>2, <2>1, <2>5, <3>1 DEF getkNext
  <2>7. From(r, k)'
    BY <2>2, <2>4, <2>5, <2>6, FromIntro
  <2> QED
    BY <2>1, <2>2, <2>7
<1> QED
  BY <1>3, <1>4, <1>5 DEF Writer

(* Neither is a getter, and its two cells stay what they are.              *)
LEMMA ApartStep ==
  ASSUME TypeOK, TypeOK', NEW r \in Reader, Apart(r), rpc[r] # "idle", rpc[r] # "copied", Writer
  PROVE  /\ Apart(r)' /\ rpc' = rpc /\ my' = my /\ told' = told
         /\ cell'[my[r].n] = cell[my[r].n]
         /\ cell'[getkPrevious(my[r].n)] = cell[getkPrevious(my[r].n)]
<1>1. PICK k \in 0 .. N : my[r].n = getkPrevious(k) /\ From(r, k)
  BY DEF Apart
<1>2. /\ From(r, k)' /\ rpc' = rpc /\ my' = my /\ told' = told
      /\ \A c \in Index : Age(c, k) <= N - Slack - 1 => cell'[c] = cell[c]
  BY <1>1, FromStep
<1>3. /\ my[r].n \in Index /\ getkPrevious(my[r].n) \in Index
      /\ Age(my[r].n, k) <= 2 /\ Age(getkPrevious(my[r].n), k) <= 2 /\ 2 <= N - Slack - 1
      /\ Age(my[r].n, k) \in Nat /\ Age(getkPrevious(my[r].n), k) \in Nat
  <2> DEFINE n == my[r].n
             p == getkPrevious(n)
  <2>1. /\ N \in Nat /\ Slack \in Nat /\ Slack + 3 <= N /\ N >= 3 /\ Index = 0 .. N-1
        /\ n \in Index /\ p \in Index
    BY RingFacts, ReaderFacts
  <2>2. n = (IF k = 0 THEN N-1 ELSE k-1) /\ p = (IF n = 0 THEN N-1 ELSE n-1)
    BY <1>1 DEF getkPrevious
  <2> HIDE DEF n, p
  <2>3. Age(n, k) = 1
    BY <2>1, <2>2 DEF Age
  <2>4. Age(p, k) = 2
    BY <2>1, <2>2 DEF Age
  <2> QED
    BY <2>1, <2>3, <2>4 DEF n, p
<1>4. Age(my[r].n, k) <= N - Slack - 1 /\ Age(getkPrevious(my[r].n), k) <= N - Slack - 1
  <2>1. N \in Nat /\ Slack \in Nat
    BY RingFacts
  <2> DEFINE x == Age(my[r].n, k)
             y == Age(getkPrevious(my[r].n), k)
  <2>2. x <= 2 /\ y <= 2 /\ 2 <= N - Slack - 1 /\ x \in Nat /\ y \in Nat
    BY <1>3
  <2> HIDE DEF x, y
  <2>3. x <= N - Slack - 1 /\ y <= N - Slack - 1
    BY ONLY <2>1, <2>2
  <2> QED
    BY <2>3 DEF x, y
<1>5. Apart(r)'
  BY <1>1, <1>2 DEF Apart, getkPrevious
<1> QED
  BY <1>2, <1>3, <1>4, <1>5

(* Whoever has just read K is right behind it.                             *)
LEMMA BeginFrom ==
  ASSUME TypeOK, TypeOK', NEW r \in Reader, since[r].lag <= Slack, ReadK(r),
         UNCHANGED writerVars
  PROVE  /\ From(r, K)' /\ since'[r].newest = last /\ since'[r].late = since[r].late
         /\ since'[r].lag = since[r].lag
<1>1. /\ last = cycle - 1 /\ cycle \in Nat /\ N \in Nat /\ Slack \in Nat /\ K \in 0 .. N
      /\ since \in [Reader -> Since] /\ last \in Nat /\ since[r].lag \in Nat
  BY RingFacts, ReaderFacts DEF TypeOK
<1>2. since' = [since EXCEPT ![r].newest = cycle - 1] /\ wpc' = wpc /\ K' = K /\ cycle' = cycle
  BY DEF ReadK, writerVars
<1>3. /\ since'[r].newest = last /\ since'[r].lag = since[r].lag
      /\ since'[r].late = since[r].late
  BY <1>1, <1>2 DEF Since
<1>4. last' = last
  BY <1>2 DEF last
<1> PICK k \in 0 .. N : k = K
  BY <1>1
<1>5. K' = (IF k + 0 <= N THEN k + 0 ELSE k + 0 - N - 1) /\ last' = since'[r].newest + 0
  BY <1>1, <1>2, <1>3, <1>4
<1>6. 0 \in Nat /\ 0 <= since'[r].lag + 1 /\ 0 <= since'[r].lag /\ since'[r].lag <= Slack
  BY <1>1, <1>3
<1>7. From(r, k)'
  BY <1>5, <1>6, FromIntro
<1> QED
  BY <1>2, <1>3, <1>7

(* A getter that begins is.                                                *)
LEMMA BeginApart ==
  ASSUME TypeOK, TypeOK', IdleIsFresh, NEW r \in Reader, GetBegin(r) \/ PowerBegin(r)
  PROVE  /\ Apart(r)' /\ my'[r].n = getkPrevious(K) /\ UNCHANGED writerVars
         /\ rpc'[r] \in {"get", "deltaE"} /\ (rpc'[r] = "get" <=> GetBegin(r)) /\ told' = told
<1>1. my \in [Reader -> Locals] /\ rpc \in [Reader -> ReaderState] /\ K \in 0 .. N
  BY DEF TypeOK
<1>2. /\ ReadK(r) /\ my' = [my EXCEPT ![r].n = getkPrevious(K)]
      /\ rpc[r] = "idle" /\ UNCHANGED <<writerVars, told>> /\ K' = K
      /\ rpc'[r] \in {"get", "deltaE"} /\ (rpc'[r] = "get" <=> GetBegin(r))
  BY <1>1 DEF GetBegin, PowerBegin, Goto, writerVars
<1>3. my'[r].n = getkPrevious(K)
  BY <1>1, <1>2 DEF Locals
<1>4. since[r].lag <= Slack
  BY <1>2, RingFacts DEF IdleIsFresh
<1>5. From(r, K)'
  BY <1>2, <1>4, BeginFrom
<1> QED
  BY <1>1, <1>2, <1>3, <1>5 DEF Apart, getkPrevious

(* A call of another reader.                                               *)
LEMMA CallFrame ==
  ASSUME TypeOK, NEW q \in Reader, Call(q), NEW r \in Reader, r # q
  PROVE  /\ rpc'[r] = rpc[r] /\ my'[r] = my[r] /\ since'[r] = since[r] /\ told'[r] = told[r]
         /\ wpc' = wpc /\ K' = K /\ cycle' = cycle /\ cell' = cell
  BY DEF TypeOK, Call, GetBegin, GetRead, PowerBegin, PowerE, PowerT, MinuteCopy,
     MinuteBegin, MinuteStep, Answer, Goto, Return, ReadK, writerVars

(* What a reader knows depends on nothing else.                            *)
LEMMA ReaderFrame ==
  ASSUME NEW r \in Reader, rpc'[r] = rpc[r], my'[r] = my[r], since'[r] = since[r],
         told'[r] = told[r], wpc' = wpc, K' = K, cycle' = cycle, cell' = cell,
         Reads(r), Tells(r)
  PROVE  Reads(r)' /\ Tells(r)'
<1>1. Apart(r) => Apart(r)'
  BY DEF Apart, From, last, Writing, getkPrevious
<1>2. Chain(my[r].n) => Chain(my[r].n)'
  BY DEF Chain, getkPrevious
<1> QED
  BY <1>1, <1>2 DEF Reads, Tells, Differ, Meter, getkPrevious

(* The writer does not change which line a reader has found the newest.    *)
LEMMA NewestStays ==
  ASSUME TypeOK, NEW r \in Reader, Writer
  PROVE  since'[r].newest = since[r].newest
<1>1. since \in [Reader -> Since]
  BY DEF TypeOK
<1> QED
  BY <1>1 DEF Writer, Receive, CountEnergy, Advance, Since

(* The writer lets a reader know what it knows.                            *)
LEMMA WriterKeepsReader ==
  ASSUME EInv, NEW r \in Reader, Writer
  PROVE  Reads(r)' /\ Tells(r)'
<1> DEFINE n == my[r].n
           p == getkPrevious(n)
<1>1. /\ TypeOK /\ TypeOK' /\ Reads(r) /\ Tells(r) /\ told[r] \in Int
      /\ n \in Index /\ p \in Index
  BY ReaderFacts, TypeStep DEF EInv, Inv, Next
<1>2. rpc' = rpc /\ my' = my /\ told' = told
  BY DEF Writer, Receive, CountEnergy, Advance
<1>3. Meter \in Int /\ Meter' \in Int /\ Meter <= Meter'
  BY MeterStep DEF EInv, Inv, Next
<1>4. rpc[r] \in {"get", "deltaE", "deltat"} =>
        Apart(r)' /\ cell'[n] = cell[n] /\ cell'[p] = cell[p]
  BY <1>1, ApartStep DEF Reads
<1>5. rpc[r] \in {"deltaE", "deltat"} => Chain(n)' /\ Differ(r)'
  <2>1. rpc[r] \in {"deltaE", "deltat"} => Chain(n)'
    BY <1>1, <1>2, <1>4, ChainFrame DEF Reads
  <2>2. rpc[r] \in {"deltaE", "deltat"} => Differ(r)'
    BY <1>1, <1>2, <1>4, NewestStays DEF Reads, Differ, getkPrevious
  <2> QED
    BY <2>1, <2>2
<1>6. Reads(r)'
  <2>1. rpc'[r] \in {"deltaE", "deltat"} => Chain(my[r].n)' /\ Differ(r)'
    BY <1>2, <1>5
  <2>2. since'[r].newest = since[r].newest
    BY <1>1, NewestStays
  <2>3. rpc'[r] = "deltat" => my'[r].deltaE = cell'[n].E - cell'[p].E
    BY <1>1, <1>2, <1>4 DEF Reads
  <2> QED
    BY <1>1, <1>2, <1>4, <2>1, <2>2, <2>3 DEF Reads, getkPrevious
<1>7. Tells(r)'
  <2>1. told'[r] <= Meter'
    <3>1. told'[r] = told[r] /\ told[r] <= Meter
      BY <1>1, <1>2 DEF Tells
    <3> QED
      BY <1>1, <1>3, <3>1
  <2>2. ASSUME rpc'[r] = "get"
        PROVE  told'[r] <= cell'[my'[r].n].E /\ cell'[my'[r].n].E <= Meter'
    <3>1. /\ told'[r] = told[r] /\ my'[r].n = n /\ cell'[n] = cell[n]
          /\ told[r] <= cell[n].E /\ cell[n].E <= Meter
      BY <1>1, <1>2, <1>4, <2>2 DEF Tells
    <3>2. cell[n].E \in Int
      BY <1>1, RingFacts
    <3> QED
      BY <1>1, <1>3, <3>1, <3>2
  <2> QED
    BY <2>1, <2>2 DEF Tells
<1> QED
  BY <1>6, <1>7

(* A step of the call itself.                                              *)
LEMMA CallKeepsReader ==
  ASSUME EInv, NEW r \in Reader, Call(r)
  PROVE  Reads(r)' /\ Tells(r)'
<1> DEFINE n == my[r].n
           p == getkPrevious(n)
<1>1. /\ TypeOK /\ Reads(r) /\ Tells(r) /\ told[r] \in Int /\ n \in Index /\ p \in Index
      /\ my \in [Reader -> Locals] /\ told \in [Reader -> Int] /\ rpc \in [Reader -> ReaderState]
      /\ cell[n].E \in Int /\ Meter \in Int /\ IdleIsFresh /\ Chained
      /\ \A c \in Index : cell[c].E \in Int /\ cell[c].t \in Nat /\ cell[c].d \in Duty
  <2>1. TypeOK /\ Reads(r) /\ Tells(r) /\ IdleIsFresh /\ Chained
    BY DEF EInv, Inv
  <2>2. \A c \in Index : cell[c].d \in Duty
    BY <2>1 DEF Chained
  <2> QED
    BY <2>1, <2>2, ReaderFacts, RingFacts DEF Meter, TypeOK
<1>2. UNCHANGED writerVars
  BY DEF Call, GetBegin, GetRead, PowerBegin, PowerE, PowerT, MinuteCopy,
     MinuteBegin, MinuteStep, Answer
<1>3. Meter' = Meter
  BY <1>2 DEF writerVars, Meter, getkPrevious
<1>4. CASE GetBegin(r) \/ PowerBegin(r)
  <2>1. /\ Apart(r)' /\ my'[r].n = getkPrevious(K) /\ rpc'[r] \in {"get", "deltaE"}
        /\ told'[r] = told[r]
    BY <1>1, <1>4, TypeStep, BeginApart DEF Next
  <2>2. Chain(my[r].n)' /\ Differ(r)'
    <3>1. Chain(my[r].n)'
      BY <1>1, <1>2, <2>1, NewestChained DEF writerVars, Chain, getkPrevious
    <3>2. since'[r].newest = last
      BY <1>1, <1>4, RingFacts DEF GetBegin, PowerBegin, ReadK, TypeOK, Since
    <3>3. last > 0 /\ 0 \notin Step =>
            cell[getkPrevious(K)].t > cell[getkPrevious(getkPrevious(K))].t
      BY NewestLater DEF EInv, Inv
    <3>4. Differ(r)'
      BY <1>2, <2>1, <3>2, <3>3 DEF Differ, writerVars, getkPrevious
    <3> QED
      BY <3>1, <3>4
  <2>3. cell'[my'[r].n].E = Meter
    BY <1>2, <2>1 DEF writerVars, Meter
  <2>4. Reads(r)'
    BY <2>1, <2>2 DEF Reads
  <2>5. told[r] <= Meter /\ Meter <= Meter
    BY <1>1 DEF Tells
  <2> QED
    BY <1>3, <2>1, <2>3, <2>4, <2>5 DEF Tells
<1>5. CASE GetRead(r)
  <2>1. rpc'[r] = "idle" /\ told'[r] = cell[n].E /\ rpc[r] = "get"
    BY <1>1, <1>5 DEF GetRead, Return, Goto
  <2> QED
    BY <1>1, <1>3, <2>1 DEF Reads, Tells
<1>6. CASE PowerE(r)
  <2>1. rpc[r] = "deltaE" /\ rpc'[r] = "deltat" /\ told'[r] = told[r] /\ since' = since
    BY <1>1, <1>6 DEF PowerE, Goto
  <2>2. my'[r].n = n /\ my'[r].deltaE = cell[n].E - cell[p].E
    BY <1>1, <1>6 DEF PowerE, Locals
  <2>3. Apart(r)' /\ Chain(my[r].n)' /\ Differ(r)'
    BY <1>1, <1>2, <2>1, <2>2
    DEF Reads, Apart, From, Chain, Differ, writerVars, last, Writing, getkPrevious
  <2> QED
    BY <1>1, <1>2, <1>3, <2>1, <2>2, <2>3 DEF Reads, Tells, writerVars, getkPrevious
<1>7. CASE PowerT(r)
  <2>1. rpc[r] = "deltat" /\ rpc'[r] = "power" /\ told'[r] = told[r] /\ since' = since
    BY <1>1, <1>7 DEF PowerT, Goto
  <2>2. my'[r].deltaE = my[r].deltaE /\ my'[r].deltat = cell[n].t - cell[p].t
    BY <1>1, <1>7 DEF PowerT, Locals
  <2> DEFINE dt == cell[n].t - cell[p].t
             d  == cell[p].d
  <2>3. dt \in Nat /\ d \in Nat /\ d <= MaxDuty /\ MaxDuty \in Nat /\ cell[n].E = cell[p].E + d * dt
    <3>1. Chain(n)
      BY <1>1, <2>1 DEF Reads
    <3>2. cell[n].t \in Nat /\ cell[p].t \in Nat /\ d \in Duty /\ MaxDuty \in Nat
      BY <1>1, RingFacts
    <3>3. cell[n].t >= cell[p].t /\ cell[n].E = cell[p].E + d * dt
      BY <3>1 DEF Chain
    <3>4. d \in Nat /\ d <= MaxDuty
      BY <3>2 DEF Duty
    <3>5. dt \in Nat
      BY ONLY <3>2, <3>3
    <3> QED
      BY <3>2, <3>3, <3>4, <3>5
  <2>4. my[r].deltaE = d * dt
    <3>1. my[r].deltaE = cell[n].E - cell[p].E
      BY <1>1, <2>1 DEF Reads
    <3>2. cell[n].E \in Int /\ cell[p].E \in Int /\ d * dt \in Int
      BY <1>1, <2>3
    <3> HIDE DEF n, p, d, dt
    <3> QED
      BY <2>3, <3>1, <3>2
  <2>5. 0 <= d * dt /\ d * dt <= MaxDuty * dt
    <3> HIDE DEF d, dt
    <3> QED
      BY <2>3, Products
  <2>6. 0 <= my'[r].deltaE /\ my'[r].deltaE <= MaxDuty * my'[r].deltat
    BY <2>2, <2>4, <2>5
  <2>7. since'[r].newest > 0 /\ 0 \notin Step => my'[r].deltat > 0
    <3>1. Differ(r) /\ cell[n].t \in Nat /\ cell[p].t \in Nat
      BY <1>1, <2>1 DEF Reads
    <3>2. ASSUME cell[n].t > cell[p].t PROVE cell[n].t - cell[p].t > 0
      BY ONLY <3>1, <3>2
    <3> QED
      BY <2>1, <2>2, <3>1, <3>2 DEF Differ
  <2> QED
    BY <1>1, <1>3, <2>1, <2>6, <2>7 DEF Reads, Tells
<1>8. CASE MinuteCopy(r) \/ MinuteBegin(r) \/ MinuteStep(r) \/ Answer(r)
  <2>1. rpc'[r] \in {"copied", "loop", "minute", "idle"} /\ told' = told
    BY <1>1, <1>8 DEF MinuteCopy, MinuteBegin, MinuteStep, Answer, Goto, Return
  <2> QED
    BY <1>1, <1>3, <2>1 DEF Reads, Tells
<1> QED
  BY <1>4, <1>5, <1>6, <1>7, <1>8 DEF Call

(* The invariant of the energy.                                            *)
LEMMA EInvInit == Init => EInv
<1> SUFFICES ASSUME Init PROVE EInv
  OBVIOUS
<1>1. Inv
  BY InvInit
<1>2. Chained
  <2>1. /\ \A c \in Index : cell[c] = Blank /\ cell[getkPrevious(c)] = Blank
        /\ now \in Nat /\ 0 \in Duty /\ wpc = "idle"
    BY <1>1, RingFacts DEF Init, Inv, Duty
  <2>2. Blank.t = 0 /\ Blank.d = 0 /\ Blank.E = 0
    BY DEF Blank
  <2>3. 0 = 0 + 0 * (0 - 0) /\ 0 >= 0
    OBVIOUS
  <2> QED
    BY <2>1, <2>2, <2>3 DEF Chained, Chain
<1>3. Timed
  <2>1. \A c \in Index : cell[c].line = 0
    BY DEF Init, Blank
  <2> QED
    BY <2>1 DEF Timed
<1>4. ASSUME NEW r \in Reader PROVE Reads(r) /\ Tells(r)
  <2>1. rpc[r] = "idle" /\ told[r] = 0 /\ Meter = 0
    BY <1>1, RingFacts DEF Init, Inv, Meter, Blank
  <2> QED
    BY <2>1 DEF Reads, Tells
<1> QED
  BY <1>1, <1>2, <1>3, <1>4 DEF EInv

(* A step keeps it.                                                        *)
LEMMA EInvStep == EInv /\ [Next]_vars => EInv'
<1> SUFFICES ASSUME EInv, [Next]_vars PROVE EInv'
  OBVIOUS
<1>1. Inv' /\ Chained' /\ Timed'
  BY TypeStep, LapStep, RingStep, GetterStep, IdleStep, ChainStep, TimedStep DEF EInv, Inv
<1>2. ASSUME NEW r \in Reader PROVE Reads(r)' /\ Tells(r)'
  <2>1. ASSUME NEW q \in Reader, Call(q) PROVE Reads(r)' /\ Tells(r)'
    <3>1. CASE q = r
      BY <2>1, <3>1, CallKeepsReader
    <3>2. CASE q # r
      BY <2>1, <3>2, CallFrame, ReaderFrame DEF EInv, Inv
    <3> QED
      BY <3>1, <3>2
  <2>2. CASE UNCHANGED vars
    BY <2>2, ReaderFrame DEF vars, writerVars, EInv
  <2> QED
    BY <2>1, <2>2, WriterKeepsReader DEF Next
<1> QED
  BY <1>1, <1>2 DEF EInv

(* The answer to getPower is a power: not negative, and not more than the  *)
(* lamp draws at full duty, since the writer stays off both cells from the *)
(* reading of K to that of the times; and it is a number as soon as a line *)
(* has come, since then the two lines are not of the same time.            *)
THEOREM PowerIsPowerHolds == Spec => []PowerIsPower
<1>1. EInv => PowerIsPower
  BY DEF EInv, Reads, PowerIsPower
<1> QED
  BY EInvInit, EInvStep, <1>1, PTL DEF Spec

(* The energy a client is told never decreases: the meter runs forward,    *)
(* and what a getter is about to return lies between the last answer and   *)
(* the meter.                                                              *)
THEOREM MeterRunsForwardHolds == Spec => MeterRunsForward
<1>1. EInv /\ [Next]_vars => [\A r \in Reader : told'[r] >= told[r]]_vars
  <2> SUFFICES ASSUME EInv, Next, NEW r \in Reader PROVE told'[r] >= told[r]
    BY DEF vars
  <2>1. told \in [Reader -> Int] /\ told[r] \in Int
    BY ReaderFacts DEF EInv, Inv, TypeOK
  <2>2. CASE GetRead(r)
    <3>1. rpc[r] = "get" /\ told'[r] = cell[my[r].n].E
      BY <2>1, <2>2 DEF GetRead
    <3>2. told[r] <= cell[my[r].n].E /\ cell[my[r].n].E \in Int
      BY <3>1, ReaderFacts, RingFacts DEF EInv, Inv, Tells
    <3> QED
      BY <2>1, <3>1, <3>2
  <2>3. CASE ~GetRead(r)
    <3>1. told'[r] = told[r]
      BY <2>1, <2>3 DEF Next, Writer, Receive, CountEnergy, Advance, Call, GetBegin, GetRead,
         PowerBegin, PowerE, PowerT, MinuteCopy, MinuteBegin, MinuteStep, Answer
    <3> QED
      BY <2>1, <3>1
  <2> QED
    BY <2>2, <2>3
<1>2. Spec => []EInv
  BY EInvInit, EInvStep, PTL DEF Spec
<1> QED
  BY <1>1, <1>2, PTL DEF Spec, MeterRunsForward

--------------------------------------------------------------------------------
(* The last minute.                                                        *)

(* Lines do not come at the same millisecond, the first comes later than a *)
(* window after the boot, and the vectors are longer than a window, with   *)
(* room for the lines that may arrive during a call: 2000 cells, 1000 ms.  *)
Unhurried ==
  /\ \A s \in Step : s >= 1
  /\ Window < Start
  /\ Window + 2 < N - Slack

(* The line that is arriving, or the last.                                 *)
Begun == IF Writing THEN cycle ELSE last

(* No two lines are nearer in time than in number.                         *)
Spaced ==
  /\ now >= Start
  /\ \A c \in Index :
       /\ cell[c].line = 0 => cell[c].t = 0
       /\ cell[c].line > 0 => cell[c].t > Window /\ now - cell[c].t >= Begun - cell[c].line
  /\ \A c, d \in Index :
       cell[d].line > 0 /\ cell[c].line >= cell[d].line =>
         cell[c].t - cell[d].t >= cell[c].line - cell[d].line

(* A call begins with nothing and collects nothing before the loop.        *)
Clean(r) ==
  /\ since[r].lag <= Slack
  /\ rpc[r] = "idle" => since[r].lag = 0 /\ since[r].late = 0 /\ since[r].newest = 0
  /\ rpc[r] \notin {"loop", "minute"} => my[r].values = <<>>
  /\ rpc[r] = "copied" => since[r].newest = 0

(* The copy holds the lines before k, but for those that came late.        *)
Copied(r, k, l) ==
  \A c \in Index : since[r].late < Age(c, k) /\ Age(c, k) < N => my[r].vec[c] = LineAt(k, l, c)

Collected(r) ==
  /\ Len(my[r].values) <= N
  /\ \A i \in 1 .. Len(my[r].values) :
       i > since[r].late => since[r].newest - i - my[r].values[i] \in {-1, 0}

(* The loop is at the cell behind those it has collected, which holds a    *)
(* line (but for the first turn) of the window.                            *)
Walks(r, k) ==
  LET j == Len(my[r].values)
  IN  /\ From(r, k) /\ Copied(r, k, since[r].newest)
      /\ k <= since[r].newest /\ (k = 0 => since[r].newest > N)
      /\ my[r].millis = cell[getkPrevious(k)].t
      /\ Age(my[r].n, k) = j + 1 /\ j <= since[r].newest /\ j + 1 <= N - Slack - 2

Minutes(r) ==
  /\ rpc[r] = "copied" => Copied(r, K, last)
  /\ since[r].newest > 0 => Collected(r)
  /\ rpc[r] = "loop" /\ since[r].newest > 0 => \E k \in 0 .. N : Walks(r, k)

MInv == Inv /\ Spaced /\ \A r \in Reader : Clean(r) /\ Minutes(r)

(* The writer keeps the lines spaced.                                      *)
LEMMA SpacedStep ==
  ASSUME Unhurried, TypeOK, LapCount, RingHolds, Spaced, [Next]_vars
  PROVE  Spaced'
<1>0. /\ \A c \in Index : cell[c].line \in Nat /\ cell[c].t \in Nat
      /\ now \in Nat /\ cycle \in Nat /\ last \in Nat /\ cycle = last + 1
      /\ Window \in Nat /\ Start \in Nat /\ Window < Start
  BY RingFacts, HeldLines, HistoryAssumption DEF Unhurried
<1>1. CASE Receive
  <2>1. PICK s \in Step : now' = now + s
    BY <1>1 DEF Receive
  <2>2. s \in Nat /\ s >= 1
    BY HistoryAssumption DEF Unhurried
  <2>3. now' \in Nat /\ now' >= now + 1
    BY ONLY <1>0, <2>1, <2>2
  <2>4. /\ \A c \in Index : c # K => cell'[c] = cell[c]
        /\ \A c \in Index : c = K => cell'[c].t = now' /\ cell'[c].line = cycle
        /\ Begun' = cycle /\ Begun = last /\ ~Writing
    <3>1. \A c \in Index : c = K => cell'[c].line = cycle
      BY <1>1, RingFacts DEF Receive, Record
    <3> QED
      BY <1>1, <3>1, ReceiveCells DEF Begun, Writing
  <2>5. now' >= Start
    BY <1>0, <2>3 DEF Spaced
  <2>6. ASSUME NEW c \in Index
        PROVE  /\ cell'[c].line = 0 => cell'[c].t = 0
               /\ cell'[c].line > 0 => /\ cell'[c].t > Window
                                       /\ now' - cell'[c].t >= Begun' - cell'[c].line
    <3>1. CASE c # K
      <4>1. /\ cell'[c].line = cell[c].line /\ cell'[c].t = cell[c].t
            /\ cell[c].line \in Nat /\ cell[c].t \in Nat
        BY <1>0, <2>4, <3>1
      <4>2. /\ cell[c].line = 0 => cell[c].t = 0
            /\ cell[c].line > 0 => cell[c].t > Window /\ now - cell[c].t >= last - cell[c].line
        BY <2>4 DEF Spaced
      <4> HIDE DEF last
      <4>3. /\ now' - cell[c].t >= now - cell[c].t + 1
            /\ cycle - cell[c].line = last - cell[c].line + 1
        BY ONLY <1>0, <2>3, <4>1
      <4>4. cell[c].line > 0 => now' - cell[c].t >= cycle - cell[c].line
        BY ONLY <1>0, <2>3, <4>1, <4>2, <4>3
      <4>5. cell'[c].line = 0 => cell'[c].t = 0
        BY <4>1, <4>2
      <4>6. cell'[c].line > 0 => cell'[c].t > Window /\ now' - cell'[c].t >= Begun' - cell'[c].line
        <5> SUFFICES ASSUME cell[c].line > 0
                     PROVE  cell[c].t > Window /\ now' - cell[c].t >= cycle - cell[c].line
          BY <2>4, <4>1
        <5> QED
          BY <4>2, <4>4
      <4> QED
        BY <4>5, <4>6
    <3>2. CASE c = K
      <4>1. cell'[c].line = cycle /\ cell'[c].t = now'
        BY <2>4, <3>2
      <4>2. cycle # 0
        BY <1>0
      <4>3. now' \in Nat /\ Window \in Nat /\ Start \in Nat /\ cycle \in Nat
            /\ Window < Start
        BY <1>0, <2>3
      <4>4. now' > Window
        BY ONLY <4>3, <2>5
      <4>5. \A v \in Nat : v - v = 0
        OBVIOUS
      <4>6. now' - now' = 0 /\ cycle - cycle = 0
        BY <4>3, <4>5
      <4> QED
        BY <2>4, <4>1, <4>2, <4>4, <4>6
    <3> QED
      BY <3>1, <3>2
  <2>7. ASSUME NEW c \in Index, NEW d \in Index, cell'[d].line > 0, cell'[c].line >= cell'[d].line
        PROVE  cell'[c].t - cell'[d].t >= cell'[c].line - cell'[d].line
    <3>0. cell[c].line <= last /\ cell[d].line <= last
      BY <2>4, HeldLines
    <3>1. CASE c # K /\ d # K
      <4>1. cell'[c] = cell[c] /\ cell'[d] = cell[d]
        BY <2>4, <3>1
      <4> QED
        BY <2>7, <4>1 DEF Spaced
    <3>2. CASE c = K /\ d # K
      <4>1. cell'[c].line = cycle /\ cell'[c].t = now' /\ cell'[d] = cell[d]
        BY <2>4, <3>2
      <4>2. now - cell[d].t >= last - cell[d].line
        BY <2>4, <2>7, <4>1 DEF Spaced
      <4> QED
        BY <1>0, <2>3, <4>1, <4>2
    <3>3. CASE d = K
      <4>1. cell'[d].line = cycle /\ cell'[d].t = now'
        BY <2>4, <3>3
      <4>2. c = K
        <5>1. SUFFICES ASSUME c # K PROVE FALSE
          OBVIOUS
        <5>2. cell'[c] = cell[c]
          BY <2>4, <5>1
        <5> QED
          BY <1>0, <2>7, <3>0, <4>1, <5>2
      <4> QED
        BY <1>0, <2>3, <3>3, <4>1, <4>2
    <3> QED
      BY <3>1, <3>2, <3>3
  <2> QED
    BY <2>5, <2>6, <2>7 DEF Spaced
<1>2. CASE CountEnergy \/ Advance \/ UNCHANGED writerVars
  <2>1. /\ \A c \in Index : cell'[c].line = cell[c].line /\ cell'[c].t = cell[c].t
        /\ now' = now
    BY <1>2, RingFacts DEF CountEnergy, Advance, writerVars, Record
  <2>2. Begun' = Begun
    BY <1>0, <1>2 DEF CountEnergy, Advance, writerVars, Begun, Writing, last
  <2> QED
    BY <2>1, <2>2 DEF Spaced
<1> QED
  BY <1>1, <1>2 DEF Next, Writer, Call, GetBegin, GetRead,
     PowerBegin, PowerE, PowerT, MinuteCopy, MinuteBegin, MinuteStep, Answer, vars

(* The cells behind k that no line that came since can have reached.       *)
LEMMA Unwritten ==
  ASSUME TypeOK, LapCount, RingHolds, NEW r \in Reader, NEW k \in 0 .. N, From(r, k),
         k <= since[r].newest, NEW c \in Index, Age(c, k) <= N - Slack - 1
  PROVE  cell[c].line = LineAt(k, since[r].newest, c)
<1>1. /\ N \in Nat /\ Slack \in Nat /\ Slack + 3 <= N /\ c \in 0 .. N-1
      /\ since[r].lag \in Nat /\ since[r].newest \in Nat
  BY RingFacts, ReaderFacts
<1>2. PICK moved \in Nat :
        /\ last = since[r].newest + moved /\ moved <= since[r].lag + 1
        /\ Writing => moved <= since[r].lag
        /\ since[r].lag <= Slack
        /\ K = IF k + moved <= N THEN k + moved ELSE k + moved - N - 1
  BY FromFacts
<1>3. cell[c].line = LineAt(K, last, c)
  <2>1. ~Writing \/ c # K
    BY Spares
  <2> QED
    BY <2>1, HeldLines
<1> DEFINE l == since[r].newest
<1>4. moved <= Slack + 1
  BY <1>1, <1>2
<1> HIDE DEF l
<1>5. LineAt(K, l + moved, c) = LineAt(k, l, c)
  <2>1. l \in Nat /\ k <= l
    BY <1>1 DEF l
  <2>2. CASE k + moved <= N
    <3>1. K = k + moved
      BY <1>2, <2>2
    <3>2. c < k \/ c >= k + moved
      BY <1>1, <1>4 DEF Age
    <3> QED
      BY <1>1, <2>1, <3>1, <3>2 DEF LineAt
  <2>3. CASE k + moved > N
    <3>1. K = k + moved - N - 1
      BY <1>1, <1>2, <2>3
    <3>2. c < k /\ c >= K
      BY <1>1, <1>4, <2>3, <3>1 DEF Age
    <3> QED
      BY <1>1, <2>1, <3>1, <3>2 DEF LineAt
  <2> QED
    BY <1>1, <2>2, <2>3
<1> QED
  BY <1>2, <1>3, <1>5 DEF l

(* The types of a reader of the last minute.                               *)
LEMMA MinuteFacts ==
  ASSUME TypeOK, NEW r \in Reader
  PROVE  /\ my[r].values \in Seq(Nat) /\ my[r].vec \in [Index -> Nat] /\ my[r].millis \in Nat
         /\ since[r].late \in Nat /\ Len(my[r].values) \in Nat
<1>1. my[r] \in Locals /\ since[r] \in Since
  BY ReaderFacts
<1>2. my[r].values \in Seq(Nat) /\ my[r].vec \in [Index -> Nat] /\ my[r].millis \in Nat
      /\ since[r].late \in Nat
  BY <1>1 DEF Locals, Since
<1> QED
  BY <1>2

(* Locals and counts at the ends of a call.                                *)
LEMMA CleanStep ==
  ASSUME TypeOK, NEW r \in Reader, Clean(r), [Next]_vars
  PROVE  Clean(r)'
<1>0. /\ rpc \in [Reader -> ReaderState] /\ my \in [Reader -> Locals]
      /\ since \in [Reader -> Since] /\ Slack \in Nat /\ since[r].lag \in Nat /\ 0 <= Slack
  <2>1. Slack \in Nat /\ since[r].lag \in Nat
    BY RingFacts, ReaderFacts
  <2> QED
    BY <2>1 DEF TypeOK
<1>1. CASE Receive
  <2>1. /\ rpc[r] # "idle" => since[r].lag < Slack
        /\ since'[r] = IF rpc[r] = "idle" THEN since[r] ELSE [since[r] EXCEPT !.lag = @ + 1]
        /\ rpc' = rpc /\ my' = my
    BY <1>1 DEF Receive
  <2>2. CASE rpc[r] = "idle"
    BY <2>1, <2>2 DEF Clean
  <2>3. CASE rpc[r] # "idle"
    <3>1. since'[r].lag = since[r].lag + 1 /\ since'[r].newest = since[r].newest
      BY <1>0, <2>1, <2>3 DEF Since
    <3>2. since'[r].lag <= Slack
      BY <1>0, <2>1, <2>3, <3>1
    <3> QED
      BY <2>1, <2>3, <3>1, <3>2 DEF Clean
  <2> QED
    BY <2>2, <2>3
<1>2. CASE CountEnergy \/ UNCHANGED vars
  BY <1>2 DEF CountEnergy, vars, Clean
<1>3. CASE Advance
  <2>1. /\ since'[r] = IF rpc[r] = "copied" THEN [since[r] EXCEPT !.late = @ + 1] ELSE since[r]
        /\ rpc' = rpc /\ my' = my
    BY <1>3 DEF Advance
  <2>2. since'[r].lag = since[r].lag /\ since'[r].newest = since[r].newest
        /\ rpc[r] = "idle" => since'[r] = since[r]
    BY <1>0, <2>1 DEF Since
  <2> QED
    BY <2>1, <2>2 DEF Clean
<1>4. ASSUME NEW q \in Reader, Call(q) PROVE Clean(r)'
  <2>1. CASE q # r
    BY <1>4, <2>1, CallFrame DEF Clean
  <2>2. CASE q = r
    <3>1. CASE GetBegin(r) \/ PowerBegin(r)
      <4>1. /\ rpc[r] = "idle" /\ rpc'[r] \in {"get", "deltaE"} /\ since'[r].lag = since[r].lag
            /\ my'[r].values = my[r].values
        <5>1. /\ rpc[r] = "idle" /\ rpc'[r] \in {"get", "deltaE"}
              /\ my' = [my EXCEPT ![r].n = getkPrevious(K)]
              /\ since' = [since EXCEPT ![r].newest = cycle - 1]
          BY <1>0, <3>1 DEF GetBegin, PowerBegin, ReadK, Goto
        <5>2. my'[r].values = my[r].values
          BY <1>0, <5>1 DEF Locals
        <5>3. since'[r].lag = since[r].lag
          BY <1>0, <5>1 DEF Since
        <5> QED
          BY <5>1, <5>2, <5>3
      <4> QED
        BY <4>1 DEF Clean
    <3>2. CASE GetRead(r) \/ Answer(r)
      <4>1. rpc'[r] = "idle" /\ my'[r] = NoLocals /\ since'[r] = NotSince
        BY <1>0, <3>2 DEF GetRead, Answer, Return, Goto
      <4> QED
        BY <1>0, <4>1 DEF Clean, NoLocals, NotSince
    <3>3. CASE PowerE(r) \/ PowerT(r)
      <4>1. /\ rpc[r] \in {"deltaE", "deltat"} /\ rpc'[r] \in {"deltat", "power"}
            /\ since' = since /\ my'[r].values = my[r].values
        BY <1>0, <3>3 DEF PowerE, PowerT, Goto, Locals
      <4> QED
        BY <4>1 DEF Clean
    <3>4. CASE MinuteCopy(r)
      <4>1. /\ rpc[r] = "idle" /\ rpc'[r] = "copied" /\ since' = since
            /\ my'[r].values = my[r].values
        BY <1>0, <3>4 DEF MinuteCopy, Goto, Locals
      <4> QED
        BY <4>1 DEF Clean
    <3>5. CASE MinuteBegin(r)
      <4>1. rpc'[r] = "loop" /\ since'[r].lag = since[r].lag
        BY <1>0, <3>5 DEF MinuteBegin, ReadK, Goto, Since
      <4> QED
        BY <4>1 DEF Clean
    <3>6. CASE MinuteStep(r)
      <4>1. rpc'[r] \in {"loop", "minute"} /\ since' = since
        BY <1>0, <3>6 DEF MinuteStep, Goto
      <4> QED
        BY <4>1 DEF Clean
    <3> QED
      BY <1>4, <2>2, <3>1, <3>2, <3>3, <3>4, <3>5, <3>6 DEF Call
  <2> QED
    BY <2>1, <2>2
<1> QED
  BY <1>1, <1>2, <1>3, <1>4 DEF Next, Writer

(* The writer makes the copy older, and no worse.                          *)
LEMMA CopiedStep ==
  ASSUME TypeOK, LapCount, NEW r \in Reader, rpc[r] = "copied", Copied(r, K, last), Writer
  PROVE  Copied(r, K, last)'
<1>1. /\ N \in Nat /\ N >= 3 /\ K \in 0 .. N /\ last \in Nat /\ since[r].late \in Nat
      /\ since \in [Reader -> Since] /\ cycle \in Nat /\ Index = 0 .. N-1 /\ K <= last
  BY RingFacts, LapFacts, MinuteFacts DEF TypeOK
<1>2. my' = my
  BY DEF Writer, Receive, CountEnergy, Advance
<1>3. CASE Receive \/ CountEnergy
  <2>1. K' = K /\ cycle' = cycle /\ since'[r].late = since[r].late
    BY <1>1, <1>3 DEF Receive, CountEnergy, Since
  <2> QED
    BY <1>2, <2>1 DEF Copied, last, Age, LineAt
<1>4. CASE Advance
  <2>1. K' = getkNext(K) /\ last' = last + 1 /\ since'[r].late = since[r].late + 1
    BY <1>1, <1>4 DEF Advance, last, Since
  <2>2. ASSUME NEW c \in Index, since'[r].late < Age(c, K'), Age(c, K') < N
        PROVE  my'[r].vec[c] = LineAt(K', last', c)
    <3>1. since[r].late < Age(c, K) /\ Age(c, K) < N
      BY <1>1, <2>1, <2>2 DEF Age, getkNext
    <3>2. my[r].vec[c] = LineAt(K, last, c)
      BY <3>1 DEF Copied
    <3> HIDE DEF last
    <3>3. c # K
      BY <1>1, <3>1 DEF Age
    <3>4. LineAt(K', last + 1, c) = LineAt(K, last, c)
      BY <1>1, <2>1, <3>3 DEF LineAt, getkNext
    <3> QED
      BY <1>2, <2>1, <3>2, <3>4
  <2> QED
    BY <2>2 DEF Copied, Age, LineAt
<1> QED
  BY <1>3, <1>4 DEF Writer

(* The copy is one of the ring.                                            *)
LEMMA CopyIsRing ==
  ASSUME TypeOK, LapCount, RingHolds, NEW r \in Reader, MinuteCopy(r)
  PROVE  /\ Copied(r, K, last)' /\ since' = since /\ my'[r].values = my[r].values
         /\ rpc'[r] = "copied" /\ rpc[r] = "idle"
<1>1. /\ N \in Nat /\ K \in 0 .. N /\ Index = 0 .. N-1 /\ my \in [Reader -> Locals]
      /\ rpc \in [Reader -> ReaderState]
  BY RingFacts DEF TypeOK
<1>2. /\ since' = since /\ my'[r].values = my[r].values /\ rpc'[r] = "copied" /\ rpc[r] = "idle"
      /\ my'[r].vec = [c \in Index |-> cell[c].line] /\ K' = K /\ cycle' = cycle
  BY <1>1 DEF MinuteCopy, Goto, Locals, writerVars
<1>3. ASSUME NEW c \in Index, Age(c, K) < N PROVE my'[r].vec[c] = LineAt(K, last, c)
  <2>1. c # K
    BY <1>1, <1>3 DEF Age
  <2> QED
    BY <1>2, <2>1, HeldLines
<1> QED
  BY <1>2, <1>3 DEF Copied, last, Age, LineAt

(* The loop begins right behind K.                                         *)
LEMMA BeginWalks ==
  ASSUME Unhurried, TypeOK, TypeOK', LapCount, NEW r \in Reader, MinuteBegin(r), Clean(r),
         Copied(r, K, last)
  PROVE  /\ rpc'[r] = "loop" /\ my'[r].values = <<>>
         /\ since'[r].newest > 0 => \E k \in 0 .. N : Walks(r, k)'
<1>1. /\ N \in Nat /\ K \in 0 .. N /\ Index = 0 .. N-1 /\ my \in [Reader -> Locals] /\ last \in Nat
      /\ rpc \in [Reader -> ReaderState] /\ Slack \in Nat /\ Window \in Nat
      /\ Window + 2 < N - Slack /\ K <= last /\ (K = 0 /\ last > 0 => Lost(last))
  BY RingFacts, LapFacts, HistoryAssumption DEF TypeOK, Unhurried
<1> DEFINE n == getkPrevious(K)
<1>2. /\ ReadK(r) /\ UNCHANGED writerVars /\ rpc'[r] = "loop" /\ rpc[r] = "copied"
      /\ my'[r].values = my[r].values /\ my'[r].vec = my[r].vec
      /\ my'[r].n = n /\ my'[r].millis = cell[n].t /\ K' = K /\ cell' = cell
  BY <1>1 DEF MinuteBegin, Goto, Locals, writerVars
<1>3. my'[r].values = <<>> /\ since[r].lag <= Slack
  BY <1>2 DEF Clean
<1>4. /\ From(r, K)' /\ since'[r].newest = last /\ since'[r].late = since[r].late
  BY <1>2, <1>3, BeginFrom
<1>5. PICK k \in 0 .. N : k = K
  BY <1>1
<1>6. From(r, k)'
  BY <1>2, <1>4, <1>5
<1>7. Copied(r, k, since[r].newest)'
  BY <1>2, <1>4, <1>5 DEF Copied, Age, LineAt
<1>8. Age(my'[r].n, k) = 1 /\ Len(my'[r].values) = 0
  BY <1>1, <1>2, <1>3, <1>5 DEF Age, getkPrevious
<1>9. k = 0 /\ last > 0 => last > N
  <2>1. SUFFICES ASSUME K = 0, last > 0 PROVE last > N
    BY <1>5
  <2>2. PICK lap \in 1 .. last : last = lap * (N+1)
    BY <1>1, <2>1 DEF Lost
  <2>3. lap * (N+1) >= N+1
    BY <1>1, <2>2
  <2> HIDE DEF last
  <2> QED
    BY <1>1, <2>2, <2>3
<1>10. 0 + 1 <= N - Slack - 2 /\ 0 <= last
  BY <1>1
<1>11. since'[r].newest > 0 => Walks(r, k)'
  BY <1>1, <1>2, <1>4, <1>5, <1>6, <1>7, <1>8, <1>9, <1>10 DEF Walks, Age, getkPrevious
<1> QED
  BY <1>2, <1>3, <1>11

(* The writer does not disturb the loop.                                   *)
LEMMA WalksStep ==
  ASSUME TypeOK, TypeOK', NEW r \in Reader, NEW k \in 0 .. N, Walks(r, k), rpc[r] = "loop", Writer
  PROVE  Walks(r, k)'
<1> DEFINE n == getkPrevious(k)
<1>1. /\ From(r, k)' /\ my' = my /\ since'[r].newest = since[r].newest
      /\ since'[r].late = since[r].late
      /\ \A c \in Index : Age(c, k) <= N - Slack - 1 => cell'[c] = cell[c]
  BY FromStep DEF Walks
<1>2. n \in Index /\ Age(n, k) <= N - Slack - 1
  <2>1. N \in Nat /\ Slack \in Nat /\ Slack + 3 <= N /\ Index = 0 .. N-1 /\ n \in Index
    BY RingFacts, PreviousInRing
  <2>2. Age(n, k) = 1
    BY <2>1 DEF Age, getkPrevious
  <2> QED
    BY <2>1, <2>2
<1>3. cell'[n] = cell[n]
  BY <1>1, <1>2
<1>4. Copied(r, k, since[r].newest)'
  BY <1>1 DEF Walks, Copied, Age, LineAt
<1> QED
  BY <1>1, <1>3, <1>4 DEF Walks, Age, getkPrevious

(* One turn of the loop: the value is that of the line, and if the loop    *)
(* goes on the next cell holds a line that is still in the window.         *)
LEMMA TurnWalks ==
  ASSUME Unhurried, TypeOK, LapCount, RingHolds, Spaced, NEW r \in Reader, MinuteStep(r),
         since[r].newest > 0, Collected(r), NEW k \in 0 .. N, Walks(r, k)
  PROVE  /\ Collected(r)'
         /\ rpc'[r] = "loop" => Walks(r, k)'
<1> DEFINE j == Len(my[r].values)
           l == since[r].newest
           n == my[r].n
           m == getkPrevious(n)
           o == getkPrevious(k)
           v == my[r].vec[n]
<1>1. /\ N \in Nat /\ Slack \in Nat /\ Slack + 3 <= N /\ Index = 0 .. N-1 /\ n \in Index
      /\ m \in Index /\ o \in Index /\ l \in Nat /\ l > 0 /\ j \in Nat /\ v \in Nat
      /\ my[r].values \in Seq(Nat) /\ since[r].late \in Nat /\ Window \in Nat
      /\ my \in [Reader -> Locals] /\ rpc \in [Reader -> ReaderState]
      /\ Window + 2 < N - Slack
  <2>1. n \in Index /\ m \in Index /\ l \in Nat /\ my[r].values \in Seq(Nat)
        /\ since[r].late \in Nat /\ my[r].vec \in [Index -> Nat] /\ j \in Nat
    BY ReaderFacts, MinuteFacts
  <2>2. o \in Index
    BY PreviousInRing
  <2> QED
    BY <2>1, <2>2, RingFacts, HistoryAssumption DEF TypeOK, Unhurried
<1>2. /\ From(r, k) /\ Copied(r, k, l) /\ k <= l /\ (k = 0 => l > N)
      /\ my[r].millis = cell[o].t /\ Age(n, k) = j + 1 /\ j <= l /\ j + 1 <= N - Slack - 2
  BY DEF Walks
<1>3. /\ my' = [my EXCEPT ![r].values = Append(@, v), ![r].n = m]
      /\ UNCHANGED <<writerVars, since, told>> /\ rpc[r] = "loop"
      /\ rpc'[r] = "loop" => my[r].millis <= cell[m].t + Window
  BY <1>1 DEF MinuteStep, Goto
<1>4. /\ my'[r].values = Append(my[r].values, v) /\ my'[r].n = m /\ my'[r].vec = my[r].vec
      /\ my'[r].millis = my[r].millis
  <2> HIDE DEF m, v
  <2> QED
    BY <1>1, <1>3 DEF Locals
<1>5. /\ wpc' = wpc /\ K' = K /\ cycle' = cycle /\ cell' = cell /\ since' = since
  BY <1>3 DEF writerVars
<1>6. Len(my'[r].values) = j + 1 /\ my'[r].values[j + 1] = v
      /\ \A i \in 1 .. j : my'[r].values[i] = my[r].values[i]
  <2> HIDE DEF v
  <2> QED
    BY <1>1, <1>4
<1>7. j + 1 > since[r].late => l - (j + 1) - v \in {-1, 0}
  <2> SUFFICES ASSUME since[r].late < j + 1 PROVE l - (j + 1) - v \in {-1, 0}
    BY <1>1
  <2>1. Age(n, k) < N
    BY <1>1, <1>2
  <2>2. v = LineAt(k, l, n)
    BY <1>1, <1>2, <2>1 DEF Copied
  <2>3. /\ N \in Nat /\ n \in 0 .. N-1 /\ j \in Nat /\ l \in Nat /\ v \in Nat
        /\ Age(n, k) = j + 1 /\ j <= l
    BY <1>1, <1>2
  <2> HIDE DEF v, n, l, j
  <2> QED
    BY ONLY <2>2, <2>3, k \in 0 .. N DEF LineAt, Age
<1>8. Collected(r)'
  <2>1. \A i \in 1 .. j : i > since[r].late => l - i - my[r].values[i] \in {-1, 0}
    BY DEF Collected
  <2>2. ASSUME NEW i \in 1 .. Len(my'[r].values), i > since'[r].late
        PROVE  since'[r].newest - i - my'[r].values[i] \in {-1, 0}
    <3>1. i \in 1 .. j \/ i = j + 1
      BY <1>1, <1>6
    <3>2. CASE i \in 1 .. j
      BY <1>5, <1>6, <2>1, <2>2, <3>2
    <3>3. CASE i = j + 1
      BY <1>5, <1>6, <1>7, <2>2, <3>3
    <3> QED
      BY <3>1, <3>2, <3>3
  <2>3. j + 1 <= N
    BY <1>1, <1>2
  <2> QED
    BY <1>6, <2>2, <2>3 DEF Collected
<1>9. ASSUME rpc'[r] = "loop" PROVE Walks(r, k)'
  <2>1. Age(m, k) = j + 2 /\ Age(o, k) = 1
    <3>1. m = (IF n = 0 THEN N-1 ELSE n-1) /\ o = (IF k = 0 THEN N-1 ELSE k-1)
      BY DEF getkPrevious
    <3>2. /\ N \in Nat /\ Slack \in Nat /\ n \in 0 .. N-1 /\ j \in Nat /\ j + 1 < N
          /\ Age(n, k) = j + 1
      BY <1>1, <1>2
    <3> HIDE DEF m, o, n, j
    <3> QED
      BY ONLY <3>1, <3>2, k \in 0 .. N DEF Age
  <2>2. Age(m, k) <= N - Slack - 1 /\ Age(o, k) <= N - Slack - 1
    <3>1. /\ N \in Nat /\ Slack \in Nat /\ Slack + 3 <= N /\ j \in Nat
          /\ j + 1 <= N - Slack - 2
      BY <1>1, <1>2
    <3> HIDE DEF m, o, j
    <3> QED
      BY ONLY <2>1, <3>1
  <2>3. cell[m].line = LineAt(k, l, m) /\ cell[o].line = LineAt(k, l, o)
    BY <1>1, <1>2, <2>2, Unwritten
  <2>4. /\ cell[m].line \in Nat /\ cell[o].line \in Nat /\ cell[m].t \in Nat /\ cell[o].t \in Nat
    BY <1>1, RingFacts, HeldLines
  <2> DEFINE x == cell[m].line
             y == cell[o].line
             s == cell[m].t
             t == cell[o].t
  <2>5. t <= s + Window
    BY <1>2, <1>3, <1>9
  <2>6. y > 0 /\ (x > 0 => y - x >= j + 1 /\ j + 1 <= l)
    <3>1. x = LineAt(k, l, m) /\ y = LineAt(k, l, o)
      BY <2>3
    <3>2. /\ N \in Nat /\ m \in 0 .. N-1 /\ o \in 0 .. N-1 /\ l \in Nat /\ l > 0 /\ j \in Nat
          /\ k <= l /\ (k = 0 => l > N)
      BY <1>1, <1>2
    <3> HIDE DEF x, y, m, o, l, j
    <3> QED
      BY ONLY <2>1, <3>1, <3>2, k \in 0 .. N DEF LineAt, Age
  <2>7. t > Window
    BY <1>1, <2>6 DEF Spaced
  <2>8. x > 0
    <3>1. s # 0
      <4> HIDE DEF s, t
      <4> QED
        BY <1>1, <2>4, <2>5, <2>7 DEF s, t
    <3>2. x # 0
      BY <1>1, <3>1 DEF Spaced
    <3> QED
      BY <2>4, <3>2
  <2>9. t - s >= y - x
    <3>1. y >= x
      <4> HIDE DEF x, y, j
      <4> QED
        BY <1>1, <2>4, <2>6, <2>8 DEF x, y
    <3> QED
      BY <1>1, <2>8, <3>1 DEF Spaced
  <2>10. j + 2 <= N - Slack - 2 /\ j + 1 <= l
    <3>1. x \in Nat /\ y \in Nat /\ s \in Nat /\ t \in Nat
      BY <2>4
    <3> HIDE DEF x, y, s, t, j, l
    <3>2. j + 1 <= Window
      BY ONLY <1>1, <2>5, <2>6, <2>8, <2>9, <3>1
    <3> QED
      BY ONLY <1>1, <2>6, <2>8, <3>2
  <2>11. From(r, k)' /\ Copied(r, k, since[r].newest)'
    BY <1>2, <1>4, <1>5 DEF From, last, Writing, Copied, Age, LineAt
  <2>12. Len(my'[r].values) + 1 = j + 2
    BY <1>1, <1>6
  <2> HIDE DEF m, j
  <2> QED
    BY <1>2, <1>4, <1>5, <1>6, <2>1, <2>10, <2>11, <2>12 DEF Walks, Age, getkPrevious
<1> QED
  BY <1>8, <1>9

(* It depends on nothing else.                                             *)
LEMMA MinutesFrame ==
  ASSUME NEW r \in Reader, rpc'[r] = rpc[r], my'[r] = my[r], since'[r] = since[r],
         wpc' = wpc, K' = K, cycle' = cycle, cell' = cell, Minutes(r)
  PROVE  Minutes(r)'
<1>1. Copied(r, K, last) => Copied(r, K, last)'
  BY DEF Copied, last, Age, LineAt
<1>2. Collected(r) => Collected(r)'
  BY DEF Collected
<1>3. ASSUME NEW k \in 0 .. N, Walks(r, k) PROVE Walks(r, k)'
  <2>1. From(r, k)' /\ Copied(r, k, since[r].newest)'
    BY <1>3 DEF Walks, From, Copied, Writing, last, Age, LineAt
  <2> QED
    BY <1>3, <2>1 DEF Walks, Age, getkPrevious
<1> QED
  BY <1>1, <1>2, <1>3 DEF Minutes

(* What a reader knows of the last minute survives every step.             *)
LEMMA MinutesStep ==
  ASSUME Unhurried, MInv, TypeOK', NEW r \in Reader, Clean(r)', [Next]_vars
  PROVE  Minutes(r)'
<1>1. /\ TypeOK /\ LapCount /\ RingHolds /\ Spaced /\ Clean(r) /\ Minutes(r)
      /\ rpc \in [Reader -> ReaderState] /\ my \in [Reader -> Locals]
  BY DEF MInv, Inv, TypeOK
<1>2. CASE Writer
  <2>1. /\ rpc' = rpc /\ my' = my
    BY <1>2 DEF Writer, Receive, CountEnergy, Advance
  <2>2. since'[r].newest = since[r].newest /\ (since'[r].late # since[r].late => rpc[r] = "copied")
    <3>1. since \in [Reader -> Since]
      BY <1>1 DEF TypeOK
    <3> QED
      BY <1>2, <3>1 DEF Writer, Receive, CountEnergy, Advance, Since
  <2>3. rpc[r] = "copied" => Copied(r, K, last)'
    BY <1>1, <1>2, CopiedStep DEF Minutes
  <2>4. since'[r].newest > 0 => Collected(r)'
    <3>1. since[r].newest > 0 => since'[r].late = since[r].late
      <4>1. rpc[r] = "copied" => ~(since[r].newest > 0)
        BY <1>1 DEF Clean
      <4> QED
        BY <2>2, <4>1
    <3> QED
      BY <1>1, <2>1, <2>2, <3>1 DEF Minutes, Collected
  <2>5. ASSUME rpc[r] = "loop", since[r].newest > 0 PROVE \E k \in 0 .. N : Walks(r, k)'
    <3>1. PICK k \in 0 .. N : Walks(r, k)
      BY <1>1, <2>5 DEF Minutes
    <3>2. Walks(r, k)'
      BY <1>1, <1>2, <2>5, <3>1, WalksStep
    <3> QED
      BY <3>2
  <2> QED
    BY <2>1, <2>2, <2>3, <2>4, <2>5 DEF Minutes
<1>3. CASE UNCHANGED vars
  BY <1>1, <1>3, MinutesFrame DEF vars, writerVars
<1>4. ASSUME NEW q \in Reader, Call(q) PROVE Minutes(r)'
  <2>1. CASE q # r
    BY <1>1, <1>4, <2>1, CallFrame, MinutesFrame
  <2>2. CASE q = r
    <3>1. CASE MinuteCopy(r)
      <4>1. /\ Copied(r, K, last)' /\ since' = since /\ my'[r].values = my[r].values
            /\ rpc'[r] = "copied" /\ rpc[r] = "idle"
        BY <1>1, <3>1, CopyIsRing
      <4>2. since[r].newest = 0
        BY <1>1, <4>1 DEF Clean
      <4> QED
        BY <4>1, <4>2 DEF Minutes
    <3>2. CASE MinuteBegin(r)
      <4>1. rpc[r] = "copied"
        BY <3>2 DEF MinuteBegin
      <4>2. Copied(r, K, last)
        BY <1>1, <4>1 DEF Minutes
      <4>3. /\ rpc'[r] = "loop" /\ my'[r].values = <<>>
            /\ since'[r].newest > 0 => \E k \in 0 .. N : Walks(r, k)'
        BY <1>1, <3>2, <4>2, BeginWalks
      <4>4. Collected(r)'
        BY <4>3, RingFacts, <1>1 DEF Collected
      <4> QED
        BY <4>3, <4>4 DEF Minutes
    <3>3. CASE MinuteStep(r)
      <4>1. since' = since /\ rpc[r] = "loop" /\ rpc'[r] \in {"loop", "minute"}
        BY <1>1, <3>3 DEF MinuteStep, Goto
      <4>2. ASSUME since[r].newest > 0
            PROVE  Collected(r)' /\ (rpc'[r] = "loop" => \E k \in 0 .. N : Walks(r, k)')
        <5>1. Collected(r)
          BY <1>1, <4>2 DEF Minutes
        <5>2. PICK k \in 0 .. N : Walks(r, k)
          BY <1>1, <4>1, <4>2 DEF Minutes
        <5>3. Collected(r)' /\ (rpc'[r] = "loop" => Walks(r, k)')
          BY <1>1, <3>3, <4>2, <5>1, <5>2, TurnWalks
        <5> QED
          BY <5>3
      <4> QED
        BY <4>1, <4>2 DEF Minutes
    <3>4. CASE GetBegin(r) \/ GetRead(r) \/ PowerBegin(r) \/ PowerE(r) \/ PowerT(r) \/ Answer(r)
      <4>1. rpc'[r] \in {"get", "idle", "deltaE", "deltat", "power"}
        BY <1>1, <3>4 DEF GetBegin, GetRead, PowerBegin, PowerE, PowerT, Answer, Return, Goto
      <4>2. my'[r].values = <<>>
        BY <4>1 DEF Clean
      <4>3. Collected(r)'
        BY <4>2, RingFacts, <1>1 DEF Collected
      <4> QED
        BY <4>1, <4>3 DEF Minutes
    <3> QED
      BY <1>4, <2>2, <3>1, <3>2, <3>3, <3>4 DEF Call
  <2> QED
    BY <2>1, <2>2
<1> QED
  BY <1>2, <1>3, <1>4 DEF Next

(* The invariant of the last minute, at first                              *)
LEMMA MInvInit == Init => MInv
<1> SUFFICES ASSUME Init PROVE MInv
  OBVIOUS
<1>1. Inv /\ TypeOK /\ N \in Nat /\ Slack \in Nat
  BY InvInit, HistoryAssumption DEF Inv
<1>2. Spaced
  BY <1>1, HistoryAssumption DEF Init, Spaced, Blank
<1>3. ASSUME NEW r \in Reader PROVE Clean(r) /\ Minutes(r)
  <2>1. /\ rpc[r] = "idle" /\ my[r].values = <<>> /\ since[r].lag = 0 /\ since[r].late = 0
        /\ since[r].newest = 0
    BY DEF Init, NoLocals, NotSince
  <2> QED
    BY <1>1, <2>1 DEF Clean, Minutes
<1> QED
  BY <1>1, <1>2, <1>3 DEF MInv

(* and after every step.                                                   *)
LEMMA MInvStep == ASSUME Unhurried PROVE MInv /\ [Next]_vars => MInv'
<1> SUFFICES ASSUME MInv, [Next]_vars PROVE MInv'
  OBVIOUS
<1>1. Inv' /\ Spaced' /\ TypeOK'
  BY TypeStep, LapStep, RingStep, GetterStep, IdleStep, SpacedStep DEF MInv, Inv
<1>2. ASSUME NEW r \in Reader PROVE Clean(r)' /\ Minutes(r)'
  <2>1. Clean(r)'
    BY CleanStep DEF MInv, Inv
  <2> QED
    BY <1>1, <2>1, MinutesStep
<1> QED
  BY <1>1, <1>2 DEF MInv

(* Once a line has come, get_minute collects at most N values and ends     *)
(* before it reaches what the writer has written since; value i is that of *)
(* the i-th line back, one further behind a lost line, but for the first   *)
(* values, which may be stale.  Hypotheses: those of Unhurried, which the  *)
(* 2000 cells, the window of 1000 ms and a line every 20 ms meet.          *)
THEOREM MinuteValuesHolds == ASSUME Unhurried PROVE Spec => []MinuteValues
<1>1. MInv => MinuteValues
  BY DEF MInv, Minutes, Collected, MinuteValues
<1>2. Spec => []MInv
  BY MInvInit, MInvStep, PTL DEF Spec
<1> QED
  BY <1>1, <1>2, PTL

================================================================================
