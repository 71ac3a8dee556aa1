----------------------------- MODULE OccupancyProofs -----------------------------
(***************************************************************************)
(* Theorems about Occupancy, for any number of clients and commands and    *)
(* any size of the buffer: its types, what the timer interrupt makes of a  *)
(* set point that is changed under it, and how many requests at once it    *)
(* takes to overrun the buffer, however their writes interleave.           *)
(***************************************************************************)
EXTENDS Occupancy, FiniteSetTheorems, SequenceTheorems, TLAPS

(* A line that is read means an occupancy or nothing, whatever is on it.   *)
LEMMA MeaningType ==
  ASSUME NEW line PROVE Meaning(line) \subseteq {"none"} \cup Digit
  BY DEF Meaning, Digit

(* Four elements are a sequence.                                           *)
LEMMA FourLong ==
  ASSUME NEW S, NEW a \in S, NEW b \in S, NEW c \in S, NEW d \in S
  PROVE  <<a, b, c, d>> \in Seq(S)
  OBVIOUS

(* What a client writes are characters of the line.                        *)
LEMMA CommandType ==
  ASSUME NEW value \in Digit PROVE Command(value) \in Seq(Char)
<1>1. "o" \in Char /\ " " \in Char /\ value \in Char /\ "\n" \in Char
  BY DEF Char, Digit
<1> QED BY <1>1, FourLong DEF Command

(* Every variable of Occupancy keeps its type, along every behaviour.      *)
LEMMA TypeStep == TypeOK /\ [Next]_vars => TypeOK'
<1> SUFFICES ASSUME TypeOK, [Next]_vars PROVE TypeOK'
  OBVIOUS
<1>1. ASSUME NEW c \in Client, SetOccupancy(c) PROVE TypeOK'
  <2>1. PICK value \in Digit :
          o' = value /\ todo' = [todo EXCEPT ![c] = Command(value)]
    BY <1>1 DEF SetOccupancy
  <2>2. todo' \in [Client -> Seq(Char)]
    BY <2>1, CommandType DEF TypeOK
  <2>3. sets' \in 0 .. MaxSets
    <3>1. sets \in 0 .. MaxSets
      BY DEF TypeOK
    <3>2. sets < MaxSets /\ sets' = sets + 1
      BY <1>1 DEF SetOccupancy
    <3> QED BY <3>1, <3>2, OccupancyAssumption DEF OccupancyAssumption
  <2>4. mixed' \in BOOLEAN
    BY <1>1 DEF SetOccupancy
  <2>5. peak' \in 0 .. Clients
    BY <1>1, OccupancyAssumption DEF OccupancyAssumption, SetOccupancy, TypeOK, Client
  <2>6. UNCHANGED <<wire, comVars, pc, refVars, tickVars>>
    BY <1>1 DEF SetOccupancy
  <2> QED BY <2>1, <2>2, <2>3, <2>4, <2>5, <2>6 DEF TypeOK, comVars, refVars, tickVars
<1>2. ASSUME NEW c \in Client, WriteChar(c) PROVE TypeOK'
  <2>1. todo[c] \in Seq(Char) /\ todo[c] # <<>>
    BY <1>2 DEF WriteChar, TypeOK
  <2>2. Head(todo[c]) \in Char /\ Tail(todo[c]) \in Seq(Char)
    BY <2>1
  <2>3. wire' \in Seq(Char) /\ todo' \in [Client -> Seq(Char)]
    BY <1>2, <2>2 DEF WriteChar, TypeOK
  <2> QED BY <1>2, <2>3 DEF WriteChar, TypeOK, comVars, refVars, tickVars
<1>3. CASE Round
  BY <1>3 DEF Round, TypeOK, serverVars, comVars, refVars, tickVars
<1>4. CASE ReadChar
  <2>1. wire \in Seq(Char) /\ wire # <<>>
    BY <1>4 DEF ReadChar, TypeOK
  <2>2. Head(wire) \in Char /\ Tail(wire) \in Seq(Char)
    BY <2>1
  <2>3. wire' \in Seq(Char) /\ incoming' \in Seq(Char)
    BY <1>4, <2>2 DEF ReadChar, TypeOK
  <2> QED BY <1>4, <2>3 DEF ReadChar, TypeOK, serverVars, refVars, tickVars
<1>5. CASE ReadLine
  <2>1. wire' \in Seq(Char)
    BY <1>5 DEF ReadLine, TypeOK
  <2>2. PICK valor \in Meaning(incoming) :
          /\ new_o' = (new_o \/ valor # "none")
          /\ occupancy' = IF valor = "none" THEN occupancy ELSE valor
    BY <1>5 DEF ReadLine
  <2>3. occupancy' \in Digit /\ new_o' \in BOOLEAN
    BY <2>2, MeaningType DEF TypeOK
  <2> QED BY <1>5, <2>1, <2>3 DEF ReadLine, TypeOK, serverVars, refVars, tickVars
<1>6. CASE NoMoreChars
  BY <1>6 DEF NoMoreChars, TypeOK, serverVars, comVars, refVars, tickVars
<1>7. CASE NewOccupancy
  BY <1>7 DEF NewOccupancy, TypeOK, serverVars, tickVars
<1>8. CASE SetRef
  BY <1>8 DEF SetRef, TypeOK, Lux, serverVars, comVars, tickVars
<1>9. CASE SetRefEnd
  BY <1>9 DEF SetRefEnd, TypeOK, Lux, LuxOf, serverVars, comVars, tickVars
<1>10. CASE SetFlag
  BY <1>10 DEF SetFlag, TypeOK, serverVars, comVars, tickVars
<1>11. CASE EndRound
  BY <1>11 DEF EndRound, TypeOK, serverVars, comVars, refVars, tickVars
<1>12. CASE Tick
  BY <1>12 DEF Tick, Jump, Pid, TypeOK, serverVars, comVars, refVars
<1>13. CASE Overrun
  BY <1>13 DEF Overrun, TypeOK, serverVars, comVars, refVars, tickVars
<1>14. CASE UNCHANGED vars
  BY <1>14 DEF vars, TypeOK, serverVars, comVars, refVars, tickVars
<1> QED
  BY <1>1, <1>2, <1>3, <1>4, <1>5, <1>6, <1>7, <1>8, <1>9, <1>10, <1>11, <1>12, <1>13, <1>14
     DEF Next, Loop

(* Every variable of Occupancy keeps its type, along every behaviour.      *)
THEOREM OccupancyType == Spec => []TypeOK
<1>1. Init => TypeOK
  <2> SUFFICES ASSUME Init PROVE TypeOK
    OBVIOUS
  <2>1. sets \in 0 .. MaxSets
    BY OccupancyAssumption DEF OccupancyAssumption, Init
  <2>2. todo \in [Client -> Seq(Char)] /\ wire \in Seq(Char) /\ incoming \in Seq(Char)
    BY DEF Init
  <2>3. peak \in 0 .. Clients
    BY OccupancyAssumption DEF OccupancyAssumption, Init
  <2> QED BY <2>1, <2>2, <2>3 DEF Init, TypeOK, Digit, Lux
<1> QED BY <1>1, TypeStep, PTL DEF Spec

--------------------------------------------------------------------------------

(* What makes RefFollows inductive: the set point is half stored only in   *)
(* the middle of setRef; and flag keeps a jump that is due out of setRef,  *)
(* since a round that could change the set point begins after a tick, and  *)
(* that tick has been the jump.                                            *)
RefInv ==
  /\ pc # "torn" => ref # "torn"
  /\ ffflag => pc = "end" \/ (pc = "wait" /\ ~flag)
  /\ RefFollows

(* A step keeps it.                                                        *)
LEMMA RefStep == RefInv /\ [Next]_vars => RefInv'
<1> SUFFICES ASSUME RefInv, [Next]_vars PROVE RefInv'
  OBVIOUS
<1> USE DEF RefInv, RefFollows
<1>1. ASSUME NEW c \in Client, SetOccupancy(c) \/ WriteChar(c) PROVE RefInv'
  BY <1>1 DEF SetOccupancy, WriteChar, refVars, tickVars
<1>2. CASE Round \/ ReadChar \/ ReadLine \/ Overrun \/ NoMoreChars
  BY <1>2 DEF Round, ReadChar, ReadLine, Overrun, NoMoreChars, refVars, tickVars
<1>3. CASE NewOccupancy
  BY <1>3 DEF NewOccupancy, tickVars
<1>4. CASE SetRef
  BY <1>4 DEF SetRef, tickVars
<1>5. CASE SetRefEnd
  BY <1>5 DEF SetRefEnd, LuxOf, tickVars
<1>6. CASE SetFlag
  BY <1>6 DEF SetFlag, tickVars
<1>7. CASE EndRound
  BY <1>7 DEF EndRound, refVars
<1>8. CASE Jump
  BY <1>8 DEF Jump
<1>9. CASE Pid
  BY <1>9 DEF Pid, refVars
<1>10. CASE UNCHANGED vars
  BY <1>10 DEF vars, refVars, tickVars
<1> QED
  BY <1>1, <1>2, <1>3, <1>4, <1>5, <1>6, <1>7, <1>8, <1>9, <1>10 DEF Next, Loop, Tick

(* However the timer interrupt falls between the four bytes of the set     *)
(* point, ffflag and the end of the round: a cycle of feedforward alone    *)
(* never uses a set point half stored, and whatever the PID has driven the *)
(* LED from in the middle of setRef, such a cycle on the set point in      *)
(* force is due after it (LightController::setRef, calcController, loop).  *)
THEOREM JumpFollowsRef == Spec => []RefFollows
<1>1. Init => RefInv
  BY DEF Init, RefInv, RefFollows
<1>2. RefInv => RefFollows
  BY DEF RefInv
<1> QED BY <1>1, <1>2, RefStep, PTL DEF Spec

--------------------------------------------------------------------------------
(* Lines in a sequence of characters.                                      *)

(* The characters from i to j are of one line.                             *)
Unbroken(s, i, j) == \A k \in i .. j : s[k] # "\n"

(* No line is longer than m, and the last one, which is not ended yet, is  *)
(* no longer than n.                                                       *)
Short(s, n, m) ==
  /\ \A i \in 1 .. Len(s) : Unbroken(s, i, Len(s)) => Len(s) - i + 1 <= n
  /\ \A i, j \in 1 .. Len(s) : i <= j /\ Unbroken(s, i, j) => j - i + 1 <= m

(* A character makes the last line longer by one ...                       *)
LEMMA ShortAppend ==
  ASSUME NEW s \in Seq(Char), NEW n \in Nat, NEW m \in Nat, NEW e \in Char,
         Short(s, n, m), n + 1 <= m
  PROVE  Short(Append(s, e), n + 1, m)
<1> DEFINE t == Append(s, e)
<1>1. /\ Len(s) \in Nat /\ Len(t) = Len(s) + 1
      /\ \A i \in 1 .. Len(s) : t[i] = s[i]
  OBVIOUS
<1> HIDE DEF t
<1>2. ASSUME NEW i \in 1 .. Len(t), Unbroken(t, i, Len(t))
      PROVE  Len(t) - i + 1 <= n + 1
  <2>1. CASE i = Len(t)
    BY <1>1, <2>1
  <2>2. CASE i # Len(t)
    <3>1. i \in 1 .. Len(s) /\ Unbroken(s, i, Len(s))
      BY <1>1, <1>2, <2>2 DEF Unbroken
    <3> QED BY <1>1, <3>1 DEF Short
  <2> QED BY <2>1, <2>2
<1>3. ASSUME NEW i \in 1 .. Len(t), NEW j \in 1 .. Len(t), i <= j, Unbroken(t, i, j)
      PROVE  j - i + 1 <= m
  <2>1. CASE j = Len(t)
    BY <1>1, <1>2, <1>3, <2>1
  <2>2. CASE j # Len(t)
    <3>1. i \in 1 .. Len(s) /\ j \in 1 .. Len(s) /\ Unbroken(s, i, j)
      BY <1>1, <1>3, <2>2 DEF Unbroken
    <3> QED BY <1>3, <3>1 DEF Short
  <2> QED BY <2>1, <2>2
<1> QED BY <1>2, <1>3 DEF Short, t

(* ... unless it ends it ...                                               *)
LEMMA ShortEnd ==
  ASSUME NEW s \in Seq(Char), NEW n, NEW k, NEW m \in Nat, Short(s, n, m)
  PROVE  Short(Append(s, "\n"), k, m)
<1> DEFINE t == Append(s, "\n")
<1>1. /\ Len(s) \in Nat /\ Len(t) = Len(s) + 1
      /\ \A i \in 1 .. Len(s) : t[i] = s[i]
      /\ t[Len(t)] = "\n"
  OBVIOUS
<1> HIDE DEF t
<1>2. ASSUME NEW i \in 1 .. Len(t), NEW j \in 1 .. Len(t), i <= j, Unbroken(t, i, j)
      PROVE  j # Len(t) /\ j - i + 1 <= m
  <2>1. j # Len(t)
    BY <1>1, <1>2 DEF Unbroken
  <2>2. i \in 1 .. Len(s) /\ j \in 1 .. Len(s) /\ Unbroken(s, i, j)
    BY <1>1, <1>2, <2>1 DEF Unbroken
  <2> QED BY <1>2, <2>1, <2>2 DEF Short
<1>3. \A i \in 1 .. Len(t) : ~Unbroken(t, i, Len(t))
  BY <1>1 DEF Unbroken
<1> QED BY <1>2, <1>3 DEF Short, t

(* ... and a bound may be taken wider ...                                  *)
LEMMA ShortWiden ==
  ASSUME NEW s \in Seq(Char), NEW n, NEW m \in Nat, NEW k \in Nat, Short(s, n, m), m <= k
  PROVE  Short(s, n, k)
<1>1. Len(s) \in Nat
  OBVIOUS
<1>2. ASSUME NEW i \in 1 .. Len(s), NEW j \in 1 .. Len(s), i <= j, Unbroken(s, i, j)
      PROVE  j - i + 1 <= k
  <2>1. j - i + 1 <= m
    BY <1>2 DEF Short
  <2> QED BY <1>1, <2>1
<1> QED BY <1>2 DEF Short

(* ... and the first d characters may be taken away.                       *)
LEMMA ShortDrop ==
  ASSUME NEW s \in Seq(Char), NEW t \in Seq(Char), NEW n \in Nat, NEW m \in Nat, NEW d \in Nat,
         Short(s, n, m), Len(t) + d = Len(s), \A i \in 1 .. Len(t) : t[i] = s[i+d]
  PROVE  Short(t, n, m)
<1>1. Len(t) \in Nat /\ Len(s) \in Nat
  OBVIOUS
<1>2. ASSUME NEW i \in 1 .. Len(t), NEW j \in 1 .. Len(t), Unbroken(t, i, j)
      PROVE  /\ i + d \in 1 .. Len(s) /\ j + d \in 1 .. Len(s)
             /\ Unbroken(s, i + d, j + d)
  <2>1. ASSUME NEW k \in i + d .. j + d PROVE s[k] # "\n"
    <3>1. k - d \in i .. j /\ k - d \in 1 .. Len(t) /\ (k - d) + d = k
      BY <1>1
    <3>2. t[k - d] # "\n" /\ t[k - d] = s[(k - d) + d]
      BY <1>2, <3>1 DEF Unbroken
    <3> QED BY <3>1, <3>2
  <2> QED BY <1>1, <2>1 DEF Unbroken
<1>3. ASSUME NEW i \in 1 .. Len(t), Unbroken(t, i, Len(t)) PROVE Len(t) - i + 1 <= n
  <2>1. Len(t) \in 1 .. Len(t)
    BY <1>1
  <2>2. i + d \in 1 .. Len(s) /\ Unbroken(s, i + d, Len(s))
    BY <1>2, <1>3, <2>1
  <2>3. Len(s) - (i + d) + 1 <= n
    BY <2>2 DEF Short
  <2> QED BY <1>1, <2>3
<1>4. ASSUME NEW i \in 1 .. Len(t), NEW j \in 1 .. Len(t), i <= j, Unbroken(t, i, j)
      PROVE  j - i + 1 <= m
  <2>1. (j + d) - (i + d) + 1 <= m
    BY <1>2, <1>4 DEF Short
  <2> QED BY <2>1
<1> QED BY <1>3, <1>4 DEF Short

--------------------------------------------------------------------------------

(* The characters under way: first those the board has in incoming, then   *)
(* those on the wire.                                                      *)
Under == incoming \o wire

(* What the clients have written of the commands that they have not ended. *)
Done    == [c \in Client |-> IF todo[c] = <<>> THEN 0 ELSE 4 - Len(todo[c])]
Written == {p \in Client \X (1 .. 3) : p[2] <= Done[p[1]]}

(* The rest of a command: a '\n' at its end and nowhere else.              *)
Rest(s) ==
  /\ Len(s) <= 4
  /\ \A i \in 1 .. Len(s) : i < Len(s) => s[i] # "\n"
  /\ Len(s) > 0 => s[Len(s)] = "\n"

(* The line that is not ended yet consists of commands that are not ended  *)
(* either, and no other line is longer than such a one has ever been.  All *)
(* that write are among the first peak.                                    *)
LineInv ==
  /\ \A c \in Client : Rest(todo[c]) /\ (c > peak => todo[c] = <<>>)
  /\ Unbroken(incoming, 1, Len(incoming))
  /\ Short(Under, Cardinality(Written), 3 * peak)
  /\ LineFits

(* The first n numbers.                                                   *)
LEMMA IntervalSize ==
  ASSUME NEW n \in Nat PROVE IsFiniteSet(1 .. n) /\ Cardinality(1 .. n) = n
<1>1. IsFiniteSet(1 .. n) /\ Cardinality(1 .. n) = IF 1 > n THEN 0 ELSE n - 1 + 1
  BY FS_Interval
<1> QED BY <1>1

(* Each of the first n clients has at most three characters in a line.     *)
LEMMA ThreeEach ==
  ASSUME NEW n \in Nat, NEW W \in SUBSET ((1 .. n) \X (1 .. 3))
  PROVE  IsFiniteSet(W) /\ Cardinality(W) \in Nat /\ Cardinality(W) <= 3 * n
<1>1. n \in Nat /\ 3 \in Nat
  OBVIOUS
<1>2. IsFiniteSet(1 .. n) /\ Cardinality(1 .. n) = n
  BY <1>1, IntervalSize
<1>3. IsFiniteSet(1 .. 3) /\ Cardinality(1 .. 3) = 3
  BY <1>1, IntervalSize, Zenon
<1>4. IsFiniteSet((1 .. n) \X (1 .. 3)) /\ Cardinality((1 .. n) \X (1 .. 3)) = n * 3
  BY <1>2, <1>3, FS_Product
<1>5. IsFiniteSet(W) /\ Cardinality(W) <= n * 3
  BY <1>4, FS_Subset
<1>6. Cardinality(W) \in Nat
  BY <1>5, FS_CardinalityType
<1> QED BY <1>1, <1>5, <1>6

(* Only the first n clients write: the characters they have written.       *)
LEMMA WrittenBound ==
  ASSUME NEW n \in Nat, \A c \in Client : c > n => todo[c] = <<>>
  PROVE  IsFiniteSet(Written) /\ Cardinality(Written) \in Nat /\ Cardinality(Written) <= 3 * n
<1>1. ASSUME NEW p \in Written PROVE p \in (1 .. n) \X (1 .. 3)
  <2>1. p \in Client \X (1 .. 3) /\ p[1] \in Client /\ p[2] \in 1 .. 3 /\ p[2] <= Done[p[1]]
    BY DEF Written
  <2>2. Done[p[1]] # 0
    BY <2>1
  <2>3. ~(p[1] > n) /\ p[1] \in Nat /\ p[1] >= 1
    BY <2>1, <2>2, OccupancyAssumption DEF Done, Client, OccupancyAssumption
  <2> QED BY <2>1, <2>3
<1>2. Written \in SUBSET ((1 .. n) \X (1 .. 3))
  BY <1>1
<1> QED BY <1>2, ThreeEach

(* A command is four characters, and the last of them ends it.             *)
LEMMA CommandShape ==
  ASSUME NEW v \in Digit
  PROVE  Rest(Command(v)) /\ Len(Command(v)) = 4 /\ Command(v) # <<>>
<1>1. v # "\n"
  BY DEF Digit
<1>2. ASSUME NEW s \in Seq(Char), s = Command(v)
      PROVE  Rest(s) /\ Len(s) = 4 /\ s # <<>>
  <2>1. s[1] = "o" /\ s[2] = " " /\ s[3] = v
    BY <1>2 DEF Command
  <2>2. Len(s) = 4 /\ s[4] = "\n"
    BY <1>2 DEF Command
  <2>3. ASSUME NEW i \in 1 .. Len(s), i < Len(s) PROVE s[i] # "\n"
    <3>1. i = 1 \/ i = 2 \/ i = 3
      BY <2>2, <2>3
    <3> QED BY <1>1, <2>1, <3>1
  <2>4. Rest(s)
    BY <2>2, <2>3 DEF Rest
  <2> QED BY <2>2, <2>4
<1> QED BY <1>2, CommandType

(* Nothing is written of a command that has only been composed.            *)
LEMMA ComposeKeeps ==
  ASSUME TypeOK, LineInv, NEW c \in Client, SetOccupancy(c)
  PROVE  LineInv'
<1>1. PICK v \in Digit : todo' = [todo EXCEPT ![c] = Command(v)]
  BY DEF SetOccupancy
<1>2. todo[c] = <<>> /\ UNCHANGED <<wire, incoming>>
  BY DEF SetOccupancy, comVars
<1>3. \A d \in Client : todo'[d] = IF d = c THEN Command(v) ELSE todo[d]
  BY <1>1 DEF TypeOK
<1>4. Done' = Done
  <2>1. \A d \in Client : (IF todo'[d] = <<>> THEN 0 ELSE 4 - Len(todo'[d]))
                          = (IF todo[d] = <<>> THEN 0 ELSE 4 - Len(todo[d]))
    <3> TAKE d \in Client
    <3>1. CASE d = c
      <4>1. todo'[d] = Command(v) /\ todo[d] = <<>>
        BY <1>2, <1>3, <3>1
      <4>2. 4 - Len(Command(v)) = 0 /\ Command(v) # <<>>
        BY CommandShape
      <4> QED BY <4>1, <4>2
    <3>2. CASE d # c
      BY <1>3, <3>2
    <3> QED BY <3>1, <3>2
  <2> QED BY <2>1 DEF Done
<1>5. /\ peak \in Nat /\ peak' \in Nat /\ peak <= peak' /\ c <= peak'
      /\ 3 * peak \in Nat /\ 3 * peak' \in Nat /\ 3 * peak <= 3 * peak'
  <2>1. peak \in Nat /\ c \in Nat
    BY OccupancyAssumption DEF OccupancyAssumption, TypeOK, Client
  <2>2. peak' = IF c > peak THEN c ELSE peak
    BY DEF SetOccupancy
  <2>3. \A m, k \in Nat : m <= k => 3 * m \in Nat /\ 3 * k \in Nat /\ 3 * m <= 3 * k
    OBVIOUS
  <2>4. peak' \in Nat /\ peak <= peak' /\ c <= peak'
    BY <2>1, <2>2
  <2> QED BY <2>1, <2>3, <2>4
<1>6. \A d \in Client : Rest(todo'[d]) /\ (d > peak' => todo'[d] = <<>>)
  <2> TAKE d \in Client
  <2>1. d \in Nat /\ c \in Nat
    BY OccupancyAssumption DEF OccupancyAssumption, Client
  <2>2. Rest(todo'[d])
    BY <1>3, CommandShape DEF LineInv
  <2>3. ASSUME d > peak' PROVE todo'[d] = <<>>
    <3>1. d > peak /\ d # c
      BY <1>5, <2>1, <2>3
    <3> QED BY <1>3, <3>1 DEF LineInv
  <2> QED BY <2>2, <2>3
<1>7. Written' = Written /\ Under' = Under
  BY <1>2, <1>4 DEF Written, Under
<1>8. Short(Under', Cardinality(Written'), 3 * peak')
  <2>1. Under \in Seq(Char)
    BY DEF TypeOK, Under
  <2>3. Short(Under, Cardinality(Written), 3 * peak)
    BY DEF LineInv
  <2>4. Short(Under, Cardinality(Written), 3 * peak')
    BY <1>5, <2>1, <2>3, ShortWiden
  <2> QED BY <1>7, <2>4
<1>9. LineFits'
  <2>1. pc' = pc /\ (pc = "overrun" => 3 * peak >= LineSize)
    BY DEF SetOccupancy, LineInv, LineFits
  <2>2. \A m, k \in Nat : m <= k /\ m >= LineSize => k >= LineSize
    BY OccupancyAssumption DEF OccupancyAssumption
  <2> QED BY <1>5, <2>1, <2>2 DEF LineFits
<1> QED BY <1>2, <1>6, <1>8, <1>9 DEF LineInv

(* A character makes the last line longer by one, and the written part of  *)
(* its command too; a '\n' ends both.                                      *)
LEMMA WriteKeeps ==
  ASSUME TypeOK, LineInv, NEW c \in Client, WriteChar(c)
  PROVE  LineInv'
<1>1. PICK s : s = todo[c]
  OBVIOUS
<1>2. s # <<>> /\ s \in Seq(Char) /\ Rest(s)
  BY <1>1 DEF WriteChar, TypeOK, LineInv
<1>3. /\ Len(s) \in 1 .. 4 /\ Head(s) = s[1] /\ Head(s) \in Char
      /\ Len(Tail(s)) = Len(s) - 1 /\ Tail(s) \in Seq(Char)
      /\ \A i \in 1 .. Len(s) - 1 : Tail(s)[i] = s[i+1]
  <2>1. Len(s) <= 4 /\ Len(s) \in Nat /\ Len(s) # 0
    BY <1>2 DEF Rest
  <2>2. Len(s) \in 1 .. 4
    <3>1. \A k \in Nat : k <= 4 /\ k # 0 => k \in 1 .. 4
      OBVIOUS
    <3> QED BY <2>1, <3>1, Zenon
  <2>3. Head(s) = s[1]
    BY <1>2
  <2> QED BY <1>2, <2>2, <2>3, HeadTailProperties
<1>4. /\ todo' = [todo EXCEPT ![c] = Tail(s)]
      /\ \A d \in Client : todo'[d] = IF d = c THEN Tail(s) ELSE todo[d]
  BY <1>1 DEF WriteChar, TypeOK
<1>5. Head(s) = "\n" <=> Len(s) = 1
  <2>1. CASE Len(s) = 1
    BY <1>2, <1>3, <2>1 DEF Rest
  <2>2. CASE Len(s) # 1
    <3>1. 1 \in 1 .. Len(s) /\ 1 < Len(s)
      BY <1>3, <2>2
    <3> QED BY <1>2, <1>3, <2>2, <3>1 DEF Rest
  <2> QED BY <2>1, <2>2
<1>6. Rest(Tail(s))
  <2>1. Len(Tail(s)) <= 4
    BY <1>3
  <2>2. ASSUME NEW i \in 1 .. Len(Tail(s)), i < Len(Tail(s)) PROVE Tail(s)[i] # "\n"
    <3>1. i \in 1 .. Len(s) - 1 /\ i + 1 \in 1 .. Len(s) /\ i + 1 < Len(s)
      BY <1>3, <2>2
    <3> QED BY <1>2, <1>3, <3>1 DEF Rest
  <2>3. ASSUME Len(Tail(s)) > 0 PROVE Tail(s)[Len(Tail(s))] = "\n"
    <3>1. Len(s) - 1 \in 1 .. Len(s) - 1 /\ Len(s) > 0
      BY <1>3, <2>3
    <3> QED BY <1>2, <1>3, <3>1 DEF Rest
  <2> QED BY <2>1, <2>2, <2>3 DEF Rest
<1>7. \A d \in Client : Rest(todo'[d]) /\ (d > peak' => todo'[d] = <<>>)
  <2>1. peak' = peak /\ ~(c > peak)
    BY <1>1, <1>2 DEF WriteChar, LineInv
  <2> QED BY <1>4, <1>6, <2>1 DEF LineInv
<1>8. /\ incoming' = incoming /\ wire' = Append(wire, Head(s))
      /\ wire \in Seq(Char) /\ incoming \in Seq(Char)
  BY <1>1 DEF WriteChar, TypeOK, comVars
<1>9. Under' = Append(Under, Head(s)) /\ Under \in Seq(Char)
  BY <1>3, <1>8 DEF Under
<1>10. Short(Under, Cardinality(Written), 3 * peak) /\ LineFits'
  BY DEF LineInv, LineFits, WriteChar
<1>11. peak \in Nat /\ 3 * peak \in Nat /\ peak' = peak
  BY OccupancyAssumption DEF OccupancyAssumption, TypeOK, WriteChar
<1>12. CASE Head(s) = "\n"
  <2>1. Short(Under', Cardinality(Written'), 3 * peak')
    BY <1>9, <1>10, <1>11, <1>12, ShortEnd
  <2> QED BY <1>7, <1>8, <1>10, <2>1 DEF LineInv
<1>13. CASE Head(s) # "\n"
  <2>1. Len(s) \in 2 .. 4 /\ Tail(s) # <<>>
    BY <1>3, <1>5, <1>13
  <2>2. Done[c] = 4 - Len(s) /\ Done'[c] = 5 - Len(s)
    <3>1. Done[c] = 4 - Len(s)
      BY <1>1, <1>2 DEF Done
    <3>2. todo'[c] = Tail(s)
      BY <1>4
    <3>3. Done'[c] = 4 - Len(Tail(s))
      BY <2>1, <3>2 DEF Done
    <3> QED BY <1>3, <3>1, <3>3
  <2>3. \A d \in Client : d # c => Done'[d] = Done[d]
    BY <1>4 DEF Done
  <2>4. \A d \in Client, k \in 1 .. 3 :
          k <= Done'[d] <=> k <= Done[d] \/ (d = c /\ k = 5 - Len(s))
    BY <2>1, <2>2, <2>3
  <2>5. 5 - Len(s) \in 1 .. 3 /\ <<c, 5 - Len(s)>> \notin Written
    <3>1. \A k \in 2 .. 4 : 5 - k \in 1 .. 3 /\ ~(5 - k <= 4 - k)
      OBVIOUS
    <3>2. 5 - Len(s) \in 1 .. 3 /\ ~(5 - Len(s) <= Done[c])
      BY <2>1, <2>2, <3>1, Zenon
    <3>3. <<c, 5 - Len(s)>> \in Written => 5 - Len(s) <= Done[c]
      BY DEF Written
    <3> QED BY <3>2, <3>3
  <2>6. Written' = Written \cup {<<c, 5 - Len(s)>>}
    <3>1. ASSUME NEW p \in Client \X (1 .. 3)
          PROVE  p \in Written' <=> p \in Written \/ p = <<c, 5 - Len(s)>>
      <4>1. p[1] \in Client /\ p[2] \in 1 .. 3 /\ p = <<p[1], p[2]>>
        OBVIOUS
      <4>2. p = <<c, 5 - Len(s)>> <=> p[1] = c /\ p[2] = 5 - Len(s)
        BY <4>1
      <4> QED BY <2>4, <4>1, <4>2 DEF Written
    <3>2. <<c, 5 - Len(s)>> \in Client \X (1 .. 3)
      BY <2>5
    <3>3. Written \subseteq Client \X (1 .. 3) /\ Written' \subseteq Client \X (1 .. 3)
      BY DEF Written
    <3> QED BY <3>1, <3>2, <3>3
  <2>7. IsFiniteSet(Written) /\ Cardinality(Written) \in Nat
    BY <1>11, WrittenBound DEF LineInv
  <2>8. Cardinality(Written') = Cardinality(Written) + 1
    BY <2>5, <2>6, <2>7, FS_AddElement
  <2>9. Cardinality(Written') <= 3 * peak'
    <3>1. Written' \in SUBSET ((1 .. peak) \X (1 .. 3))
      <4>1. ASSUME NEW p \in Written' PROVE p \in (1 .. peak) \X (1 .. 3)
        <5>1. p \in Client \X (1 .. 3) /\ p[1] \in Client /\ p[2] \in 1 .. 3
              /\ p[2] <= Done'[p[1]]
          BY <4>1 DEF Written
        <5>2. Done'[p[1]] # 0
          BY <5>1
        <5>3. ~(p[1] > peak) /\ p[1] \in Nat /\ p[1] >= 1
          BY <1>7, <1>11, <5>1, <5>2, OccupancyAssumption
             DEF Done, Client, OccupancyAssumption
        <5> QED BY <1>11, <5>1, <5>3
      <4> QED BY <4>1
    <3> QED BY <1>11, <3>1, ThreeEach
  <2>10. Short(Under', Cardinality(Written'), 3 * peak')
    BY <1>3, <1>9, <1>10, <1>11, <2>8, <2>9, <2>7, ShortAppend
  <2> QED BY <1>7, <1>8, <1>10, <2>10 DEF LineInv
<1> QED BY <1>12, <1>13

(* A character that is read stays where it is among those under way.       *)
LEMMA ReadKeeps ==
  ASSUME TypeOK, LineInv, ReadChar
  PROVE  LineInv'
<1>1. /\ wire \in Seq(Char) /\ incoming \in Seq(Char) /\ wire # <<>>
      /\ incoming' = Append(incoming, Head(wire)) /\ wire' = Tail(wire)
      /\ Head(wire) # "\n" /\ todo' = todo /\ peak' = peak /\ pc' = pc
  BY DEF ReadChar, TypeOK, serverVars
<1>2. Under' = Under
  BY <1>1 DEF Under
<1>3. /\ Len(incoming) \in Nat /\ Len(incoming') = Len(incoming) + 1
      /\ \A i \in 1 .. Len(incoming) : incoming'[i] = incoming[i]
      /\ incoming'[Len(incoming) + 1] = Head(wire)
  BY <1>1
<1>4. Unbroken(incoming', 1, Len(incoming'))
  <2>1. \A i \in 1 .. Len(incoming) : incoming[i] # "\n"
    BY DEF LineInv, Unbroken
  <2> QED BY <1>1, <1>3, <2>1 DEF Unbroken
<1>5. Written' = Written
  BY <1>1 DEF Written, Done
<1> QED BY <1>1, <1>2, <1>4, <1>5 DEF LineInv, LineFits

(* What follows the end of a line moves to the front.                      *)
LEMMA EndKeeps ==
  ASSUME TypeOK, LineInv, ReadLine
  PROVE  LineInv'
<1>1. /\ wire \in Seq(Char) /\ incoming \in Seq(Char) /\ wire # <<>>
      /\ incoming' = <<>> /\ wire' = Tail(wire) /\ todo' = todo
      /\ peak' = peak /\ pc' = pc
  BY DEF ReadLine, TypeOK, serverVars
<1>2. /\ Len(wire) \in Nat /\ Len(incoming) \in Nat
      /\ Under' = wire' /\ wire' \in Seq(Char) /\ Len(wire') + 1 = Len(wire)
      /\ \A i \in 1 .. Len(wire') : wire'[i] = wire[i+1]
  BY <1>1, HeadTailProperties, ConcatEmptySeq DEF Under
<1>3. /\ Under \in Seq(Char) /\ Len(Under) = Len(incoming) + Len(wire)
      /\ \A i \in 1 .. Len(wire) : Under[Len(incoming) + i] = wire[i]
  BY <1>1, ConcatProperties DEF Under
<1>4. \A i \in 1 .. Len(wire') : Under'[i] = Under[i + (Len(incoming) + 1)]
  <2> SUFFICES ASSUME NEW i \in 1 .. Len(wire')
               PROVE  wire'[i] = Under[i + (Len(incoming) + 1)]
    BY <1>2
  <2>1. i + 1 \in 1 .. Len(wire) /\ Len(incoming) + (i + 1) = i + (Len(incoming) + 1)
    BY <1>2
  <2> QED BY <1>2, <1>3, <2>1
<1>5. /\ Written' = Written
      /\ Short(Under, Cardinality(Written), 3 * peak)
  BY <1>1 DEF Written, Done, LineInv
<1>6. 3 * peak \in Nat /\ Cardinality(Written) \in Nat
  <2>1. peak \in Nat
    BY OccupancyAssumption DEF OccupancyAssumption, TypeOK
  <2> QED BY <2>1, WrittenBound DEF LineInv
<1>7. Short(Under', Cardinality(Written'), 3 * peak')
  <2>1. /\ Len(incoming) + 1 \in Nat /\ Under' \in Seq(Char) /\ Under \in Seq(Char)
        /\ Len(Under') + (Len(incoming) + 1) = Len(Under)
        /\ \A i \in 1 .. Len(Under') : Under'[i] = Under[i + (Len(incoming) + 1)]
    BY <1>2, <1>3, <1>4
  <2> QED BY <1>1, <1>5, <1>6, <2>1, ShortDrop
<1>8. Unbroken(incoming', 1, Len(incoming'))
  BY <1>1 DEF Unbroken
<1> QED BY <1>1, <1>7, <1>8 DEF LineInv, LineFits

(* The array is overrun by a line that is too long for it.                 *)
LEMMA OverrunKeeps ==
  ASSUME TypeOK, LineInv, Overrun
  PROVE  LineInv'
<1>1. /\ UNCHANGED <<todo, wire, incoming, peak>>
      /\ Len(incoming) >= LineSize
  BY DEF Overrun, serverVars, comVars
<1>2. LineSize \in Nat /\ peak \in Nat /\ 3 * peak \in Nat
  BY OccupancyAssumption DEF OccupancyAssumption, TypeOK
<1>3. /\ Len(incoming) \in Nat /\ Len(wire) \in Nat
      /\ Len(Under) = Len(incoming) + Len(wire)
      /\ \A i \in 1 .. Len(incoming) : Under[i] = incoming[i]
  BY DEF TypeOK, Under
<1>4. 3 * peak >= LineSize
  <2>1. CASE Len(incoming) = 0
    BY <1>1, <1>2, <2>1
  <2>2. CASE Len(incoming) # 0
    <3>1. 1 \in 1 .. Len(Under) /\ Len(incoming) \in 1 .. Len(Under) /\ 1 <= Len(incoming)
      BY <1>3, <2>2
    <3>2. Unbroken(Under, 1, Len(incoming))
      BY <1>3 DEF Unbroken, LineInv
    <3>3. Len(incoming) - 1 + 1 <= 3 * peak
      BY <3>1, <3>2 DEF LineInv, Short
    <3> QED BY <1>1, <1>2, <1>3, <3>3
  <2> QED BY <2>1, <2>2
<1> QED BY <1>1, <1>4 DEF LineInv, LineFits, Under, Written, Done

(* The inductive step.                                                     *)
LEMMA LineStep == TypeOK /\ LineInv /\ [Next]_vars => LineInv'
<1> SUFFICES ASSUME TypeOK, LineInv, [Next]_vars PROVE LineInv'
  OBVIOUS
<1>1. ASSUME NEW c \in Client, SetOccupancy(c) PROVE LineInv'
  BY <1>1, ComposeKeeps
<1>2. ASSUME NEW c \in Client, WriteChar(c) PROVE LineInv'
  BY <1>2, WriteKeeps
<1>3. CASE ReadChar
  BY <1>3, ReadKeeps
<1>4. CASE ReadLine
  BY <1>4, EndKeeps
<1>5. CASE Overrun
  BY <1>5, OverrunKeeps
<1>6. CASE Round \/ NoMoreChars \/ NewOccupancy \/ EndRound
           \/ SetRef \/ SetRefEnd \/ SetFlag \/ Jump \/ Pid \/ UNCHANGED vars
  <2>1. UNCHANGED <<todo, wire, incoming, peak>> /\ (pc' = "overrun" => pc = "overrun")
    BY <1>6 DEF Round, NoMoreChars, NewOccupancy, EndRound, SetRef, SetRefEnd, SetFlag,
                Jump, Pid, vars, serverVars, comVars
  <2> QED BY <2>1 DEF LineInv, LineFits, Under, Written, Done
<1> QED BY <1>1, <1>2, <1>3, <1>4, <1>5, <1>6 DEF Next, Loop, Tick

(* SerialCom::receive_message writes behind incoming only after so many    *)
(* requests have written at once that three characters of each fill the    *)
(* array, four of them in the code, however their writes interleave and    *)
(* however many clients there are.                                         *)
THEOREM LinesFit == Spec => []LineFits
<1>1. Init => LineInv
  <2> SUFFICES ASSUME Init PROVE LineInv
    OBVIOUS
  <2>1. /\ \A c \in Client : todo[c] = <<>>
        /\ Len(incoming) = 0 /\ Len(Under) = 0 /\ pc = "wait"
    BY DEF Init, Under
  <2> QED BY <2>1 DEF LineInv, LineFits, Rest, Short, Unbroken
<1>2. LineInv => LineFits
  BY DEF LineInv
<1> QED BY <1>1, <1>2, LineStep, OccupancyType, PTL DEF Spec

================================================================================
