--------------------------- MODULE EnumerationProofs ---------------------------
(***************************************************************************)
(* What Enumeration promises for any set of boards.  Whatever the timing,  *)
(* whoever counts and whatever is lost on the bus: the types, and no board *)
(* enters one that is not there.  If the boards keep time and each has a   *)
(* wait of its own: one board counts, and all leave with the same vector.  *)
(***************************************************************************)
EXTENDS Enumeration, FiniteSetTheorems, TLAPS

(* The fields the proof looks at.                                          *)
Rec == [pc : PcState, n : Nat, i : Nat, ok : BOOLEAN, ko : BOOLEAN, heard : BOOLEAN,
        Narduinos : Nat, index : Nat, found : SUBSET Board, vec : Seq(Board),
        onReceive : {"none", "heard", "count", "index", "meta"},
        onSend : {"none", "ok", "meta"}, onSendError : {"none", "ko"}]

Envelope == Message \cup {NoMsg}

Types ==
  /\ bd   \in [Board -> Rec]
  /\ twi  \in [Board -> {"idle", "start", "stop", "nack", "lost"}]
  /\ out  \in [Board -> Envelope]
  /\ rx   \in [Board -> Envelope]

(* An index that is on its way, or that a board is about to store, is the  *)
(* address of a board.                                                     *)
Genuine(m) == m.kind = "A" => m.arg \in Board

Indexes(b) ==
  /\ Genuine(out[b]) /\ Genuine(rx[b])
  /\ bd[b].pc = "take" => bd[b].index \in Board
  /\ bd[b].pc \in {"awaitA", "take"} => bd[b].onReceive = "index"
  /\ bd[b].onReceive = "index" /\ bd[b].heard => bd[b].index \in Board

(* Who calls has one call under way, to address i, or knows whether there  *)
(* is somebody who has answered it.                                        *)
OneCall(b) ==
  /\ bd[b].pc \in {"boot", "wait", "call"} => twi[b] = "idle" /\ ~bd[b].ok /\ ~bd[b].ko
  /\ bd[b].pc = "called" =>
       \/ /\ twi[b] # "idle" /\ ~bd[b].ok /\ ~bd[b].ko
          /\ out[b].to = bd[b].i /\ out[b].to # All
          /\ twi[b] = "stop" => out[b].to \in Board
       \/ twi[b] = "idle" /\ (bd[b].ok => bd[b].i \in Board)
  /\ bd[b].pc \in {"boot", "wait", "call", "called"} => bd[b].i \in Address

(* Who has called enters itself.                                           *)
SelfKnown(b) == bd[b].pc \in {"count", "counted", "index"} => b \in bd[b].found

Local(b) == Indexes(b) /\ OneCall(b) /\ SelfKnown(b)

Inv == Types /\ \A b \in Board : Local(b)

(* Addresses are positive, and no address is that of the general call.     *)
LEMMA Addresses ==
  /\ Address \subseteq Nat \ {0} /\ Board \subseteq Address /\ IsFiniteSet(Board)
<1>1. Address \subseteq Nat \ {0} /\ Board \subseteq Address
  BY EnumerationAssumption DEF Address
<1>2. IsFiniteSet(Address)
  BY EnumerationAssumption, FS_Interval DEF Address
<1> QED
  BY <1>1, <1>2, FS_Subset

(* A step of the program that leaves the bus alone concerns one board.     *)
LEMMA OwnStep ==
  ASSUME Inv, NEW b \in Board, NEW r \in Rec, bd' = [bd EXCEPT ![b] = r],
         UNCHANGED busVars, Local(b)'
  PROVE  Inv'
<1>1. Types'
  BY DEF Inv, Types, busVars
<1>2. ASSUME NEW c \in Board PROVE Local(c)'
  <2>1. CASE c = b
    BY <2>1
  <2>2. CASE c # b
    <3>1. bd'[c] = bd[c] /\ twi' = twi /\ out' = out /\ rx' = rx
      BY <2>2 DEF Inv, Types, busVars
    <3> QED
      BY <3>1 DEF Inv, Local, Indexes, OneCall, SelfKnown
  <2> QED
    BY <2>1, <2>2
<1> QED
  BY <1>1, <1>2 DEF Inv

(* So does a step that sends, which also makes the board's own message.    *)
LEMMA SendStep ==
  ASSUME Inv, NEW b \in Board, NEW r \in Rec, bd' = [bd EXCEPT ![b] = r],
         NEW to \in Address \cup {All}, NEW kind \in {"call", "C", "A"}, NEW arg \in Nat,
         Send(b, to, kind, arg), Local(b)'
  PROVE  Inv'
<1>1. Types'
  BY DEF Inv, Types, Send, Envelope, Message
<1>2. ASSUME NEW c \in Board PROVE Local(c)'
  <2>1. CASE c = b
    BY <2>1
  <2>2. CASE c # b
    <3>1. bd'[c] = bd[c] /\ twi'[c] = twi[c] /\ out'[c] = out[c] /\ rx' = rx
      BY <2>2 DEF Inv, Types, Send
    <3> QED
      BY <3>1 DEF Inv, Local, Indexes, OneCall, SelfKnown
  <2> QED
    BY <2>1, <2>2
<1> QED
  BY <1>1, <1>2 DEF Inv

(* The steps of the program that do not send.                              *)
LEMMA QuietProgram ==
  ASSUME Inv, NEW b \in Board,
         \/ Boot(b) \/ Poll(b) \/ Counted(b) \/ Hear(b) \/ HearCount(b) \/ HearIndex(b)
         \/ TakeIndex(b) \/ Setup(b) \/ New(b)
  PROVE  Inv'
<1> USE DEF Local, Indexes, OneCall, SelfKnown
<1> UNCHANGED busVars /\ bd[b] \in Rec /\ Local(b)
  BY DEF Boot, Poll, Counted, Hear, HearCount, HearIndex, TakeIndex, Setup, New, Inv, Types
<1> bd \in [Board -> Rec]
  BY DEF Inv, Types
<1>1. CASE Boot(b)
  <2> DEFINE r == [bd[b] EXCEPT !.pc = "wait", !.onReceive = "heard"]
  <2>1. bd' = [bd EXCEPT ![b] = r] /\ r \in Rec /\ bd[b].pc = "boot"
    BY <1>1 DEF Boot, Rec, PcState
  <2>2. Local(b)'
    BY <2>1 DEF Rec, busVars
  <2> QED
    BY <2>1, <2>2, OwnStep
<1>2. CASE Poll(b)
  <2>1. CASE bd' = [bd EXCEPT ![b].pc = "hear"]
    <3> DEFINE r == [bd[b] EXCEPT !.pc = "hear"]
    <3>1. bd' = [bd EXCEPT ![b] = r] /\ r \in Rec
      BY <2>1 DEF Rec, PcState
    <3>2. Local(b)'
      BY <3>1 DEF Rec, busVars
    <3> QED
      BY <3>1, <3>2, OwnStep
  <2>2. CASE bd' = [bd EXCEPT ![b].n = @ + 1]
    <3> DEFINE r == [bd[b] EXCEPT !.n = bd[b].n + 1]
    <3>a. bd[b].n + 1 \in Nat
      BY DEF Rec
    <3>b. r \in Rec
      <4> DEFINE k == bd[b].n + 1
      <4> HIDE DEF k
      <4>1. k \in Nat
        BY <3>a DEF k
      <4>2. [bd[b] EXCEPT !.n = k] \in Rec
        BY <4>1 DEF Rec
      <4> QED
        BY <4>2 DEF k
    <3>c. bd' = [bd EXCEPT ![b] = r]
      BY <2>2
    <3>1. bd' = [bd EXCEPT ![b] = r] /\ r \in Rec
      BY <3>b, <3>c
    <3>2. Local(b)'
      BY <3>1 DEF Rec, busVars
    <3> QED
      BY <3>1, <3>2, OwnStep
  <2>3. CASE bd' = [bd EXCEPT ![b].pc = "call", ![b].onSend = "ok", ![b].onSendError = "ko"]
    <3> DEFINE r == [bd[b] EXCEPT !.pc = "call", !.onSend = "ok", !.onSendError = "ko"]
    <3>1. bd' = [bd EXCEPT ![b] = r] /\ r \in Rec /\ bd[b].pc = "wait"
      BY <1>2, <2>3 DEF Rec, PcState, Poll
    <3>2. Local(b)'
      BY <3>1 DEF Rec, busVars
    <3> QED
      BY <3>1, <3>2, OwnStep
  <2> QED
    BY <1>2, <2>1, <2>2, <2>3 DEF Poll
<1>3. CASE Counted(b)
  <2> DEFINE r == [bd[b] EXCEPT !.pc = "index", !.onSendError = "none", !.i = 0]
  <2>1. bd' = [bd EXCEPT ![b] = r] /\ r \in Rec /\ bd[b].pc = "counted"
    BY <1>3 DEF Counted, Rec, PcState
  <2>2. Local(b)'
    BY <2>1 DEF Rec, busVars
  <2> QED
    BY <2>1, <2>2, OwnStep
<1>4. CASE Hear(b)
  <2> DEFINE r == [bd[b] EXCEPT !.pc = "awaitC", !.onReceive = "count"]
  <2>1. bd' = [bd EXCEPT ![b] = r] /\ r \in Rec
    BY <1>4 DEF Hear, Rec, PcState
  <2>2. Local(b)'
    BY <2>1 DEF Rec, busVars
  <2> QED
    BY <2>1, <2>2, OwnStep
<1>5. CASE HearCount(b)
  <2> DEFINE r == [bd[b] EXCEPT !.pc = "awaitA", !.heard = FALSE, !.onReceive = "index"]
  <2>1. bd' = [bd EXCEPT ![b] = r] /\ r \in Rec
    BY <1>5 DEF HearCount, Rec, PcState
  <2>2. Local(b)'
    BY <2>1 DEF Rec, busVars
  <2> QED
    BY <2>1, <2>2, OwnStep
<1>6. CASE HearIndex(b)
  <2> DEFINE r == [bd[b] EXCEPT !.pc = "take", !.heard = FALSE]
  <2>1. bd' = [bd EXCEPT ![b] = r] /\ r \in Rec /\ bd[b].pc = "awaitA" /\ bd[b].heard
    BY <1>6 DEF HearIndex, Rec, PcState
  <2>2. Local(b)'
    BY <2>1 DEF Rec, busVars
  <2> QED
    BY <2>1, <2>2, OwnStep
<1>7. CASE TakeIndex(b)
  <2> DEFINE next == IF Len(bd[b].vec) + 1 = bd[b].Narduinos THEN "setup" ELSE "awaitA"
             r == [bd[b] EXCEPT !.vec = Append(@, bd[b].index), !.pc = next]
  <2>1. bd[b].pc = "take" /\ bd[b].index \in Board /\ next \in {"setup", "awaitA"}
    BY <1>7 DEF TakeIndex
  <2>a. Append(bd[b].vec, bd[b].index) \in Seq(Board)
    BY <2>1 DEF Rec
  <2>b. r \in Rec
    <3> DEFINE v == Append(bd[b].vec, bd[b].index)
    <3> HIDE DEF v, next
    <3>1. v \in Seq(Board) /\ next \in PcState
      BY <2>a, <2>1 DEF v, PcState
    <3>2. [bd[b] EXCEPT !.vec = v, !.pc = next] \in Rec
      BY <3>1 DEF Rec
    <3> QED
      BY <3>2 DEF v
  <2>c. bd' = [bd EXCEPT ![b] = r]
    BY <1>7 DEF TakeIndex
  <2>2. bd' = [bd EXCEPT ![b] = r] /\ r \in Rec
    BY <2>b, <2>c
  <2>3. next = "awaitA" => bd[b].onReceive = "index"
    BY <2>1
  <2>4. Local(b)'
    BY <2>1, <2>2, <2>3 DEF Rec, busVars
  <2> QED
    BY <2>2, <2>4, OwnStep
<1>8. CASE Setup(b)
  <2> DEFINE r == [bd[b] EXCEPT !.pc = "new", !.onReceive = "meta", !.onSend = "meta"]
  <2>1. bd' = [bd EXCEPT ![b] = r] /\ r \in Rec
    BY <1>8 DEF Setup, Rec, PcState
  <2>2. Local(b)'
    BY <2>1 DEF Rec, busVars
  <2> QED
    BY <2>1, <2>2, OwnStep
<1>9. CASE New(b)
  <2> DEFINE r == [bd[b] EXCEPT !.pc = "done"]
  <2>1. bd' = [bd EXCEPT ![b] = r] /\ r \in Rec
    BY <1>9 DEF New, Rec, PcState
  <2>2. Local(b)'
    BY <2>1 DEF Rec, busVars
  <2> QED
    BY <2>1, <2>2, OwnStep
<1> QED
  BY <1>1, <1>2, <1>3, <1>4, <1>5, <1>6, <1>7, <1>8, <1>9

(* The steps of the board that counts.                                     *)
LEMMA CallStep ==
  ASSUME Inv, NEW b \in Board, Call(b)
  PROVE  Inv'
<1> DEFINE r == [bd[b] EXCEPT !.pc = "called"]
<1>1. bd[b] \in Rec /\ bd \in [Board -> Rec] /\ Local(b)
  BY DEF Inv, Types
<1>2. bd' = [bd EXCEPT ![b] = r] /\ r \in Rec /\ bd[b].pc = "call"
  BY <1>1 DEF Call, Rec, PcState
<1>3. bd[b].i \in Address /\ bd[b].i # All /\ ~bd[b].ok /\ ~bd[b].ko
  BY <1>1, <1>2, Addresses DEF Local, OneCall, All
<1>4. Send(b, bd[b].i, "call", 0)
  BY DEF Call
<1>5. twi'[b] = "start" /\ out'[b] = [to |-> bd[b].i, kind |-> "call", arg |-> 0] /\ rx' = rx
  BY <1>4 DEF Send, Inv, Types
<1>6. Local(b)'
  BY <1>1, <1>2, <1>3, <1>5 DEF Local, Indexes, OneCall, SelfKnown, Genuine, Rec
<1> QED
  BY <1>2, <1>3, <1>4, <1>6, SendStep

(* Only boards answer, so only boards are found.                           *)
LEMMA CalledStep ==
  ASSUME Inv, NEW b \in Board, Called(b)
  PROVE  Inv'
<1> DEFINE last == bd[b].i = Last
           k    == bd[b].i + 1
           size == 1 + Cardinality(Found(b))
           now  == [bd[b] EXCEPT !.ok = FALSE, !.ko = FALSE, !.i = k, !.found = Found(b)]
           r    == IF last THEN [now EXCEPT !.pc = "count", !.found = Entered(b),
                                            !.Narduinos = size]
                           ELSE [now EXCEPT !.pc = "call"]
<1>1. bd[b] \in Rec /\ bd \in [Board -> Rec] /\ Local(b) /\ UNCHANGED busVars
  BY DEF Inv, Types, Called
<1>2. bd[b].pc = "called" /\ (bd[b].ok \/ bd[b].ko)
  BY DEF Called
<1>3. twi[b] = "idle" /\ (bd[b].ok => bd[b].i \in Board) /\ bd[b].i \in Address
  BY <1>1, <1>2 DEF Local, OneCall
<1>4. Found(b) \in SUBSET Board /\ Entered(b) \in SUBSET Board /\ b \in Entered(b)
  BY <1>1, <1>3 DEF Found, Entered, Rec
<1>5. size \in Nat
  <2>1. Cardinality(Found(b)) \in Nat
    BY <1>4, Addresses, FS_Subset, FS_CardinalityType
  <2> QED
    BY <2>1
<1>6. k \in Nat /\ (~last => k \in Address)
  BY <1>3, EnumerationAssumption DEF Address
<1>7. bd' = [bd EXCEPT ![b] = r]
  BY DEF Called
<1>8. r \in Rec
  <2> HIDE DEF k, size, last
  <2>1. now \in Rec
    BY <1>1, <1>4, <1>6 DEF Rec
  <2> HIDE DEF now
  <2>2. [now EXCEPT !.pc = "count", !.found = Entered(b), !.Narduinos = size] \in Rec
    BY <2>1, <1>4, <1>5 DEF Rec, PcState
  <2>3. [now EXCEPT !.pc = "call"] \in Rec
    BY <2>1 DEF Rec, PcState
  <2> QED
    BY <2>2, <2>3
<1>9. Local(b)'
  <2>1. bd'[b] = r /\ twi' = twi /\ out' = out /\ rx' = rx
    BY <1>1, <1>7 DEF busVars
  <2>2. CASE last
    <3>1. /\ r.pc = "count" /\ b \in r.found /\ r.onReceive = bd[b].onReceive
          /\ r.heard = bd[b].heard /\ r.index = bd[b].index
      <4> HIDE DEF k, size
      <4> QED
        BY <2>2, <1>1, <1>4 DEF Rec
    <3> HIDE DEF r
    <3> QED
      BY <2>1, <3>1, <1>1 DEF Local, Indexes, OneCall, SelfKnown
  <2>3. CASE ~last
    <3>1. /\ r.pc = "call" /\ r.ok = FALSE /\ r.ko = FALSE /\ r.i = k
          /\ r.onReceive = bd[b].onReceive
          /\ r.heard = bd[b].heard /\ r.index = bd[b].index
      <4> HIDE DEF k, size
      <4> QED
        BY <2>3, <1>1, <1>4 DEF Rec
    <3> HIDE DEF r
    <3> QED
      BY <2>1, <2>3, <3>1, <1>1, <1>3, <1>6 DEF Local, Indexes, OneCall, SelfKnown
  <2> QED
    BY <2>2, <2>3
<1> HIDE DEF r
<1> QED
  BY <1>1, <1>7, <1>8, <1>9, OwnStep

(* The count is no address; it is sent to nobody in particular.            *)
LEMMA CountStep ==
  ASSUME Inv, NEW b \in Board, Count(b)
  PROVE  Inv'
<1> DEFINE r == [bd[b] EXCEPT !.pc = "counted"]
<1>1. bd[b] \in Rec /\ bd \in [Board -> Rec] /\ Local(b)
  BY DEF Inv, Types
<1>2. bd' = [bd EXCEPT ![b] = r] /\ r \in Rec /\ bd[b].pc = "count" /\ bd[b].Narduinos \in Nat
  BY <1>1 DEF Count, Rec, PcState
<1>3. Send(b, All, "C", bd[b].Narduinos)
  BY DEF Count
<1>4. out'[b] = [to |-> All, kind |-> "C", arg |-> bd[b].Narduinos] /\ rx' = rx
  BY <1>3 DEF Send, Inv, Types
<1>5. Local(b)'
  BY <1>1, <1>2, <1>4 DEF Local, Indexes, OneCall, SelfKnown, Genuine, Rec
<1> QED
  BY <1>2, <1>3, <1>5, SendStep

(* Only addresses that have been found are sent.                           *)
LEMMA SendIndexStep ==
  ASSUME Inv, NEW b \in Board, SendIndex(b)
  PROVE  Inv'
<1>1. bd[b] \in Rec /\ bd \in [Board -> Rec] /\ Local(b) /\ bd[b].pc = "index"
  BY DEF Inv, Types, SendIndex
<1>2. PICK a \in bd[b].found :
        /\ Send(b, All, "A", a)
        /\ bd' = [bd EXCEPT ![b].vec = Append(@, a), ![b].i = a,
                  ![b].pc = IF \E c \in bd[b].found : c > a THEN "index" ELSE "setup"]
  BY DEF SendIndex
<1> DEFINE v    == Append(bd[b].vec, a)
           next == IF \E c \in bd[b].found : c > a THEN "index" ELSE "setup"
           r    == [bd[b] EXCEPT !.vec = v, !.i = a, !.pc = next]
<1>3. a \in Board /\ a \in Nat
  BY <1>1, <1>2, Addresses DEF Rec
<1>4. bd' = [bd EXCEPT ![b] = r]
  BY <1>2
<1>5. v \in Seq(Board) /\ next \in PcState /\ next \in {"index", "setup"}
  BY <1>1, <1>3 DEF Rec, PcState
<1>6. out'[b] = [to |-> All, kind |-> "A", arg |-> a] /\ rx' = rx
  BY <1>2 DEF Send, Inv, Types
<1> HIDE DEF v, next
<1>7. r \in Rec
  BY <1>1, <1>3, <1>5 DEF Rec
<1>8. Local(b)'
  BY <1>1, <1>3, <1>4, <1>5, <1>6 DEF Local, Indexes, OneCall, SelfKnown, Genuine, Rec
<1> HIDE DEF r
<1> QED
  BY <1>2, <1>3, <1>4, <1>7, <1>8, SendStep

(* A call that is acknowledged was addressed to a board.                   *)
LEMMA TransferStep ==
  ASSUME Inv, NEW b \in Board, Transfer(b)
  PROVE  Inv'
<1>1. PICK tied \in SUBSET {c \in Board \ {b} : twi[c] = "start"} :
        twi' = [c \in Board |->
                  IF c \in {b} \cup {d \in tied : \/ out[d] = out[b]
                                                  \/ Listeners(b) = {} /\ out[d].to = out[b].to}
                    THEN (IF Listeners(b) # {} THEN "stop" ELSE "nack")
                    ELSE IF c \in tied THEN "lost" ELSE twi[c]]
  BY DEF Transfer
<1>2. /\ twi[b] = "start" /\ bd' = bd /\ out' = out
      /\ rx' = [c \in Board |-> IF c \in Listeners(b) THEN out[b] ELSE NoMsg]
  BY DEF Transfer
<1>3. Types'
  <2>1. twi' \in [Board -> {"idle", "start", "stop", "nack", "lost"}]
    BY <1>1 DEF Inv, Types
  <2>2. rx' \in [Board -> Envelope]
    BY <1>2 DEF Inv, Types, Envelope
  <2> QED
    BY <1>2, <2>1, <2>2 DEF Inv, Types
<1>4. ASSUME NEW c \in Board PROVE Local(c)'
  <2>1. Local(c) /\ Local(b) /\ bd'[c] = bd[c] /\ out'[c] = out[c]
    BY <1>2 DEF Inv
  <2>2. Genuine(rx[c])'
    BY <1>2, <2>1 DEF Inv, Local, Indexes, Genuine, NoMsg
  <2>3. Indexes(c)'
    BY <2>1, <2>2 DEF Local, Indexes, Genuine
  <2>4. twi[c] = "idle" => twi'[c] = "idle"
    BY <1>1, <1>2
  <2>5. twi[c] # "idle" => twi'[c] # "idle"
    BY <1>1, <1>2
  <2>6. ASSUME twi'[c] = "stop", twi[c] # "stop", out[c].to # All PROVE out[c].to \in Board
    <3>1. out[c] = out[b] /\ Listeners(b) # {}
      BY <1>1, <2>6
    <3> QED
      BY <3>1, <2>6 DEF Listeners
  <2>7. OneCall(c)'
    BY <2>1, <2>4, <2>5, <2>6 DEF Local, OneCall
  <2>8. SelfKnown(c)'
    BY <2>1 DEF Local, SelfKnown
  <2> QED
    BY <2>3, <2>7, <2>8 DEF Local
<1> QED
  BY <1>3, <1>4 DEF Inv

(* A callback at the end of a call tells that its address has answered.    *)
LEMMA SentStep ==
  ASSUME Inv, NEW b \in Board, SentISR(b)
  PROVE  Inv'
<1>1. /\ twi[b] \in {"stop", "nack"} /\ twi' = [twi EXCEPT ![b] = "idle"]
      /\ out' = out /\ rx' = rx
      /\ \/ /\ twi[b] = "stop"
            /\ bd' = [bd EXCEPT ![b].ok = @ \/ bd[b].onSend = "ok"]
         \/ /\ twi[b] = "nack"
            /\ bd' = [bd EXCEPT ![b].ko = @ \/ bd[b].onSendError = "ko"]
  BY DEF SentISR
<1>2. Types /\ bd[b] \in Rec /\ twi'[b] = "idle"
  BY <1>1 DEF Inv, Types
<1>3. PICK ok \in BOOLEAN, ko \in BOOLEAN :
        /\ bd' = [bd EXCEPT ![b] = [bd[b] EXCEPT !.ok = ok, !.ko = ko]]
        /\ ok => bd[b].ok \/ twi[b] = "stop"
  <2>1. CASE twi[b] = "stop" /\ bd' = [bd EXCEPT ![b].ok = @ \/ bd[b].onSend = "ok"]
    <3> DEFINE x == bd[b].ok \/ bd[b].onSend = "ok"
    <3>1. x \in BOOLEAN /\ bd[b].ko \in BOOLEAN
      BY <1>2 DEF Rec
    <3>2. bd' = [bd EXCEPT ![b] = [bd[b] EXCEPT !.ok = x]]
      BY <2>1
    <3> HIDE DEF x
    <3>3. [bd[b] EXCEPT !.ok = x] = [bd[b] EXCEPT !.ok = x, !.ko = bd[b].ko]
      BY <1>2 DEF Rec
    <3> QED
      BY <2>1, <3>1, <3>2, <3>3
  <2>2. CASE twi[b] = "nack" /\ bd' = [bd EXCEPT ![b].ko = @ \/ bd[b].onSendError = "ko"]
    <3> DEFINE x == bd[b].ko \/ bd[b].onSendError = "ko"
    <3>1. x \in BOOLEAN /\ bd[b].ok \in BOOLEAN
      BY <1>2 DEF Rec
    <3>2. bd' = [bd EXCEPT ![b] = [bd[b] EXCEPT !.ko = x]]
      BY <2>2
    <3> HIDE DEF x
    <3>3. [bd[b] EXCEPT !.ko = x] = [bd[b] EXCEPT !.ok = bd[b].ok, !.ko = x]
      BY <1>2 DEF Rec
    <3> QED
      BY <3>1, <3>2, <3>3
  <2> QED
    BY <1>1, <2>1, <2>2
<1>4. Types'
  BY <1>1, <1>2, <1>3 DEF Types, Rec
<1>5. ASSUME NEW c \in Board PROVE Local(c)'
  <2>1. Local(c)
    BY DEF Inv
  <2>2. CASE c # b
    <3>1. bd'[c] = bd[c] /\ twi'[c] = twi[c] /\ out' = out /\ rx' = rx
      BY <1>1, <1>2, <1>3, <2>2 DEF Types
    <3> QED
      BY <2>1, <3>1 DEF Local, Indexes, OneCall, SelfKnown
  <2>3. CASE c = b
    <3>1. /\ bd'[b].pc = bd[b].pc /\ bd'[b].i = bd[b].i /\ bd'[b].found = bd[b].found
          /\ bd'[b].onReceive = bd[b].onReceive /\ bd'[b].heard = bd[b].heard
          /\ bd'[b].index = bd[b].index /\ bd'[b].ok = ok
      BY <1>2, <1>3 DEF Types, Rec
    <3>2. bd[b].pc = "called" /\ ok => bd[b].i \in Board
      BY <1>1, <1>3, <2>1, <2>3 DEF Local, OneCall
    <3>3. OneCall(b)'
      BY <1>1, <1>2, <2>1, <2>3, <3>1, <3>2 DEF Local, OneCall
    <3>4. Indexes(b)' /\ SelfKnown(b)'
      BY <1>1, <2>1, <2>3, <3>1 DEF Local, Indexes, SelfKnown
    <3> QED
      BY <2>3, <3>3, <3>4 DEF Local
  <2> QED
    BY <2>2, <2>3
<1> QED
  BY <1>4, <1>5 DEF Inv

(* A callback that receives an index receives that of a board.             *)
LEMMA ReceiveStep ==
  ASSUME Inv, NEW b \in Board, ReceiveISR(b)
  PROVE  Inv'
<1> DEFINE taken == bd[b].onReceive = "index" /\ rx[b].kind = "A"
<1>1. Types /\ bd[b] \in Rec /\ rx[b] \in Message /\ Local(b)
  BY DEF ReceiveISR, Inv, Types, Envelope
<1>2. twi' = twi /\ out' = out /\ rx' = [rx EXCEPT ![b] = NoMsg]
  BY DEF ReceiveISR
<1>3. PICK heard \in BOOLEAN, count \in Nat, index \in Nat :
        /\ bd' = [bd EXCEPT ![b] = [bd[b] EXCEPT !.heard = heard, !.Narduinos = count,
                                                 !.index = index]]
        /\ heard => bd[b].heard \/ bd[b].onReceive = "heard" \/ taken
        /\ index = IF taken THEN rx[b].arg ELSE bd[b].index
  <2> DEFINE x == bd[b].heard \/ bd[b].onReceive = "heard" \/ taken
             y == IF bd[b].onReceive = "count" /\ rx[b].kind = "C"
                    THEN rx[b].arg ELSE bd[b].Narduinos
             z == IF taken THEN rx[b].arg ELSE bd[b].index
  <2>1. x \in BOOLEAN
    OBVIOUS
  <2>2. y \in Nat /\ z \in Nat
    BY <1>1 DEF Rec, Message
  <2>3. bd' = [bd EXCEPT ![b] = [bd[b] EXCEPT !.heard = x, !.Narduinos = y, !.index = z]]
    BY DEF ReceiveISR
  <2>4. x => bd[b].heard \/ bd[b].onReceive = "heard" \/ taken
    OBVIOUS
  <2>5. z = IF taken THEN rx[b].arg ELSE bd[b].index
    OBVIOUS
  <2> HIDE DEF x, y, z, taken
  <2> QED
    BY <2>1, <2>2, <2>3, <2>4, <2>5
<1>4. Types'
  BY <1>1, <1>2, <1>3 DEF Types, Rec, Envelope
<1>5. ASSUME NEW c \in Board PROVE Local(c)'
  <2>1. Local(c)
    BY DEF Inv
  <2>2. CASE c # b
    <3>1. bd'[c] = bd[c] /\ rx'[c] = rx[c] /\ out' = out /\ twi' = twi
      BY <1>1, <1>2, <1>3, <2>2 DEF Types
    <3> QED
      BY <2>1, <3>1 DEF Local, Indexes, OneCall, SelfKnown
  <2>3. CASE c = b
    <3>1. /\ bd'[b].pc = bd[b].pc /\ bd'[b].i = bd[b].i /\ bd'[b].found = bd[b].found
          /\ bd'[b].onReceive = bd[b].onReceive /\ bd'[b].ok = bd[b].ok
          /\ bd'[b].ko = bd[b].ko /\ bd'[b].heard = heard /\ bd'[b].index = index
      BY <1>1, <1>3 DEF Types, Rec
    <3>2. rx'[b] = NoMsg
      BY <1>1, <1>2 DEF Types
    <3>3. taken => index \in Board
      BY <1>1, <1>3 DEF Local, Indexes, Genuine
    <3>4. ~taken => index = bd[b].index
      BY <1>3
    <3>5. bd[b].onReceive = "index" /\ heard => index \in Board
      BY <1>1, <1>3, <3>3, <3>4 DEF Local, Indexes
    <3>6. bd[b].pc = "take" => index \in Board
      BY <1>1, <3>3, <3>4 DEF Local, Indexes
    <3>7. Indexes(b)'
      BY <1>1, <1>2, <3>1, <3>2, <3>5, <3>6 DEF Local, Indexes, Genuine, NoMsg
    <3>8. OneCall(b)' /\ SelfKnown(b)'
      BY <1>1, <1>2, <3>1 DEF Local, OneCall, SelfKnown
    <3> QED
      BY <2>3, <3>7, <3>8 DEF Local
  <2> QED
    BY <2>2, <2>3
<1> QED
  BY <1>4, <1>5 DEF Inv

(* It holds at the start,                                                  *)
LEMMA InvInit == Init => Inv
<1> SUFFICES ASSUME Init PROVE Inv
  OBVIOUS
<1>1. First \in Nat /\ First \in Address /\ Board \subseteq Nat \ {0}
  <2>1. Board # {}
    BY EnumerationAssumption, FS_EmptySet
  <2>2. First <= Last
    <3>1. PICK b \in Board : TRUE
      BY <2>1
    <3>2. b \in Nat /\ First <= b /\ b <= Last
      BY <3>1, Addresses, EnumerationAssumption DEF Address
    <3> QED
      BY <3>2, EnumerationAssumption
  <2> QED
    BY <2>2, EnumerationAssumption, Addresses DEF Address
<1>2. Types
  BY <1>1 DEF Init, Types, Rec, PcState, Envelope
<1>3. ASSUME NEW b \in Board PROVE Local(b)
  BY <1>1 DEF Init, Local, Indexes, OneCall, SelfKnown, Genuine, NoMsg
<1> QED
  BY <1>2, <1>3 DEF Inv

(* and every step keeps it.                                                *)
LEMMA InvStep == Inv /\ [Next]_vars => Inv'
<1> SUFFICES ASSUME Inv, [Next]_vars PROVE Inv'
  OBVIOUS
<1>1. CASE UNCHANGED vars
  BY <1>1 DEF vars, busVars, Inv, Types, Local, Indexes, OneCall, SelfKnown, Genuine
<1>2. CASE Next
  <2>1. PICK b \in Board : Program(b) \/ Transfer(b) \/ Interrupt(b)
    BY <1>2 DEF Next
  <2> QED
    BY <2>1, QuietProgram, CallStep, CalledStep, CountStep, SendIndexStep, TransferStep,
       SentStep, ReceiveStep DEF Program, Interrupt
<1> QED
  BY <1>1, <1>2

(* Safety of the enumeration without a hypothesis on time: every vector    *)
(* that countArduinos makes holds addresses of boards that are there, and  *)
(* the board that sends it is among those it has found.                    *)
THEOREM NobodyInvented == Safety => []NoGhost
<1>1. Inv => NoGhost
  <2> SUFFICES ASSUME Inv, NEW b \in Board
               PROVE  /\ \A k \in 1 .. Len(bd[b].vec) : bd[b].vec[k] \in Board
                      /\ SelfKnown(b)
    BY DEF NoGhost, SelfKnown
  <2>1. bd[b].vec \in Seq(Board) /\ SelfKnown(b)
    BY DEF Inv, Types, Local, Rec
  <2> QED
    BY <2>1
<1> QED
  BY <1>1, InvInit, InvStep, PTL DEF Safety

--------------------------------------------------------------------------------
(* The bounds of TypeOK.                                                   *)

Size == Cardinality(Board)

(* No count is larger than the number of boards, since a board that calls  *)
(* its own address gets no answer.                                         *)
Bounds(b) ==
  /\ bd[b].n <= Slots /\ bd[b].i <= Last + 1
  /\ bd[b].Narduinos <= Size /\ bd[b].index \in {0} \cup Board
  /\ out[b].kind = "C" => out[b].arg <= Size
  /\ rx[b].kind = "C" => rx[b].arg <= Size
  /\ bd[b].pc \in {"boot", "wait", "call", "called"} => b \notin bd[b].found
  /\ bd[b].pc = "called" /\ (twi[b] = "stop" \/ bd[b].ok) => bd[b].i # b

Bounded ==
  /\ deaf \in [Board -> BOOLEAN] /\ stray \in BOOLEAN
  /\ \A b \in Board : Bounds(b)

(* The number of boards.                                                   *)
LEMMA Sizes ==
  /\ Size \in Nat /\ Size > 1
  /\ \A S \in SUBSET Board : /\ IsFiniteSet(S) /\ Cardinality(S) \in Nat /\ Cardinality(S) <= Size
                             /\ Cardinality(S) = Size => S = Board
<1>1. Size \in Nat /\ Size > 1
  BY Addresses, EnumerationAssumption, FS_CardinalityType DEF Size
<1>2. ASSUME NEW S \in SUBSET Board
      PROVE  /\ IsFiniteSet(S) /\ Cardinality(S) \in Nat /\ Cardinality(S) <= Size
             /\ Cardinality(S) = Size => S = Board
  BY Addresses, FS_Subset, FS_CardinalityType DEF Size
<1> QED
  BY <1>1, <1>2

(* A step of the program of one board that sends nothing.                  *)
LEMMA OwnBounds ==
  ASSUME Inv, Bounded, NEW b \in Board, NEW r, bd' = [bd EXCEPT ![b] = r],
         UNCHANGED <<busVars, stray>>, Bounds(b)'
  PROVE  Bounded'
<1>1. ASSUME NEW c \in Board, c # b PROVE Bounds(c)'
  <2>1. bd'[c] = bd[c] /\ twi' = twi /\ out' = out /\ rx' = rx
    BY <1>1 DEF busVars
  <2> QED
    BY <2>1 DEF Bounded, Bounds
<1> QED
  BY <1>1 DEF Bounded, busVars

(* A step that sends.                                                      *)
LEMMA SendBounds ==
  ASSUME Inv, Bounded, NEW b \in Board, NEW r, bd' = [bd EXCEPT ![b] = r],
         NEW to, NEW kind, NEW arg, Send(b, to, kind, arg), Bounds(b)'
  PROVE  Bounded'
<1>1. ASSUME NEW c \in Board, c # b PROVE Bounds(c)'
  <2>1. bd'[c] = bd[c] /\ twi'[c] = twi[c] /\ out'[c] = out[c] /\ rx' = rx
    BY <1>1 DEF Send, Inv, Types
  <2> QED
    BY <2>1 DEF Bounded, Bounds
<1> QED
  BY <1>1 DEF Bounded, Send

(* The steps of the program that do not send and do not count.             *)
LEMMA QuietBounds ==
  ASSUME Inv, Bounded, NEW b \in Board,
         \/ Boot(b) \/ Poll(b) \/ Counted(b) \/ Hear(b) \/ HearCount(b) \/ HearIndex(b)
         \/ TakeIndex(b) \/ Setup(b) \/ New(b)
  PROVE  Bounded'
<1> DEFINE old == bd[b]
<1>1. /\ bd[b] \in Rec /\ bd \in [Board -> Rec] /\ Bounds(b)
      /\ twi' = twi /\ out' = out /\ rx' = rx /\ UNCHANGED <<busVars, stray>>
  BY DEF Boot, Poll, Counted, Hear, HearCount, HearIndex, TakeIndex, Setup, New, busVars,
         Inv, Types, Bounded
<1>2. bd' = [bd EXCEPT ![b] = bd'[b]] /\ bd'[b] \in Rec
  <2>1. Inv'
    BY QuietProgram
  <2>2. \A c \in Board : c # b => bd'[c] = bd[c]
    BY <1>1 DEF Boot, Poll, Counted, Hear, HearCount, HearIndex, TakeIndex, Setup, New
  <2> QED
    BY <1>1, <2>1, <2>2 DEF Inv, Types
<1>3. /\ bd'[b].n = bd[b].n \/ (bd'[b].n = bd[b].n + 1 /\ bd[b].n < Patience(b))
      /\ bd'[b].i = bd[b].i \/ bd'[b].i = 0
      /\ bd'[b].Narduinos = bd[b].Narduinos /\ bd'[b].index = bd[b].index
      /\ bd'[b].found = bd[b].found /\ bd'[b].ok = bd[b].ok
      /\ bd'[b].pc # "called"
      /\ bd'[b].pc \in {"boot", "wait", "call"} => bd[b].pc \in {"boot", "wait", "call"}
  <2> USE <1>1
  <2>1. CASE Boot(b)
    BY <2>1 DEF Boot, Rec
  <2>2. CASE Poll(b)
    BY <2>2 DEF Poll, Rec
  <2>3. CASE Counted(b)
    BY <2>3 DEF Counted, Rec
  <2>4. CASE Hear(b)
    BY <2>4 DEF Hear, Rec
  <2>5. CASE HearCount(b)
    BY <2>5 DEF HearCount, Rec
  <2>6. CASE HearIndex(b)
    BY <2>6 DEF HearIndex, Rec
  <2>7. CASE TakeIndex(b)
    <3> DEFINE v    == Append(bd[b].vec, bd[b].index)
               next == IF Len(bd[b].vec) + 1 = bd[b].Narduinos THEN "setup" ELSE "awaitA"
    <3>1. bd' = [bd EXCEPT ![b].vec = v, ![b].pc = next] /\ next \in {"setup", "awaitA"}
      BY <2>7 DEF TakeIndex
    <3> HIDE DEF v, next
    <3> QED
      BY <3>1 DEF Rec
  <2>8. CASE Setup(b)
    BY <2>8 DEF Setup, Rec
  <2>9. CASE New(b)
    BY <2>9 DEF New, Rec
  <2> QED
    BY <2>1, <2>2, <2>3, <2>4, <2>5, <2>6, <2>7, <2>8, <2>9
<1>4. bd'[b].n <= Slots
  <2>1. bd[b].n \in Nat /\ Slots \in Nat /\ bd[b].n <= Slots
    BY <1>1, EnumerationAssumption DEF Bounds, Rec
  <2>2. Patience(b) \in Int /\ Patience(b) <= Slots
    <3>1. b \in Nat /\ First \in Nat /\ Slots \in Nat /\ First <= b
      BY Addresses, EnumerationAssumption DEF Address
    <3> QED
      BY ONLY <3>1 DEF Patience
  <2> QED
    BY ONLY <1>3, <2>1, <2>2
<1>5. bd'[b].i <= Last + 1
  <2>1. bd[b].i <= Last + 1 /\ 0 <= Last + 1
    BY <1>1, EnumerationAssumption DEF Bounds
  <2> QED
    BY ONLY <1>3, <2>1
<1>6. Bounds(b)'
  BY <1>1, <1>3, <1>4, <1>5 DEF Bounds
<1> QED
  BY <1>1, <1>2, <1>6, OwnBounds

(* A call, and what becomes of it.                                         *)
LEMMA CallBounds ==
  ASSUME Inv, Bounded, NEW b \in Board, Call(b)
  PROVE  Bounded'
<1>1. bd[b] \in Rec /\ bd \in [Board -> Rec] /\ Bounds(b) /\ bd[b].pc = "call"
  BY DEF Inv, Types, Bounded, Call
<1>2. ~bd[b].ok
  BY <1>1 DEF Inv, Local, OneCall
<1>3. Send(b, bd[b].i, "call", 0) /\ bd' = [bd EXCEPT ![b] = [bd[b] EXCEPT !.pc = "called"]]
  BY DEF Call
<1>4. twi'[b] = "start" /\ out'[b].kind = "call" /\ rx' = rx
  BY <1>3 DEF Send, Inv, Types
<1>5. Bounds(b)'
  BY <1>1, <1>2, <1>3, <1>4 DEF Bounds, Rec
<1> QED
  BY <1>3, <1>5, SendBounds

(* The answer to a call, and with the last address the count.              *)
LEMMA CalledBounds ==
  ASSUME Inv, Bounded, NEW b \in Board, Called(b)
  PROVE  Bounded'
<1> DEFINE last == bd[b].i = Last
           k    == bd[b].i + 1
           size == 1 + Cardinality(Found(b))
           now  == [bd[b] EXCEPT !.ok = FALSE, !.ko = FALSE, !.i = k, !.found = Found(b)]
           r    == IF last THEN [now EXCEPT !.pc = "count", !.found = Entered(b),
                                            !.Narduinos = size]
                           ELSE [now EXCEPT !.pc = "call"]
<1>1. /\ bd[b] \in Rec /\ bd \in [Board -> Rec] /\ Bounds(b) /\ Local(b)
      /\ bd[b].pc = "called"
  BY DEF Inv, Types, Bounded, Called
<1>2. bd' = [bd EXCEPT ![b] = r] /\ UNCHANGED <<busVars, stray>>
  BY DEF Called
<1>3. k <= Last + 1
  <2>1. bd[b].i \in Address
    BY <1>1 DEF Local, OneCall
  <2> QED
    BY <2>1, EnumerationAssumption DEF Address
<1>4. b \notin Found(b) /\ Found(b) \in SUBSET Board
  <2>1. bd[b].ok => bd[b].i \in Board /\ bd[b].i # b
    BY <1>1 DEF Local, OneCall, Bounds
  <2> QED
    BY <1>1, <2>1 DEF Found, Bounds, Rec
<1>5. size <= Size /\ size \in Nat
  <2>1. Found(b) \cup {b} \in SUBSET Board
    BY <1>4
  <2>2. /\ IsFiniteSet(Found(b)) /\ Cardinality(Found(b)) \in Nat
        /\ Cardinality(Found(b) \cup {b}) <= Size
    BY <1>4, <2>1, Sizes
  <2>3. Cardinality(Found(b) \cup {b}) = Cardinality(Found(b)) + 1
    BY <1>4, <2>2, FS_AddElement
  <2> QED
    BY ONLY <2>2, <2>3, Sizes
<1>6. /\ bd'[b].n = bd[b].n /\ bd'[b].i = k /\ bd'[b].index = bd[b].index
      /\ bd'[b].pc \in {"count", "call"}
      /\ bd'[b].pc = "call" => bd'[b].found = Found(b)
      /\ bd'[b].Narduinos = bd[b].Narduinos \/ bd'[b].Narduinos = size
  <2>1. bd'[b] = r
    BY <1>1, <1>2
  <2> HIDE DEF k, size
  <2>2. CASE last
    BY <1>1, <2>1, <2>2 DEF Rec
  <2>3. CASE ~last
    BY <1>1, <2>1, <2>3 DEF Rec
  <2> QED
    BY <2>2, <2>3
<1> HIDE DEF k, size, r
<1>7. bd'[b].Narduinos <= Size
  BY <1>1, <1>5, <1>6 DEF Bounds
<1>8. Bounds(b)'
  BY <1>1, <1>2, <1>3, <1>4, <1>6, <1>7 DEF Bounds, busVars
<1> QED
  BY <1>2, <1>8, OwnBounds

(* The count that is sent, and the addresses after it.                     *)
LEMMA CountBounds ==
  ASSUME Inv, Bounded, NEW b \in Board, Count(b)
  PROVE  Bounded'
<1>1. bd[b] \in Rec /\ bd \in [Board -> Rec] /\ Bounds(b)
  BY DEF Inv, Types, Bounded
<1>2. /\ Send(b, All, "C", bd[b].Narduinos)
      /\ bd' = [bd EXCEPT ![b] = [bd[b] EXCEPT !.pc = "counted"]]
  BY DEF Count
<1>3. out'[b] = [to |-> All, kind |-> "C", arg |-> bd[b].Narduinos] /\ rx' = rx
  BY <1>2 DEF Send, Inv, Types
<1>4. Bounds(b)'
  BY <1>1, <1>2, <1>3 DEF Bounds, Rec
<1> QED
  BY <1>2, <1>4, SendBounds

(* The address sent is that of a board.                                    *)
LEMMA SendIndexBounds ==
  ASSUME Inv, Bounded, NEW b \in Board, SendIndex(b)
  PROVE  Bounded'
<1>1. bd[b] \in Rec /\ bd \in [Board -> Rec] /\ Bounds(b)
  BY DEF Inv, Types, Bounded
<1>2. PICK a \in bd[b].found :
        /\ Send(b, All, "A", a)
        /\ bd' = [bd EXCEPT ![b].vec = Append(@, a), ![b].i = a,
                  ![b].pc = IF \E c \in bd[b].found : c > a THEN "index" ELSE "setup"]
  BY DEF SendIndex
<1> DEFINE v    == Append(bd[b].vec, a)
           next == IF \E c \in bd[b].found : c > a THEN "index" ELSE "setup"
           r    == [bd[b] EXCEPT !.vec = v, !.i = a, !.pc = next]
<1>3. bd' = [bd EXCEPT ![b] = r] /\ next \in {"index", "setup"}
  BY <1>2
<1>4. a <= Last + 1
  <2>1. a \in Address
    BY <1>1, <1>2, Addresses DEF Rec
  <2> QED
    BY <2>1, EnumerationAssumption DEF Address
<1>5. out'[b].kind = "A" /\ rx' = rx
  BY <1>2 DEF Send, Inv, Types
<1> HIDE DEF v, next
<1>6. /\ bd'[b].n = bd[b].n /\ bd'[b].i = a /\ bd'[b].Narduinos = bd[b].Narduinos
      /\ bd'[b].index = bd[b].index /\ bd'[b].pc = next
  BY <1>1, <1>3 DEF Rec
<1>7. Bounds(b)'
  BY <1>1, <1>3, <1>4, <1>5, <1>6 DEF Bounds
<1> HIDE DEF r
<1> QED
  BY <1>2, <1>3, <1>7, SendBounds

(* A message that is acknowledged was not addressed to its sender.         *)
LEMMA TransferBounds ==
  ASSUME Inv, Bounded, NEW b \in Board, Transfer(b)
  PROVE  Bounded'
<1>1. PICK tied \in SUBSET {c \in Board \ {b} : twi[c] = "start"} :
        /\ twi' = [c \in Board |->
                  IF c \in {b} \cup {d \in tied : \/ out[d] = out[b]
                                                  \/ Listeners(b) = {} /\ out[d].to = out[b].to}
                    THEN (IF Listeners(b) # {} THEN "stop" ELSE "nack")
                    ELSE IF c \in tied THEN "lost" ELSE twi[c]]
        /\ deaf' \in [Board -> BOOLEAN]
  BY DEF Transfer
<1>2. /\ twi[b] = "start" /\ bd' = bd /\ out' = out /\ stray' = stray
      /\ rx' = [c \in Board |-> IF c \in Listeners(b) THEN out[b] ELSE NoMsg]
  BY DEF Transfer
<1>3. ASSUME NEW c \in Board PROVE Bounds(c)'
  <2>1. Bounds(c) /\ Bounds(b) /\ Local(c)
    BY DEF Inv, Bounded
  <2>2. rx'[c].kind = "C" => rx'[c].arg <= Size
    BY <1>2, <2>1 DEF Bounds, NoMsg
  <2>3. ASSUME bd[c].pc = "called", twi'[c] = "stop", twi[c] # "stop" PROVE bd[c].i # c
    <3>1. out[c] = out[b] /\ Listeners(b) # {} /\ twi[c] = "start"
      BY <1>1, <1>2, <2>3
    <3>2. out[c].to = bd[c].i /\ out[c].to # All
      BY <2>1, <2>3, <3>1 DEF Local, OneCall
    <3>3. PICK l \in Board : twi[l] = "idle" /\ out[b].to \in {All, l}
      BY <3>1 DEF Listeners
    <3> QED
      BY <3>1, <3>2, <3>3
  <2> QED
    BY <1>2, <2>1, <2>2, <2>3 DEF Bounds
<1> QED
  BY <1>1, <1>2, <1>3 DEF Bounded

(* The interrupts.                                                         *)
LEMMA SentBounds ==
  ASSUME Inv, Bounded, NEW b \in Board, SentISR(b)
  PROVE  Bounded'
<1>1. /\ bd \in [Board -> Rec] /\ \A c \in Board : bd[c] \in Rec /\ Bounds(c)
      /\ deaf' \in [Board -> BOOLEAN] /\ stray' \in BOOLEAN
      /\ out' = out /\ rx' = rx /\ twi[b] \in {"stop", "nack"}
      /\ twi' = [twi EXCEPT ![b] = "idle"]
      /\ twi \in [Board -> {"idle", "start", "stop", "nack", "lost"}]
  BY DEF Inv, Types, Bounded, SentISR
<1>2. ASSUME NEW c \in Board
      PROVE  /\ bd'[c].n = bd[c].n /\ bd'[c].i = bd[c].i /\ bd'[c].Narduinos = bd[c].Narduinos
             /\ bd'[c].index = bd[c].index /\ bd'[c].found = bd[c].found /\ bd'[c].pc = bd[c].pc
             /\ bd'[c].ok => bd[c].ok \/ twi[c] = "stop"
  <2>1. CASE c # b
    BY <1>1, <2>1 DEF SentISR
  <2>2. CASE c = b /\ twi[b] = "stop"
    <3> DEFINE x == bd[b].ok \/ bd[b].onSend = "ok"
    <3>1. bd' = [bd EXCEPT ![b].ok = x]
      BY <2>2 DEF SentISR
    <3> HIDE DEF x
    <3> QED
      BY <1>1, <2>2, <3>1 DEF Rec
  <2>3. CASE c = b /\ twi[b] = "nack"
    <3> DEFINE x == bd[b].ko \/ bd[b].onSendError = "ko"
    <3>1. bd' = [bd EXCEPT ![b].ko = x]
      BY <2>3 DEF SentISR
    <3> HIDE DEF x
    <3> QED
      BY <1>1, <2>3, <3>1 DEF Rec
  <2> QED
    BY <1>1, <2>1, <2>2, <2>3
<1>3. ASSUME NEW c \in Board PROVE Bounds(c)'
  <2>1. twi'[c] = "stop" => twi[c] = "stop"
    BY <1>1
  <2> QED
    BY <1>1, <1>2, <2>1 DEF Bounds
<1> QED
  BY <1>1, <1>3 DEF Bounded

(* A receiver takes the count or the index that came.                      *)
LEMMA ReceiveBounds ==
  ASSUME Inv, Bounded, NEW b \in Board, ReceiveISR(b)
  PROVE  Bounded'
<1> DEFINE x == bd[b].heard \/ bd[b].onReceive = "heard"
                            \/ (bd[b].onReceive = "index" /\ rx[b].kind = "A")
           y == IF bd[b].onReceive = "count" /\ rx[b].kind = "C"
                  THEN rx[b].arg ELSE bd[b].Narduinos
           z == IF bd[b].onReceive = "index" /\ rx[b].kind = "A"
                  THEN rx[b].arg ELSE bd[b].index
<1>1. /\ bd \in [Board -> Rec] /\ rx \in [Board -> Envelope] /\ stray' \in BOOLEAN
      /\ \A c \in Board : bd[c] \in Rec /\ Bounds(c)
      /\ twi' = twi /\ out' = out /\ deaf' = deaf /\ rx' = [rx EXCEPT ![b] = NoMsg]
  BY DEF Inv, Types, Bounded, ReceiveISR
<1>2. bd' = [bd EXCEPT ![b] = [bd[b] EXCEPT !.heard = x, !.Narduinos = y, !.index = z]]
  BY DEF ReceiveISR
<1>3. y <= Size /\ z \in {0} \cup Board
  BY <1>1 DEF Inv, Local, Indexes, Genuine, Bounds
<1>4. ASSUME NEW c \in Board PROVE Bounds(c)'
  <2> HIDE DEF x, y, z
  <2>1. CASE c # b
    BY <1>1, <1>2, <2>1 DEF Bounds
  <2>2. CASE c = b
    <3>1. /\ bd'[c].n = bd[c].n /\ bd'[c].i = bd[c].i /\ bd'[c].Narduinos = y
          /\ bd'[c].index = z /\ bd'[c].found = bd[c].found /\ bd'[c].pc = bd[c].pc
          /\ bd'[c].ok = bd[c].ok
      BY <1>1, <1>2, <2>2 DEF Rec
    <3>2. rx'[c] = NoMsg
      BY <1>1, <2>2
    <3> QED
      BY <1>1, <1>3, <3>1, <3>2 DEF Bounds, NoMsg
  <2> QED
    BY <2>1, <2>2
<1> QED
  BY <1>1, <1>4 DEF Bounded

(* The bounds hold at first and are kept.                                  *)
LEMMA BoundedInit == Init => Bounded
<1> SUFFICES ASSUME Init PROVE Bounded
  OBVIOUS
<1>1. First <= Last + 1 /\ 0 <= Size /\ 0 <= Slots
  <2>1. First \in Address
    <3>1. PICK b \in Board : TRUE
      <4>1. Board # {}
        BY EnumerationAssumption, FS_EmptySet
      <4> QED
        BY <4>1
    <3>2. OneCall(b) /\ bd[b].pc = "boot" /\ bd[b].i = First
      BY InvInit DEF Init, Inv, Local
    <3> QED
      BY <3>2 DEF OneCall
  <2> QED
    BY <2>1, EnumerationAssumption, Sizes DEF Address
<1>2. \A b \in Board : Bounds(b)
  BY <1>1 DEF Init, Bounds, NoMsg
<1> QED
  BY <1>2 DEF Init, Bounded

(* A step keeps them.                                                      *)
LEMMA BoundedStep == Inv /\ Bounded /\ [Next]_vars => Bounded'
<1> SUFFICES ASSUME Inv, Bounded, [Next]_vars PROVE Bounded'
  OBVIOUS
<1>1. CASE UNCHANGED vars
  BY <1>1 DEF vars, busVars, Bounded, Bounds
<1>2. CASE Next
  <2>1. PICK b \in Board : Program(b) \/ Transfer(b) \/ Interrupt(b)
    BY <1>2 DEF Next
  <2> QED
    BY <2>1, QuietBounds, CallBounds, CalledBounds, CountBounds, SendIndexBounds,
       TransferBounds, SentBounds, ReceiveBounds DEF Program, Interrupt
<1> QED
  BY <1>1, <1>2

(* Every variable keeps its type, whatever the timing: no wait is longer   *)
(* than Slots, no count larger than the number of boards, and no index is  *)
(* that of a board that is not there.                                      *)
THEOREM TypeCorrect == Safety => []TypeOK
<1>1. Inv /\ Bounded => TypeOK
  <2> SUFFICES ASSUME Inv, Bounded PROVE TypeOK
    OBVIOUS
  <2>1. ASSUME NEW b \in Board PROVE bd[b] \in Globals
    <3>1. bd[b] \in Rec /\ Bounds(b)
      BY DEF Inv, Types, Bounded
    <3>2. bd[b].n \in 0 .. Slots /\ bd[b].i \in 0 .. Last + 1
      BY <3>1, EnumerationAssumption DEF Rec, Bounds
    <3>3. bd[b].Narduinos \in 0 .. Cardinality(Board)
      BY <3>1, Sizes DEF Rec, Bounds, Size
    <3> QED
      BY <3>1, <3>2, <3>3 DEF Rec, Bounds, Globals
  <2> QED
    BY <2>1 DEF Inv, Types, Bounded, Envelope, TypeOK
<1>2. Safety => [](Inv /\ Bounded)
  BY InvInit, InvStep, BoundedInit, BoundedStep, PTL DEF Safety
<1> QED
  BY <1>1, <1>2, PTL

--------------------------------------------------------------------------------
(* Who counts, if the boards keep time.                                    *)

(* The hypotheses on time hold, and no two boards have the same patience:  *)
(* there are as many addresses with a wait of their own as there are waits.*)
Punctual == InTime /\ Board \subseteq First .. First + Slots - 1

(* The board that loses patience first.                                    *)
Caller == CHOOSE b \in Board : \A c \in Board : c <= b
Others == Board \ {Caller}

(* A finite set of addresses has a largest: of the cardinalities of the    *)
(* sets of those up to each address, one is that of the set of all.        *)
LEMMA Largest == \E b \in Board : \A c \in Board : c <= b
<1> DEFINE Upto(b) == {c \in Board : c <= b}
           rank == [b \in Board |-> Cardinality(Upto(b))]
<1>1. Size \in Nat /\ Size > 1 /\ IsFiniteSet(Board) /\ \A b \in Board : b \in Nat
  BY Sizes, Addresses
<1>2. ASSUME NEW b \in Board PROVE Cardinality(Upto(b)) \in 1 .. Size
  <2>1. Upto(b) \in SUBSET Board /\ b \in Upto(b)
    BY <1>1
  <2> HIDE DEF Upto
  <2>2. IsFiniteSet(Upto(b)) /\ Cardinality(Upto(b)) \in Nat /\ Cardinality(Upto(b)) <= Size
    BY <2>1, Sizes
  <2>3. Cardinality(Upto(b)) # 0
    BY <2>1, <2>2, FS_EmptySet
  <2> QED
    BY <1>1, <2>2, <2>3
<1>3. ASSUME NEW b \in Board, NEW c \in Board, b < c
      PROVE  Cardinality(Upto(b)) # Cardinality(Upto(c))
  <2>1. \A m \in Board : m <= b => m <= c
    BY ONLY <1>1, <1>3
  <2>2. c <= c /\ ~(c <= b)
    BY ONLY <1>1, <1>3
  <2>3. Upto(b) \in SUBSET Upto(c) /\ Upto(c) \in SUBSET Board /\ c \in Upto(c) /\ c \notin Upto(b)
    BY <2>1, <2>2
  <2> HIDE DEF Upto
  <2>4. IsFiniteSet(Upto(c))
    BY <2>3, Sizes
  <2> QED
    BY <2>3, <2>4, FS_Subset
<1>4. rank \in Injection(Board, 1 .. Size)
  <2>1. rank \in [Board -> 1 .. Size]
    BY <1>2
  <2>2. ASSUME NEW b \in Board, NEW c \in Board, rank[b] = rank[c] PROVE b = c
    <3>1. Cardinality(Upto(b)) = Cardinality(Upto(c))
      BY <2>2
    <3> HIDE DEF Upto, rank
    <3>2. ~(b < c) /\ ~(c < b)
      BY <1>3, <3>1
    <3> QED
      BY <1>1, <3>2
  <2> HIDE DEF rank
  <2> QED
    BY <2>1, <2>2 DEF Injection, IsInjective
<1>5. rank \in Surjection(Board, 1 .. Size)
  <2>1. IsFiniteSet(1 .. Size) /\ Cardinality(1 .. Size) = Size
    BY <1>1, FS_Interval
  <2> HIDE DEF rank
  <2> QED
    BY <1>1, <1>4, <2>1, FS_Injection DEF Size
<1>6. PICK b \in Board : rank[b] = Size
  <2>1. Size \in 1 .. Size
    BY ONLY <1>1
  <2> HIDE DEF rank
  <2> QED
    BY <1>5, <2>1 DEF Surjection
<1>7. Upto(b) = Board
  <2>1. Upto(b) \in SUBSET Board /\ Cardinality(Upto(b)) = Size
    BY <1>6
  <2> HIDE DEF Upto
  <2> QED
    BY <2>1, Sizes
<1> QED
  BY <1>7

(* The caller has the largest address and so the shortest wait.            *)
LEMMA CallerFirst ==
  /\ Caller \in Board /\ Others # {} /\ Board = Others \cup {Caller} /\ Caller \notin Others
  /\ Others \in SUBSET Board /\ Cardinality(Others) + 1 = Size
  /\ \A b \in Others : b < Caller
  /\ \A b \in Board : b \in Nat /\ Patience(b) \in Nat
  /\ Punctual => \A b \in Others : Patience(b) > Patience(Caller) /\ Patience(Caller) > 0
<1>1. Caller \in Board /\ \A c \in Board : c <= Caller
  BY Largest DEF Caller
<1>2. \A b \in Board : b \in Nat /\ First <= b
  BY Addresses, EnumerationAssumption DEF Address
<1>3. \A b \in Others : b < Caller
  BY <1>1, <1>2 DEF Others
<1>4. Cardinality(Others) + 1 = Size /\ Others # {}
  <2>1. Cardinality(Others) = Size - 1
    BY <1>1, Addresses, FS_RemoveElement DEF Others, Size
  <2>2. Cardinality(Others) # 0
    BY <2>1, Sizes
  <2> QED
    BY <2>1, <2>2, Sizes, FS_EmptySet
<1>5. \A b \in Board : Patience(b) \in Nat
  <2>1. First \in Nat /\ Slots \in Nat
    BY EnumerationAssumption
  <2> QED
    BY ONLY <1>2, <2>1 DEF Patience
<1>6. ASSUME Punctual, NEW b \in Others
      PROVE  Patience(b) > Patience(Caller) /\ Patience(Caller) > 0
  <2>1. /\ b \in Nat /\ Caller \in Nat /\ First \in Nat /\ Slots \in Nat
        /\ First <= b /\ b < Caller /\ Caller <= First + Slots - 1
    BY <1>1, <1>2, <1>3, <1>6, EnumerationAssumption DEF Others, Punctual
  <2> QED
    BY ONLY <2>1 DEF Patience
<1> QED
  BY <1>1, <1>2, <1>3, <1>4, <1>5, <1>6 DEF Others

(* First all wait.  A board that waits has sent and heard nothing.         *)
Silent(b) == twi[b] = "idle" /\ deaf[b] = FALSE /\ bd[b].found = {}

Waits(b) ==
  /\ Silent(b) /\ rx[b] = NoMsg
  /\ bd[b].pc \in {"boot", "wait"} /\ bd[b].vec = <<>> /\ bd[b].Narduinos = 0
  /\ ~bd[b].heard /\ ~bd[b].ok /\ ~bd[b].ko /\ bd[b].i = First
  /\ bd[b].n <= Patience(b)
  /\ bd[b].pc = "boot" => bd[b].n = 0
  /\ bd[b].pc = "wait" => bd[b].onReceive = "heard"

AllWait == \A b \in Board : Waits(b)

(* Then one calls.  It has found those of the others that it has called,   *)
(* and knows of the present call what the bus knows.                       *)
Reached(a) ==
  LET r == bd[Caller] IN r.i > a \/ (r.i = a /\ r.pc = "called" /\ twi[Caller] # "start")

CallerCalls ==
  LET w == Caller
      r == bd[w]
  IN  /\ r.pc \in Calling /\ r.i \in Address /\ rx[w] = NoMsg
      /\ r.found = {b \in Others : b < r.i}
      /\ r.vec = <<>> /\ r.onSend = "ok" /\ r.onSendError = "ko"
      /\ twi[w] \in {"idle", "start", "stop", "nack"}
      /\ r.pc = "called" => out[w].to = r.i /\ out[w].kind = "call"
      /\ r.pc = "call" \/ twi[w] # "idle" => ~r.ok /\ ~r.ko
      /\ r.pc = "call" => twi[w] = "idle"
      /\ twi[w] = "stop" => r.i \in Others
      /\ twi[w] = "nack" => r.i \notin Others
      /\ r.ok => r.i \in Others
      /\ r.ko => r.i \notin Others

(* A board that may have been called and has not been told the count; the  *)
(* call is not lost on it, and the caller's call to itself, which comes    *)
(* after those to the others, finds that they have all served theirs.      *)
Hears(b) ==
  /\ Silent(b) /\ bd[b].vec = <<>> /\ bd[b].Narduinos = 0
  /\ \/ bd[b].pc \in {"wait", "hear"} /\ bd[b].onReceive = "heard"
     \/ bd[b].pc = "awaitC" /\ bd[b].onReceive = "count"
  /\ rx[b] # NoMsg => rx[b].kind = "call"

Told(b) == bd[b].pc = "wait" => bd[b].heard

HearsCall(b) ==
  /\ Hears(b)
  /\ Reached(b) => rx[b] # NoMsg \/ Told(b)
  /\ Reached(Caller) => rx[b] = NoMsg

OneCalls == CallerCalls /\ \A b \in Others : HearsCall(b)

(* It has called them all.                                                 *)
CallerCounts ==
  LET r == bd[Caller]
  IN  /\ r.pc = "count" /\ twi[Caller] = "idle" /\ rx[Caller] = NoMsg
      /\ r.found = Board /\ r.Narduinos = Size /\ r.vec = <<>>
      /\ ~r.ok /\ ~r.ko /\ r.onSend = "ok" /\ r.onSendError = "ko"

HeardCall(b) == Hears(b) /\ Told(b) /\ rx[b] = NoMsg

AllCalled == CallerCounts /\ \A b \in Others : HeardCall(b)

(* A step of the program of one board leaves the others as they are.       *)
LEMMA ProgramFrame ==
  ASSUME Inv, NEW b \in Board, Program(b)
  PROVE  /\ \A c \in Board : c # b => /\ bd'[c] = bd[c] /\ twi'[c] = twi[c]
                                      /\ out'[c] = out[c]
         /\ rx' = rx /\ deaf' = deaf
  BY DEF Inv, Types, Program, Boot, Poll, Call, Called, Count, Counted, SendIndex, Hear,
         HearCount, HearIndex, TakeIndex, Setup, New, Send, busVars

(* The interrupts of one board too.                                        *)
LEMMA InterruptFrame ==
  ASSUME Inv, Bounded, NEW b \in Board, Interrupt(b)
  PROVE  /\ \A c \in Board : c # b => /\ bd'[c] = bd[c] /\ twi'[c] = twi[c] /\ rx'[c] = rx[c]
                                      /\ deaf'[c] = deaf[c]
         /\ out' = out
  BY DEF Inv, Types, Bounded, Interrupt, SentISR, ReceiveISR

(* The board that first loses patience has the shortest wait, and all are  *)
(* by then listening.                                                      *)
LEMMA AllWaitStep ==
  ASSUME Inv, Bounded, Punctual, AllWait, NEW b \in Board,
         Program(b) \/ Transfer(b) \/ Interrupt(b)
  PROVE  AllWait' \/ OneCalls'
<1>1. /\ bd \in [Board -> Rec] /\ bd[b] \in Rec /\ Waits(b)
      /\ bd[b].n \in Nat /\ \A c \in Board : bd[c].n \in Nat
  BY DEF Inv, Types, AllWait, Rec
<1>2. Boot(b) \/ Poll(b)
  BY <1>1 DEF Waits, Silent, Program, Interrupt, Call, Called, Count, Counted, SendIndex, Hear,
              HearCount, HearIndex, TakeIndex, Setup, New, Transfer, SentISR, ReceiveISR
<1>3. /\ \A c \in Board : c # b => bd'[c] = bd[c]
      /\ twi' = twi /\ out' = out /\ rx' = rx /\ deaf' = deaf
  BY <1>2, <1>1 DEF Boot, Poll, busVars
<1>4. ASSUME Waits(b)' PROVE AllWait'
  BY <1>3, <1>4 DEF AllWait, Waits, Silent
<1>5. CASE Boot(b)
  <2>1. bd'[b] = [bd[b] EXCEPT !.pc = "wait", !.onReceive = "heard"]
    BY <1>1, <1>5 DEF Boot
  <2>2. Waits(b)'
    BY <1>1, <1>3, <1>5, <2>1 DEF Boot, Waits, Silent, Rec
  <2> QED
    BY <1>4, <2>2
<1>6. CASE Poll(b)
  <2>1. bd[b].pc = "wait" /\ InStep(b) /\ ~bd[b].heard
    BY <1>1, <1>6 DEF Poll, Waits
  <2>2. CASE bd[b].n < Patience(b) /\ bd' = [bd EXCEPT ![b].n = @ + 1]
    <3> DEFINE k == bd[b].n + 1
    <3>1. k <= Patience(b)
      BY <1>1, <2>2, CallerFirst
    <3>2. bd' = [bd EXCEPT ![b] = [bd[b] EXCEPT !.n = k]]
      BY <2>2
    <3> HIDE DEF k
    <3>3. Waits(b)'
      BY <1>1, <1>3, <2>1, <3>1, <3>2 DEF Waits, Silent, Rec
    <3> QED
      BY <1>4, <3>3
  <2>3. CASE /\ bd[b].n >= Patience(b)
             /\ bd' = [bd EXCEPT ![b].pc = "call", ![b].onSend = "ok", ![b].onSendError = "ko"]
    <3>1. /\ Caller \in Board /\ Patience(b) \in Nat /\ Patience(Caller) \in Nat
          /\ Patience(Caller) > 0
          /\ b # Caller => Patience(b) > Patience(Caller)
      BY CallerFirst DEF Punctual
    <3>2. bd[b].n > 0
      BY ONLY <1>1, <2>3, <3>1
    <3>3. \A c \in Board : bd[c].pc = "wait"
      BY <2>1, <3>2 DEF InStep, Punctual, AllWait, Waits
    <3>4. b = Caller
      <4>1. SUFFICES ASSUME b # Caller PROVE FALSE
        OBVIOUS
      <4>2. bd[Caller].n >= bd[b].n
        BY <2>1, <3>1, <3>3, <4>1 DEF InStep, Punctual
      <4>3. bd[Caller].n <= Patience(Caller)
        BY <3>1 DEF AllWait, Waits
      <4> QED
        BY ONLY <1>1, <2>3, <3>1, <4>1, <4>2, <4>3
    <3>5. bd'[b] = [bd[b] EXCEPT !.pc = "call", !.onSend = "ok", !.onSendError = "ko"]
      BY <1>1, <2>3
    <3>6. First \in Nat /\ \A c \in Board : First <= c /\ c \in Nat
      BY Addresses, EnumerationAssumption DEF Address
    <3>7. CallerCalls'
      <4>1. {c \in Others : c < First} = {}
        BY <3>6, CallerFirst
      <4>2. bd[b].i \in Address /\ bd[b].found = {} /\ bd[b].i = First
        BY <1>1, <2>1 DEF Inv, Local, OneCall, Waits, Silent
      <4> QED
        BY <1>1, <1>3, <3>4, <3>5, <4>1, <4>2
           DEF CallerCalls, Waits, Silent, Rec, Calling
    <3>8. ASSUME NEW c \in Others PROVE HearsCall(c)'
      <4>1. c \in Board /\ c # b /\ Waits(c) /\ bd'[c] = bd[c] /\ bd[c].pc = "wait"
        BY <1>3, <3>3, <3>4, CallerFirst DEF AllWait
      <4>2. bd'[Caller].i = First /\ bd'[Caller].pc = "call"
        BY <1>1, <3>4, <3>5 DEF Waits, Rec
      <4>3. ~Reached(c)' /\ ~Reached(Caller)'
        BY <3>1, <3>6, <4>1, <4>2 DEF Reached
      <4>4. Hears(c)'
        BY <1>3, <4>1 DEF Hears, Waits, Silent
      <4> QED
        BY <4>3, <4>4 DEF HearsCall
    <3> QED
      BY <3>7, <3>8 DEF OneCalls
  <2> QED
    BY <1>6, <2>1, <2>2, <2>3 DEF Poll
<1> QED
  BY <1>2, <1>5, <1>6

(* A board that is being called polls, is told of the call, and begins to  *)
(* wait for the count.                                                     *)
LEMMA HearsStep ==
  ASSUME Inv, Bounded, NEW b \in Others, Hears(b), Program(b) \/ Transfer(b) \/ Interrupt(b),
         bd[b].pc = "wait" /\ bd[b].n >= Patience(b) /\ InStep(b) => bd[b].heard
  PROVE  /\ Hears(b)' /\ (Told(b) => Told(b)')
         /\ rx'[b] = rx[b] \/ (rx'[b] = NoMsg /\ Told(b)')
         /\ \A c \in Board : c # b => /\ bd'[c] = bd[c] /\ twi'[c] = twi[c] /\ rx'[c] = rx[c]
                                      /\ deaf'[c] = deaf[c] /\ out'[c] = out[c]
<1>1. /\ b \in Board /\ bd \in [Board -> Rec] /\ bd[b] \in Rec /\ bd[b].Narduinos = 0
      /\ twi[b] = "idle" /\ bd[b].pc \in {"wait", "hear", "awaitC"}
      /\ rx \in [Board -> Envelope]
  BY CallerFirst DEF Inv, Types, Hears, Silent
<1>2. Poll(b) \/ Hear(b) \/ ReceiveISR(b)
  <2>1. ~Transfer(b) /\ ~SentISR(b)
    BY <1>1 DEF Transfer, SentISR
  <2>2. ~HearCount(b)
    BY <1>1 DEF HearCount
  <2>3. /\ ~Boot(b) /\ ~Call(b) /\ ~Called(b) /\ ~Count(b) /\ ~Counted(b) /\ ~SendIndex(b)
        /\ ~HearIndex(b) /\ ~TakeIndex(b) /\ ~Setup(b) /\ ~New(b)
    BY <1>1 DEF Boot, Call, Called, Count, Counted, SendIndex, HearIndex, TakeIndex, Setup, New
  <2> QED
    BY <2>1, <2>2, <2>3 DEF Program, Interrupt
<1>3. \A c \in Board : c # b => /\ bd'[c] = bd[c] /\ twi'[c] = twi[c] /\ rx'[c] = rx[c]
                                /\ deaf'[c] = deaf[c] /\ out'[c] = out[c]
  BY <1>1, <1>2, ProgramFrame, InterruptFrame DEF Program, Interrupt
<1>4. CASE Poll(b)
  <2>1. UNCHANGED busVars /\ bd[b].pc = "wait" /\ InStep(b)
    BY <1>4 DEF Poll
  <2>2. CASE bd' = [bd EXCEPT ![b].pc = "hear"]
    BY <1>1, <1>3, <2>1, <2>2 DEF Hears, Told, Silent, Rec, busVars
  <2>3. CASE bd' = [bd EXCEPT ![b].n = @ + 1]
    <3> DEFINE k == bd[b].n + 1
    <3>1. bd'[b] = [bd[b] EXCEPT !.n = k]
      BY <1>1, <2>3
    <3> HIDE DEF k
    <3> QED
      BY <1>1, <1>3, <2>1, <3>1 DEF Hears, Told, Silent, Rec, busVars
  <2> QED
    BY <1>4, <2>1, <2>2, <2>3 DEF Poll
<1>5. CASE Hear(b)
  <2>1. bd'[b] = [bd[b] EXCEPT !.pc = "awaitC", !.onReceive = "count"] /\ UNCHANGED busVars
    BY <1>1, <1>5 DEF Hear
  <2> QED
    BY <1>1, <1>3, <1>5, <2>1 DEF Hears, Told, Silent, Rec, busVars
<1>6. CASE ReceiveISR(b)
  <2> DEFINE callback == bd[b].onReceive
             x == bd[b].heard \/ callback = "heard" \/ (callback = "index" /\ rx[b].kind = "A")
             y == IF callback = "count" /\ rx[b].kind = "C" THEN rx[b].arg ELSE bd[b].Narduinos
             z == IF callback = "index" /\ rx[b].kind = "A" THEN rx[b].arg ELSE bd[b].index
  <2>1. /\ bd' = [bd EXCEPT ![b] = [bd[b] EXCEPT !.heard = x, !.Narduinos = y, !.index = z]]
        /\ rx' = [rx EXCEPT ![b] = NoMsg] /\ UNCHANGED <<twi, out, deaf>> /\ rx[b] # NoMsg
    BY <1>6 DEF ReceiveISR
  <2>2. y = 0
    BY <1>1, <2>1 DEF Hears
  <2>3. callback = "heard" => x
    OBVIOUS
  <2> HIDE DEF x, y, z
  <2>4. /\ bd'[b].pc = bd[b].pc /\ bd'[b].heard = x /\ bd'[b].vec = bd[b].vec
        /\ bd'[b].found = bd[b].found /\ bd'[b].Narduinos = 0
        /\ bd'[b].onReceive = bd[b].onReceive
    BY <1>1, <2>1, <2>2 DEF Rec
  <2>5. Hears(b)' /\ rx'[b] = NoMsg
    BY <1>1, <2>1, <2>4 DEF Hears, Silent
  <2>6. Told(b)'
    BY <2>3, <2>4, <1>1 DEF Hears, Told
  <2> QED
    BY <1>3, <2>5, <2>6
<1> QED
  BY <1>2, <1>4, <1>5, <1>6

(* What the bus does with a message of the caller: nobody else is sending, *)
(* and all others listen.                                                  *)
LEMMA CallerTransfer ==
  ASSUME Inv, Bounded, \A b \in Others : Silent(b), Transfer(Caller)
  PROVE  /\ bd' = bd /\ out' = out /\ twi[Caller] = "start"
         /\ \A b \in Others : Silent(b)'
         /\ \A b \in Board : rx[b] = NoMsg
         /\ twi'[Caller] = IF out[Caller].to = All \/ out[Caller].to \in Others
                             THEN "stop" ELSE "nack"
         /\ \A b \in Others : rx'[b] = IF out[Caller].to \in {All, b} THEN out[Caller] ELSE NoMsg
         /\ rx'[Caller] = NoMsg /\ KeptUp
<1> DEFINE w == Caller
<1>1. w \in Board /\ Board = Others \cup {w} /\ w \notin Others /\ Others # {}
  BY CallerFirst
<1>2. /\ bd' = bd /\ out' = out /\ twi[w] = "start" /\ KeptUp /\ \A b \in Board : rx[b] = NoMsg
      /\ rx' = [c \in Board |-> IF c \in Listeners(w) THEN out[w] ELSE NoMsg]
  BY DEF Transfer
<1>3. {c \in Board \ {w} : twi[c] = "start"} = {}
  BY <1>1 DEF Silent
<1>4. /\ twi' = [c \in Board |-> IF c = w THEN (IF Listeners(w) # {} THEN "stop" ELSE "nack")
                                 ELSE twi[c]]
      /\ deaf' = [c \in Board |-> deaf[c] \/ (c = w /\ Listeners(w) = {})]
  BY <1>1, <1>3 DEF Transfer
<1>5. Listeners(w) = {c \in Others : out[w].to \in {All, c}}
  BY <1>1 DEF Listeners, Silent
<1>6. \A b \in Others : Silent(b)'
  <2> SUFFICES ASSUME NEW b \in Others PROVE Silent(b)'
    OBVIOUS
  <2>1. twi'[b] = twi[b] /\ bd'[b] = bd[b]
    BY <1>1, <1>2, <1>4
  <2>2. deaf'[b] = FALSE
    BY <1>1, <1>4 DEF Silent
  <2> QED
    BY <2>1, <2>2 DEF Silent
<1>7. twi'[w] = IF out[w].to = All \/ out[w].to \in Others THEN "stop" ELSE "nack"
  BY <1>1, <1>4, <1>5
<1> QED
  BY <1>1, <1>2, <1>5, <1>6, <1>7

(* The end of a message of the caller.                                     *)
LEMMA CallerSent ==
  ASSUME Inv, Bounded, SentISR(Caller)
  PROVE  LET w == Caller
         IN  /\ bd'[w].pc = bd[w].pc /\ bd'[w].i = bd[w].i /\ bd'[w].found = bd[w].found
             /\ bd'[w].vec = bd[w].vec /\ bd'[w].Narduinos = bd[w].Narduinos
             /\ bd'[w].onSend = bd[w].onSend /\ bd'[w].onSendError = bd[w].onSendError
             /\ twi[w] \in {"stop", "nack"} /\ twi'[w] = "idle"
             /\ bd'[w].ok <=> bd[w].ok \/ (twi[w] = "stop" /\ bd[w].onSend = "ok")
             /\ bd'[w].ko <=> bd[w].ko \/ (twi[w] = "nack" /\ bd[w].onSendError = "ko")
             /\ out' = out /\ rx' = rx
             /\ \A c \in Board : c # w => bd'[c] = bd[c] /\ twi'[c] = twi[c] /\ deaf'[c] = deaf[c]
<1> DEFINE w == Caller
           x == bd[w].ok \/ bd[w].onSend = "ok"
           y == bd[w].ko \/ bd[w].onSendError = "ko"
<1>1. /\ w \in Board /\ bd \in [Board -> Rec] /\ bd[w] \in Rec
      /\ twi \in [Board -> {"idle", "start", "stop", "nack", "lost"}]
      /\ bd[w].ok \in BOOLEAN /\ bd[w].ko \in BOOLEAN
  BY CallerFirst DEF Inv, Types, Rec
<1>2. /\ twi[w] \in {"stop", "nack"} /\ twi'[w] = "idle" /\ out' = out /\ rx' = rx
      /\ \A c \in Board : c # w => bd'[c] = bd[c] /\ twi'[c] = twi[c] /\ deaf'[c] = deaf[c]
  <2>1. out' = out /\ rx' = rx /\ twi[w] \in {"stop", "nack"} /\ twi'[w] = "idle"
    BY <1>1 DEF SentISR
  <2> QED
    BY <1>1, <2>1, InterruptFrame DEF Interrupt
<1>3. CASE twi[w] = "stop"
  <2>1. bd' = [bd EXCEPT ![w].ok = x] /\ (x <=> bd[w].ok \/ bd[w].onSend = "ok")
    BY <1>3 DEF SentISR
  <2> HIDE DEF x
  <2>2. /\ bd'[w].pc = bd[w].pc /\ bd'[w].i = bd[w].i /\ bd'[w].found = bd[w].found
        /\ bd'[w].vec = bd[w].vec /\ bd'[w].Narduinos = bd[w].Narduinos
        /\ bd'[w].onSend = bd[w].onSend /\ bd'[w].onSendError = bd[w].onSendError
        /\ bd'[w].ok = x /\ bd'[w].ko = bd[w].ko
    BY <1>1, <2>1 DEF Rec
  <2> QED
    BY <1>2, <1>3, <2>1, <2>2
<1>4. CASE twi[w] = "nack"
  <2>1. bd' = [bd EXCEPT ![w].ko = y] /\ (y <=> bd[w].ko \/ bd[w].onSendError = "ko")
    BY <1>4 DEF SentISR
  <2> HIDE DEF y
  <2>2. /\ bd'[w].pc = bd[w].pc /\ bd'[w].i = bd[w].i /\ bd'[w].found = bd[w].found
        /\ bd'[w].vec = bd[w].vec /\ bd'[w].Narduinos = bd[w].Narduinos
        /\ bd'[w].onSend = bd[w].onSend /\ bd'[w].onSendError = bd[w].onSendError
        /\ bd'[w].ko = y /\ bd'[w].ok = bd[w].ok
    BY <1>1, <2>1 DEF Rec
  <2> QED
    BY <1>2, <1>4, <2>1, <2>2
<1> QED
  BY <1>2, <1>3, <1>4

(* While one calls, another that loses patience has been called before.    *)
LEMMA OthersCalled ==
  ASSUME Inv, Bounded, Punctual, OneCalls, NEW b \in Others,
         Program(b) \/ Transfer(b) \/ Interrupt(b)
  PROVE  OneCalls'
<1>1. /\ b \in Board /\ Caller \in Board /\ Caller # b /\ HearsCall(b)
      /\ bd[b].n \in Nat /\ bd[b].heard \in BOOLEAN
      /\ Patience(b) \in Nat /\ Patience(Caller) \in Nat /\ Patience(b) > Patience(Caller)
  BY CallerFirst DEF OneCalls, Inv, Types, Rec
<1>2. ASSUME bd[b].pc = "wait", bd[b].n >= Patience(b), InStep(b) PROVE bd[b].heard
  <2>1. Patience(Caller) < bd[b].n
    BY ONLY <1>1, <1>2
  <2>2. bd[Caller].i > b /\ rx[b] = NoMsg
    BY <1>1, <1>2, <2>1 DEF InStep, Punctual, OneCalls, CallerCalls
  <2> QED
    BY <1>1, <1>2, <2>2 DEF HearsCall, Reached, Told
<1>3. /\ Hears(b)' /\ (Told(b) => Told(b)')
      /\ rx'[b] = rx[b] \/ (rx'[b] = NoMsg /\ Told(b)')
      /\ \A c \in Board : c # b => /\ bd'[c] = bd[c] /\ twi'[c] = twi[c] /\ rx'[c] = rx[c]
                                   /\ deaf'[c] = deaf[c] /\ out'[c] = out[c]
  BY <1>1, <1>2, HearsStep DEF HearsCall
<1>4. CallerCalls'
  BY <1>1, <1>3 DEF OneCalls, CallerCalls
<1>5. ASSUME NEW c \in Others PROVE HearsCall(c)'
  <2>1. HearsCall(c) /\ c \in Board
    BY CallerFirst DEF OneCalls
  <2>2. (Reached(c)' <=> Reached(c)) /\ (Reached(Caller)' <=> Reached(Caller))
    BY <1>1, <1>3 DEF Reached
  <2>3. CASE c = b
    BY <1>3, <2>1, <2>2, <2>3 DEF HearsCall
  <2>4. CASE c # b
    BY <1>3, <2>1, <2>2, <2>4 DEF HearsCall, Hears, Silent, Told
  <2> QED
    BY <2>3, <2>4
<1> QED
  BY <1>4, <1>5 DEF OneCalls

(* The caller calls an address,                                            *)
LEMMA CallerCall ==
  ASSUME Inv, Bounded, OneCalls, Call(Caller)
  PROVE  OneCalls'
<1> DEFINE w == Caller
<1>1. /\ w \in Board /\ bd \in [Board -> Rec] /\ bd[w] \in Rec /\ Program(w) /\ CallerCalls
      /\ twi \in [Board -> {"idle", "start", "stop", "nack", "lost"}] /\ out \in [Board -> Envelope]
      /\ bd[w].pc = "call"
  BY CallerFirst DEF Inv, Types, Program, OneCalls, Call
<1>2. /\ \A c \in Board : c # w => bd'[c] = bd[c] /\ twi'[c] = twi[c]
      /\ rx' = rx /\ deaf' = deaf
  BY <1>1, ProgramFrame
<1>3. /\ bd'[w] = [bd[w] EXCEPT !.pc = "called"] /\ twi'[w] = "start"
      /\ out'[w] = [to |-> bd[w].i, kind |-> "call", arg |-> 0]
  BY <1>1 DEF Call, Send
<1>4. CallerCalls'
  BY <1>1, <1>2, <1>3 DEF CallerCalls, Rec, Calling
<1>5. ASSUME NEW c \in Others PROVE HearsCall(c)'
  <2>1. HearsCall(c) /\ c \in Board /\ c # w /\ bd'[c] = bd[c] /\ twi'[c] = twi[c]
    BY <1>2, CallerFirst DEF OneCalls
  <2>2. bd'[w].i = bd[w].i
    BY <1>1, <1>3 DEF Rec
  <2>3. (Reached(c)' => Reached(c)) /\ (Reached(Caller)' => Reached(Caller))
    BY <1>3, <2>2 DEF Reached
  <2> QED
    BY <1>2, <2>1, <2>3 DEF HearsCall, Hears, Silent, Told
<1> QED
  BY <1>4, <1>5 DEF OneCalls

(* the call goes over the bus,                                             *)
LEMMA CallerCallTransfer ==
  ASSUME Inv, Bounded, OneCalls, Transfer(Caller)
  PROVE  OneCalls'
<1> DEFINE w == Caller
           r == bd[Caller]
<1>1. \A b \in Others : Silent(b)
  BY DEF OneCalls, HearsCall, Hears
<1>2. /\ bd' = bd /\ out' = out /\ twi[w] = "start" /\ \A b \in Board : rx[b] = NoMsg
      /\ rx'[w] = NoMsg /\ \A b \in Others : Silent(b)'
      /\ \A b \in Others : rx'[b] = IF out[w].to \in {All, b} THEN out[w] ELSE NoMsg
      /\ twi'[w] = IF out[w].to = All \/ out[w].to \in Others THEN "stop" ELSE "nack"
  BY <1>1, CallerTransfer
<1>3. /\ r.pc = "called" /\ out[w].to = r.i /\ out[w].kind = "call" /\ r.i # All
      /\ r.i \in Nat /\ w \in Nat
  BY <1>2, Addresses, CallerFirst DEF OneCalls, CallerCalls, Calling, All
<1>4. CallerCalls'
  <2>1. CallerCalls /\ ~r.ok /\ ~r.ko
    BY <1>2 DEF OneCalls, CallerCalls
  <2>2. twi'[w] = IF r.i \in Others THEN "stop" ELSE "nack"
    BY <1>2, <1>3
  <2>3. /\ twi'[w] \in {"stop", "nack"} /\ twi'[w] # "idle"
        /\ twi'[w] = "stop" => r.i \in Others
        /\ twi'[w] = "nack" => r.i \notin Others
    BY <2>2
  <2>4. bd'[w] = bd[w] /\ out'[w] = out[w] /\ rx'[w] = NoMsg
    BY <1>2
  <2> QED
    BY <1>3, <2>1, <2>3, <2>4 DEF CallerCalls
<1>5. ASSUME NEW c \in Others PROVE HearsCall(c)'
  <2>1. HearsCall(c) /\ rx[c] = NoMsg /\ c \in Nat /\ c < w
    BY <1>2, CallerFirst DEF OneCalls
  <2>2. rx'[c] = IF r.i = c THEN out[w] ELSE NoMsg
    BY <1>2, <1>3
  <2>3. Hears(c)'
    BY <1>2, <1>3, <2>1, <2>2 DEF HearsCall, Hears
  <2>4. ASSUME Reached(c)' PROVE rx'[c] # NoMsg \/ Told(c)'
    <3>1. CASE r.i = c
      BY <1>3, <2>2, <3>1 DEF NoMsg
    <3>2. CASE r.i # c
      <4>1. Reached(c)
        BY <1>2, <2>4, <3>2 DEF Reached
      <4> QED
        BY <1>2, <2>1, <4>1 DEF HearsCall, Told
    <3> QED
      BY <3>1, <3>2
  <2>5. ASSUME Reached(Caller)' PROVE rx'[c] = NoMsg
    <3>1. r.i > w \/ r.i = w
      BY <1>2, <2>5 DEF Reached
    <3>2. r.i # c
      BY ONLY <1>3, <2>1, <3>1
    <3> QED
      BY <2>2, <3>2
  <2> QED
    BY <2>3, <2>4, <2>5 DEF HearsCall
<1> QED
  BY <1>4, <1>5 DEF OneCalls

(* and the caller knows whether it has been answered.                      *)
LEMMA CallerCallSent ==
  ASSUME Inv, Bounded, OneCalls, SentISR(Caller)
  PROVE  OneCalls'
<1> DEFINE w == Caller
<1>1. /\ bd'[w].pc = bd[w].pc /\ bd'[w].i = bd[w].i /\ bd'[w].found = bd[w].found
      /\ bd'[w].vec = bd[w].vec /\ bd'[w].onSend = bd[w].onSend
      /\ bd'[w].onSendError = bd[w].onSendError
      /\ twi[w] \in {"stop", "nack"} /\ twi'[w] = "idle"
      /\ bd'[w].ok <=> bd[w].ok \/ (twi[w] = "stop" /\ bd[w].onSend = "ok")
      /\ bd'[w].ko <=> bd[w].ko \/ (twi[w] = "nack" /\ bd[w].onSendError = "ko")
      /\ out' = out /\ rx' = rx
      /\ \A c \in Board : c # w => bd'[c] = bd[c] /\ twi'[c] = twi[c] /\ deaf'[c] = deaf[c]
  BY CallerSent
<1>2. bd[w].pc = "called"
  BY <1>1 DEF OneCalls, CallerCalls, Calling
<1>3. CallerCalls'
  BY <1>1, <1>2 DEF OneCalls, CallerCalls
<1>4. ASSUME NEW c \in Others PROVE HearsCall(c)'
  <2>1. HearsCall(c) /\ c \in Board /\ c # w
    BY CallerFirst DEF OneCalls
  <2>2. (Reached(c)' <=> Reached(c)) /\ (Reached(Caller)' <=> Reached(Caller))
    BY <1>1, <1>2 DEF Reached
  <2> QED
    BY <1>1, <2>1, <2>2 DEF HearsCall, Hears, Silent, Told
<1> QED
  BY <1>3, <1>4 DEF OneCalls

(* After the last address it knows all boards.                             *)
LEMMA CallerCalled ==
  ASSUME Inv, Bounded, OneCalls, Called(Caller)
  PROVE  OneCalls' \/ AllCalled'
<1> DEFINE w == Caller
           last == bd[w].i = Last
           k    == bd[w].i + 1
           size == 1 + Cardinality(Found(w))
           now  == [bd[w] EXCEPT !.ok = FALSE, !.ko = FALSE, !.i = k, !.found = Found(w)]
           r    == IF last THEN [now EXCEPT !.pc = "count", !.found = Entered(w),
                                            !.Narduinos = size]
                           ELSE [now EXCEPT !.pc = "call"]
<1>1. /\ w \in Board /\ bd \in [Board -> Rec] /\ bd[w] \in Rec /\ CallerCalls /\ Program(w)
      /\ bd[w].pc = "called" /\ (bd[w].ok \/ bd[w].ko) /\ bd[w].ok \in BOOLEAN
  BY CallerFirst DEF Inv, Types, OneCalls, Called, Program, Rec
<1>2. bd'[w] = r /\ twi' = twi /\ out' = out /\ rx' = rx /\ deaf' = deaf
  BY <1>1 DEF Called, busVars
<1>3. \A c \in Board : c # w => bd'[c] = bd[c]
  BY <1>1, ProgramFrame
<1>4. twi[w] = "idle" /\ bd[w].i \in Nat /\ bd[w].i <= Last /\ bd[w].i \in Address
  BY <1>1, EnumerationAssumption DEF CallerCalls, Address
<1>5. Found(w) = {b \in Others : b < k}
  <2>1. \A b \in Others : b < k <=> b < bd[w].i \/ b = bd[w].i
    <3>1. \A b \in Others : b \in Nat
      BY CallerFirst
    <3> QED
      BY ONLY <1>4, <3>1
  <2>2. bd[w].ok <=> bd[w].i \in Others
    BY <1>1 DEF CallerCalls
  <2> HIDE DEF k
  <2> QED
    BY <1>1, <2>1, <2>2 DEF Found, CallerCalls
<1>6. \A c \in Others : HearsCall(c) /\ c \in Board /\ c # w /\ c \in Nat /\ c < w
  BY CallerFirst DEF OneCalls
<1>7. CASE ~last
  <2>1. k \in Address /\ k \in Nat
    BY <1>4, <1>7, EnumerationAssumption DEF Address
  <2>2. bd'[w] = [now EXCEPT !.pc = "call"]
    BY <1>2, <1>7
  <2> HIDE DEF k, r
  <2>3. /\ bd'[w].pc = "call" /\ bd'[w].i = k /\ bd'[w].found = Found(w)
        /\ bd'[w].vec = bd[w].vec /\ bd'[w].onSend = bd[w].onSend
        /\ bd'[w].onSendError = bd[w].onSendError /\ ~bd'[w].ok /\ ~bd'[w].ko
    BY <1>1, <2>2 DEF Rec
  <2>4. CallerCalls'
    <3> HIDE DEF now
    <3> QED
      BY <1>1, <1>2, <1>4, <1>5, <2>1, <2>3 DEF CallerCalls, Calling
  <2>5. ASSUME NEW c \in Board, Reached(c)' PROVE Reached(c)
    <3>1. k > c /\ c \in Nat
      BY <2>3, <2>5, CallerFirst DEF Reached
    <3>2. bd[w].i > c \/ bd[w].i = c
      BY ONLY <1>4, <3>1 DEF k
    <3> QED
      BY <1>1, <1>4, <3>2 DEF Reached
  <2>6. ASSUME NEW c \in Others PROVE HearsCall(c)'
    BY <1>1, <1>2, <1>3, <1>6, <2>5 DEF HearsCall, Hears, Silent, Told
  <2> QED
    BY <2>4, <2>6 DEF OneCalls
<1>8. CASE last
  <2>1. ASSUME NEW c \in Board PROVE c < k /\ Reached(c)
    <3>1. c \in Nat /\ c <= Last
      BY Addresses, EnumerationAssumption DEF Address
    <3>2. c < k /\ (c < bd[w].i \/ c = bd[w].i)
      BY <1>4, <1>8, <3>1
    <3> QED
      BY <1>1, <1>4, <3>1, <3>2 DEF Reached
  <2>2. Found(w) = Others
    BY <1>5, <2>1, <1>6
  <2>3. Entered(w) = Board /\ size = Size
    BY <2>2, CallerFirst, Sizes DEF Entered
  <2>4. bd'[w] = [now EXCEPT !.pc = "count", !.found = Entered(w), !.Narduinos = size]
    BY <1>2, <1>8
  <2> HIDE DEF k, r, size
  <2>5. /\ bd'[w].pc = "count" /\ bd'[w].found = Board /\ bd'[w].Narduinos = Size
        /\ bd'[w].vec = bd[w].vec /\ bd'[w].onSend = bd[w].onSend
        /\ bd'[w].onSendError = bd[w].onSendError /\ ~bd'[w].ok /\ ~bd'[w].ko
    BY <1>1, <2>3, <2>4 DEF Rec
  <2>6. CallerCounts'
    BY <1>1, <1>2, <1>4, <2>5 DEF CallerCounts, CallerCalls
  <2>7. ASSUME NEW c \in Others PROVE HeardCall(c)'
    BY <1>1, <1>2, <1>3, <1>6, <2>1 DEF HearsCall, HeardCall, Hears, Silent, Told
  <2> QED
    BY <2>6, <2>7 DEF AllCalled
<1> QED
  BY <1>7, <1>8

(* So the calls go on until all have been called.                          *)
LEMMA OneCallsStep ==
  ASSUME Inv, Bounded, Punctual, OneCalls, NEW b \in Board,
         Program(b) \/ Transfer(b) \/ Interrupt(b)
  PROVE  OneCalls' \/ AllCalled'
<1>1. CASE b \in Others
  BY <1>1, OthersCalled
<1>2. CASE b = Caller
  <2>1. bd[b].pc \in {"call", "called"} /\ rx[b] = NoMsg
    BY <1>2 DEF OneCalls, CallerCalls, Calling
  <2>2. Call(b) \/ Called(b) \/ Transfer(b) \/ SentISR(b)
    BY <2>1 DEF Program, Interrupt, Boot, Poll, Count, Counted, SendIndex, Hear,
                HearCount, HearIndex, TakeIndex, Setup, New, ReceiveISR
  <2> QED
    BY <1>2, <2>2, CallerCall, CallerCalled, CallerCallTransfer, CallerCallSent
<1> QED
  BY <1>1, <1>2, CallerFirst

(* Then it sends the count and the addresses; these are in a vector v as   *)
(* far as the bus has delivered them.                                      *)
Listing(v, i) ==
  LET listed == {a \in Board : a <= i}
  IN  /\ {v[k] : k \in 1 .. Len(v)} = listed /\ Ascending(v)
      /\ Len(v) = Cardinality(listed)

CallerLists ==
  LET w == Caller
      r == bd[w]
  IN  /\ r.pc \in {"counted", "index", "setup", "new", "done"} /\ rx[w] = NoMsg
      /\ r.found = Board /\ r.Narduinos = Size
      /\ twi[w] \in {"idle", "start", "stop"}
      /\ r.pc = "counted" => /\ r.vec = <<>> /\ r.onSend = "ok" /\ ~r.ko
                             /\ r.ok <=> twi[w] = "idle"
      /\ r.pc # "counted" => Listing(r.vec, r.i)
      /\ r.pc = "index" /\ r.vec = <<>> => twi[w] = "idle"
      /\ r.pc \in {"setup", "new", "done"} => r.vec # <<>> /\ \A a \in Board : a <= r.i
      /\ twi[w] # "idle" => /\ out[w].to = All
                            /\ r.vec = <<>> => out[w].kind = "C" /\ out[w].arg = Size
                            /\ r.vec # <<>> => out[w].kind = "A" /\ out[w].arg = r.i

Delivered(v) ==
  LET r == bd[Caller]
  IN  IF twi[Caller] = "start" /\ r.vec # <<>> THEN r.vec = Append(v, r.i) ELSE v = r.vec

(* The others are told the count,                                          *)
CountComes(b) ==
  /\ bd[b].pc = "awaitC" /\ bd[b].onReceive = "count" /\ bd[b].vec = <<>>
  /\ \/ twi[Caller] = "start" /\ bd[b].Narduinos = 0 /\ rx[b] = NoMsg
     \/ /\ twi[Caller] # "start"
        /\ \/ /\ bd[b].Narduinos = 0 /\ rx[b] # NoMsg
              /\ rx[b].kind = "C" /\ rx[b].arg = Size
           \/ bd[b].Narduinos = Size /\ rx[b] = NoMsg

(* and then one address after the other: the last is in the vector, or in  *)
(* the variable, or still in the buffer of the driver.                     *)
IndexComes(b, v) ==
  /\ bd[b].Narduinos = Size
  /\ \/ /\ bd[b].pc = "awaitA" /\ bd[b].onReceive = "index"
        /\ \/ rx[b] = NoMsg /\ ~bd[b].heard /\ bd[b].vec = v
           \/ /\ rx[b] # NoMsg /\ rx[b].kind = "A" /\ ~bd[b].heard
              /\ Append(bd[b].vec, rx[b].arg) = v
           \/ rx[b] = NoMsg /\ bd[b].heard /\ Append(bd[b].vec, bd[b].index) = v
     \/ /\ bd[b].pc = "take" /\ bd[b].onReceive = "index" /\ rx[b] = NoMsg /\ ~bd[b].heard
        /\ Append(bd[b].vec, bd[b].index) = v
     \/ bd[b].pc \in {"setup", "new", "done"} /\ rx[b] = NoMsg /\ bd[b].vec = v /\ Len(v) = Size

IsTold(b, v) ==
  /\ Silent(b)
  /\ \/ bd[Caller].vec = <<>> /\ CountComes(b)
     \/ (bd[Caller].vec # <<>> \/ twi[Caller] # "start") /\ IndexComes(b, v)

AllTold(v) == CallerLists /\ Delivered(v) /\ \A b \in Others : IsTold(b, v)

(* A list of the addresses up to i, and the next address.                  *)
LEMMA ListNext ==
  ASSUME NEW v \in Seq(Board), NEW i \in Nat, Listing(v, i),
         NEW a \in Board, a > i, \A c \in Board : c > i => c >= a
  PROVE  Listing(Append(v, a), a)
<1> DEFINE listed(j) == {c \in Board : c <= j}
           t == Append(v, a)
<1>1. \A c \in Board : c \in Nat
  BY CallerFirst
<1>2. listed(a) = listed(i) \cup {a} /\ a \notin listed(i)
  <2>1. \A c \in Board : (c <= a <=> c <= i \/ c = a)
    BY ONLY <1>1, a > i, \A c \in Board : c > i => c >= a, i \in Nat, a \in Board
  <2>2. ~(a <= i)
    BY ONLY <1>1, a > i, i \in Nat, a \in Board
  <2> QED
    BY <2>1, <2>2
<1>3. /\ {v[k] : k \in 1 .. Len(v)} = listed(i) /\ Ascending(v)
      /\ Len(v) = Cardinality(listed(i)) /\ Len(v) \in Nat
  BY DEF Listing
<1>4. /\ Len(t) = Len(v) + 1 /\ t[Len(v) + 1] = a
      /\ \A k \in 1 .. Len(v) : t[k] = v[k] /\ v[k] \in Board
  OBVIOUS
<1>5. \A k \in 1 .. Len(t) : k \in 1 .. Len(v) \/ k = Len(v) + 1
  BY <1>3, <1>4
<1>6. \A k \in 1 .. Len(v) : k \in 1 .. Len(t)
  BY <1>3, <1>4
<1> HIDE DEF t, listed
<1>7. {t[k] : k \in 1 .. Len(t)} = listed(a)
  <2>1. Len(v) + 1 \in 1 .. Len(t)
    BY <1>3, <1>4
  <2> QED
    BY <1>2, <1>3, <1>4, <1>5, <1>6, <2>1
<1>8. Ascending(t)
  <2> SUFFICES ASSUME NEW j \in 1 .. Len(t), NEW k \in 1 .. Len(t), j < k PROVE t[j] < t[k]
    BY DEF Ascending
  <2>1. CASE k \in 1 .. Len(v)
    <3>1. j \in 1 .. Len(v)
      BY <1>3, <2>1
    <3> QED
      BY <1>3, <1>4, <2>1, <3>1 DEF Ascending
  <2>2. CASE k = Len(v) + 1
    <3>1. j \in 1 .. Len(v)
      BY <1>3, <2>2
    <3>2. v[j] \in listed(i)
      BY <1>3, <3>1
    <3>3. v[j] < a
      <4>1. v[j] \in Board /\ v[j] <= i
        BY <3>2 DEF listed
      <4> QED
        BY <1>1, <4>1
    <3> QED
      BY <1>4, <2>2, <3>1, <3>3
  <2> QED
    BY <1>5, <2>1, <2>2
<1>9. Len(t) = Cardinality(listed(a))
  <2>1. IsFiniteSet(listed(i))
    BY Sizes DEF listed
  <2>2. Cardinality(listed(a)) = Cardinality(listed(i)) + 1
    BY <1>2, <2>1, FS_AddElement
  <2> QED
    BY <1>3, <1>4, <2>2
<1> QED
  BY <1>7, <1>8, <1>9 DEF Listing, listed, t

(* The empty list.                                                         *)
LEMMA ListNone == Listing(<<>>, 0)
<1>1. {a \in Board : a <= 0} = {}
  <2>1. \A a \in Board : a \in Nat /\ a # 0
    BY Addresses
  <2>2. \A a \in Board : ~(a <= 0)
    BY ONLY <2>1
  <2> QED
    BY <2>2
<1> QED
  BY <1>1, FS_EmptySet DEF Listing, Ascending

(* All have heard the call, so nobody else loses patience; and when the    *)
(* count is sent all wait for it.                                          *)
LEMMA AllCalledStep ==
  ASSUME Inv, Bounded, Punctual, AllCalled, NEW b \in Board,
         Program(b) \/ Transfer(b) \/ Interrupt(b)
  PROVE  AllCalled' \/ AllTold(<<>>)'
<1>1. Caller \in Board /\ Board = Others \cup {Caller} /\ Caller \notin Others
  BY CallerFirst
<1>2. CASE b \in Others
  <2>1. bd[b].pc = "wait" => bd[b].heard
    BY <1>2 DEF AllCalled, HeardCall, Told
  <2>2. /\ Hears(b)' /\ Told(b)' /\ rx'[b] = NoMsg
        /\ \A c \in Board : c # b => /\ bd'[c] = bd[c] /\ twi'[c] = twi[c] /\ rx'[c] = rx[c]
                                     /\ deaf'[c] = deaf[c] /\ out'[c] = out[c]
    BY <1>2, <2>1, HearsStep DEF AllCalled, HeardCall
  <2>3. CallerCounts'
    BY <1>1, <1>2, <2>2 DEF AllCalled, CallerCounts
  <2>4. ASSUME NEW c \in Others PROVE HeardCall(c)'
    BY <1>1, <2>2 DEF AllCalled, HeardCall, Hears, Told, Silent
  <2> QED
    BY <2>3, <2>4 DEF AllCalled
<1>3. CASE b = Caller
  <2>1. bd[b].pc = "count" /\ rx[b] = NoMsg /\ twi[b] = "idle"
    BY <1>3 DEF AllCalled, CallerCounts
  <2>2. Count(b)
    BY <2>1 DEF Program, Interrupt, Boot, Poll, Call, Called, Counted, SendIndex, Hear,
                HearCount, HearIndex, TakeIndex, Setup, New, ReceiveISR, Transfer, SentISR
  <2>3. /\ bd \in [Board -> Rec] /\ bd[b] \in Rec /\ out \in [Board -> Envelope]
        /\ twi \in [Board -> {"idle", "start", "stop", "nack", "lost"}]
    BY DEF Inv, Types
  <2>4. /\ bd'[b] = [bd[b] EXCEPT !.pc = "counted"] /\ twi'[b] = "start" /\ rx' = rx
        /\ out'[b] = [to |-> All, kind |-> "C", arg |-> bd[b].Narduinos]
        /\ deaf' = deaf
        /\ \A c \in Board : c # b => bd'[c] = bd[c] /\ twi'[c] = twi[c]
    BY <2>2, <2>3 DEF Count, Send
  <2>5. CallerLists'
    BY <1>3, <2>1, <2>3, <2>4 DEF AllCalled, CallerCounts, CallerLists, Rec
  <2>6. bd'[b].vec = <<>> /\ Delivered(<<>>)'
    BY <1>3, <2>3, <2>4 DEF AllCalled, CallerCounts, Delivered, Rec
  <2>7. ASSUME NEW c \in Others PROVE IsTold(c, <<>>)'
    <3>1. HeardCall(c) /\ c \in Board /\ c # b
      BY <1>1, <1>3 DEF AllCalled
    <3>2. bd[c].pc = "awaitC"
      BY <2>2, <3>1 DEF Count, Calm, Punctual, HeardCall, Hears, Told
    <3> QED
      BY <1>3, <2>4, <2>6, <3>1, <3>2 DEF IsTold, CountComes, HeardCall, Hears, Silent
  <2> QED
    BY <2>5, <2>6, <2>7 DEF AllTold
<1> QED
  BY <1>1, <1>2, <1>3

(* One of the others takes what it is told.                                *)
LEMMA OthersTold ==
  ASSUME Inv, Bounded, NEW v \in Seq(Board), AllTold(v), NEW b \in Others,
         Program(b) \/ Transfer(b) \/ Interrupt(b)
  PROVE  AllTold(v)'
<1>1. /\ b \in Board /\ Caller \in Board /\ b # Caller /\ IsTold(b, v)
      /\ bd \in [Board -> Rec] /\ bd[b] \in Rec /\ rx \in [Board -> Envelope]
      /\ twi[b] = "idle" /\ bd[b].vec \in Seq(Board)
  BY CallerFirst DEF AllTold, Inv, Types, IsTold, Silent, Rec
<1>2. bd[b].pc \in {"awaitC", "awaitA", "take", "setup", "new", "done"}
  BY <1>1 DEF IsTold, CountComes, IndexComes
<1>3. \/ HearCount(b) \/ HearIndex(b) \/ TakeIndex(b) \/ Setup(b) \/ New(b) \/ ReceiveISR(b)
  <2>1. ~Transfer(b) /\ ~SentISR(b)
    BY <1>1 DEF Transfer, SentISR
  <2>2. /\ ~Boot(b) /\ ~Poll(b) /\ ~Call(b) /\ ~Called(b) /\ ~Count(b) /\ ~Counted(b)
        /\ ~SendIndex(b) /\ ~Hear(b)
    BY <1>2 DEF Boot, Poll, Call, Called, Count, Counted, SendIndex, Hear
  <2> QED
    BY <2>1, <2>2 DEF Program, Interrupt
<1>4. \A c \in Board : c # b => /\ bd'[c] = bd[c] /\ twi'[c] = twi[c] /\ rx'[c] = rx[c]
                                /\ deaf'[c] = deaf[c] /\ out'[c] = out[c]
  BY <1>1, <1>3, ProgramFrame, InterruptFrame DEF Program, Interrupt
<1>5. SUFFICES IsTold(b, v)'
  <2>1. CallerLists' /\ Delivered(v)'
    BY <1>1, <1>4 DEF AllTold, CallerLists, Delivered
  <2>2. ASSUME NEW c \in Others, c # b PROVE IsTold(c, v)'
    <3>1. /\ bd'[c] = bd[c] /\ twi'[c] = twi[c] /\ rx'[c] = rx[c] /\ deaf'[c] = deaf[c]
          /\ bd'[Caller] = bd[Caller] /\ twi'[Caller] = twi[Caller] /\ IsTold(c, v)
      BY <1>1, <1>4, <2>2, CallerFirst DEF AllTold
    <3>2. Silent(c)' <=> Silent(c)
      BY <3>1 DEF Silent
    <3>3. CountComes(c)' <=> CountComes(c)
      BY <3>1 DEF CountComes
    <3>4. IndexComes(c, v)' <=> IndexComes(c, v)
      BY <3>1 DEF IndexComes
    <3> QED
      BY <3>1, <3>2, <3>3, <3>4 DEF IsTold
  <2> QED
    BY <2>1, <2>2 DEF AllTold
<1>6. /\ Silent(b) /\ bd'[Caller] = bd[Caller] /\ twi'[Caller] = twi[Caller]
      /\ Size \in Nat /\ Size # 0
  BY <1>1, <1>4, Sizes DEF IsTold
<1>7. CASE HearCount(b)
  <2>1. /\ bd'[b] = [bd[b] EXCEPT !.pc = "awaitA", !.heard = FALSE, !.onReceive = "index"]
        /\ UNCHANGED busVars /\ bd[b].pc = "awaitC" /\ bd[b].Narduinos # 0
    BY <1>1, <1>7 DEF HearCount
  <2>2. /\ bd[Caller].vec = <<>> /\ twi[Caller] # "start" /\ bd[b].vec = <<>>
        /\ bd[b].Narduinos = Size /\ rx[b] = NoMsg
    BY <1>1, <2>1 DEF IsTold, CountComes, IndexComes
  <2>3. v = <<>>
    BY <2>2 DEF AllTold, Delivered
  <2>4. IndexComes(b, v)'
    BY <1>1, <2>1, <2>2, <2>3 DEF IndexComes, busVars, Rec
  <2> QED
    BY <1>1, <1>6, <2>1, <2>2, <2>4 DEF IsTold, Silent, busVars, Rec
<1>8. CASE HearIndex(b)
  <2>1. /\ bd'[b] = [bd[b] EXCEPT !.pc = "take", !.heard = FALSE]
        /\ UNCHANGED busVars /\ bd[b].pc = "awaitA" /\ bd[b].heard
    BY <1>1, <1>8 DEF HearIndex
  <2>2. /\ bd[Caller].vec # <<>> \/ twi[Caller] # "start"
        /\ bd[b].Narduinos = Size /\ rx[b] = NoMsg /\ bd[b].onReceive = "index"
        /\ Append(bd[b].vec, bd[b].index) = v
    BY <1>1, <2>1 DEF IsTold, CountComes, IndexComes
  <2>3. IndexComes(b, v)'
    BY <1>1, <2>1, <2>2 DEF IndexComes, busVars, Rec
  <2> QED
    BY <1>1, <1>6, <2>1, <2>2, <2>3 DEF IsTold, Silent, busVars, Rec
<1>9. CASE TakeIndex(b)
  <2> DEFINE t    == Append(bd[b].vec, bd[b].index)
             next == IF Len(bd[b].vec) + 1 = bd[b].Narduinos THEN "setup" ELSE "awaitA"
  <2>1. /\ bd[b].pc = "take" /\ UNCHANGED busVars
        /\ bd'[b] = [bd[b] EXCEPT !.vec = t, !.pc = next]
    BY <1>1, <1>9 DEF TakeIndex
  <2>2. /\ bd[Caller].vec # <<>> \/ twi[Caller] # "start"
        /\ bd[b].Narduinos = Size /\ rx[b] = NoMsg /\ bd[b].onReceive = "index"
        /\ t = v /\ ~bd[b].heard
    BY <1>1, <2>1 DEF IsTold, CountComes, IndexComes
  <2>3. Len(t) = Len(bd[b].vec) + 1
    BY <1>1, <1>2, <2>1 DEF Inv, Local, Indexes
  <2>4. next = "awaitA" \/ (next = "setup" /\ Len(v) = Size)
    BY <2>2, <2>3
  <2> HIDE DEF t, next
  <2>5. IndexComes(b, v)'
    BY <1>1, <2>1, <2>2, <2>4 DEF IndexComes, busVars, Rec
  <2> QED
    BY <1>1, <1>6, <2>1, <2>2, <2>5 DEF IsTold, Silent, busVars, Rec
<1>10. CASE Setup(b) \/ New(b)
  <2>1. /\ bd[b].pc \in {"setup", "new"} /\ UNCHANGED busVars
        /\ \/ bd'[b] = [bd[b] EXCEPT !.pc = "new", !.onReceive = "meta", !.onSend = "meta"]
           \/ bd'[b] = [bd[b] EXCEPT !.pc = "done"]
    BY <1>1, <1>10 DEF Setup, New
  <2>2. /\ bd[Caller].vec # <<>> \/ twi[Caller] # "start"
        /\ bd[b].Narduinos = Size /\ rx[b] = NoMsg /\ bd[b].vec = v /\ Len(v) = Size
    BY <1>1, <2>1 DEF IsTold, CountComes, IndexComes
  <2>3. IndexComes(b, v)'
    BY <1>1, <2>1, <2>2 DEF IndexComes, busVars, Rec
  <2>4. bd'[b].found = bd[b].found
    BY <1>1, <2>1 DEF Rec
  <2> QED
    BY <1>1, <1>6, <2>1, <2>2, <2>3, <2>4 DEF IsTold, Silent, busVars
<1>11. CASE ReceiveISR(b)
  <2> DEFINE callback == bd[b].onReceive
             x == bd[b].heard \/ callback = "heard" \/ (callback = "index" /\ rx[b].kind = "A")
             y == IF callback = "count" /\ rx[b].kind = "C" THEN rx[b].arg ELSE bd[b].Narduinos
             z == IF callback = "index" /\ rx[b].kind = "A" THEN rx[b].arg ELSE bd[b].index
  <2>1. /\ bd' = [bd EXCEPT ![b] = [bd[b] EXCEPT !.heard = x, !.Narduinos = y, !.index = z]]
        /\ rx' = [rx EXCEPT ![b] = NoMsg] /\ UNCHANGED <<twi, out, deaf>> /\ rx[b] # NoMsg
    BY <1>11 DEF ReceiveISR
  <2>2. Silent(b)' /\ rx'[b] = NoMsg
    <3> HIDE DEF x, y, z
    <3> QED
      BY <1>1, <1>6, <2>1 DEF Silent, Rec
  <2>3. CASE bd[b].pc = "awaitC"
    <3>1. /\ bd[Caller].vec = <<>> /\ twi[Caller] # "start" /\ bd[b].vec = <<>>
          /\ callback = "count" /\ rx[b].kind = "C" /\ rx[b].arg = Size
      BY <1>1, <2>1, <2>3 DEF IsTold, CountComes, IndexComes
    <3>2. y = Size
      BY <3>1
    <3> HIDE DEF x, y, z
    <3>3. CountComes(b)'
      BY <1>1, <1>6, <2>1, <2>2, <2>3, <3>1, <3>2 DEF CountComes, Rec
    <3> QED
      BY <1>6, <2>2, <3>1, <3>3 DEF IsTold
  <2>4. CASE bd[b].pc # "awaitC"
    <3>1. /\ bd[Caller].vec # <<>> \/ twi[Caller] # "start"
          /\ bd[b].Narduinos = Size /\ bd[b].pc = "awaitA" /\ callback = "index"
          /\ rx[b].kind = "A" /\ Append(bd[b].vec, rx[b].arg) = v
      BY <1>1, <2>1, <2>4 DEF IsTold, CountComes, IndexComes
    <3>2. x /\ y = Size /\ z = rx[b].arg
      BY <3>1
    <3> HIDE DEF x, y, z
    <3>3. IndexComes(b, v)'
      BY <1>1, <2>1, <2>2, <3>1, <3>2 DEF IndexComes, Rec
    <3> QED
      BY <1>6, <2>2, <3>1, <3>3 DEF IsTold
  <2> QED
    BY <2>3, <2>4
<1> QED
  BY <1>3, <1>7, <1>8, <1>9, <1>10, <1>11

(* A step of the caller that others do not see.                            *)
LEMMA CallerAlone ==
  ASSUME Inv, Bounded, NEW v \in Seq(Board), AllTold(v),
         Program(Caller) \/ Interrupt(Caller), CallerLists', Delivered(v)', rx' = rx,
         bd'[Caller].vec = bd[Caller].vec, twi'[Caller] = "start" <=> twi[Caller] = "start"
  PROVE  AllTold(v)'
<1>1. ASSUME NEW c \in Others PROVE IsTold(c, v)'
  <2>1. /\ bd'[c] = bd[c] /\ twi'[c] = twi[c] /\ rx'[c] = rx[c] /\ deaf'[c] = deaf[c]
        /\ IsTold(c, v)
    BY CallerFirst, ProgramFrame, InterruptFrame DEF AllTold
  <2>2. Silent(c)' <=> Silent(c)
    BY <2>1 DEF Silent
  <2>3. CountComes(c)' <=> CountComes(c)
    BY <2>1 DEF CountComes
  <2>4. IndexComes(c, v)' <=> IndexComes(c, v)
    BY <2>1 DEF IndexComes
  <2> QED
    BY <2>1, <2>2, <2>3, <2>4 DEF IsTold
<1> QED
  BY <1>1 DEF AllTold

(* The count is out, and so may be the last address: on with setup().      *)
LEMMA CallerGoesOn ==
  ASSUME Inv, Bounded, NEW v \in Seq(Board), AllTold(v),
         Counted(Caller) \/ Setup(Caller) \/ New(Caller)
  PROVE  AllTold(v)'
<1> DEFINE w == Caller
<1>1. /\ w \in Board /\ bd \in [Board -> Rec] /\ bd[w] \in Rec /\ CallerLists /\ Program(w)
      /\ UNCHANGED busVars
  BY CallerFirst DEF Inv, Types, AllTold, Program, Counted, Setup, New
<1>2. CASE Counted(w)
  <2>1. /\ bd[w].pc = "counted" /\ (bd[w].ok \/ bd[w].ko)
        /\ bd'[w] = [bd[w] EXCEPT !.pc = "index", !.onSendError = "none", !.i = 0]
    BY <1>1, <1>2 DEF Counted
  <2>2. twi[w] = "idle" /\ bd[w].vec = <<>>
    BY <1>1, <2>1 DEF CallerLists
  <2>3. Listing(<<>>, 0)
    BY ListNone
  <2>4. /\ bd'[w].pc = "index" /\ bd'[w].vec = <<>> /\ bd'[w].i = 0
        /\ bd'[w].found = bd[w].found /\ bd'[w].Narduinos = bd[w].Narduinos
    BY <1>1, <2>1, <2>2 DEF Rec
  <2>5. CallerLists'
    BY <1>1, <2>2, <2>3, <2>4 DEF CallerLists, busVars
  <2>6. Delivered(v)'
    BY <1>1, <2>2, <2>4 DEF AllTold, Delivered, busVars
  <2> QED
    BY <1>1, <2>2, <2>4, <2>5, <2>6, CallerAlone DEF busVars
<1>3. CASE Setup(w) \/ New(w)
  <2>1. /\ bd[w].pc \in {"setup", "new"}
        /\ \/ bd'[w] = [bd[w] EXCEPT !.pc = "new", !.onReceive = "meta", !.onSend = "meta"]
           \/ bd'[w] = [bd[w] EXCEPT !.pc = "done"]
    BY <1>1, <1>3 DEF Setup, New
  <2>2. /\ bd'[w].pc \in {"new", "done"} /\ bd'[w].vec = bd[w].vec /\ bd'[w].i = bd[w].i
        /\ bd'[w].found = bd[w].found /\ bd'[w].Narduinos = bd[w].Narduinos
    BY <1>1, <2>1 DEF Rec
  <2>3. CallerLists'
    BY <1>1, <2>1, <2>2 DEF CallerLists, busVars
  <2>4. Delivered(v)'
    BY <1>1, <2>2 DEF AllTold, Delivered, busVars
  <2> QED
    BY <1>1, <2>2, <2>3, <2>4, CallerAlone DEF busVars
<1> QED
  BY <1>2, <1>3

(* The next address is sent.                                               *)
LEMMA CallerSendsIndex ==
  ASSUME Inv, Bounded, Punctual, NEW v \in Seq(Board), AllTold(v), SendIndex(Caller)
  PROVE  AllTold(v)'
<1> DEFINE w == Caller
<1>1. /\ w \in Board /\ bd \in [Board -> Rec] /\ bd[w] \in Rec /\ CallerLists /\ Program(w)
      /\ bd[w].pc = "index" /\ bd[w].vec \in Seq(Board) /\ bd[w].i \in Nat
      /\ bd[w].found = Board /\ Listing(bd[w].vec, bd[w].i)
      /\ out \in [Board -> Envelope]
      /\ bd[w].vec = <<>> => Calm(w)
      /\ twi \in [Board -> {"idle", "start", "stop", "nack", "lost"}]
  BY CallerFirst DEF Inv, Types, AllTold, Program, SendIndex, CallerLists, Rec
<1>2. PICK a \in Board :
        /\ a > bd[w].i /\ \A c \in Board : c > bd[w].i => c >= a
        /\ Send(w, All, "A", a)
        /\ bd' = [bd EXCEPT ![w].vec = Append(@, a), ![w].i = a,
                  ![w].pc = IF \E c \in Board : c > a THEN "index" ELSE "setup"]
  BY <1>1 DEF SendIndex
<1> DEFINE t    == Append(bd[w].vec, a)
           next == IF \E c \in Board : c > a THEN "index" ELSE "setup"
<1>3. Listing(t, a) /\ t # <<>>
  <2>1. Listing(t, a)
    BY <1>1, <1>2, ListNext
  <2>2. Len(t) = Len(bd[w].vec) + 1 /\ Len(bd[w].vec) \in Nat
    BY <1>1
  <2>3. Len(t) # 0
    BY ONLY <2>2
  <2> HIDE DEF t
  <2>4. t # <<>>
    BY ONLY <2>3, Len(<<>>) = 0
  <2> QED
    BY <2>1, <2>4
<1>4. bd'[w] = [bd[w] EXCEPT !.vec = t, !.i = a, !.pc = next]
  BY <1>1, <1>2
<1>5. /\ twi[w] = "idle" /\ twi'[w] = "start" /\ rx' = rx /\ deaf' = deaf
      /\ out'[w] = [to |-> All, kind |-> "A", arg |-> a]
      /\ \A c \in Board : c # w => bd'[c] = bd[c] /\ twi'[c] = twi[c]
  BY <1>1, <1>2 DEF Send
<1>6. next \in {"index", "setup"} /\ (next = "setup" => \A c \in Board : c <= a)
  <2>1. \A c \in Board : c \in Nat
    BY CallerFirst
  <2>2. \A c \in Board : ~(c > a) => c <= a
    BY ONLY <2>1, a \in Board
  <2> QED
    BY <2>2
<1> HIDE DEF next
<1>7. /\ bd'[w].pc = next /\ bd'[w].vec = t /\ bd'[w].i = a
      /\ bd'[w].found = bd[w].found /\ bd'[w].Narduinos = bd[w].Narduinos
  <2> HIDE DEF t
  <2> QED
    BY <1>1, <1>4 DEF Rec
<1>8. CallerLists'
  <2> HIDE DEF t
  <2> QED
    BY <1>1, <1>3, <1>5, <1>6, <1>7 DEF CallerLists
<1>9. bd[w].vec = v
  BY <1>5 DEF AllTold, Delivered
<1>10. Delivered(v)'
  BY <1>3, <1>5, <1>7, <1>9 DEF Delivered
<1>11. ASSUME NEW c \in Others PROVE IsTold(c, v)'
  <2>1. /\ bd'[c] = bd[c] /\ twi'[c] = twi[c] /\ rx'[c] = rx[c] /\ deaf'[c] = deaf[c]
        /\ IsTold(c, v) /\ c \in Board \ {w}
    BY <1>5, CallerFirst DEF AllTold
  <2>2. IndexComes(c, v)
    <3>1. CASE bd[w].vec # <<>>
      BY <2>1, <3>1 DEF IsTold
    <3>2. CASE bd[w].vec = <<>>
      <4>1. rx[c] = NoMsg /\ ~(bd[c].pc = "awaitC" /\ bd[c].Narduinos > 0)
        BY <1>1, <2>1, <3>2 DEF Calm, Punctual
      <4>2. ~CountComes(c)
        <5>1. Size > 0
          BY Sizes
        <5> QED
          BY <1>5, <4>1, <5>1 DEF CountComes
      <4> QED
        BY <2>1, <4>2 DEF IsTold
    <3> QED
      BY <3>1, <3>2
  <2>3. IndexComes(c, v)' /\ Silent(c)'
    BY <2>1, <2>2 DEF IndexComes, IsTold, Silent
  <2> QED
    BY <1>3, <1>7, <2>3 DEF IsTold
<1> QED
  BY <1>8, <1>10, <1>11 DEF AllTold

(* A message goes over the bus to all the others, who have taken those     *)
(* before.                                                                 *)
LEMMA CallerListsTransfer ==
  ASSUME Inv, Bounded, Punctual, NEW v \in Seq(Board), AllTold(v), Transfer(Caller)
  PROVE  \E u \in Seq(Board) : AllTold(u)'
<1> DEFINE w == Caller
           r == bd[w]
<1>1. \A b \in Others : Silent(b)
  BY DEF AllTold, IsTold
<1>2. /\ bd' = bd /\ out' = out /\ twi[w] = "start" /\ KeptUp
      /\ rx'[w] = NoMsg /\ \A b \in Board : rx[b] = NoMsg
      /\ \A b \in Others : Silent(b)'
      /\ \A b \in Others : rx'[b] = IF out[w].to \in {All, b} THEN out[w] ELSE NoMsg
      /\ twi'[w] = IF out[w].to = All \/ out[w].to \in Others THEN "stop" ELSE "nack"
  BY <1>1, CallerTransfer
<1>3. /\ w \in Board /\ CallerLists /\ r \in Rec /\ r.vec \in Seq(Board) /\ out[w].to = All
  BY <1>2, CallerFirst DEF AllTold, CallerLists, Inv, Types, Rec
<1>4. /\ twi'[w] = "stop" /\ \A b \in Others : rx'[b] = out[w]
  BY <1>2, <1>3
<1>5. /\ bd'[w] = bd[w] /\ out'[w] = out[w] /\ rx'[w] = NoMsg
  BY <1>2
<1>6. CallerLists'
  BY <1>2, <1>3, <1>4, <1>5 DEF CallerLists
<1> PICK u \in Seq(Board) : u = r.vec
  BY <1>3
<1>7. Delivered(u)'
  BY <1>4, <1>5 DEF Delivered
<1>8. ASSUME NEW b \in Others PROVE IsTold(b, u)'
  <2>1. /\ IsTold(b, v) /\ Silent(b)' /\ bd'[b] = bd[b] /\ rx'[b] = out[w] /\ rx[b] = NoMsg
        /\ b \in Board
    BY <1>2, <1>4, CallerFirst DEF AllTold
  <2>2. CASE r.vec = <<>>
    <3>1. CountComes(b) /\ out[w].kind = "C" /\ out[w].arg = Size
      BY <1>2, <1>3, <2>1, <2>2 DEF IsTold, CallerLists
    <3>2. CountComes(b)'
      BY <1>2, <1>4, <1>5, <2>1, <3>1 DEF CountComes, NoMsg
    <3> QED
      BY <1>5, <2>1, <2>2, <3>2 DEF IsTold
  <2>3. CASE r.vec # <<>>
    <3>1. IndexComes(b, v) /\ out[w].kind = "A" /\ out[w].arg = r.i /\ r.vec = Append(v, r.i)
      BY <1>2, <1>3, <2>1, <2>3 DEF IsTold, CallerLists, AllTold, Delivered
    <3>2. bd[b].pc # "take" /\ ~(bd[b].pc = "awaitA" /\ bd[b].heard)
      BY <1>2, <2>1 DEF KeptUp, Punctual
    <3>3. Len(v) # Size
      <4>1. r.pc # "counted"
        BY <1>3, <2>3 DEF CallerLists
      <4>2. Len(r.vec) <= Size
        <5>1. Len(r.vec) = Cardinality({a \in Board : a <= r.i})
          BY <1>3, <4>1 DEF CallerLists, Listing
        <5>2. Cardinality({a \in Board : a <= r.i}) <= Size
          BY Sizes
        <5> QED
          BY <5>1, <5>2
      <4>3. Len(Append(v, r.i)) = Len(v) + 1 /\ Len(v) \in Nat
        OBVIOUS
      <4> QED
        BY <3>1, <4>2, <4>3, Sizes
    <3>4. /\ bd[b].Narduinos = Size /\ bd[b].pc = "awaitA" /\ bd[b].onReceive = "index"
          /\ ~bd[b].heard /\ bd[b].vec = v
      BY <2>1, <3>1, <3>2, <3>3 DEF IndexComes
    <3>5. IndexComes(b, u)'
      BY <2>1, <3>1, <3>4 DEF IndexComes, NoMsg
    <3> QED
      BY <1>5, <2>1, <2>3, <3>5 DEF IsTold
  <2> QED
    BY <2>2, <2>3
<1>9. AllTold(u)'
  BY <1>6, <1>7, <1>8 DEF AllTold
<1> QED
  BY <1>9

(* The end of such a message.                                              *)
LEMMA CallerListsSent ==
  ASSUME Inv, Bounded, NEW v \in Seq(Board), AllTold(v), SentISR(Caller)
  PROVE  AllTold(v)'
<1> DEFINE w == Caller
<1>1. /\ bd'[w].pc = bd[w].pc /\ bd'[w].i = bd[w].i /\ bd'[w].found = bd[w].found
      /\ bd'[w].vec = bd[w].vec /\ bd'[w].Narduinos = bd[w].Narduinos
      /\ bd'[w].onSend = bd[w].onSend
      /\ twi[w] \in {"stop", "nack"} /\ twi'[w] = "idle"
      /\ bd'[w].ok <=> bd[w].ok \/ (twi[w] = "stop" /\ bd[w].onSend = "ok")
      /\ bd'[w].ko <=> bd[w].ko \/ (twi[w] = "nack" /\ bd[w].onSendError = "ko")
      /\ out' = out /\ rx' = rx
  BY CallerSent
<1>2. twi[w] = "stop" /\ CallerLists
  BY <1>1 DEF AllTold, CallerLists
<1>3. CallerLists'
  BY <1>1, <1>2 DEF CallerLists
<1>4. Delivered(v)'
  BY <1>1, <1>2 DEF AllTold, Delivered
<1> QED
  BY <1>1, <1>2, <1>3, <1>4, CallerAlone, CallerFirst DEF Interrupt

(* So to the end every board is told the same.                             *)
LEMMA AllToldStep ==
  ASSUME Inv, Bounded, Punctual, NEW v \in Seq(Board), AllTold(v), NEW b \in Board,
         Program(b) \/ Transfer(b) \/ Interrupt(b)
  PROVE  \E u \in Seq(Board) : AllTold(u)'
<1>1. CASE b \in Others
  BY <1>1, OthersTold
<1>2. CASE b = Caller
  <2>1. bd[b].pc \in {"counted", "index", "setup", "new", "done"} /\ rx[b] = NoMsg
    BY <1>2 DEF AllTold, CallerLists
  <2>2. Counted(b) \/ SendIndex(b) \/ Setup(b) \/ New(b) \/ Transfer(b) \/ SentISR(b)
    BY <2>1 DEF Program, Interrupt, Boot, Poll, Call, Called, Count, Hear,
                HearCount, HearIndex, TakeIndex, ReceiveISR
  <2> QED
    BY <1>2, <2>2, CallerGoesOn, CallerSendsIndex, CallerListsTransfer, CallerListsSent
<1> QED
  BY <1>1, <1>2, CallerFirst

(* The course of the enumeration, if the boards keep time.                 *)
Stages == AllWait \/ OneCalls \/ AllCalled \/ \E v \in Seq(Board) : AllTold(v)

(* At power-on they wait.                                                  *)
LEMMA WaitInit == Init => AllWait
  BY CallerFirst DEF Init, AllWait, Waits, Silent

(* Nothing happens outside of these stages.                                *)
LEMMA StagesStep ==
  ASSUME Inv, Bounded, Punctual, Stages, [Next]_vars
  PROVE  Stages'
<1>1. CASE UNCHANGED vars
  <2>1. bd' = bd /\ twi' = twi /\ out' = out /\ rx' = rx /\ deaf' = deaf
    BY <1>1 DEF vars, busVars
  <2>2. AllWait => AllWait'
    BY <2>1 DEF AllWait, Waits, Silent
  <2>3. OneCalls => OneCalls'
    BY <2>1 DEF OneCalls, CallerCalls, HearsCall, Hears, Told, Silent, Reached
  <2>4. AllCalled => AllCalled'
    BY <2>1 DEF AllCalled, CallerCounts, HeardCall, Hears, Told, Silent
  <2>5. ASSUME NEW v \in Seq(Board), AllTold(v) PROVE AllTold(v)'
    BY <2>1, <2>5 DEF AllTold, CallerLists, Delivered, IsTold, CountComes, IndexComes, Silent
  <2> QED
    BY <2>2, <2>3, <2>4, <2>5 DEF Stages
<1>2. CASE Next
  <2>1. PICK b \in Board : Program(b) \/ Transfer(b) \/ Interrupt(b)
    BY <1>2 DEF Next
  <2>2. CASE AllWait
    BY <2>1, <2>2, AllWaitStep DEF Stages
  <2>3. CASE OneCalls
    BY <2>1, <2>3, OneCallsStep DEF Stages
  <2>4. CASE AllCalled
    <3>1. <<>> \in Seq(Board)
      OBVIOUS
    <3> QED
      BY <2>1, <2>4, <3>1, AllCalledStep DEF Stages
  <2>5. ASSUME NEW v \in Seq(Board), AllTold(v) PROVE Stages'
    BY <2>1, <2>5, AllToldStep DEF Stages
  <2> QED
    BY <2>2, <2>3, <2>4, <2>5 DEF Stages
<1> QED
  BY <1>1, <1>2

(* The stages are invariant.                                               *)
LEMMA StagesHold == ASSUME Punctual PROVE Safety => [](Inv /\ Bounded /\ Stages)
<1>1. Init => Inv /\ Bounded /\ Stages
  BY InvInit, BoundedInit, WaitInit DEF Stages
<1>2. Inv /\ Bounded /\ Stages /\ [Next]_vars => (Inv /\ Bounded /\ Stages)'
  BY InvStep, BoundedStep, StagesStep
<1> QED
  BY <1>1, <1>2, PTL DEF Safety

(* Only one board counts, if the boards keep time (the hypotheses InTime)  *)
(* and each has a wait of its own: as many addresses from the first as     *)
(* there are delay(100)s (10 .. 19).  For any other set the boards beyond  *)
(* lose patience together.                                                 *)
THEOREM OneCountsHolds == ASSUME Punctual PROVE Safety => []OneCounts
<1>1. ASSUME Inv, Stages, NEW b \in Others PROVE ~Counts(b)
  <2>1. Silent(b) /\ bd[b].pc \in {"boot", "wait", "hear", "awaitC", "awaitA", "take",
                                   "setup", "new", "done"}
    <3>1. CASE AllWait
      BY <1>1, <3>1, CallerFirst DEF AllWait, Waits
    <3>2. CASE OneCalls
      BY <1>1, <3>2 DEF OneCalls, HearsCall, Hears
    <3>3. CASE AllCalled
      BY <1>1, <3>3 DEF AllCalled, HeardCall, Hears
    <3>4. ASSUME NEW v \in Seq(Board), AllTold(v)
          PROVE  Silent(b) /\ bd[b].pc \in {"awaitC", "awaitA", "take", "setup", "new", "done"}
      BY <1>1, <3>4 DEF AllTold, IsTold, CountComes, IndexComes
    <3> QED
      BY <1>1, <3>1, <3>2, <3>3, <3>4 DEF Stages
  <2> QED
    BY <2>1 DEF Counts, Silent
<1>2. Inv /\ Bounded /\ Stages => OneCounts
  BY <1>1, CallerFirst DEF OneCounts
<1> QED
  BY <1>2, StagesHold, PTL

(* A list of as many addresses as there are boards is the whole list.      *)
LEMMA WholeList ==
  ASSUME NEW v \in Seq(Board), NEW i \in Nat, Listing(v, i), Len(v) = Size
  PROVE  {v[k] : k \in 1 .. Len(v)} = Board /\ Ascending(v)
<1>1. {a \in Board : a <= i} \in SUBSET Board
  OBVIOUS
<1> QED
  BY <1>1, Sizes DEF Listing

(* Every board leaves with the vector of all the boards that are there, in *)
(* the order of their addresses, under the same hypotheses.                *)
THEOREM SameVectorHolds == ASSUME Punctual PROVE Safety => []SameVector
<1>1. ASSUME Inv, Stages, NEW b \in Board, bd[b].pc \in {"setup", "new", "done"}
      PROVE  /\ {bd[b].vec[k] : k \in 1 .. Len(bd[b].vec)} = Board /\ Ascending(bd[b].vec)
             /\ Len(bd[b].vec) = bd[b].Narduinos
  <2>1. PICK v \in Seq(Board) : AllTold(v)
    <3>1. ~AllWait
      BY <1>1 DEF AllWait, Waits
    <3>2. ~OneCalls
      BY <1>1, CallerFirst DEF OneCalls, CallerCalls, HearsCall, Hears, Calling
    <3>3. ~AllCalled
      BY <1>1, CallerFirst DEF AllCalled, CallerCounts, HeardCall, Hears
    <3> QED
      BY <1>1, <3>1, <3>2, <3>3 DEF Stages
  <2> DEFINE w == Caller
  <2>2. /\ w \in Board /\ bd[w] \in Rec /\ bd[w].vec \in Seq(Board) /\ bd[w].i \in Nat
        /\ bd[w].pc # "counted" => Listing(bd[w].vec, bd[w].i)
        /\ bd[w].pc = "counted" => bd[w].vec = <<>>
        /\ bd[w].Narduinos = Size
        /\ bd[w].pc \in {"setup", "new", "done"} => \A a \in Board : a <= bd[w].i
    BY <1>1, <2>1, CallerFirst DEF AllTold, CallerLists, Inv, Types, Rec
  <2>3. CASE b = w
    <3>1. {a \in Board : a <= bd[w].i} = Board
      BY <1>1, <2>2, <2>3
    <3>2. Listing(bd[w].vec, bd[w].i)
      BY <1>1, <2>2, <2>3
    <3> QED
      BY <2>2, <2>3, <3>1, <3>2 DEF Listing, Size
  <2>4. CASE b # w
    <3>1. b \in Others /\ IsTold(b, v)
      BY <2>1, <2>4, CallerFirst DEF AllTold
    <3>2. bd[b].Narduinos = Size /\ bd[b].vec = v /\ Len(v) = Size
      BY <1>1, <3>1 DEF IsTold, CountComes, IndexComes
    <3>3. bd[w].pc # "counted" => Len(bd[w].vec) <= Size
      <4>1. {a \in Board : a <= bd[w].i} \in SUBSET Board
        OBVIOUS
      <4> QED
        BY <2>2, <4>1, Sizes DEF Listing
    <3>4. ~(twi[w] = "start" /\ bd[w].vec # <<>>)
      <4>1. SUFFICES ASSUME twi[w] = "start", bd[w].vec # <<>> PROVE FALSE
        OBVIOUS
      <4>2. bd[w].vec = Append(v, bd[w].i)
        BY <2>1, <4>1 DEF AllTold, Delivered
      <4>3. Len(bd[w].vec) = Size + 1
        BY <3>2, <4>2
      <4> QED
        BY <2>2, <3>3, <4>1, <4>3, Sizes
    <3>5. bd[w].vec = v
      BY <2>1, <3>4 DEF AllTold, Delivered
    <3>6. bd[w].pc # "counted"
      BY <2>2, <3>2, <3>5, Sizes
    <3> QED
      BY <2>2, <3>2, <3>5, <3>6, WholeList
  <2> QED
    BY <2>3, <2>4
<1>2. Inv /\ Bounded /\ Stages => SameVector
  BY <1>1 DEF SameVector
<1> QED
  BY <1>2, StagesHold, PTL

================================================================================
