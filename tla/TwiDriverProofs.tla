---------------------------- MODULE TwiDriverProofs ----------------------------
(***************************************************************************)
(* What TwiDriver promises for every number of boards, every set of texts  *)
(* and every size of the buffer, as long as the short stretches of code    *)
(* outrun the bus (Timely).                                                *)
(***************************************************************************)
EXTENDS TwiDriver, TLAPS

--------------------------------------------------------------------------------
(* What a board can be doing, told from its three records p (main), d (the *)
(* driver) and h (the hardware).  t is what has gone over the bus.         *)

Loaded(p, d) ==
  /\ p.msg \in Message
  /\ d.size = Len(p.msg) + 1
  /\ d.buf[0] = 0
  /\ \A i \in 1 .. Len(p.msg) : d.buf[i] = p.msg[i]

Quiet(d, h) == h.code = "none" /\ ~h.sta /\ ~d.tail

Idle(p, d, h) == Quiet(d, h) /\ p.pc = "free" /\ d.status = 0

(* Between the look at twi_status and the write to TWCR.                   *)
Prepares(p, d, h) ==
  /\ Quiet(d, h) /\ d.status = 0 /\ p.msg \in Message
  /\ p.pc = "fill" \/ (p.pc = "go" /\ Loaded(p, d))

(* START is requested.                                                     *)
Asks(p, d, h) ==
  /\ p.pc = "free" /\ d.status = 1 /\ Loaded(p, d)
  /\ h.code = "none" /\ h.sta /\ ~h.ea /\ ~d.tail

Waits(p, d, h) == Idle(p, d, h) \/ Prepares(p, d, h) \/ Asks(p, d, h)

(* Arbitration is lost, and the interrupt may still be to come.            *)
Beaten(p, d, h) ==
  /\ p.pc = "free" /\ d.status \in {1, 2}
  /\ h.code \in {"ARB_LOST", "none"} /\ ~h.sta /\ ~h.ea /\ ~d.tail

Lost(p, d, h) == Beaten(p, d, h) /\ h.code = "none"

(* Its message is out, set_slaveR is to come.                              *)
Ends(p, d, h) ==
  /\ p.pc = "free" /\ d.status \in {1, 2}
  /\ h.code = "none" /\ ~h.sta /\ ~h.ea /\ d.tail

Received(d) == [i \in 1 .. d.ptr |-> d.buf[i-1]]

(* The STOP interrupt is to come, with a whole text in the buffer.         *)
Told(p, d, h) ==
  /\ p.pc = "free" /\ d.status = 3 /\ d.ptr < BufSize
  /\ h.code = "STOP" /\ ~h.sta /\ h.ea /\ ~d.tail
  /\ Received(d) \in Message

(* What a board does that takes no part in the message on the bus.         *)
Rests(p, d, h) == Waits(p, d, h) \/ Lost(p, d, h) \/ Ends(p, d, h) \/ Told(p, d, h)

(* START is out, or the address behind it.                                 *)
Starts(p, d, h) ==
  /\ p.pc = "free" /\ d.status = 1 /\ Loaded(p, d) /\ ~h.ea /\ ~d.tail
  /\ \/ h.code = "START" /\ h.sta
     \/ h.code = "none" /\ ~h.sta /\ d.ptr = 1

Nacked(p, d, h) ==
  /\ p.pc = "free" /\ d.status = 1
  /\ h.code = "ADR_NACK" /\ ~h.sta /\ ~h.ea /\ ~d.tail

(* t is the beginning of its text, and the next byte, if any, is to come,  *)
(* or on the wires.                                                        *)
Talks(t, p, d, h) ==
  /\ p.pc = "free" /\ d.status \in {1, 2} /\ Loaded(p, d) /\ ~h.ea /\ ~h.sta
  /\ Len(t) <= Len(p.msg)
  /\ \A i \in 1 .. Len(t) : p.msg[i] = t[i]
  /\ \/ h.code = "ADR_ACK" /\ ~d.tail /\ Len(t) = 0
     \/ h.code = "DATA_ACK" /\ ~d.tail /\ d.ptr = Len(t) + 1
     \/ /\ h.code = "none" /\ ~d.tail /\ d.ptr = Len(t) + 2
        /\ Len(t) < Len(p.msg) /\ h.data = p.msg[Len(t) + 1]
     \/ h.code = "none" /\ d.tail /\ Len(t) = Len(p.msg)

(* The buffer holds the first k bytes of t.                                *)
Holds(d, t, k) == d.ptr = k /\ \A i \in 1 .. k : d.buf[i-1] = t[i]

(* t is in its buffer, but for the byte that has just come.                *)
Hears(t, p, d, h) ==
  /\ p.pc = "free" /\ h.ea /\ ~h.sta /\ ~d.tail
  /\ \/ h.code = "GEN_ACK" /\ d.status = 0 /\ Len(t) = 0
     \/ h.code = "none" /\ d.status = 3 /\ Holds(d, t, Len(t))
     \/ /\ h.code = "GEN_DATA_ACK" /\ d.status = 3
        /\ Len(t) > 0 /\ h.data = t[Len(t)] /\ Holds(d, t, Len(t) - 1)

(* What board n may be doing in each phase of the bus.                     *)
Place(b, n, t, p, d, h) ==
  /\ b.phase = "free" => Rests(p, d, h)
  /\ b.phase = "address" => IF n \in b.masters THEN Starts(p, d, h) ELSE Rests(p, d, h)
  /\ b.phase = "nack" =>
       /\ ~h.ea
       /\ \/ Waits(p, d, h)
          \/ n \in b.masters /\ Nacked(p, d, h)
          \/ n \notin b.masters /\ Lost(p, d, h)
  /\ b.phase = "data" =>
       /\ n \in b.masters => Talks(t, p, d, h)
       /\ n \in b.slaves => Hears(t, p, d, h)
       /\ n \in b.starters \ b.masters => Beaten(p, d, h)
       /\ n \notin b.starters \cup b.slaves => ~h.ea /\ (Waits(p, d, h) \/ Lost(p, d, h))

(* Who has started a message, still sends it, and hears it.                *)
Shape(b) ==
  /\ b.phase = "free" => b = Free
  /\ b.phase # "free" => b.masters # {}
  /\ b.phase \in {"address", "nack"} => b.masters = b.starters /\ b.slaves = {}
  /\ b.phase = "data" => b.slaves # {} /\ b.slaves \cap b.starters = {}

(* Who has lost the bus wanted to send something else.                     *)
Differ(b, pr) == \A m \in b.masters, k \in b.starters \ b.masters : pr[m].msg # pr[k].msg

Placed(t) == \A n \in Node : Place(bus, n, t, prog[n], drv[n], hw[n])

Inv ==
  /\ TypeOK
  /\ Shape(bus)
  /\ Differ(bus, prog)
  /\ \E t \in Seq(Nat) : Placed(t)

Prog == [pc : {"free", "fill", "go"}, msg : Message \cup {NoMsg}]
Drv  == [status : 0 .. 3, buf : [0 .. BufSize-1 -> Byte],
         ptr : 0 .. BufSize, size : 0 .. BufSize, tail : BOOLEAN]
Hw   == [ea : BOOLEAN, sta : BOOLEAN, code : Code, data : Byte]

--------------------------------------------------------------------------------
(* A text fits the buffer behind the address, and its characters are bytes.*)
LEMMA Texts ==
  ASSUME NEW m \in Message
  PROVE  /\ m \in Seq(Nat) /\ Len(m) \in Nat
         /\ Len(m) >= 1 /\ Len(m) + 1 <= BufSize
         /\ \A i \in 1 .. Len(m) : m[i] \in Byte /\ m[i] \in Nat
  <1>1. m \in Seq(Nat \ {0}) /\ Len(m) \in 1 .. BufSize-1
    BY TextAssumption
  <1>2. \A i \in 1 .. Len(m) : m[i] \in Nat
    BY <1>1
  <1>3. m \in Seq(Nat) /\ Len(m) \in Nat
    BY <1>1
  <1>4. Len(m) >= 1 /\ Len(m) + 1 <= BufSize
    BY <1>1, <1>3, BusAssumption
  <1> QED
    BY <1>2, <1>3, <1>4 DEF Byte

(* Bytes are numbers.                                                      *)
LEMMA Bytes == Byte \subseteq Nat /\ 0 \in Byte
  <1>1. ASSUME NEW b \in Byte, b # 0 PROVE b \in Nat
    <2>1. PICK m \in Message : b \in {m[i] : i \in 1 .. Len(m)}
      BY <1>1 DEF Byte
    <2> QED
      BY <2>1, Texts
  <1>2. \A b \in Byte : b \in Nat
    BY <1>1
  <1> QED
    BY <1>2 DEF Byte

(* What a board is doing tells the phase, and the part it takes.           *)
LEMMA Parts ==
  ASSUME NEW b, NEW n, NEW t, NEW p, NEW d, NEW h,
         b.phase \in {"free", "address", "data", "nack"}, Place(b, n, t, p, d, h)
  PROVE  \/ Waits(p, d, h) \/ Lost(p, d, h)
         \/ b.phase \in {"free", "address"} /\ (Ends(p, d, h) \/ Told(p, d, h))
            /\ (b.phase = "address" => n \notin b.masters)
         \/ b.phase = "address" /\ n \in b.masters /\ Starts(p, d, h)
         \/ b.phase = "nack" /\ n \in b.masters /\ Nacked(p, d, h)
         \/ b.phase = "data" /\ n \in b.masters /\ Talks(t, p, d, h)
         \/ b.phase = "data" /\ n \in b.slaves /\ Hears(t, p, d, h)
         \/ b.phase = "data" /\ n \in b.starters \ b.masters /\ Beaten(p, d, h)
  BY DEF Place, Rests

(* So does the interrupt that is to come.                                  *)
LEMMA Codes ==
  ASSUME NEW b, NEW n, NEW t, NEW p, NEW d, NEW h,
         b.phase \in {"free", "address", "data", "nack"}, Place(b, n, t, p, d, h)
  PROVE  /\ h.code = "START" => b.phase = "address" /\ n \in b.masters /\ Starts(p, d, h)
         /\ h.code = "ADR_NACK" => b.phase = "nack" /\ n \in b.masters /\ Nacked(p, d, h)
         /\ h.code \in {"ADR_ACK", "DATA_ACK"} =>
              b.phase = "data" /\ n \in b.masters /\ Talks(t, p, d, h)
         /\ h.code \in {"GEN_ACK", "GEN_DATA_ACK"} =>
              b.phase = "data" /\ n \in b.slaves /\ Hears(t, p, d, h)
         /\ h.code = "STOP" => b.phase \in {"free", "address"} /\ Told(p, d, h)
                               /\ (b.phase = "address" => n \notin b.masters)
         /\ h.code = "ARB_LOST" =>
              b.phase = "data" /\ n \in b.starters \ b.masters /\ Beaten(p, d, h)
         /\ d.tail /\ n \notin b.masters => b.phase \in {"free", "address"} /\ Ends(p, d, h)
  <1>1. /\ Waits(p, d, h) \/ Lost(p, d, h) => h.code = "none" /\ ~d.tail
        /\ Ends(p, d, h) => h.code = "none"
        /\ Told(p, d, h) => h.code = "STOP" /\ ~d.tail
    BY DEF Waits, Idle, Prepares, Asks, Quiet, Lost, Beaten, Ends, Told
  <1>2. /\ Starts(p, d, h) => h.code \in {"START", "none"} /\ ~d.tail
        /\ Nacked(p, d, h) => h.code = "ADR_NACK" /\ ~d.tail
        /\ Talks(t, p, d, h) => h.code \in {"ADR_ACK", "DATA_ACK", "none"}
        /\ Hears(t, p, d, h) => h.code \in {"GEN_ACK", "GEN_DATA_ACK", "none"} /\ ~d.tail
        /\ Beaten(p, d, h) => h.code \in {"ARB_LOST", "none"} /\ ~d.tail
    BY DEF Starts, Nacked, Talks, Hears, Beaten
  <1> QED
    BY <1>1, <1>2, Parts

(* Who runs its main program with twi_status = 0 takes no part in the      *)
(* message on the bus, and has not asked for START.                        *)
LEMMA AtLeisure ==
  ASSUME NEW b, NEW n, NEW t, NEW p, NEW d, NEW h,
         b.phase \in {"free", "address", "data", "nack"}, Place(b, n, t, p, d, h),
         Shape(b), b.masters \subseteq b.starters,
         h.code = "none", ~d.tail, d.status = 0 \/ p.pc # "free"
  PROVE  (Idle(p, d, h) \/ Prepares(p, d, h)) /\ (b.starters = b.masters \/ n \notin b.starters)
  <1>1. ~Asks(p, d, h) /\ ~Lost(p, d, h) /\ ~Ends(p, d, h) /\ ~Told(p, d, h) /\ ~Beaten(p, d, h)
    BY DEF Asks, Lost, Beaten, Ends, Told
  <1>2. ~Starts(p, d, h) /\ ~Nacked(p, d, h) /\ ~Talks(t, p, d, h) /\ ~Hears(t, p, d, h)
    BY DEF Starts, Nacked, Talks, Hears
  <1>3. Waits(p, d, h)
    BY <1>1, <1>2, Parts
  <1> QED
    BY <1>1, <1>2, <1>3 DEF Place, Shape, Free, Waits

(* A board that waits and goes on waiting, without listening anew, keeps   *)
(* its place.                                                              *)
LEMMA StillWaits ==
  ASSUME NEW b, NEW n, NEW t, NEW p, NEW d, NEW h, NEW p1, NEW d1, NEW h1,
         Shape(b), b.masters \subseteq b.starters,
         Place(b, n, t, p, d, h), Waits(p, d, h), Waits(p1, d1, h1), h1.ea => h.ea
  PROVE  Place(b, n, t, p1, d1, h1)
  <1>1. ~Talks(t, p, d, h) /\ ~Hears(t, p, d, h) /\ ~Beaten(p, d, h) /\ ~Starts(p, d, h)
    BY DEF Waits, Idle, Prepares, Asks, Quiet, Talks, Hears, Beaten, Starts
  <1> QED
    BY <1>1 DEF Place, Rests

(* A step of one board leaves the others in their places.                  *)
LEMMA OneMoves ==
  ASSUME Shape(bus), Differ(bus, prog), NEW t \in Seq(Nat), Placed(t), TypeOK',
         NEW n \in Node, UNCHANGED bus,
         \A m \in Node \ {n} : prog'[m] = prog[m] /\ drv'[m] = drv[m] /\ hw'[m] = hw[m],
         prog'[n].msg = prog[n].msg \/ bus.starters = bus.masters \/ n \notin bus.starters,
         Place(bus, n, t, prog'[n], drv'[n], hw'[n]), TypeOK
  PROVE  Inv'
  <1>1. Shape(bus)'
    BY DEF Shape
  <1>2. Differ(bus, prog)'
    <2>1. ASSUME NEW m \in bus.masters, NEW k \in bus.starters \ bus.masters
          PROVE  prog'[m].msg # prog'[k].msg
      <3>1. prog[m].msg # prog[k].msg
        BY DEF Differ
      <3>2. m \in Node /\ k \in Node /\ m \in bus.starters
        BY DEF TypeOK
      <3>3. prog'[m].msg = prog[m].msg
        BY <3>2, <2>1
      <3>4. prog'[k].msg = prog[k].msg
        BY <3>2, <2>1
      <3> QED
        BY <3>1, <3>3, <3>4
    <2> QED
      BY <2>1 DEF Differ
  <1>3. Placed(t)'
    <2>1. ASSUME NEW m \in Node PROVE Place(bus', m, t, prog'[m], drv'[m], hw'[m])
      <3>1. CASE m = n
        BY <3>1
      <3>2. CASE m # n
        BY <3>2 DEF Placed
      <3> QED
        BY <3>1, <3>2
    <2> QED
      BY <2>1 DEF Placed
  <1> QED
    BY <1>1, <1>2, <1>3 DEF Inv

(* The records of a board, and the bus, have their types.                  *)
LEMMA Records ==
  ASSUME TypeOK, NEW n \in Node
  PROVE  /\ prog[n] \in Prog /\ drv[n] \in Drv /\ hw[n] \in Hw
         /\ bus.phase \in {"free", "address", "data", "nack"}
         /\ bus.masters \subseteq bus.starters /\ bus.starters \subseteq Node
         /\ bus.slaves \subseteq Node
  BY DEF TypeOK, Prog, Drv, Hw

(* What the driver writes to its record has the type of it.                *)
LEMMA Writes ==
  ASSUME NEW d \in Drv, NEW s \in 0 .. 3
  PROVE  /\ [d EXCEPT !.status = s] \in Drv
         /\ \A k \in 0 .. BufSize : /\ [d EXCEPT !.status = s, !.ptr = k] \in Drv
                                    /\ [d EXCEPT !.ptr = k, !.status = s] \in Drv
         /\ \A tl \in BOOLEAN : [d EXCEPT !.tail = tl, !.status = s] \in Drv
  <1>1. [d EXCEPT !.status = s] \in Drv
    BY DEF Drv
  <1>2. \A k \in 0 .. BufSize : [d EXCEPT !.status = s, !.ptr = k] \in Drv
    BY DEF Drv
  <1>3. \A k \in 0 .. BufSize : [d EXCEPT !.ptr = k, !.status = s] \in Drv
    BY DEF Drv
  <1>4. \A tl \in BOOLEAN : [d EXCEPT !.tail = tl, !.status = s] \in Drv
    BY DEF Drv
  <1> QED
    BY <1>1, <1>2, <1>3, <1>4

(* At the start every board listens, and the bus is free.                  *)
LEMMA InvInit == Init => Inv
  <1> SUFFICES ASSUME Init PROVE Inv
    OBVIOUS
  <1>1. TypeOK
    BY BusAssumption, Bytes DEF Init, TypeOK, Free, Code
  <1>2. Shape(bus) /\ Differ(bus, prog)
    BY DEF Init, Shape, Differ, Free
  <1>3. ASSUME NEW n \in Node PROVE Place(bus, n, <<>>, prog[n], drv[n], hw[n])
    BY DEF Init, Place, Free, Rests, Waits, Idle, Quiet
  <1>4. Placed(<<>>)
    BY <1>3 DEF Placed
  <1>5. <<>> \in Seq(Nat)
    OBVIOUS
  <1> QED
    BY <1>1, <1>2, <1>4, <1>5 DEF Inv

--------------------------------------------------------------------------------
(* The main program.                                                       *)

(* send_msg finds twi_status = 0.                                          *)
LEMMA CheckInv ==
  ASSUME Inv, NEW n \in Node, Check(n)
  PROVE  Inv'
  <1>1. PICK t \in Seq(Nat) : Placed(t)
    BY DEF Inv
  <1>2. TypeOK /\ Shape(bus) /\ Differ(bus, prog)
    BY DEF Inv
  <1>3. prog[n] \in Prog /\ drv[n] \in Drv /\ hw[n] \in Hw /\ bus.masters \subseteq bus.starters
        /\ bus.phase \in {"free", "address", "data", "nack"}
    BY <1>2, Records
  <1>4. PICK m \in Message : prog' = [prog EXCEPT ![n] = [pc |-> "fill", msg |-> m]]
    BY DEF Check
  <1>5. UNCHANGED <<drv, hw, bus>> /\ hw[n].code = "none" /\ ~drv[n].tail /\ prog[n].pc = "free"
        /\ drv[n].status = 0
    BY DEF Check, Runs
  <1>6. TypeOK'
    <2>1. sends' \in 0 .. MaxSends
      BY <1>2, BusAssumption DEF Check, TypeOK
    <2> QED
      BY <1>2, <1>4, <1>5, <2>1 DEF TypeOK
  <1>7. Place(bus, n, t, prog[n], drv[n], hw[n])
    BY <1>1 DEF Placed
  <1>8. ~hw[n].sta /\ (n \notin bus.starters \/ bus.starters = bus.masters)
    BY <1>2, <1>3, <1>5, <1>7, AtLeisure DEF Idle, Prepares, Quiet
  <1>9. Idle(prog[n], drv[n], hw[n])
    BY <1>5, <1>8 DEF Idle, Quiet
  <1>10. prog'[n] = [pc |-> "fill", msg |-> m]
    BY <1>2, <1>4 DEF TypeOK
  <1>11. Prepares(prog'[n], drv'[n], hw'[n])
    BY <1>5, <1>8, <1>10 DEF Prepares, Quiet
  <1>12. Place(bus, n, t, prog'[n], drv'[n], hw'[n])
    BY <1>2, <1>3, <1>5, <1>7, <1>9, <1>11, StillWaits DEF Waits
  <1>13. \A k \in Node \ {n} : prog'[k] = prog[k]
    BY <1>2, <1>4 DEF TypeOK
  <1> QED
    BY <1>1, <1>2, <1>5, <1>6, <1>8, <1>12, <1>13, OneMoves

(* The text goes to the buffer behind the address.                         *)
LEMMA Filled ==
  ASSUME NEW m \in Message, NEW buf \in [0 .. BufSize-1 -> Byte]
  PROVE  /\ Buffer(buf, m) \in [0 .. BufSize-1 -> Byte]
         /\ Buffer(buf, m)[0] = 0
         /\ \A i \in 1 .. Len(m) : Buffer(buf, m)[i] = m[i]
  <1>1. Len(m) \in Nat /\ Len(m) + 1 <= BufSize /\ BufSize \in Nat
    BY Texts, BusAssumption
  <1>2. ASSUME NEW i \in 0 .. BufSize-1
        PROVE  (IF i = 0 THEN 0 ELSE IF i <= Len(m) THEN m[i] ELSE buf[i]) \in Byte
    <2>1. i # 0 /\ i <= Len(m) => i \in 1 .. Len(m)
      BY <1>1
    <2> QED
      BY <2>1, Texts, Bytes
  <1>3. 0 \in 0 .. BufSize-1 /\ \A i \in 1 .. Len(m) : i \in 0 .. BufSize-1 /\ i # 0 /\ i <= Len(m)
    BY <1>1
  <1> QED
    BY <1>2, <1>3 DEF Buffer

(* The buffer is filled.                                                   *)
LEMMA FillInv ==
  ASSUME Inv, NEW n \in Node, Fill(n)
  PROVE  Inv'
  <1>1. PICK t \in Seq(Nat) : Placed(t)
    BY DEF Inv
  <1>2. TypeOK /\ Shape(bus) /\ Differ(bus, prog)
    BY DEF Inv
  <1>3. prog[n] \in Prog /\ drv[n] \in Drv /\ hw[n] \in Hw /\ bus.masters \subseteq bus.starters
        /\ bus.phase \in {"free", "address", "data", "nack"}
    BY <1>2, Records
  <1>4. UNCHANGED <<hw, bus, sends>> /\ hw[n].code = "none" /\ ~drv[n].tail /\ prog[n].pc = "fill"
    BY DEF Fill, Runs
  <1>5. Place(bus, n, t, prog[n], drv[n], hw[n])
    BY <1>1 DEF Placed
  <1>6. Prepares(prog[n], drv[n], hw[n])
    BY <1>2, <1>3, <1>4, <1>5, AtLeisure DEF Idle
  <1>7. prog[n].msg \in Message /\ drv[n].status = 0
    BY <1>6 DEF Prepares
  <1> DEFINE buf == Buffer(drv[n].buf, prog[n].msg)
  <1>8. buf \in [0 .. BufSize-1 -> Byte] /\ buf[0] = 0
        /\ \A i \in 1 .. Len(prog[n].msg) : buf[i] = prog[n].msg[i]
    BY <1>3, <1>7, Filled DEF Drv
  <1>9. drv' = [drv EXCEPT ![n] = [@ EXCEPT !.buf = buf, !.ptr = 0, !.size = Len(prog[n].msg) + 1]]
    BY DEF Fill
  <1>10. prog' = [prog EXCEPT ![n] = [@ EXCEPT !.pc = "go"]]
    BY DEF Fill
  <1> HIDE DEF buf
  <1>11. Len(prog[n].msg) + 1 \in 0 .. BufSize /\ 0 \in 0 .. BufSize
    BY <1>7, Texts, BusAssumption
  <1>12. /\ drv'[n] = [drv[n] EXCEPT !.buf = buf, !.ptr = 0, !.size = Len(prog[n].msg) + 1]
         /\ prog'[n] = [prog[n] EXCEPT !.pc = "go"]
         /\ \A k \in Node \ {n} : prog'[k] = prog[k] /\ drv'[k] = drv[k]
    BY <1>2, <1>9, <1>10 DEF TypeOK
  <1>13. drv'[n] \in Drv /\ prog'[n] \in Prog /\ drv'[n].status = 0
    BY <1>3, <1>7, <1>8, <1>11, <1>12 DEF Drv, Prog
  <1>14. TypeOK'
    BY <1>2, <1>4, <1>9, <1>10, <1>12, <1>13 DEF TypeOK, Drv, Prog
  <1>15. Prepares(prog'[n], drv'[n], hw'[n])
    BY <1>3, <1>4, <1>6, <1>8, <1>12 DEF Prepares, Quiet, Loaded, Drv, Prog
  <1>16. Place(bus, n, t, prog'[n], drv'[n], hw'[n])
    BY <1>2, <1>3, <1>4, <1>5, <1>6, <1>15, StillWaits DEF Waits
  <1>17. prog'[n].msg = prog[n].msg
    BY <1>3, <1>12 DEF Prog
  <1> QED
    BY <1>1, <1>2, <1>4, <1>12, <1>14, <1>16, <1>17, OneMoves

(* The same for the steps that leave the text of the board alone, said of  *)
(* the records they leave behind.                                          *)
LEMMA Moves ==
  ASSUME TypeOK, Shape(bus), Differ(bus, prog), NEW t \in Seq(Nat), Placed(t), NEW n \in Node,
         NEW p \in Prog, NEW d \in Drv, NEW h \in Hw, UNCHANGED <<bus, sends>>,
         prog' = [prog EXCEPT ![n] = p], drv' = [drv EXCEPT ![n] = d], hw' = [hw EXCEPT ![n] = h],
         p.msg = prog[n].msg, d.status = 3 => d.ptr < BufSize, Place(bus, n, t, p, d, h)
  PROVE  Inv'
  <1>1. /\ prog'[n] = p /\ drv'[n] = d /\ hw'[n] = h
        /\ \A m \in Node \ {n} : prog'[m] = prog[m] /\ drv'[m] = drv[m] /\ hw'[m] = hw[m]
    BY DEF TypeOK
  <1>2. TypeOK'
    <2>1. prog' \in [Node -> Prog] /\ drv' \in [Node -> Drv] /\ hw' \in [Node -> Hw]
      BY DEF TypeOK, Prog, Drv, Hw
    <2>2. \A m \in Node : drv'[m].status = 3 => drv'[m].ptr < BufSize
      BY <1>1 DEF TypeOK
    <2> QED
      BY <2>1, <2>2 DEF TypeOK, Prog, Drv, Hw
  <1> QED
    BY <1>1, <1>2, OneMoves

(* send_start.                                                             *)
LEMMA GoInv ==
  ASSUME Inv, NEW n \in Node, Go(n)
  PROVE  Inv'
  <1>1. PICK t \in Seq(Nat) : Placed(t)
    BY DEF Inv
  <1>2. TypeOK /\ Shape(bus) /\ Differ(bus, prog)
    BY DEF Inv
  <1>3. prog[n] \in Prog /\ drv[n] \in Drv /\ hw[n] \in Hw /\ bus.masters \subseteq bus.starters
        /\ bus.phase \in {"free", "address", "data", "nack"}
    BY <1>2, Records
  <1>4. hw[n].code = "none" /\ ~drv[n].tail /\ prog[n].pc = "go"
    BY DEF Go, Runs
  <1>5. Place(bus, n, t, prog[n], drv[n], hw[n])
    BY <1>1 DEF Placed
  <1>6. Prepares(prog[n], drv[n], hw[n])
    BY <1>2, <1>3, <1>4, <1>5, AtLeisure DEF Idle
  <1> DEFINE p == [prog[n] EXCEPT !.pc = "free"]
             d == [drv[n] EXCEPT !.status = 1]
             h == [hw[n] EXCEPT !.ea = FALSE, !.sta = TRUE, !.code = "none"]
  <1>7. p \in Prog /\ d \in Drv /\ h \in Hw
    <2>1. p \in Prog
      BY <1>3 DEF Prog
    <2>2. d \in Drv
      BY <1>3 DEF Drv
    <2>3. h \in Hw
      BY <1>3 DEF Hw, Code
    <2> QED
      BY <2>1, <2>2, <2>3
  <1>8. /\ prog' = [prog EXCEPT ![n] = p] /\ drv' = [drv EXCEPT ![n] = d]
        /\ hw' = [hw EXCEPT ![n] = h] /\ UNCHANGED <<bus, sends>>
    BY DEF Go, Control
  <1>9. Asks(p, d, h)
    BY <1>3, <1>4, <1>6 DEF Prepares, Asks, Loaded, Prog, Drv, Hw
  <1>10. p.msg = prog[n].msg /\ d.status = 1 /\ ~h.ea
    BY <1>3 DEF Prog, Drv, Hw
  <1> HIDE DEF p, d, h
  <1>11. Place(bus, n, t, p, d, h)
    BY <1>2, <1>3, <1>5, <1>6, <1>9, <1>10, StillWaits DEF Waits
  <1>12. d.status = 3 => d.ptr < BufSize
    BY <1>10
  <1> QED
    BY ONLY <1>1, <1>2, <1>7, <1>8, <1>10, <1>11, <1>12, Moves, n \in Node

(* Meta takes a flag.                                                      *)
LEMMA TakeInv ==
  ASSUME Inv, UNCHANGED <<prog, drv, hw, bus, sends>>
  PROVE  Inv'
  <1>1. TypeOK' /\ Shape(bus)' /\ Differ(bus, prog)'
    <2>1. TypeOK'
      BY DEF Inv, TypeOK
    <2>2. Shape(bus)' /\ Differ(bus, prog)'
      BY DEF Inv, Shape, Differ
    <2> QED
      BY <2>1, <2>2
  <1>2. PICK t \in Seq(Nat) : Placed(t)
    BY DEF Inv
  <1>3. Placed(t)'
    BY <1>2 DEF Placed
  <1> QED
    BY ONLY <1>1, <1>3, t \in Seq(Nat) DEF Inv

--------------------------------------------------------------------------------
(* The interrupt routine.                                                  *)

(* START is out: the address goes on the wires.                            *)
LEMMA StartInv ==
  ASSUME Inv, NEW n \in Node, StartISR(n)
  PROVE  Inv'
  <1>1. PICK t \in Seq(Nat) : Placed(t)
    BY DEF Inv
  <1>2. TypeOK /\ Shape(bus) /\ Differ(bus, prog)
    BY DEF Inv
  <1>3. prog[n] \in Prog /\ drv[n] \in Drv /\ hw[n] \in Hw
        /\ bus.phase \in {"free", "address", "data", "nack"}
    BY <1>2, Records
  <1>4. hw[n].code = "START"
    BY DEF StartISR
  <1>5. Place(bus, n, t, prog[n], drv[n], hw[n])
    BY <1>1 DEF Placed
  <1>6. Starts(prog[n], drv[n], hw[n]) /\ bus.phase = "address" /\ n \in bus.masters
    BY <1>3, <1>4, <1>5, Codes
  <1> DEFINE d == [drv[n] EXCEPT !.ptr = 1]
             h == [hw[n] EXCEPT !.ea = FALSE, !.sta = FALSE, !.code = "none",
                                !.data = drv[n].buf[0]]
  <1>7. d \in Drv /\ h \in Hw
    <2>1. drv[n].buf[0] = 0 /\ 1 \in 0 .. BufSize
      BY <1>6, BusAssumption DEF Starts, Loaded
    <2> QED
      BY <1>3, <2>1, Bytes DEF Drv, Hw, Code
  <1>8. /\ prog' = [prog EXCEPT ![n] = prog[n]] /\ drv' = [drv EXCEPT ![n] = d]
        /\ hw' = [hw EXCEPT ![n] = h] /\ UNCHANGED <<bus, sends>>
    BY <1>2 DEF StartISR, TypeOK
  <1>9. Starts(prog[n], d, h) /\ d.status = 1
    BY <1>3, <1>6 DEF Starts, Loaded, Drv, Hw
  <1> HIDE DEF d, h
  <1>10. Place(bus, n, t, prog[n], d, h)
    BY <1>6, <1>9 DEF Place
  <1>11. d.status = 3 => d.ptr < BufSize
    BY <1>9
  <1> QED
    BY ONLY <1>1, <1>2, <1>3, <1>7, <1>8, <1>10, <1>11, Moves, n \in Node

(* What an acknowledge finds: t is out, and the next byte is t's successor *)
(* in the text.                                                            *)
LEMMA Talking ==
  ASSUME TypeOK, NEW t \in Seq(Nat), NEW n \in Node, Place(bus, n, t, prog[n], drv[n], hw[n]),
         Acknowledged(n)
  PROVE  /\ bus.phase = "data" /\ n \in bus.masters /\ Talks(t, prog[n], drv[n], hw[n])
         /\ Next1(n) = Len(t) + 1 /\ ~drv[n].tail
  <1>1. prog[n] \in Prog /\ drv[n] \in Drv /\ hw[n] \in Hw
        /\ bus.phase \in {"free", "address", "data", "nack"}
    BY Records
  <1>2. bus.phase = "data" /\ n \in bus.masters /\ Talks(t, prog[n], drv[n], hw[n])
    BY <1>1, Codes DEF Acknowledged
  <1> QED
    BY <1>1, <1>2 DEF Talks, Next1, Acknowledged

(* The next byte goes on the wires.                                        *)
LEMMA NextByteInv ==
  ASSUME Inv, NEW n \in Node, NextByteISR(n)
  PROVE  Inv'
  <1>1. PICK t \in Seq(Nat) : Placed(t)
    BY DEF Inv
  <1>2. TypeOK /\ Shape(bus) /\ Differ(bus, prog)
    BY DEF Inv
  <1>3. prog[n] \in Prog /\ drv[n] \in Drv /\ hw[n] \in Hw
    BY <1>2, Records
  <1>4. Place(bus, n, t, prog[n], drv[n], hw[n])
    BY <1>1 DEF Placed
  <1>5. Acknowledged(n) /\ Next1(n) < drv[n].size
    BY DEF NextByteISR
  <1>6. bus.phase = "data" /\ n \in bus.masters /\ Talks(t, prog[n], drv[n], hw[n])
        /\ Next1(n) = Len(t) + 1 /\ ~drv[n].tail
    BY <1>2, <1>4, <1>5, Talking
  <1> DEFINE m == prog[n].msg
             k == Len(t) + 1
             d == [drv[n] EXCEPT !.ptr = k + 1, !.status = 2]
             h == [hw[n] EXCEPT !.ea = FALSE, !.sta = FALSE, !.code = "none",
                                !.data = drv[n].buf[k]]
  <1>7. m \in Message /\ drv[n].size = Len(m) + 1 /\ \A i \in 1 .. Len(m) : drv[n].buf[i] = m[i]
    BY <1>6 DEF Talks, Loaded
  <1>8. k \in 1 .. Len(m) /\ k + 1 \in 0 .. BufSize /\ m[k] \in Byte /\ drv[n].buf[k] = m[k]
    <2>1. Len(t) \in Nat /\ k < Len(m) + 1
      BY <1>5, <1>6, <1>7
    <2>2. Len(m) \in Nat /\ Len(m) + 1 <= BufSize /\ BufSize \in Nat
      BY <1>7, Texts, BusAssumption
    <2>3. k \in 1 .. Len(m) /\ k + 1 \in 0 .. BufSize
      BY ONLY <2>1, <2>2
    <2> QED
      BY ONLY <2>3, <1>7, Texts
  <1>9. /\ prog' = [prog EXCEPT ![n] = prog[n]] /\ drv' = [drv EXCEPT ![n] = d]
        /\ hw' = [hw EXCEPT ![n] = h] /\ UNCHANGED <<bus, sends>>
    BY <1>2, <1>6 DEF NextByteISR, TypeOK
  <1> HIDE DEF k
  <1>10. d \in Drv
    <2>1. 2 \in 0 .. 3
      OBVIOUS
    <2> QED
      BY ONLY <1>3, <1>8, <2>1, Writes
  <1>11. h \in Hw
    BY <1>3, <1>8 DEF Hw, Code
  <1>12. /\ d.status = 2 /\ d.ptr = k + 1
         /\ d.size = drv[n].size /\ d.buf = drv[n].buf /\ d.tail = drv[n].tail
    BY <1>3 DEF Drv
  <1>13. h.code = "none" /\ h.data = m[k] /\ ~h.ea /\ ~h.sta
    BY <1>3, <1>8 DEF Hw
  <1> HIDE DEF d, h
  <1>14. Loaded(prog[n], d)
    BY <1>6, <1>12 DEF Talks, Loaded
  <1>15. d.ptr = Len(t) + 2 /\ Len(t) < Len(m) /\ h.data = m[Len(t) + 1]
    BY <1>7, <1>8, <1>12, <1>13, Texts DEF k
  <1>16. Talks(t, prog[n], d, h)
    BY <1>6, <1>12, <1>13, <1>14, <1>15 DEF Talks
  <1>17. Place(bus, n, t, prog[n], d, h)
    BY <1>2, <1>4, <1>6, <1>16 DEF Place, Shape, TypeOK
  <1>18. d.status = 3 => d.ptr < BufSize
    BY <1>12
  <1> QED
    BY ONLY <1>1, <1>2, <1>3, <1>9, <1>10, <1>11, <1>17, <1>18, Moves, n \in Node

(* No byte is left, and STOP is asked for.                                 *)
LEMMA LastByteInv ==
  ASSUME Inv, NEW n \in Node, LastByteISR(n)
  PROVE  Inv'
  <1>1. PICK t \in Seq(Nat) : Placed(t)
    BY DEF Inv
  <1>2. TypeOK /\ Shape(bus) /\ Differ(bus, prog)
    BY DEF Inv
  <1>3. prog[n] \in Prog /\ drv[n] \in Drv /\ hw[n] \in Hw
    BY <1>2, Records
  <1>4. Place(bus, n, t, prog[n], drv[n], hw[n])
    BY <1>1 DEF Placed
  <1>5. Acknowledged(n) /\ Next1(n) >= drv[n].size
    BY DEF LastByteISR
  <1>6. bus.phase = "data" /\ n \in bus.masters /\ Talks(t, prog[n], drv[n], hw[n])
        /\ Next1(n) = Len(t) + 1 /\ ~drv[n].tail
    BY <1>2, <1>4, <1>5, Talking
  <1> DEFINE m == prog[n].msg
             d == [drv[n] EXCEPT !.ptr = Len(t) + 1, !.tail = TRUE]
             h == [hw[n] EXCEPT !.ea = FALSE, !.sta = FALSE, !.code = "none"]
  <1>7. m \in Message /\ drv[n].size = Len(m) + 1 /\ Len(t) <= Len(m)
    BY <1>6 DEF Talks, Loaded
  <1>8. Len(t) = Len(m) /\ Len(t) + 1 \in 0 .. BufSize
    BY <1>5, <1>6, <1>7, Texts, BusAssumption
  <1>9. /\ prog' = [prog EXCEPT ![n] = prog[n]] /\ drv' = [drv EXCEPT ![n] = d]
        /\ hw' = [hw EXCEPT ![n] = h] /\ UNCHANGED <<bus, sends>>
    BY <1>2, <1>6 DEF LastByteISR, Control, TypeOK
  <1>10. d \in Drv
    BY <1>3, <1>8 DEF Drv
  <1>11. h \in Hw
    BY <1>3 DEF Hw, Code
  <1>12. d.tail /\ d.status = drv[n].status /\ d.size = drv[n].size /\ d.buf = drv[n].buf
    BY <1>3 DEF Drv
  <1>13. h.code = "none" /\ ~h.ea /\ ~h.sta
    BY <1>3 DEF Hw
  <1> HIDE DEF d, h
  <1>14. Loaded(prog[n], d)
    BY <1>6, <1>12 DEF Talks, Loaded
  <1>15. Talks(t, prog[n], d, h)
    BY <1>6, <1>8, <1>12, <1>13, <1>14 DEF Talks
  <1>16. Place(bus, n, t, prog[n], d, h)
    BY <1>2, <1>4, <1>6, <1>15 DEF Place, Shape, TypeOK
  <1>17. d.status = 3 => d.ptr < BufSize
    BY <1>6, <1>12 DEF Talks
  <1> QED
    BY ONLY <1>1, <1>2, <1>3, <1>9, <1>10, <1>11, <1>16, <1>17, Moves, n \in Node

(* set_slaveR once the message is out.                                     *)
LEMMA SentInv ==
  ASSUME Inv, NEW n \in Node, SentISR(n)
  PROVE  Inv'
  <1>1. PICK t \in Seq(Nat) : Placed(t)
    BY DEF Inv
  <1>2. TypeOK /\ Shape(bus) /\ Differ(bus, prog)
    BY DEF Inv
  <1>3. prog[n] \in Prog /\ drv[n] \in Drv /\ hw[n] \in Hw
        /\ bus.phase \in {"free", "address", "data", "nack"}
        /\ bus.masters \subseteq bus.starters
    BY <1>2, Records
  <1>4. Place(bus, n, t, prog[n], drv[n], hw[n])
    BY <1>1 DEF Placed
  <1>5. bus.phase \in {"free", "address"} /\ n \notin bus.masters /\ Ends(prog[n], drv[n], hw[n])
    BY <1>3, <1>4, Codes DEF SentISR
  <1> DEFINE d == [drv[n] EXCEPT !.tail = FALSE, !.status = 0]
             h == [hw[n] EXCEPT !.ea = TRUE, !.sta = FALSE]
  <1>6. d \in Drv
    <2>1. 0 \in 0 .. 3 /\ FALSE \in BOOLEAN
      OBVIOUS
    <2> QED
      BY ONLY <1>3, <2>1, Writes
  <1>7. h \in Hw
    BY <1>3 DEF Hw
  <1>8. /\ prog' = [prog EXCEPT ![n] = prog[n]] /\ drv' = [drv EXCEPT ![n] = d]
        /\ hw' = [hw EXCEPT ![n] = h] /\ UNCHANGED <<bus, sends>>
    BY <1>2 DEF SentISR, TypeOK
  <1>9. Idle(prog[n], d, h) /\ d.status = 0
    BY <1>3, <1>5 DEF Ends, Idle, Quiet, Drv, Hw
  <1> HIDE DEF d, h
  <1>10. Place(bus, n, t, prog[n], d, h)
    BY <1>5, <1>9 DEF Place, Rests, Waits
  <1>11. d.status = 3 => d.ptr < BufSize
    BY <1>9
  <1> QED
    BY ONLY <1>1, <1>2, <1>3, <1>6, <1>7, <1>8, <1>10, <1>11, Moves, n \in Node

(* The address was not acknowledged.                                       *)
LEMMA NackInv ==
  ASSUME Inv, NEW n \in Node, NackISR(n)
  PROVE  Inv'
  <1>1. PICK t \in Seq(Nat) : Placed(t)
    BY DEF Inv
  <1>2. TypeOK /\ Shape(bus) /\ Differ(bus, prog)
    BY DEF Inv
  <1>3. prog[n] \in Prog /\ drv[n] \in Drv /\ hw[n] \in Hw
        /\ bus.phase \in {"free", "address", "data", "nack"}
        /\ bus.masters \subseteq bus.starters
    BY <1>2, Records
  <1>4. Place(bus, n, t, prog[n], drv[n], hw[n])
    BY <1>1 DEF Placed
  <1>5. bus.phase = "nack" /\ Nacked(prog[n], drv[n], hw[n])
    BY <1>3, <1>4, Codes DEF NackISR
  <1> DEFINE d == [drv[n] EXCEPT !.status = 0]
             h == [hw[n] EXCEPT !.ea = FALSE, !.sta = FALSE, !.code = "none"]
  <1>6. d \in Drv
    <2>1. 0 \in 0 .. 3 /\ FALSE \in BOOLEAN
      OBVIOUS
    <2> QED
      BY ONLY <1>3, <2>1, Writes
  <1>7. h \in Hw
    BY <1>3 DEF Hw, Code
  <1>8. /\ prog' = [prog EXCEPT ![n] = prog[n]] /\ drv' = [drv EXCEPT ![n] = d]
        /\ hw' = [hw EXCEPT ![n] = h] /\ UNCHANGED <<bus, sends>>
    BY <1>2 DEF NackISR, Control, TypeOK
  <1>9. Idle(prog[n], d, h) /\ d.status = 0 /\ ~h.ea
    BY <1>3, <1>5 DEF Nacked, Idle, Quiet, Drv, Hw
  <1> HIDE DEF d, h
  <1>10. Place(bus, n, t, prog[n], d, h)
    BY <1>5, <1>9 DEF Place, Waits
  <1>11. d.status = 3 => d.ptr < BufSize
    BY <1>9
  <1> QED
    BY ONLY <1>1, <1>2, <1>3, <1>6, <1>7, <1>8, <1>10, <1>11, Moves, n \in Node

(* Arbitration is lost, and the switch does not know.                      *)
LEMMA OtherInv ==
  ASSUME Inv, NEW n \in Node, OtherISR(n)
  PROVE  Inv'
  <1>1. PICK t \in Seq(Nat) : Placed(t)
    BY DEF Inv
  <1>2. TypeOK /\ Shape(bus) /\ Differ(bus, prog)
    BY DEF Inv
  <1>3. prog[n] \in Prog /\ drv[n] \in Drv /\ hw[n] \in Hw
        /\ bus.phase \in {"free", "address", "data", "nack"}
        /\ bus.masters \subseteq bus.starters
    BY <1>2, Records
  <1>4. Place(bus, n, t, prog[n], drv[n], hw[n])
    BY <1>1 DEF Placed
  <1>5. bus.phase = "data" /\ n \in bus.starters \ bus.masters /\ Beaten(prog[n], drv[n], hw[n])
    BY <1>3, <1>4, Codes DEF OtherISR
  <1> DEFINE h == [hw[n] EXCEPT !.ea = FALSE, !.sta = FALSE, !.code = "none"]
  <1>6. h \in Hw
    BY <1>3 DEF Hw, Code
  <1>7. /\ prog' = [prog EXCEPT ![n] = prog[n]] /\ drv' = [drv EXCEPT ![n] = drv[n]]
        /\ hw' = [hw EXCEPT ![n] = h] /\ UNCHANGED <<bus, sends>>
    BY <1>2 DEF OtherISR, Control, TypeOK
  <1>8. Beaten(prog[n], drv[n], h)
    BY <1>3, <1>5 DEF Beaten, Hw
  <1> HIDE DEF h
  <1>9. Place(bus, n, t, prog[n], drv[n], h)
    BY <1>2, <1>5, <1>8 DEF Place, Shape
  <1>10. drv[n].status = 3 => drv[n].ptr < BufSize
    BY <1>2 DEF TypeOK
  <1> QED
    BY ONLY <1>1, <1>2, <1>3, <1>6, <1>7, <1>9, <1>10, Moves, n \in Node

(* The address of all is heard.                                            *)
LEMMA CalledInv ==
  ASSUME Inv, NEW n \in Node, CalledISR(n)
  PROVE  Inv'
  <1>1. PICK t \in Seq(Nat) : Placed(t)
    BY DEF Inv
  <1>2. TypeOK /\ Shape(bus) /\ Differ(bus, prog)
    BY DEF Inv
  <1>3. prog[n] \in Prog /\ drv[n] \in Drv /\ hw[n] \in Hw
        /\ bus.phase \in {"free", "address", "data", "nack"}
        /\ bus.masters \subseteq bus.starters
    BY <1>2, Records
  <1>4. Place(bus, n, t, prog[n], drv[n], hw[n])
    BY <1>1 DEF Placed
  <1>5. hw[n].code = "GEN_ACK"
    BY DEF CalledISR
  <1>6. bus.phase = "data" /\ n \in bus.slaves /\ Hears(t, prog[n], drv[n], hw[n])
    BY <1>3, <1>4, <1>5, Codes
  <1> DEFINE d == [drv[n] EXCEPT !.status = 3, !.ptr = 0]
             h == [hw[n] EXCEPT !.ea = TRUE, !.sta = FALSE, !.code = "none"]
  <1>7. d \in Drv
    <2>1. 3 \in 0 .. 3 /\ 0 \in 0 .. BufSize
      BY BusAssumption
    <2> QED
      BY ONLY <1>3, <2>1, Writes
  <1>8. h \in Hw
    BY <1>3 DEF Hw, Code
  <1>9. /\ prog' = [prog EXCEPT ![n] = prog[n]] /\ drv' = [drv EXCEPT ![n] = d]
        /\ hw' = [hw EXCEPT ![n] = h] /\ UNCHANGED <<bus, sends>>
    BY <1>2 DEF CalledISR, Control, TypeOK
  <1>10. d.status = 3 /\ d.ptr = 0 /\ ~d.tail /\ h.code = "none" /\ h.ea /\ ~h.sta
    BY <1>3, <1>6 DEF Hears, Drv, Hw
  <1>11. prog[n].pc = "free" /\ Len(t) = 0
    BY <1>5, <1>6 DEF Hears
  <1> HIDE DEF d, h
  <1>12. Hears(t, prog[n], d, h)
    BY <1>10, <1>11 DEF Hears, Holds
  <1>13. Place(bus, n, t, prog[n], d, h)
    BY <1>2, <1>3, <1>6, <1>12 DEF Place, Shape
  <1>14. d.status = 3 => d.ptr < BufSize
    BY <1>10, BusAssumption
  <1> QED
    BY ONLY <1>1, <1>2, <1>3, <1>7, <1>8, <1>9, <1>13, <1>14, Moves, n \in Node

(* What is on the bus is never longer than the text of who sends it, and   *)
(* so leaves room for the NUL.                                             *)
LEMMA Room ==
  ASSUME TypeOK, Shape(bus), NEW t \in Seq(Nat), Placed(t), bus.phase = "data"
  PROVE  Len(t) + 1 <= BufSize
  <1>1. PICK m \in bus.masters : TRUE
    BY DEF Shape
  <1>2. m \in Node
    BY Records, <1>1 DEF TypeOK
  <1>3. Talks(t, prog[m], drv[m], hw[m])
    BY <1>1, <1>2 DEF Placed, Place
  <1>4. prog[m].msg \in Message /\ Len(t) <= Len(prog[m].msg)
    BY <1>3 DEF Talks, Loaded
  <1>5. /\ Len(t) \in Nat /\ Len(prog[m].msg) \in Nat /\ BufSize \in Nat
        /\ Len(prog[m].msg) + 1 <= BufSize
    BY <1>4, Texts, BusAssumption
  <1> QED
    BY ONLY <1>4, <1>5

(* A byte is heard.                                                        *)
LEMMA DataInv ==
  ASSUME Inv, NEW n \in Node, DataISR(n)
  PROVE  Inv'
  <1>1. PICK t \in Seq(Nat) : Placed(t)
    BY DEF Inv
  <1>2. TypeOK /\ Shape(bus) /\ Differ(bus, prog)
    BY DEF Inv
  <1>3. prog[n] \in Prog /\ drv[n] \in Drv /\ hw[n] \in Hw
        /\ bus.phase \in {"free", "address", "data", "nack"}
        /\ bus.masters \subseteq bus.starters
    BY <1>2, Records
  <1>4. Place(bus, n, t, prog[n], drv[n], hw[n])
    BY <1>1 DEF Placed
  <1>5. hw[n].code = "GEN_DATA_ACK"
    BY DEF DataISR
  <1>6. bus.phase = "data" /\ n \in bus.slaves /\ Hears(t, prog[n], drv[n], hw[n])
    BY <1>3, <1>4, <1>5, Codes
  <1> DEFINE k == drv[n].ptr
             x == hw[n].data
             d == [drv[n] EXCEPT !.buf[k] = x, !.ptr = k + 1]
             h == [hw[n] EXCEPT !.ea = TRUE, !.sta = FALSE, !.code = "none"]
  <1>7. /\ drv[n].status = 3 /\ ~drv[n].tail /\ prog[n].pc = "free"
        /\ Len(t) > 0 /\ x = t[Len(t)] /\ Holds(drv[n], t, Len(t) - 1)
    BY <1>5, <1>6 DEF Hears
  <1>8. Len(t) \in Nat /\ k = Len(t) - 1 /\ \A i \in 1 .. k : drv[n].buf[i-1] = t[i]
    BY <1>7 DEF Holds
  <1>9. Len(t) + 1 <= BufSize /\ BufSize \in Nat
    BY <1>1, <1>2, <1>6, Room, BusAssumption
  <1>10. k \in 0 .. BufSize-1 /\ k < BufSize - 1 /\ k + 1 \in 0 .. BufSize /\ k + 1 = Len(t)
    BY ONLY <1>7, <1>8, <1>9
  <1>11. x \in Byte
    BY <1>3 DEF Hw
  <1>12. drv' = [drv EXCEPT ![n] = d]
    BY <1>2, <1>10 DEF DataISR, TypeOK
  <1>13. /\ prog' = [prog EXCEPT ![n] = prog[n]] /\ hw' = [hw EXCEPT ![n] = h]
         /\ UNCHANGED <<bus, sends>>
    BY <1>2 DEF DataISR, Control, TypeOK
  <1> HIDE DEF k, x
  <1>14. /\ d.status = 3 /\ d.ptr = k + 1 /\ d.size = drv[n].size /\ ~d.tail
         /\ d.buf = [drv[n].buf EXCEPT ![k] = x]
    BY <1>3, <1>7 DEF Drv
  <1>15. d \in Drv
    <2>1. [drv[n].buf EXCEPT ![k] = x] \in [0 .. BufSize-1 -> Byte]
      BY <1>3, <1>11 DEF Drv
    <2>2. d = [[drv[n] EXCEPT !.buf = [drv[n].buf EXCEPT ![k] = x]] EXCEPT !.ptr = k + 1]
      BY <1>3 DEF Drv
    <2>3. \A f \in [0 .. BufSize-1 -> Byte] : [drv[n] EXCEPT !.buf = f] \in Drv
      BY <1>3 DEF Drv
    <2>4. \A c \in Drv, j \in 0 .. BufSize : [c EXCEPT !.ptr = j] \in Drv
      BY DEF Drv
    <2> QED
      BY ONLY <1>10, <2>1, <2>2, <2>3, <2>4
  <1>16. h \in Hw
    BY <1>3 DEF Hw, Code
  <1>17. h.code = "none" /\ h.ea /\ ~h.sta
    BY <1>3 DEF Hw
  <1>18. Holds(d, t, Len(t))
    <2>1. ASSUME NEW i \in 1 .. Len(t) PROVE d.buf[i-1] = t[i]
      <3>1. CASE i = Len(t)
        <4>1. i - 1 = k
          BY ONLY <1>10, <1>8, <3>1
        <4> QED
          BY <1>3, <1>7, <1>10, <1>14, <3>1, <4>1 DEF Drv
      <3>2. CASE i # Len(t)
        <4>1. i \in 1 .. k /\ i - 1 # k /\ i - 1 \in 0 .. BufSize-1
          <5>1. i \in Nat /\ 1 <= i /\ i <= k + 1 /\ i # k + 1
            BY <1>8, <1>10, <3>2
          <5> QED
            BY ONLY <5>1, <1>9, <1>10
        <4> QED
          BY <1>3, <1>8, <1>14, <4>1 DEF Drv
      <3> QED
        BY <3>1, <3>2
    <2> QED
      BY <1>10, <1>14, <2>1 DEF Holds
  <1> HIDE DEF d, h
  <1>19. Hears(t, prog[n], d, h)
    BY <1>7, <1>14, <1>17, <1>18 DEF Hears
  <1>20. Place(bus, n, t, prog[n], d, h)
    BY <1>2, <1>3, <1>6, <1>19 DEF Place, Shape
  <1>21. d.status = 3 => d.ptr < BufSize
    BY ONLY <1>9, <1>10, <1>14
  <1> QED
    BY ONLY <1>1, <1>2, <1>3, <1>12, <1>13, <1>15, <1>16, <1>20, <1>21, Moves, n \in Node

(* The text is complete, and goes to Meta.                                 *)
LEMMA StopInv ==
  ASSUME Inv, NEW n \in Node, StopISR(n)
  PROVE  Inv'
  <1>1. PICK t \in Seq(Nat) : Placed(t)
    BY DEF Inv
  <1>2. TypeOK /\ Shape(bus) /\ Differ(bus, prog)
    BY DEF Inv
  <1>3. prog[n] \in Prog /\ drv[n] \in Drv /\ hw[n] \in Hw
        /\ bus.phase \in {"free", "address", "data", "nack"}
        /\ bus.masters \subseteq bus.starters
    BY <1>2, Records
  <1>4. Place(bus, n, t, prog[n], drv[n], hw[n])
    BY <1>1 DEF Placed
  <1>5. bus.phase \in {"free", "address"} /\ (bus.phase = "address" => n \notin bus.masters)
        /\ Told(prog[n], drv[n], hw[n])
    BY <1>3, <1>4, Codes DEF StopISR
  <1> DEFINE k == drv[n].ptr
             d == [drv[n] EXCEPT !.buf[k] = 0, !.ptr = 0, !.status = 0]
             h == [hw[n] EXCEPT !.ea = TRUE, !.sta = FALSE, !.code = "none"]
  <1>6. k \in 0 .. BufSize /\ k < BufSize
    BY <1>3, <1>5 DEF Drv, Told
  <1>7. k \in 0 .. BufSize-1
    BY <1>6, BusAssumption
  <1> HIDE DEF k
  <1>8. d \in Drv
    <2>1. [drv[n].buf EXCEPT ![k] = 0] \in [0 .. BufSize-1 -> Byte]
      BY <1>3, <1>7, Bytes DEF Drv
    <2>2. d = [[drv[n] EXCEPT !.buf = [drv[n].buf EXCEPT ![k] = 0]] EXCEPT !.ptr = 0, !.status = 0]
      BY <1>3 DEF Drv
    <2>3. \A f \in [0 .. BufSize-1 -> Byte] : [drv[n] EXCEPT !.buf = f] \in Drv
      BY <1>3 DEF Drv
    <2>4. 0 \in 0 .. BufSize /\ 0 \in 0 .. 3
      BY BusAssumption
    <2> QED
      BY ONLY <2>1, <2>2, <2>3, <2>4, Writes
  <1>9. h \in Hw
    BY <1>3 DEF Hw, Code
  <1>10. /\ prog' = [prog EXCEPT ![n] = prog[n]] /\ drv' = [drv EXCEPT ![n] = d]
         /\ hw' = [hw EXCEPT ![n] = h] /\ UNCHANGED <<bus, sends>>
    BY <1>2 DEF StopISR, Control, TypeOK, k
  <1>11. d.status = 0 /\ ~d.tail /\ h.code = "none" /\ ~h.sta /\ prog[n].pc = "free"
    BY <1>3, <1>5 DEF Drv, Hw, Told
  <1> HIDE DEF d, h
  <1>12. Idle(prog[n], d, h)
    BY <1>11 DEF Idle, Quiet
  <1>13. Place(bus, n, t, prog[n], d, h)
    BY <1>5, <1>12 DEF Place, Rests, Waits
  <1>14. d.status = 3 => d.ptr < BufSize
    BY <1>11
  <1> QED
    BY ONLY <1>1, <1>2, <1>3, <1>8, <1>9, <1>10, <1>13, <1>14, Moves, n \in Node

--------------------------------------------------------------------------------
(* The wires.                                                              *)

(* Only the code of a register changes, and only for those who are told.   *)
LEMMA CodeOnly ==
  ASSUME TypeOK, NEW n \in Node, NEW code \in Code
  PROVE  LET h == [hw[n] EXCEPT !.code = code]
         IN  /\ h \in Hw /\ h.code = code
             /\ h.ea = hw[n].ea /\ h.sta = hw[n].sta /\ h.data = hw[n].data
  <1>1. hw[n] \in Hw
    BY Records
  <1> QED
    BY <1>1 DEF Hw

(* Who is told of code, and who is not.                                    *)
LEMMA Signals ==
  ASSUME TypeOK, NEW who, NEW code \in Code
  PROVE  /\ Signal(who, code) \in [Node -> Hw]
         /\ \A n \in Node : n \in who => Signal(who, code)[n] = [hw[n] EXCEPT !.code = code]
         /\ \A n \in Node : n \notin who => Signal(who, code)[n] = hw[n]
  BY CodeOnly, Records DEF Signal

(* The wires leave the records of the driver alone.                        *)
LEMMA WiresType ==
  ASSUME TypeOK, UNCHANGED <<sends, prog, drv>>, hw' \in [Node -> Hw],
         bus' \in [phase : {"free", "address", "data", "nack"}, starters : SUBSET Node,
                   masters : SUBSET Node, slaves : SUBSET Node],
         bus'.masters \subseteq bus'.starters
  PROVE  TypeOK'
  BY DEF TypeOK, Hw

(* Boards that asked for START get it.                                     *)
LEMMA StartConditionInv ==
  ASSUME Inv, StartCondition
  PROVE  Inv'
  <1>1. PICK t \in Seq(Nat) : Placed(t)
    BY DEF Inv
  <1>2. TypeOK /\ Shape(bus) /\ Differ(bus, prog)
    BY DEF Inv
  <1>3. PICK S \in SUBSET {n \in Node : hw[n].sta} :
          /\ S # {}
          /\ hw' = Signal(S, "START")
          /\ bus' = [Free EXCEPT !.phase = "address", !.starters = S, !.masters = S]
    BY DEF StartCondition
  <1>4. bus.phase = "free" /\ UNCHANGED <<sends, prog, drv>>
    BY DEF StartCondition
  <1>5. bus' = [phase |-> "address", starters |-> S, masters |-> S, slaves |-> {}]
    BY <1>3 DEF Free
  <1>6. "START" \in Code
    BY DEF Code
  <1>7. TypeOK'
    BY <1>2, <1>3, <1>4, <1>5, <1>6, Signals, WiresType
  <1>8. Shape(bus)' /\ Differ(bus, prog)'
    <2>1. bus'.phase = "address" /\ bus'.starters = S /\ bus'.masters = S /\ bus'.slaves = {}
      BY <1>5
    <2> QED
      BY <1>3, <2>1 DEF Shape, Differ
  <1>9. ASSUME NEW n \in Node PROVE Place(bus', n, t, prog'[n], drv'[n], hw'[n])
    <2>1. Rests(prog[n], drv[n], hw[n])
      BY <1>1, <1>4 DEF Placed, Place
    <2>2. CASE n \in S
      <3>1. Asks(prog[n], drv[n], hw[n])
        <4>1. hw[n].sta
          BY <2>2
        <4> QED
          BY <2>1, <4>1 DEF Rests, Waits, Idle, Prepares, Quiet, Lost, Beaten, Ends, Told
      <3>2. hw'[n] = [hw[n] EXCEPT !.code = "START"]
        BY <1>2, <1>3, <1>6, <2>2, Signals
      <3>3. hw'[n].code = "START" /\ ~hw'[n].ea /\ hw'[n].sta
        BY <1>2, <1>6, <3>1, <3>2, CodeOnly DEF Asks
      <3>4. Starts(prog[n], drv[n], hw'[n])
        BY <3>1, <3>3 DEF Asks, Starts
      <3> QED
        BY <1>4, <1>5, <2>2, <3>4 DEF Place
    <2>3. CASE n \notin S
      <3>1. hw'[n] = hw[n]
        BY <1>2, <1>3, <1>6, <2>3, Signals
      <3> QED
        BY <1>4, <1>5, <2>1, <2>3, <3>1 DEF Place
    <2> QED
      BY <2>2, <2>3
  <1>10. Placed(t)'
    BY <1>9 DEF Placed
  <1> QED
    BY ONLY <1>7, <1>8, <1>10, t \in Seq(Nat) DEF Inv

(* While an address goes by, a board other than its senders is idle, asks  *)
(* for START or has lost the bus; only an idle one listens.                *)
LEMMA Bystander ==
  ASSUME TypeOK, NEW t, Placed(t), bus.phase = "address", Released, Window, Timely,
         NEW n \in Node \ bus.masters
  PROVE  /\ Idle(prog[n], drv[n], hw[n]) \/ Asks(prog[n], drv[n], hw[n])
            \/ Lost(prog[n], drv[n], hw[n])
         /\ hw[n].ea => Idle(prog[n], drv[n], hw[n])
  <1>1. Rests(prog[n], drv[n], hw[n])
    BY DEF Placed, Place
  <1>2. prog[n].pc = "free" /\ ~drv[n].tail /\ hw[n].code = "none"
    BY DEF Window, Released
  <1> QED
    BY <1>1, <1>2 DEF Rests, Waits, Idle, Prepares, Asks, Quiet, Lost, Beaten, Ends, Told

(* Its senders have it on the wires.                                       *)
LEMMA Sender ==
  ASSUME TypeOK, NEW t, Placed(t), bus.phase = "address", Released, NEW n \in bus.masters
  PROVE  /\ n \in Node /\ Starts(prog[n], drv[n], hw[n])
         /\ ~hw[n].sta /\ ~hw[n].ea /\ drv[n].ptr = 1
  <1>1. n \in Node
    BY Records DEF TypeOK
  <1>2. Starts(prog[n], drv[n], hw[n]) /\ hw[n].code = "none"
    BY <1>1 DEF Placed, Place, Released
  <1> QED
    BY <1>1, <1>2 DEF Starts

(* Nobody acknowledges the address.                                        *)
LEMMA UnheardInv ==
  ASSUME Inv, Timely, AddressByte, {n \in Node \ bus.masters : hw[n].ea} = {}
  PROVE  Inv'
  <1>1. PICK t \in Seq(Nat) : Placed(t)
    BY DEF Inv
  <1>2. TypeOK /\ Shape(bus) /\ Differ(bus, prog)
    BY DEF Inv
  <1>3. /\ bus.phase = "address" /\ Released /\ Window /\ UNCHANGED <<sends, prog, drv>>
        /\ hw' = Signal(bus.masters, "ADR_NACK")
        /\ bus' = [bus EXCEPT !.phase = "nack"]
    BY DEF AddressByte
  <1>4. /\ bus'.phase = "nack" /\ bus'.masters = bus.masters /\ bus'.starters = bus.starters
        /\ bus'.slaves = bus.slaves
    BY <1>2, <1>3 DEF TypeOK
  <1>5. "ADR_NACK" \in Code
    BY DEF Code
  <1>6. TypeOK'
    <2>1. hw' \in [Node -> Hw]
      BY <1>2, <1>3, <1>5, Signals
    <2>2. /\ bus' \in [phase : {"free", "address", "data", "nack"}, starters : SUBSET Node,
                       masters : SUBSET Node, slaves : SUBSET Node]
          /\ bus'.masters \subseteq bus'.starters
      BY <1>2, <1>3 DEF TypeOK
    <2> QED
      BY <1>2, <1>3, <2>1, <2>2, WiresType
  <1>7. Shape(bus)' /\ Differ(bus, prog)'
    BY <1>2, <1>3, <1>4 DEF Shape, Differ
  <1>8. ASSUME NEW n \in Node PROVE Place(bus', n, t, prog'[n], drv'[n], hw'[n])
    <2>1. CASE n \in bus.masters
      <3>1. Starts(prog[n], drv[n], hw[n]) /\ ~hw[n].sta /\ ~hw[n].ea
        BY <1>1, <1>2, <1>3, <2>1, Sender
      <3>2. hw'[n] = [hw[n] EXCEPT !.code = "ADR_NACK"]
        BY <1>2, <1>3, <1>5, <2>1, Signals
      <3>3. hw'[n].code = "ADR_NACK" /\ ~hw'[n].ea /\ ~hw'[n].sta
        BY <1>2, <1>5, <3>1, <3>2, CodeOnly
      <3>4. Nacked(prog[n], drv[n], hw'[n])
        BY <3>1, <3>3 DEF Starts, Nacked
      <3> QED
        BY <1>3, <1>4, <2>1, <3>3, <3>4 DEF Place
    <2>2. CASE n \notin bus.masters
      <3>1. hw'[n] = hw[n] /\ ~hw[n].ea
        BY <1>2, <1>3, <1>5, <2>2, Signals
      <3>2. Waits(prog[n], drv[n], hw[n]) \/ Lost(prog[n], drv[n], hw[n])
        BY <1>1, <1>2, <1>3, <2>2, Bystander DEF Waits
      <3> QED
        BY <1>3, <1>4, <2>2, <3>1, <3>2 DEF Place
    <2> QED
      BY <2>1, <2>2
  <1>9. Placed(t)'
    BY <1>8 DEF Placed
  <1> QED
    BY ONLY <1>6, <1>7, <1>9, t \in Seq(Nat) DEF Inv

(* The listeners acknowledge the address, and the first byte is to come.   *)
LEMMA HeardInv ==
  ASSUME Inv, Timely, AddressByte, {n \in Node \ bus.masters : hw[n].ea} # {}
  PROVE  Inv'
  <1> DEFINE slaves == {n \in Node \ bus.masters : hw[n].ea}
  <1>1. PICK t \in Seq(Nat) : Placed(t)
    BY DEF Inv
  <1>2. TypeOK /\ Shape(bus) /\ Differ(bus, prog)
    BY DEF Inv
  <1>3. /\ bus.phase = "address" /\ Released /\ Window /\ UNCHANGED <<sends, prog, drv>>
        /\ hw' = [n \in Node |-> IF n \in slaves THEN [hw[n] EXCEPT !.code = "GEN_ACK"]
                                 ELSE Signal(bus.masters, "ADR_ACK")[n]]
        /\ bus' = [bus EXCEPT !.phase = "data", !.slaves = slaves]
    BY DEF AddressByte
  <1>4. /\ bus'.phase = "data" /\ bus'.masters = bus.masters /\ bus'.starters = bus.masters
        /\ bus'.slaves = slaves
    BY <1>2, <1>3 DEF TypeOK, Shape
  <1>5. "ADR_ACK" \in Code /\ "GEN_ACK" \in Code
    BY DEF Code
  <1> HIDE DEF slaves
  <1>6. TypeOK'
    <2>1. hw' \in [Node -> Hw]
      BY <1>2, <1>3, <1>5, Signals, CodeOnly
    <2>2. /\ bus' \in [phase : {"free", "address", "data", "nack"}, starters : SUBSET Node,
                       masters : SUBSET Node, slaves : SUBSET Node]
          /\ bus'.masters \subseteq bus'.starters
      <3>1. slaves \subseteq Node
        BY DEF slaves
      <3> QED
        BY <1>2, <1>3, <3>1 DEF TypeOK
    <2> QED
      BY <1>2, <1>3, <2>1, <2>2, WiresType
  <1>7. Shape(bus)' /\ Differ(bus, prog)'
    <2>1. slaves # {} /\ slaves \cap bus.masters = {}
      BY DEF slaves
    <2> QED
      BY <1>2, <1>3, <1>4, <2>1 DEF Shape, Differ
  <1>8. ASSUME NEW n \in Node PROVE Place(bus', n, <<>>, prog'[n], drv'[n], hw'[n])
    <2>1. CASE n \in bus.masters
      <3>1. Starts(prog[n], drv[n], hw[n]) /\ ~hw[n].sta /\ ~hw[n].ea /\ n \notin slaves
        BY <1>1, <1>2, <1>3, <2>1, Sender DEF slaves
      <3>2. hw'[n] = [hw[n] EXCEPT !.code = "ADR_ACK"]
        BY <1>2, <1>3, <1>5, <2>1, <3>1, Signals
      <3>3. hw'[n].code = "ADR_ACK" /\ ~hw'[n].ea /\ ~hw'[n].sta
        BY <1>2, <1>5, <3>1, <3>2, CodeOnly
      <3>4. prog[n].msg \in Message /\ Len(<<>>) <= Len(prog[n].msg)
        BY <3>1, Texts DEF Starts, Loaded
      <3>5. Talks(<<>>, prog[n], drv[n], hw'[n])
        BY <3>1, <3>3, <3>4 DEF Starts, Talks
      <3> QED
        BY <1>3, <1>4, <2>1, <3>1, <3>5 DEF Place
    <2>2. CASE n \in slaves
      <3>1. n \notin bus.masters /\ hw[n].ea
        BY <2>2 DEF slaves
      <3>2. Idle(prog[n], drv[n], hw[n])
        BY <1>1, <1>2, <1>3, <3>1, Bystander
      <3>3. hw'[n] = [hw[n] EXCEPT !.code = "GEN_ACK"]
        BY <1>3, <2>2
      <3>4. hw'[n].code = "GEN_ACK" /\ hw'[n].ea /\ ~hw'[n].sta
        BY <1>2, <1>5, <3>1, <3>2, <3>3, CodeOnly DEF Idle, Quiet
      <3>5. Hears(<<>>, prog[n], drv[n], hw'[n])
        BY <3>2, <3>4 DEF Hears, Idle, Quiet
      <3> QED
        BY <1>3, <1>4, <2>2, <3>1, <3>5 DEF Place
    <2>3. CASE n \notin bus.masters /\ n \notin slaves
      <3>1. hw'[n] = hw[n] /\ ~hw[n].ea
        BY <1>2, <1>3, <1>5, <2>3, Signals DEF slaves
      <3>2. Waits(prog[n], drv[n], hw[n]) \/ Lost(prog[n], drv[n], hw[n])
        BY <1>1, <1>2, <1>3, <2>3, Bystander DEF Waits
      <3> QED
        BY <1>3, <1>4, <2>3, <3>1, <3>2 DEF Place
    <2> QED
      BY <2>1, <2>2, <2>3
  <1>9. Placed(<<>>)' /\ <<>> \in Seq(Nat)
    BY <1>8 DEF Placed
  <1> QED
    BY ONLY <1>6, <1>7, <1>9 DEF Inv

(* Who has a byte on the wires, when nobody holds the clock: the next one  *)
(* of its text.                                                            *)
LEMMA Offered ==
  ASSUME TypeOK, NEW t \in Seq(Nat), Placed(t), bus.phase = "data", Released,
         NEW n \in bus.masters, ~drv[n].tail
  PROVE  /\ n \in Node /\ prog[n].msg \in Message /\ Len(t) + 1 \in 1 .. Len(prog[n].msg)
         /\ hw[n].data = prog[n].msg[Len(t) + 1] /\ hw[n].data \in Nat
         /\ drv[n].ptr = Len(t) + 2 /\ Talks(t, prog[n], drv[n], hw[n])
  <1>1. n \in Node
    BY Records DEF TypeOK
  <1>2. Talks(t, prog[n], drv[n], hw[n]) /\ hw[n].code = "none"
    BY <1>1 DEF Placed, Place, Released
  <1>3. /\ prog[n].msg \in Message /\ drv[n].ptr = Len(t) + 2 /\ Len(t) < Len(prog[n].msg)
        /\ hw[n].data = prog[n].msg[Len(t) + 1]
    BY <1>2 DEF Talks, Loaded
  <1>4. Len(t) \in Nat /\ Len(prog[n].msg) \in Nat
    BY <1>3, Texts
  <1>5. Len(t) + 1 \in 1 .. Len(prog[n].msg)
    BY ONLY <1>3, <1>4
  <1> QED
    BY <1>1, <1>2, <1>3, <1>5, Texts

(* The lowest byte goes through, and is one more of what is out.           *)
LEMMA DataByteInv ==
  ASSUME Inv, DataByte
  PROVE  Inv'
  <1>1. PICK t \in Seq(Nat) : Placed(t)
    BY DEF Inv
  <1>2. TypeOK /\ Shape(bus) /\ Differ(bus, prog)
    BY DEF Inv
  <1>3. /\ bus.phase = "data" /\ Released /\ \A m \in bus.masters : ~drv[m].tail
        /\ UNCHANGED <<sends, prog, drv>>
    BY DEF DataByte
  <1>4. PICK low \in {hw[m].data : m \in bus.masters} :
          LET winners == {m \in bus.masters : hw[m].data = low}
          IN  /\ \A m \in bus.masters : low <= hw[m].data
              /\ hw' = [n \in Node |->
                       IF n \in winners THEN [hw[n] EXCEPT !.code = "DATA_ACK"]
                       ELSE IF n \in bus.masters THEN [hw[n] EXCEPT !.code = "ARB_LOST"]
                       ELSE IF n \in bus.slaves THEN [hw[n] EXCEPT !.code = "GEN_DATA_ACK",
                                                                   !.data = low]
                       ELSE hw[n]]
              /\ bus' = [bus EXCEPT !.masters = winners]
    BY DEF DataByte
  <1> DEFINE winners == {m \in bus.masters : hw[m].data = low}
             u == Append(t, low)
             k == Len(t) + 1
  <1>5. /\ \A n \in winners : hw'[n] = [hw[n] EXCEPT !.code = "DATA_ACK"]
        /\ \A n \in bus.masters \ winners : hw'[n] = [hw[n] EXCEPT !.code = "ARB_LOST"]
        /\ \A n \in bus.slaves : hw'[n] = [hw[n] EXCEPT !.code = "GEN_DATA_ACK", !.data = low]
        /\ \A n \in Node \ (bus.masters \cup bus.slaves) : hw'[n] = hw[n]
    BY <1>2, <1>3, <1>4 DEF TypeOK, Shape
  <1>6. bus' = [bus EXCEPT !.masters = winners]
    BY <1>4
  <1>7. winners # {} /\ winners \subseteq bus.masters
    BY <1>4
  <1>8. \A n \in bus.masters : hw[n].data = low <=> n \in winners
    OBVIOUS
  <1>9. low \in Byte /\ low \in Nat
    <2>1. PICK m \in bus.masters : low = hw[m].data
      BY <1>4
    <2>2. hw[m] \in Hw
      BY <1>2, Records DEF TypeOK
    <2> QED
      BY <2>1, <2>2, Bytes DEF Hw
  <1> HIDE DEF winners
  <1>10. /\ bus'.phase = "data" /\ bus'.masters = winners /\ bus'.starters = bus.starters
         /\ bus'.slaves = bus.slaves
    BY <1>2, <1>3, <1>6 DEF TypeOK
  <1>11. /\ u \in Seq(Nat) /\ Len(u) = k /\ Len(t) \in Nat /\ u[k] = low
         /\ \A i \in 1 .. Len(t) : u[i] = t[i]
    BY <1>9
  <1> HIDE DEF u
  <1>12. "DATA_ACK" \in Code /\ "ARB_LOST" \in Code /\ "GEN_DATA_ACK" \in Code
    BY DEF Code
  <1>13. \A n \in bus.slaves : /\ hw'[n] \in Hw /\ hw'[n].code = "GEN_DATA_ACK" /\ hw'[n].data = low
                               /\ hw'[n].ea = hw[n].ea /\ hw'[n].sta = hw[n].sta
    <2> SUFFICES ASSUME NEW n \in bus.slaves
                 PROVE  /\ hw'[n] \in Hw /\ hw'[n].code = "GEN_DATA_ACK" /\ hw'[n].data = low
                        /\ hw'[n].ea = hw[n].ea /\ hw'[n].sta = hw[n].sta
      OBVIOUS
    <2>1. hw[n] \in Hw
      BY <1>2, Records DEF TypeOK
    <2>2. hw'[n] = [hw[n] EXCEPT !.code = "GEN_DATA_ACK", !.data = low]
      BY <1>5
    <2> QED
      BY <1>9, <1>12, <2>1, <2>2 DEF Hw
  <1>14. TypeOK'
    <2>1. ASSUME NEW n \in bus.masters PROVE hw'[n] \in Hw
      <3>1. n \in Node
        BY <1>2 DEF TypeOK
      <3>2. PICK code \in Code : hw'[n] = [hw[n] EXCEPT !.code = code]
        BY <1>5, <1>12
      <3> QED
        BY <1>2, <3>1, <3>2, CodeOnly
    <2>2. \A n \in Node : hw'[n] \in Hw
      BY <1>2, <1>5, <1>13, <2>1, Records
    <2>3. hw' \in [Node -> Hw]
      BY <1>4, <2>2
    <2>4. /\ bus' \in [phase : {"free", "address", "data", "nack"}, starters : SUBSET Node,
                       masters : SUBSET Node, slaves : SUBSET Node]
          /\ bus'.masters \subseteq bus'.starters
      BY <1>2, <1>6, <1>7 DEF TypeOK
    <2> QED
      BY <1>2, <1>3, <2>3, <2>4, WiresType
  <1>15. \A n \in bus.masters : /\ n \in Node /\ prog[n].msg \in Message
                                /\ k \in 1 .. Len(prog[n].msg)
                                /\ hw[n].data = prog[n].msg[k] /\ drv[n].ptr = k + 1
                                /\ Talks(t, prog[n], drv[n], hw[n])
    BY <1>1, <1>2, <1>3, <1>11, Offered
  <1> HIDE DEF k
  <1>16. Shape(bus)'
    BY <1>2, <1>3, <1>7, <1>10 DEF Shape
  <1>17. Differ(bus, prog)'
    <2>1. ASSUME NEW m \in winners, NEW l \in bus.starters \ winners
          PROVE  prog[m].msg # prog[l].msg
      <3>1. CASE l \in bus.masters
        BY <1>7, <1>8, <1>15, <3>1
      <3>2. CASE l \notin bus.masters
        BY <1>2, <1>7, <3>2 DEF Differ
      <3> QED
        BY <3>1, <3>2
    <2> QED
      BY <1>3, <1>10, <2>1 DEF Differ
  <1>18. ASSUME NEW n \in Node PROVE Place(bus', n, u, prog'[n], drv'[n], hw'[n])
    <2>1. CASE n \in winners
      <3>1. n \in bus.masters /\ prog[n].msg[k] = low
        BY <1>7, <1>8, <1>15, <2>1
      <3>2. hw'[n].code = "DATA_ACK" /\ hw'[n].ea = hw[n].ea /\ hw'[n].sta = hw[n].sta
        <4>1. hw'[n] = [hw[n] EXCEPT !.code = "DATA_ACK"]
          BY <1>5, <2>1
        <4> QED
          BY <1>2, <1>12, <4>1, CodeOnly
      <3>3. Talks(t, prog[n], drv[n], hw[n]) /\ ~drv[n].tail /\ k \in 1 .. Len(prog[n].msg)
            /\ drv[n].ptr = k + 1
        BY <1>3, <1>15, <3>1
      <3>4. \A i \in 1 .. Len(u) : prog[n].msg[i] = u[i]
        <4>1. \A i \in 1 .. Len(t) : prog[n].msg[i] = u[i]
          BY <1>11, <3>3 DEF Talks
        <4>2. \A i \in 1 .. k : i = k \/ i \in 1 .. Len(t)
          BY <1>11 DEF k
        <4> QED
          BY <1>11, <3>1, <4>1, <4>2
      <3>5. Len(u) <= Len(prog[n].msg) /\ drv[n].ptr = Len(u) + 1
        BY <1>11, <3>3
      <3>6. Talks(u, prog[n], drv[n], hw'[n])
        BY <3>2, <3>3, <3>4, <3>5 DEF Talks
      <3>7. n \in bus.starters /\ n \notin bus.slaves
        BY <1>2, <1>3, <3>1 DEF TypeOK, Shape
      <3> QED
        BY <1>3, <1>10, <2>1, <3>6, <3>7 DEF Place
    <2>2. CASE n \in bus.masters /\ n \notin winners
      <3>1. hw'[n].code = "ARB_LOST" /\ hw'[n].ea = hw[n].ea /\ hw'[n].sta = hw[n].sta
        <4>1. hw'[n] = [hw[n] EXCEPT !.code = "ARB_LOST"]
          BY <1>5, <2>2
        <4> QED
          BY <1>2, <1>12, <4>1, CodeOnly
      <3>2. Talks(t, prog[n], drv[n], hw[n]) /\ ~drv[n].tail
        BY <1>3, <1>15, <2>2
      <3>3. Beaten(prog[n], drv[n], hw'[n])
        BY <3>1, <3>2 DEF Talks, Beaten
      <3>4. n \in bus.starters /\ n \notin bus.slaves
        BY <1>2, <1>3, <2>2 DEF TypeOK, Shape
      <3> QED
        BY <1>3, <1>10, <2>2, <3>3, <3>4 DEF Place
    <2>3. CASE n \in bus.slaves
      <3>1. Hears(t, prog[n], drv[n], hw[n]) /\ hw[n].code = "none"
        BY <1>1, <1>3, <2>3 DEF Placed, Place, Released
      <3>2. hw'[n].code = "GEN_DATA_ACK" /\ hw'[n].data = low /\ hw'[n].ea /\ ~hw'[n].sta
        BY <1>13, <2>3, <3>1 DEF Hears
      <3>3. drv[n].status = 3 /\ Holds(drv[n], t, Len(t)) /\ prog[n].pc = "free" /\ ~drv[n].tail
        BY <3>1 DEF Hears
      <3>4. Len(u) - 1 = Len(t) /\ Len(u) > 0 /\ u[Len(u)] = low
        BY <1>11 DEF k
      <3>5. Holds(drv[n], u, Len(u) - 1)
        BY <1>11, <3>3, <3>4 DEF Holds
      <3>6. Hears(u, prog[n], drv[n], hw'[n])
        BY <3>2, <3>3, <3>4, <3>5 DEF Hears
      <3>7. n \notin bus.starters /\ n \notin winners
        BY <1>2, <1>3, <1>7, <2>3 DEF TypeOK, Shape
      <3> QED
        BY <1>3, <1>10, <2>3, <3>6, <3>7 DEF Place
    <2>4. CASE n \notin bus.masters /\ n \notin bus.slaves
      <3>1. hw'[n] = hw[n] /\ n \notin winners
        BY <1>5, <1>7, <2>4
      <3>2. Place(bus, n, t, prog[n], drv[n], hw[n])
        BY <1>1 DEF Placed
      <3> QED
        BY <1>3, <1>10, <2>4, <3>1, <3>2 DEF Place
    <2> QED
      BY <2>1, <2>2, <2>3, <2>4
  <1>19. Placed(u)'
    BY <1>18 DEF Placed
  <1> QED
    BY ONLY <1>11, <1>14, <1>16, <1>17, <1>19 DEF Inv

(* When all of a text is out, every slave holds it.                        *)
LEMMA Delivered ==
  ASSUME TypeOK, Shape(bus), NEW t \in Seq(Nat), Placed(t), bus.phase = "data", Released,
         \A m \in bus.masters : drv[m].tail
  PROVE  /\ \A m \in bus.masters : prog[m].msg \in Message /\ prog[m].msg = t
         /\ \A n \in bus.slaves : /\ Received(drv[n]) = t /\ Received(drv[n]) \in Message
                                  /\ hw[n].ea /\ ~hw[n].sta /\ drv[n].status = 3
                                  /\ prog[n].pc = "free" /\ ~drv[n].tail
  <1>1. ASSUME NEW m \in bus.masters PROVE prog[m].msg \in Message /\ prog[m].msg = t
    <2>1. m \in Node
      BY Records DEF TypeOK
    <2>2. Talks(t, prog[m], drv[m], hw[m]) /\ drv[m].tail
      BY <2>1 DEF Placed, Place
    <2>3. /\ prog[m].msg \in Message /\ Len(prog[m].msg) = Len(t)
          /\ \A i \in 1 .. Len(t) : prog[m].msg[i] = t[i]
      BY <2>2 DEF Talks, Loaded
    <2>4. prog[m].msg \in Seq(Nat)
      BY <2>3, Texts
    <2>5. \A s \in Seq(Nat) : s = [i \in 1 .. Len(s) |-> s[i]]
      OBVIOUS
    <2>6. prog[m].msg = [i \in 1 .. Len(t) |-> prog[m].msg[i]]
      BY <2>3, <2>4, <2>5
    <2>7. [i \in 1 .. Len(t) |-> prog[m].msg[i]] = [i \in 1 .. Len(t) |-> t[i]]
      BY <2>3
    <2>8. [i \in 1 .. Len(t) |-> t[i]] = t
      BY <2>5
    <2> QED
      BY <2>3, <2>6, <2>7, <2>8
  <1>2. PICK m \in bus.masters : TRUE
    BY DEF Shape
  <1>3. t \in Message
    BY <1>1, <1>2
  <1>4. ASSUME NEW n \in bus.slaves
        PROVE  /\ Received(drv[n]) = t
               /\ hw[n].ea /\ ~hw[n].sta /\ drv[n].status = 3
               /\ prog[n].pc = "free" /\ ~drv[n].tail
    <2>1. n \in Node
      BY DEF TypeOK
    <2>2. Hears(t, prog[n], drv[n], hw[n]) /\ hw[n].code = "none"
      BY <2>1 DEF Placed, Place, Released
    <2>3. drv[n].status = 3 /\ Holds(drv[n], t, Len(t)) /\ prog[n].pc = "free" /\ ~drv[n].tail
          /\ hw[n].ea /\ ~hw[n].sta
      BY <2>2 DEF Hears
    <2>4. Received(drv[n]) = [i \in 1 .. Len(t) |-> t[i]]
      BY <2>3 DEF Holds, Received
    <2>5. [i \in 1 .. Len(t) |-> t[i]] = t
      OBVIOUS
    <2> QED
      BY <2>3, <2>4, <2>5
  <1> QED
    BY <1>1, <1>3, <1>4

(* STOP: the slaves have the text of the one who sends.                    *)
LEMMA StopConditionInv ==
  ASSUME Inv, StopCondition
  PROVE  Inv'
  <1>1. PICK t \in Seq(Nat) : Placed(t)
    BY DEF Inv
  <1>2. TypeOK /\ Shape(bus) /\ Differ(bus, prog)
    BY DEF Inv
  <1>3. /\ Released /\ UNCHANGED <<sends, prog, drv>>
        /\ hw' = Signal(bus.slaves, "STOP") /\ bus' = Free
        /\ bus.phase = "nack" \/ (bus.phase = "data" /\ \A m \in bus.masters : drv[m].tail)
    BY DEF StopCondition
  <1>4. "STOP" \in Code
    BY DEF Code
  <1>5. TypeOK'
    <2>1. hw' \in [Node -> Hw]
      BY <1>2, <1>3, <1>4, Signals
    <2>2. /\ bus' \in [phase : {"free", "address", "data", "nack"}, starters : SUBSET Node,
                       masters : SUBSET Node, slaves : SUBSET Node]
          /\ bus'.masters \subseteq bus'.starters
      BY <1>3 DEF Free
    <2> QED
      BY <1>2, <1>3, <2>1, <2>2, WiresType
  <1>6. Shape(bus)' /\ Differ(bus, prog)' /\ bus'.phase = "free"
    BY <1>3 DEF Shape, Differ, Free
  <1>7. ASSUME NEW n \in Node PROVE Rests(prog[n], drv[n], hw'[n])
    <2>1. Place(bus, n, t, prog[n], drv[n], hw[n]) /\ hw[n].code = "none"
      BY <1>1, <1>3 DEF Placed, Released
    <2>2. CASE n \in bus.slaves
      <3>1. bus.phase = "data"
        BY <1>2, <1>3, <2>2 DEF Shape
      <3>2. hw'[n] = [hw[n] EXCEPT !.code = "STOP"]
        BY <1>2, <1>3, <1>4, <2>2, Signals
      <3>3. Received(drv[n]) \in Message /\ hw[n].ea /\ ~hw[n].sta /\ drv[n].status = 3
            /\ prog[n].pc = "free" /\ ~drv[n].tail
        BY <1>1, <1>2, <1>3, <2>2, <3>1, Delivered
      <3>4. Told(prog[n], drv[n], hw'[n])
        BY <1>2, <1>4, <3>2, <3>3, CodeOnly DEF Told, TypeOK
      <3> QED
        BY <3>4 DEF Rests
    <2>3. CASE n \notin bus.slaves
      <3>1. hw'[n] = hw[n]
        BY <1>2, <1>3, <1>4, <2>3, Signals
      <3>2. CASE bus.phase = "nack"
        BY <2>1, <3>1, <3>2 DEF Place, Nacked, Rests
      <3>3. CASE bus.phase = "data" /\ n \in bus.masters
        <4>1. Talks(t, prog[n], drv[n], hw[n]) /\ drv[n].tail
          BY <1>3, <2>1, <3>3 DEF Place
        <4>2. Ends(prog[n], drv[n], hw[n])
          BY <2>1, <4>1 DEF Talks, Ends
        <4> QED
          BY <3>1, <4>2 DEF Rests
      <3>4. CASE bus.phase = "data" /\ n \notin bus.masters
        BY <2>1, <2>3, <3>1, <3>4 DEF Place, Rests, Lost
      <3> QED
        BY <1>3, <3>2, <3>3, <3>4
    <2> QED
      BY <2>2, <2>3
  <1>8. Placed(t)'
    BY <1>3, <1>6, <1>7 DEF Placed, Place
  <1> QED
    BY ONLY <1>5, <1>6, <1>8, t \in Seq(Nat) DEF Inv

--------------------------------------------------------------------------------
(* Every step keeps the boards in their places, as long as the hypothesis  *)
(* on time holds.                                                          *)
LEMMA InvStep ==
  ASSUME Timely, Inv, [Next]_vars
  PROVE  Inv'
  <1>1. ASSUME NEW n \in Node, Main(n) PROVE Inv'
    <2>1. CASE TakeSent(n)
      BY <2>1, TakeInv DEF TakeSent
    <2>2. CASE TakeReceived(n)
      BY <2>2, TakeInv DEF TakeReceived
    <2> QED
      BY <1>1, <2>1, <2>2, CheckInv, FillInv, GoInv DEF Main
  <1>2. ASSUME NEW n \in Node, Interrupt(n) PROVE Inv'
    BY <1>2, StartInv, NextByteInv, LastByteInv, SentInv, NackInv, CalledInv, DataInv, StopInv,
       OtherInv DEF Interrupt
  <1>3. ASSUME Wires PROVE Inv'
    BY <1>3, StartConditionInv, UnheardInv, HeardInv, DataByteInv, StopConditionInv DEF Wires
  <1>4. CASE UNCHANGED vars
    BY <1>4, TakeInv DEF vars
  <1> QED
    BY <1>1, <1>2, <1>3, <1>4 DEF Next

(* Every reachable state is one of these.                                  *)
LEMMA Reachable == ASSUME Timely PROVE Spec => []Inv
  BY InvInit, InvStep, PTL DEF Spec

(* The types of the driver, the interrupt routine and the wires: whatever  *)
(* messages are sent, twi_ptr stays within twi_buf, and leaves room for    *)
(* the NUL while a message is received (TWI.cpp:302).                      *)
THEOREM TypeCorrect == ASSUME Timely PROVE Spec => []TypeOK
  <1>1. Inv => TypeOK
    BY DEF Inv
  <1> QED
    BY <1>1, Reachable, PTL

--------------------------------------------------------------------------------
(* The refinement.                                                         *)

(* What GeneralCall sees of a board, told from its records.                *)
Seen(b, n, p, d, h) ==
  IF h.code = "ADR_NACK" \/ (d.status \in {0, 3} /\ p.pc = "free") THEN "idle"
  ELSE IF p.pc # "free" \/ h.sta \/ n \in b.starters THEN "start"
  ELSE IF d.tail THEN "stop" ELSE "lost"

Deaf(p, h) == p.pc # "free" \/ ~h.ea

Kept(d, h) == IF h.code = "STOP" THEN Received(d) ELSE NoMsg

(* It is what the refinement mapping says, now and in the next state.      *)
LEMMA View ==
  ASSUME NEW n \in Node
  PROVE  /\ twi[n] = Seen(bus, n, prog[n], drv[n], hw[n])
         /\ out[n] = prog[n].msg
         /\ deaf[n] = Deaf(prog[n], hw[n])
         /\ rx[n] = Kept(drv[n], hw[n])
         /\ twi'[n] = Seen(bus', n, prog'[n], drv'[n], hw'[n])
         /\ out'[n] = prog'[n].msg
         /\ deaf'[n] = Deaf(prog'[n], hw'[n])
         /\ rx'[n] = Kept(drv'[n], hw'[n])
  BY DEF twi, out, deaf, rx, Seen, Deaf, Kept, Sending, Heard, Received

(* The views are functions on the boards.                                  *)
LEMMA AreFunctions ==
  /\ twi = [n \in Node |-> twi[n]] /\ out = [n \in Node |-> out[n]]
  /\ deaf = [n \in Node |-> deaf[n]] /\ rx = [n \in Node |-> rx[n]]
  /\ twi' = [n \in Node |-> twi'[n]] /\ out' = [n \in Node |-> out'[n]]
  /\ deaf' = [n \in Node |-> deaf'[n]] /\ rx' = [n \in Node |-> rx'[n]]
  <1>1. twi = [n \in Node |-> twi[n]] /\ twi' = [n \in Node |-> twi'[n]]
    BY DEF twi
  <1>2. out = [n \in Node |-> out[n]] /\ out' = [n \in Node |-> out'[n]]
    BY DEF out
  <1>3. deaf = [n \in Node |-> deaf[n]] /\ deaf' = [n \in Node |-> deaf'[n]]
    BY DEF deaf
  <1>4. rx = [n \in Node |-> rx[n]] /\ rx' = [n \in Node |-> rx'[n]]
    BY DEF rx
  <1> QED
    BY <1>1, <1>2, <1>3, <1>4

(* A step of one board is not seen at the others.                          *)
LEMMA OthersSame ==
  ASSUME TypeOK, NEW n \in Node, Main(n) \/ Interrupt(n)
  PROVE  /\ UNCHANGED bus
         /\ \A m \in Node \ {n} : prog'[m] = prog[m] /\ drv'[m] = drv[m] /\ hw'[m] = hw[m]
         /\ \A m \in Node \ {n} : /\ twi'[m] = twi[m] /\ out'[m] = out[m]
                                  /\ deaf'[m] = deaf[m] /\ rx'[m] = rx[m]
  <1>1. UNCHANGED bus
    BY DEF Main, Interrupt, Check, Fill, Go, TakeSent, TakeReceived, StartISR, NextByteISR,
       LastByteISR, SentISR, NackISR, CalledISR, DataISR, StopISR, OtherISR
  <1>2. \A m \in Node \ {n} : prog'[m] = prog[m] /\ drv'[m] = drv[m] /\ hw'[m] = hw[m]
    <2>1. CASE Main(n)
      BY <2>1 DEF TypeOK, Main, Check, Fill, Go, Control, TakeSent, TakeReceived
    <2>2. CASE StartISR(n) \/ NextByteISR(n) \/ LastByteISR(n) \/ SentISR(n) \/ NackISR(n)
      BY <2>2 DEF TypeOK, StartISR, NextByteISR, LastByteISR, SentISR, NackISR, Control
    <2>3. CASE CalledISR(n) \/ DataISR(n) \/ StopISR(n) \/ OtherISR(n)
      BY <2>3 DEF TypeOK, CalledISR, DataISR, StopISR, OtherISR, Control
    <2> QED
      BY <2>1, <2>2, <2>3 DEF Interrupt
  <1>3. \A m \in Node \ {n} : /\ twi'[m] = twi[m] /\ out'[m] = out[m]
                              /\ deaf'[m] = deaf[m] /\ rx'[m] = rx[m]
    BY <1>1, <1>2, View
  <1> QED
    BY <1>1, <1>2, <1>3

(* A step that changes no view is a stutter.                               *)
LEMMA Stutters ==
  ASSUME \A n \in Node : /\ twi'[n] = twi[n] /\ out'[n] = out[n]
                         /\ deaf'[n] = deaf[n] /\ rx'[n] = rx[n]
  PROVE  UNCHANGED <<twi, out, deaf, rx>>
  BY DEF twi, out, deaf, rx

(* The abstract bus begins where the driver begins.                        *)
LEMMA RefInit == Init => GC!BusInit
  <1> SUFFICES ASSUME Init PROVE GC!BusInit
    OBVIOUS
  <1>1. \A n \in Node : /\ twi[n] = "idle" /\ out[n] = NoMsg
                        /\ deaf[n] = FALSE /\ rx[n] = NoMsg
    BY View DEF Init, Seen, Deaf, Kept
  <1>2. twi = [n \in Node |-> "idle"]
    BY <1>1 DEF twi
  <1>3. out = [n \in Node |-> NoMsg]
    BY <1>1 DEF out
  <1>4. deaf = [n \in Node |-> FALSE]
    BY <1>1 DEF deaf
  <1>5. rx = [n \in Node |-> NoMsg]
    BY <1>1 DEF rx
  <1>6. GC!Node = Node
    BY DEF Node, GC!Node
  <1> QED
    BY <1>2, <1>3, <1>4, <1>5, <1>6 DEF Init, GC!BusInit

(* send_msg sees twi_status = 0: the board is sending from then on.        *)
LEMMA CheckRefines ==
  ASSUME Inv, NEW n \in Node, Check(n)
  PROVE  GC!Send(n, out'[n]) /\ UNCHANGED <<rx, rI2C, recvflag, sendflag>>
  <1>1. PICK t \in Seq(Nat) : Placed(t)
    BY DEF Inv
  <1>2. TypeOK /\ Shape(bus) /\ Differ(bus, prog)
    BY DEF Inv
  <1>3. prog[n] \in Prog /\ drv[n] \in Drv /\ hw[n] \in Hw
        /\ bus.phase \in {"free", "address", "data", "nack"}
        /\ bus.masters \subseteq bus.starters
    BY <1>2, Records
  <1>4. Place(bus, n, t, prog[n], drv[n], hw[n])
    BY <1>1 DEF Placed
  <1>5. PICK m \in Message : prog' = [prog EXCEPT ![n] = [pc |-> "fill", msg |-> m]]
    BY DEF Check
  <1>6. UNCHANGED <<drv, hw, bus, rI2C, recvflag, sendflag>> /\ hw[n].code = "none"
        /\ prog[n].pc = "free" /\ drv[n].status = 0
    BY DEF Check, Runs
  <1>7. prog'[n].pc = "fill"
    BY <1>2, <1>5 DEF TypeOK
  <1>8. twi[n] = "idle" /\ rx[n] = NoMsg /\ twi'[n] = "start" /\ deaf'[n] /\ rx'[n] = NoMsg
    BY <1>6, <1>7, View DEF Seen, Deaf, Kept
  <1>9. \A k \in Node \ {n} : /\ twi'[k] = twi[k] /\ out'[k] = out[k]
                              /\ deaf'[k] = deaf[k] /\ rx'[k] = rx[k]
    BY <1>2, OthersSame DEF Main
  <1>10. twi' = [twi EXCEPT ![n] = "start"]
    BY ONLY <1>8, <1>9, AreFunctions
  <1>11. out' = [out EXCEPT ![n] = out'[n]]
    BY ONLY <1>9, AreFunctions
  <1>12. deaf' = [deaf EXCEPT ![n] = TRUE]
    BY ONLY <1>8, <1>9, AreFunctions
  <1>13. rx' = rx
    BY ONLY <1>8, <1>9, AreFunctions
  <1> QED
    BY <1>6, <1>8, <1>10, <1>11, <1>12, <1>13 DEF GC!Send

(* The boards that GeneralCall sees keep silent about the rest of send_msg *)
(* and of the interrupt routine.                                           *)
LEMMA Silent ==
  ASSUME TypeOK, NEW n \in Node, Main(n) \/ Interrupt(n), UNCHANGED <<rI2C, recvflag, sendflag>>,
         Seen(bus, n, prog'[n], drv'[n], hw'[n]) = Seen(bus, n, prog[n], drv[n], hw[n]),
         prog'[n].msg = prog[n].msg, Deaf(prog'[n], hw'[n]) = Deaf(prog[n], hw[n]),
         Kept(drv'[n], hw'[n]) = Kept(drv[n], hw[n])
  PROVE  UNCHANGED GC!busVars
  <1>1. UNCHANGED bus
    BY OthersSame
  <1>2. /\ twi'[n] = twi[n] /\ out'[n] = out[n]
        /\ deaf'[n] = deaf[n] /\ rx'[n] = rx[n]
    BY <1>1, View
  <1>3. UNCHANGED <<twi, out, deaf, rx>>
    BY <1>2, OthersSame, Stutters
  <1> QED
    BY <1>3 DEF GC!busVars

(* The buffer is filled.                                                   *)
LEMMA FillSilent ==
  ASSUME Inv, NEW n \in Node, Fill(n)
  PROVE  UNCHANGED GC!busVars
  <1>1. PICK t \in Seq(Nat) : Placed(t)
    BY DEF Inv
  <1>2. TypeOK /\ Shape(bus) /\ Differ(bus, prog)
    BY DEF Inv
  <1>3. prog[n] \in Prog /\ drv[n] \in Drv /\ hw[n] \in Hw
        /\ bus.phase \in {"free", "address", "data", "nack"}
        /\ bus.masters \subseteq bus.starters
    BY <1>2, Records
  <1>4. Place(bus, n, t, prog[n], drv[n], hw[n])
    BY <1>1 DEF Placed
  <1>5. /\ prog'[n].pc = "go" /\ prog'[n].msg = prog[n].msg /\ hw' = hw
        /\ UNCHANGED <<rI2C, recvflag, sendflag>> /\ prog[n].pc = "fill" /\ hw[n].code = "none"
    BY <1>2 DEF Fill, Runs, TypeOK
  <1> QED
    BY <1>2, <1>5, Silent DEF Main, Seen, Deaf, Kept

(* START is requested: TWEA is already taken for off.                      *)
LEMMA GoSilent ==
  ASSUME Inv, NEW n \in Node, Go(n)
  PROVE  UNCHANGED GC!busVars
  <1>1. PICK t \in Seq(Nat) : Placed(t)
    BY DEF Inv
  <1>2. TypeOK /\ Shape(bus) /\ Differ(bus, prog)
    BY DEF Inv
  <1>3. prog[n] \in Prog /\ drv[n] \in Drv /\ hw[n] \in Hw
        /\ bus.phase \in {"free", "address", "data", "nack"}
        /\ bus.masters \subseteq bus.starters
    BY <1>2, Records
  <1>4. Place(bus, n, t, prog[n], drv[n], hw[n])
    BY <1>1 DEF Placed
  <1>5. /\ prog'[n].pc = "free" /\ prog'[n].msg = prog[n].msg /\ prog[n].pc = "go"
        /\ hw'[n].code = "none" /\ hw[n].code = "none" /\ ~hw'[n].ea /\ hw'[n].sta
        /\ drv'[n].status = 1 /\ UNCHANGED <<rI2C, recvflag, sendflag>>
    BY <1>2 DEF Go, Runs, Control, TypeOK
  <1> QED
    BY <1>2, <1>5, Silent DEF Main, Seen, Deaf, Kept

(* A flag is taken.                                                        *)
LEMMA TakeRefines ==
  ASSUME NEW n \in Node
  PROVE  /\ TakeSent(n) => GC!TakeSent(n) /\ UNCHANGED <<twi, out, deaf, rx, rI2C, recvflag>>
         /\ TakeReceived(n) =>
              GC!TakeReceived(n) /\ UNCHANGED <<twi, out, deaf, rx, rI2C, sendflag>>
  <1>1. ASSUME UNCHANGED <<prog, drv, hw, bus>> PROVE UNCHANGED <<twi, out, deaf, rx>>
    BY <1>1, View, Stutters
  <1> QED
    BY <1>1 DEF TakeSent, TakeReceived, GC!TakeSent, GC!TakeReceived

(* START, and the address behind it.                                       *)
LEMMA StartSilent ==
  ASSUME Inv, NEW n \in Node, StartISR(n)
  PROVE  UNCHANGED GC!busVars
  <1>1. PICK t \in Seq(Nat) : Placed(t)
    BY DEF Inv
  <1>2. TypeOK /\ Shape(bus) /\ Differ(bus, prog)
    BY DEF Inv
  <1>3. prog[n] \in Prog /\ drv[n] \in Drv /\ hw[n] \in Hw
        /\ bus.phase \in {"free", "address", "data", "nack"}
        /\ bus.masters \subseteq bus.starters
    BY <1>2, Records
  <1>4. Place(bus, n, t, prog[n], drv[n], hw[n])
    BY <1>1 DEF Placed
  <1>5. hw[n].code = "START" /\ Starts(prog[n], drv[n], hw[n]) /\ n \in bus.starters
    BY <1>3, <1>4, Codes DEF StartISR
  <1>6. /\ prog' = prog /\ hw'[n].code = "none" /\ ~hw'[n].ea /\ ~hw'[n].sta
        /\ drv'[n].status = drv[n].status /\ UNCHANGED <<rI2C, recvflag, sendflag>>
    BY <1>2 DEF StartISR, TypeOK
  <1>7. prog[n].pc = "free" /\ drv[n].status = 1 /\ ~hw[n].ea
    BY <1>5 DEF Starts
  <1> QED
    BY <1>2, <1>5, <1>6, <1>7, Silent DEF Interrupt, Seen, Deaf, Kept

(* The bytes of the text, and the request of the STOP.                     *)
LEMMA BytesSilent ==
  ASSUME Inv, NEW n \in Node, NextByteISR(n) \/ LastByteISR(n)
  PROVE  UNCHANGED GC!busVars
  <1>1. PICK t \in Seq(Nat) : Placed(t)
    BY DEF Inv
  <1>2. TypeOK /\ Shape(bus) /\ Differ(bus, prog)
    BY DEF Inv
  <1>3. prog[n] \in Prog /\ drv[n] \in Drv /\ hw[n] \in Hw
        /\ bus.phase \in {"free", "address", "data", "nack"}
        /\ bus.masters \subseteq bus.starters
    BY <1>2, Records
  <1>4. Place(bus, n, t, prog[n], drv[n], hw[n])
    BY <1>1 DEF Placed
  <1>5. Acknowledged(n)
    BY DEF NextByteISR, LastByteISR
  <1>6. Talks(t, prog[n], drv[n], hw[n]) /\ n \in bus.starters
    BY <1>2, <1>3, <1>4, <1>5, Talking
  <1>7. prog[n].pc = "free" /\ drv[n].status \in {1, 2} /\ ~hw[n].ea
        /\ hw[n].code \notin {"ADR_NACK", "STOP"}
    BY <1>5, <1>6 DEF Talks, Acknowledged
  <1>8. /\ prog' = prog /\ hw'[n].code = "none" /\ ~hw'[n].ea /\ ~hw'[n].sta
        /\ UNCHANGED <<rI2C, recvflag, sendflag>>
    BY <1>2 DEF NextByteISR, LastByteISR, Control, TypeOK
  <1>9. drv'[n].status \in {1, 2}
    <2>1. CASE NextByteISR(n)
      BY <1>2, <2>1 DEF NextByteISR, TypeOK
    <2>2. CASE LastByteISR(n)
      <3>1. drv'[n].status = drv[n].status
        BY <1>2, <2>2 DEF LastByteISR, TypeOK
      <3> QED
        BY <1>7, <3>1
    <2> QED
      BY <2>1, <2>2
  <1> QED
    BY <1>2, <1>6, <1>7, <1>8, <1>9, Silent DEF Interrupt, Seen, Deaf, Kept

(* The address is not acknowledged: GeneralCall had it idle at once.       *)
LEMMA NackSilent ==
  ASSUME Inv, NEW n \in Node, NackISR(n)
  PROVE  UNCHANGED GC!busVars
  <1>1. PICK t \in Seq(Nat) : Placed(t)
    BY DEF Inv
  <1>2. TypeOK /\ Shape(bus) /\ Differ(bus, prog)
    BY DEF Inv
  <1>3. prog[n] \in Prog /\ drv[n] \in Drv /\ hw[n] \in Hw
        /\ bus.phase \in {"free", "address", "data", "nack"}
        /\ bus.masters \subseteq bus.starters
    BY <1>2, Records
  <1>4. Place(bus, n, t, prog[n], drv[n], hw[n])
    BY <1>1 DEF Placed
  <1>5. hw[n].code = "ADR_NACK" /\ Nacked(prog[n], drv[n], hw[n])
    BY <1>3, <1>4, Codes DEF NackISR
  <1>6. /\ prog' = prog /\ hw'[n].code = "none" /\ ~hw'[n].ea
        /\ drv'[n].status = 0 /\ UNCHANGED <<rI2C, recvflag, sendflag>>
    BY <1>2 DEF NackISR, Control, TypeOK
  <1>7. prog[n].pc = "free" /\ ~hw[n].ea
    BY <1>5 DEF Nacked
  <1> QED
    BY <1>2, <1>5, <1>6, <1>7, Silent DEF Interrupt, Seen, Deaf, Kept

(* The address of all, and the bytes behind it.                            *)
LEMMA HearSilent ==
  ASSUME Inv, NEW n \in Node, CalledISR(n) \/ DataISR(n)
  PROVE  UNCHANGED GC!busVars
  <1>1. PICK t \in Seq(Nat) : Placed(t)
    BY DEF Inv
  <1>2. TypeOK /\ Shape(bus) /\ Differ(bus, prog)
    BY DEF Inv
  <1>3. prog[n] \in Prog /\ drv[n] \in Drv /\ hw[n] \in Hw
        /\ bus.phase \in {"free", "address", "data", "nack"}
        /\ bus.masters \subseteq bus.starters
    BY <1>2, Records
  <1>4. Place(bus, n, t, prog[n], drv[n], hw[n])
    BY <1>1 DEF Placed
  <1>5. hw[n].code \in {"GEN_ACK", "GEN_DATA_ACK"}
    BY DEF CalledISR, DataISR
  <1>6. Hears(t, prog[n], drv[n], hw[n])
    BY <1>3, <1>4, <1>5, Codes
  <1>7. prog[n].pc = "free" /\ drv[n].status \in {0, 3} /\ hw[n].ea
    BY <1>6 DEF Hears
  <1>8. /\ prog' = prog /\ hw'[n].code = "none" /\ hw'[n].ea
        /\ UNCHANGED <<rI2C, recvflag, sendflag>>
    BY <1>2 DEF CalledISR, DataISR, Control, TypeOK
  <1>9. drv'[n].status \in {0, 3}
    <2>1. CASE CalledISR(n)
      BY <1>2, <2>1 DEF CalledISR, TypeOK
    <2>2. CASE DataISR(n)
      <3>1. drv'[n].status = drv[n].status
        BY <1>2, <2>2 DEF DataISR, TypeOK
      <3> QED
        BY <1>7, <3>1
    <2> QED
      BY <2>1, <2>2
  <1> QED
    BY <1>2, <1>5, <1>7, <1>8, <1>9, Silent DEF Interrupt, Seen, Deaf, Kept

(* Lost arbitration is not noticed.                                        *)
LEMMA OtherSilent ==
  ASSUME Inv, NEW n \in Node, OtherISR(n)
  PROVE  UNCHANGED GC!busVars
  <1>1. PICK t \in Seq(Nat) : Placed(t)
    BY DEF Inv
  <1>2. TypeOK /\ Shape(bus) /\ Differ(bus, prog)
    BY DEF Inv
  <1>3. prog[n] \in Prog /\ drv[n] \in Drv /\ hw[n] \in Hw
        /\ bus.phase \in {"free", "address", "data", "nack"}
        /\ bus.masters \subseteq bus.starters
    BY <1>2, Records
  <1>4. Place(bus, n, t, prog[n], drv[n], hw[n])
    BY <1>1 DEF Placed
  <1>5. hw[n].code = "ARB_LOST" /\ Beaten(prog[n], drv[n], hw[n]) /\ n \in bus.starters
    BY <1>3, <1>4, Codes DEF OtherISR
  <1>6. /\ prog' = prog /\ drv' = drv /\ hw'[n].code = "none" /\ ~hw'[n].ea /\ ~hw'[n].sta
        /\ UNCHANGED <<rI2C, recvflag, sendflag>>
    BY <1>2 DEF OtherISR, Control, TypeOK
  <1>7. prog[n].pc = "free" /\ drv[n].status \in {1, 2} /\ ~hw[n].ea
    BY <1>5 DEF Beaten
  <1> QED
    BY <1>2, <1>5, <1>6, <1>7, Silent DEF Interrupt, Seen, Deaf, Kept

(* The end of the last send interrupt.                                     *)
LEMMA SentRefines ==
  ASSUME Inv, NEW n \in Node, SentISR(n)
  PROVE  GC!SentISR(n)
  <1>1. PICK t \in Seq(Nat) : Placed(t)
    BY DEF Inv
  <1>2. TypeOK /\ Shape(bus) /\ Differ(bus, prog)
    BY DEF Inv
  <1>3. prog[n] \in Prog /\ drv[n] \in Drv /\ hw[n] \in Hw
        /\ bus.phase \in {"free", "address", "data", "nack"}
        /\ bus.masters \subseteq bus.starters
    BY <1>2, Records
  <1>4. Place(bus, n, t, prog[n], drv[n], hw[n])
    BY <1>1 DEF Placed
  <1>5. bus.phase \in {"free", "address"} /\ Ends(prog[n], drv[n], hw[n]) /\ n \notin bus.masters
    BY <1>3, <1>4, Codes DEF SentISR
  <1>6. n \notin bus.starters
    BY <1>2, <1>5 DEF Shape, Free
  <1>7. /\ prog' = prog /\ hw'[n].code = "none" /\ hw'[n].ea /\ drv'[n].status = 0
        /\ sendflag' = [sendflag EXCEPT ![n] = TRUE] /\ UNCHANGED <<rI2C, recvflag>>
    BY <1>2, <1>5 DEF SentISR, TypeOK, Ends
  <1>8. /\ prog[n].pc = "free" /\ drv[n].status \in {1, 2} /\ hw[n].code = "none" /\ ~hw[n].sta
        /\ drv[n].tail
    BY <1>5 DEF Ends
  <1>9. /\ twi[n] = "stop" /\ twi'[n] = "idle"
        /\ out'[n] = out[n] /\ deaf'[n] = FALSE /\ rx'[n] = rx[n]
    <2>1. twi[n] = "stop" /\ twi'[n] = "idle"
      BY <1>6, <1>7, <1>8, View DEF Seen
    <2>2. out'[n] = out[n] /\ deaf'[n] = FALSE /\ rx'[n] = rx[n]
      BY <1>7, <1>8, View DEF Deaf, Kept
    <2> QED
      BY <2>1, <2>2
  <1>10. \A k \in Node \ {n} : /\ twi'[k] = twi[k] /\ out'[k] = out[k]
                              /\ deaf'[k] = deaf[k] /\ rx'[k] = rx[k]
    BY <1>2, OthersSame DEF Interrupt
  <1>11. twi' = [twi EXCEPT ![n] = "idle"]
    BY ONLY <1>9, <1>10, AreFunctions
  <1>12. deaf' = [deaf EXCEPT ![n] = FALSE]
    BY ONLY <1>9, <1>10, AreFunctions
  <1>13. out' = out
    BY ONLY <1>9, <1>10, AreFunctions
  <1>14. rx' = rx
    BY ONLY <1>9, <1>10, AreFunctions
  <1> QED
    BY <1>7, <1>9, <1>11, <1>12, <1>13, <1>14 DEF GC!SentISR

(* The STOP interrupt hands the whole text to Meta.                        *)
LEMMA StopRefines ==
  ASSUME Inv, NEW n \in Node, StopISR(n)
  PROVE  GC!ReceiveISR(n)
  <1>1. PICK t \in Seq(Nat) : Placed(t)
    BY DEF Inv
  <1>2. TypeOK /\ Shape(bus) /\ Differ(bus, prog)
    BY DEF Inv
  <1>3. prog[n] \in Prog /\ drv[n] \in Drv /\ hw[n] \in Hw
        /\ bus.phase \in {"free", "address", "data", "nack"}
        /\ bus.masters \subseteq bus.starters
    BY <1>2, Records
  <1>4. Place(bus, n, t, prog[n], drv[n], hw[n])
    BY <1>1 DEF Placed
  <1>5. hw[n].code = "STOP" /\ Told(prog[n], drv[n], hw[n])
    BY <1>3, <1>4, Codes DEF StopISR
  <1>6. /\ prog' = prog /\ hw'[n].code = "none" /\ hw'[n].ea /\ drv'[n].status = 0
        /\ rI2C' = [rI2C EXCEPT ![n] = Received(drv[n])]
        /\ recvflag' = [recvflag EXCEPT ![n] = TRUE] /\ UNCHANGED sendflag
    BY <1>2 DEF StopISR, Control, TypeOK, Heard, Received
  <1>7. prog[n].pc = "free" /\ drv[n].status = 3 /\ hw[n].ea /\ Received(drv[n]) \in Message
    BY <1>5 DEF Told
  <1>8. /\ rx[n] = Received(drv[n]) /\ rx[n] # NoMsg /\ rx'[n] = NoMsg
        /\ twi'[n] = twi[n] /\ out'[n] = out[n] /\ deaf'[n] = deaf[n]
    BY <1>5, <1>6, <1>7, View, BusAssumption DEF Seen, Deaf, Kept
  <1>9. \A k \in Node \ {n} : /\ twi'[k] = twi[k] /\ out'[k] = out[k]
                              /\ deaf'[k] = deaf[k] /\ rx'[k] = rx[k]
    BY <1>2, OthersSame DEF Interrupt
  <1>10. rx' = [rx EXCEPT ![n] = NoMsg]
    BY ONLY <1>8, <1>9, AreFunctions
  <1>11. twi' = twi
    BY ONLY <1>8, <1>9, AreFunctions
  <1>12. deaf' = deaf
    BY ONLY <1>8, <1>9, AreFunctions
  <1>13. out' = out
    BY ONLY <1>8, <1>9, AreFunctions
  <1> QED
    BY <1>6, <1>8, <1>10, <1>11, <1>12, <1>13 DEF GC!ReceiveISR

(* The wires tell a board only what changes none of its views.             *)
LEMMA WiresSilent ==
  ASSUME UNCHANGED <<prog, drv, rI2C, recvflag, sendflag>>,
         \A n \in Node : /\ Seen(bus', n, prog[n], drv[n], hw'[n])
                            = Seen(bus, n, prog[n], drv[n], hw[n])
                         /\ hw'[n].ea = hw[n].ea
                         /\ Kept(drv[n], hw'[n]) = Kept(drv[n], hw[n])
  PROVE  UNCHANGED GC!busVars
  <1>1. \A n \in Node : /\ twi'[n] = twi[n] /\ out'[n] = out[n]
                        /\ deaf'[n] = deaf[n] /\ rx'[n] = rx[n]
    BY View DEF Deaf
  <1> QED
    BY <1>1, Stutters DEF GC!busVars

(* START: who asked for it was sending already.                            *)
LEMMA StartConditionSilent ==
  ASSUME Inv, StartCondition
  PROVE  UNCHANGED GC!busVars
  <1>1. PICK t \in Seq(Nat) : Placed(t)
    BY DEF Inv
  <1>2. TypeOK /\ Shape(bus) /\ "START" \in Code
    BY DEF Inv, Code
  <1>3. PICK S \in SUBSET {n \in Node : hw[n].sta} :
          /\ S # {}
          /\ hw' = Signal(S, "START")
          /\ bus' = [Free EXCEPT !.phase = "address", !.starters = S, !.masters = S]
    BY DEF StartCondition
  <1>4. bus = Free /\ UNCHANGED <<prog, drv, rI2C, recvflag, sendflag>> /\ bus.phase = "free"
    BY <1>2 DEF StartCondition, Shape
  <1>5. bus'.starters = S /\ bus.starters = {}
    BY <1>3, <1>4 DEF Free
  <1>6. ASSUME NEW n \in Node
        PROVE  /\ Seen(bus', n, prog[n], drv[n], hw'[n]) = Seen(bus, n, prog[n], drv[n], hw[n])
               /\ hw'[n].ea = hw[n].ea
               /\ Kept(drv[n], hw'[n]) = Kept(drv[n], hw[n])
    <2>1. CASE n \in S
      <3>1. hw'[n] = [hw[n] EXCEPT !.code = "START"] /\ hw[n].sta
        BY <1>2, <1>3, <2>1, Signals
      <3>2. hw'[n].code = "START" /\ hw'[n].ea = hw[n].ea /\ hw'[n].sta
        BY <1>2, <3>1, CodeOnly
      <3>3. Rests(prog[n], drv[n], hw[n])
        BY <1>1, <1>4 DEF Placed, Place
      <3>4. hw[n].code = "none"
        BY <3>1, <3>3 DEF Rests, Waits, Idle, Prepares, Asks, Quiet, Lost, Beaten, Ends, Told
      <3> QED
        BY <3>1, <3>2, <3>4 DEF Seen, Kept
    <2>2. CASE n \notin S
      <3>1. hw'[n] = hw[n]
        BY <1>2, <1>3, <2>2, Signals
      <3> QED
        BY <1>5, <2>2, <3>1 DEF Seen
    <2> QED
      BY <2>1, <2>2
  <1> QED
    BY <1>4, <1>6, WiresSilent

(* The address that is heard, and each byte.                               *)
LEMMA BytesOnWires ==
  ASSUME Inv, DataByte \/ (AddressByte /\ {n \in Node \ bus.masters : hw[n].ea} # {})
  PROVE  UNCHANGED GC!busVars
  <1>1. TypeOK /\ Released /\ UNCHANGED <<prog, drv, rI2C, recvflag, sendflag>>
    BY DEF Inv, DataByte, AddressByte
  <1>2. bus'.starters = bus.starters
    BY <1>1 DEF DataByte, AddressByte, TypeOK
  <1>3. ASSUME NEW n \in Node
        PROVE  /\ hw'[n].ea = hw[n].ea /\ hw'[n].sta = hw[n].sta
               /\ hw'[n].code \notin {"ADR_NACK", "STOP"}
    <2>1. hw[n] \in Hw /\ hw[n].code = "none"
      BY <1>1, Records DEF Released
    <2>2. CASE DataByte
      <3>1. PICK low : hw'[n] \in {[hw[n] EXCEPT !.code = "DATA_ACK"],
                                   [hw[n] EXCEPT !.code = "ARB_LOST"],
                                   [hw[n] EXCEPT !.code = "GEN_DATA_ACK", !.data = low], hw[n]}
        BY <2>2 DEF DataByte
      <3> QED
        BY <2>1, <3>1 DEF Hw
    <2>3. CASE AddressByte /\ {m \in Node \ bus.masters : hw[m].ea} # {}
      <3>1. hw'[n] \in {[hw[n] EXCEPT !.code = "GEN_ACK"], [hw[n] EXCEPT !.code = "ADR_ACK"], hw[n]}
        BY <2>3 DEF AddressByte, Signal
      <3> QED
        BY <2>1, <3>1 DEF Hw
    <2> QED
      BY <2>2, <2>3
  <1>4. ASSUME NEW n \in Node
        PROVE  /\ Seen(bus', n, prog[n], drv[n], hw'[n]) = Seen(bus, n, prog[n], drv[n], hw[n])
               /\ Kept(drv[n], hw'[n]) = Kept(drv[n], hw[n])
    <2>1. hw[n].code = "none"
      BY <1>1 DEF Released
    <2> QED
      BY <1>2, <1>3, <2>1 DEF Seen, Kept
  <1> QED
    BY <1>1, <1>3, <1>4, WiresSilent

(* The STOP after an address that nobody acknowledged.                     *)
LEMMA NackStopSilent ==
  ASSUME Inv, StopCondition, bus.phase = "nack"
  PROVE  UNCHANGED GC!busVars
  <1>1. PICK t \in Seq(Nat) : Placed(t)
    BY DEF Inv
  <1>2. TypeOK /\ Shape(bus) /\ "STOP" \in Code
    BY DEF Inv, Code
  <1>3. /\ Released /\ UNCHANGED <<prog, drv, rI2C, recvflag, sendflag>>
        /\ hw' = Signal(bus.slaves, "STOP") /\ bus' = Free
        /\ bus.slaves = {} /\ bus.masters = bus.starters
    BY <1>2 DEF StopCondition, Shape
  <1>4. ASSUME NEW n \in Node
        PROVE  /\ Seen(bus', n, prog[n], drv[n], hw'[n]) = Seen(bus, n, prog[n], drv[n], hw[n])
               /\ hw'[n] = hw[n]
    <2>1. hw'[n] = hw[n]
      BY <1>2, <1>3, Signals
    <2>2. n \in bus.starters => Waits(prog[n], drv[n], hw[n])
      BY <1>1, <1>3 DEF Placed, Place, Released, Nacked
    <2>3. n \in bus.starters =>
            (drv[n].status = 0 /\ prog[n].pc = "free") \/ prog[n].pc # "free" \/ hw[n].sta
      BY <2>2 DEF Waits, Idle, Prepares, Asks
    <2>4. n \notin bus'.starters
      BY <1>3 DEF Free
    <2> QED
      BY <2>1, <2>3, <2>4 DEF Seen
  <1> QED
    BY <1>3, <1>4, WiresSilent

(* Nobody acknowledges the address: for GeneralCall the transaction is     *)
(* over, for all who sent it.                                              *)
LEMMA UnheardRefines ==
  ASSUME Inv, Timely, AddressByte, {n \in Node \ bus.masters : hw[n].ea} = {}
  PROVE  \E n \in Node : GC!Transfer(n)
  <1>1. PICK t \in Seq(Nat) : Placed(t)
    BY DEF Inv
  <1>2. TypeOK /\ Shape(bus) /\ "ADR_NACK" \in Code /\ GC!Node = Node
    BY DEF Inv, Code, GC!Node, Node
  <1>3. /\ bus.phase = "address" /\ Released /\ Window
        /\ UNCHANGED <<prog, drv, rI2C, recvflag, sendflag>>
        /\ hw' = Signal(bus.masters, "ADR_NACK")
        /\ bus' = [bus EXCEPT !.phase = "nack"]
        /\ bus.masters = bus.starters /\ bus.masters # {} /\ bus.masters \subseteq Node
    BY <1>2, Records DEF AddressByte, Shape, TypeOK
  <1>4. bus'.starters = bus.starters
    BY <1>2, <1>3 DEF TypeOK
  <1>5. ASSUME NEW m \in bus.masters
        PROVE  /\ m \in Node /\ twi[m] = "start" /\ deaf[m] /\ twi'[m] = "idle"
               /\ out'[m] = out[m] /\ deaf'[m] = deaf[m] /\ rx'[m] = NoMsg
    <2>1. m \in Node /\ Starts(prog[m], drv[m], hw[m]) /\ hw[m].code = "none" /\ ~hw[m].ea
      BY <1>1, <1>2, <1>3, Sender DEF Released
    <2>2. prog[m].pc = "free" /\ drv[m].status = 1
      BY <2>1 DEF Starts
    <2>3. hw'[m] = [hw[m] EXCEPT !.code = "ADR_NACK"]
      BY <1>2, <1>3, <2>1, Signals
    <2>4. hw'[m].code = "ADR_NACK" /\ hw'[m].ea = hw[m].ea
      BY <1>2, <2>1, <2>3, CodeOnly
    <2>5. twi[m] = "start"
      BY <1>3, <2>1, <2>2, View DEF Seen
    <2>6. twi'[m] = "idle"
      BY <2>1, <2>4, View DEF Seen
    <2> QED
      BY <1>3, <2>1, <2>4, <2>5, <2>6, View DEF Deaf, Kept
  <1>6. ASSUME NEW m \in Node \ bus.masters
        PROVE  /\ deaf[m] /\ twi'[m] = twi[m] /\ out'[m] = out[m] /\ deaf'[m] = deaf[m]
               /\ rx'[m] = NoMsg
    <2>1. hw'[m] = hw[m] /\ ~hw[m].ea /\ hw[m].code = "none"
      BY <1>2, <1>3, Signals DEF Released
    <2>2. Seen(bus', m, prog[m], drv[m], hw[m]) = Seen(bus, m, prog[m], drv[m], hw[m])
      BY <1>4 DEF Seen
    <2>3. twi'[m] = twi[m]
      BY <1>3, <2>1, <2>2, View
    <2>4. deaf[m] /\ out'[m] = out[m] /\ deaf'[m] = deaf[m]
      BY <1>3, <2>1, View DEF Deaf
    <2>5. rx'[m] = NoMsg
      BY <1>3, <2>1, View DEF Kept
    <2> QED
      BY <2>3, <2>4, <2>5
  <1>7. \A m \in Node : rx[m] = NoMsg
    BY <1>3, View DEF Kept, Released
  <1>8. PICK n \in bus.masters : TRUE
    BY <1>3
  <1> DEFINE tied == bus.masters \ {n}
  <1>9. n \in Node /\ tied \in SUBSET GC!Rivals(n)
    BY <1>2, <1>5 DEF GC!Rivals
  <1>10. GC!Listeners(n) = {}
    BY <1>2, <1>5, <1>6 DEF GC!Listeners
  <1>11. twi' = [m \in Node |-> IF m \in bus.masters THEN "idle" ELSE twi[m]]
    BY <1>5, <1>6, AreFunctions
  <1>12. rx' = [m \in Node |-> NoMsg] /\ out' = out /\ deaf' = deaf
    <2>1. \A m \in Node : rx'[m] = NoMsg /\ out'[m] = out[m] /\ deaf'[m] = deaf[m]
      BY <1>5, <1>6
    <2>2. rx' = [m \in Node |-> NoMsg]
      BY ONLY <2>1, AreFunctions
    <2>3. out' = out
      BY ONLY <2>1, AreFunctions
    <2>4. deaf' = deaf
      BY ONLY <2>1, AreFunctions
    <2> QED
      BY <2>2, <2>3, <2>4
  <1>13. \E x \in SUBSET GC!Rivals(n) :
           LET answered == GC!Listeners(n) # {}
               lost     == {m \in x : answered /\ out[m] # out[n]}
               ended    == ({n} \cup x) \ lost
           IN  twi' = [m \in GC!Node |-> IF m \in lost THEN "lost"
                                         ELSE IF m \notin ended THEN twi[m]
                                         ELSE IF answered THEN "stop" ELSE "idle"]
    <2> tied \in SUBSET GC!Rivals(n)
      BY <1>9
    <2> WITNESS tied \in SUBSET GC!Rivals(n)
    <2>1. {m \in tied : GC!Listeners(n) # {} /\ out[m] # out[n]} = {}
      BY <1>10
    <2>2. {n} \cup tied = bus.masters
      BY <1>8
    <2> HIDE DEF tied
    <2> QED
      BY <1>2, <1>10, <1>11, <2>1, <2>2
  <1>14. rx' = [m \in GC!Node |-> IF m \in GC!Listeners(n) THEN out[n] ELSE NoMsg]
    BY <1>2, <1>10, <1>12
  <1>15. GC!Transfer(n)
    BY <1>2, <1>3, <1>5, <1>7, <1>12, <1>13, <1>14 DEF GC!Transfer
  <1> QED
    BY <1>9, <1>15

(* The STOP behind a whole text: every listener has it, who has lost the   *)
(* bus stays lost.                                                         *)
LEMMA StopConditionRefines ==
  ASSUME Inv, StopCondition, bus.phase = "data"
  PROVE  \E n \in Node : GC!Transfer(n)
  <1>1. PICK t \in Seq(Nat) : Placed(t)
    BY DEF Inv
  <1>2. TypeOK /\ Shape(bus) /\ Differ(bus, prog) /\ "STOP" \in Code /\ GC!Node = Node
    BY DEF Inv, Code, GC!Node, Node
  <1>3. /\ Released /\ UNCHANGED <<prog, drv, rI2C, recvflag, sendflag>>
        /\ hw' = Signal(bus.slaves, "STOP") /\ bus' = Free
        /\ \A m \in bus.masters : drv[m].tail
    BY DEF StopCondition
  <1>4. /\ bus.masters \subseteq bus.starters /\ bus.starters \subseteq Node
        /\ bus.slaves \subseteq Node
        /\ bus.slaves # {} /\ bus.slaves \cap bus.starters = {} /\ bus.masters # {}
        /\ bus'.starters = {}
    BY <1>2, <1>3 DEF Shape, TypeOK, Free
  <1>5. ASSUME NEW m \in bus.masters
        PROVE  /\ m \in Node /\ twi[m] = "start" /\ deaf[m] /\ twi'[m] = "stop" /\ out[m] = t
               /\ out'[m] = out[m] /\ deaf'[m] = deaf[m] /\ rx'[m] = NoMsg
    <2>1. m \in Node /\ m \in bus.starters /\ m \notin bus.slaves
      BY <1>4
    <2>2. Talks(t, prog[m], drv[m], hw[m]) /\ drv[m].tail /\ hw[m].code = "none" /\ prog[m].msg = t
      BY <1>1, <1>2, <1>3, <2>1, Delivered DEF Placed, Place, Released
    <2>3. prog[m].pc = "free" /\ drv[m].status \in {1, 2} /\ ~hw[m].ea /\ ~hw[m].sta
      BY <2>2 DEF Talks
    <2>4. hw'[m] = hw[m]
      BY <1>2, <1>3, <2>1, Signals
    <2>5. twi[m] = "start"
      BY <2>1, <2>2, <2>3, View DEF Seen
    <2>6. twi'[m] = "stop"
      BY <1>3, <1>4, <2>1, <2>2, <2>3, <2>4, View DEF Seen
    <2> QED
      BY <1>3, <2>1, <2>2, <2>3, <2>4, <2>5, <2>6, View DEF Deaf, Kept
  <1>6. ASSUME NEW m \in bus.starters \ bus.masters
        PROVE  /\ m \in Node /\ twi[m] = "start" /\ deaf[m] /\ twi'[m] = "lost" /\ out[m] # t
               /\ out'[m] = out[m] /\ deaf'[m] = deaf[m] /\ rx'[m] = NoMsg
    <2>1. m \in Node /\ m \notin bus.slaves
      BY <1>4
    <2>2. Beaten(prog[m], drv[m], hw[m]) /\ hw[m].code = "none"
      BY <1>1, <1>3, <2>1 DEF Placed, Place, Released
    <2>3. prog[m].pc = "free" /\ drv[m].status \in {1, 2} /\ ~hw[m].ea /\ ~hw[m].sta /\ ~drv[m].tail
      BY <2>2 DEF Beaten
    <2>4. hw'[m] = hw[m]
      BY <1>2, <1>3, <2>1, Signals
    <2>5. twi[m] = "start"
      BY <2>1, <2>2, <2>3, View DEF Seen
    <2>6. twi'[m] = "lost"
      BY <1>3, <1>4, <2>1, <2>2, <2>3, <2>4, View DEF Seen
    <2>7. out[m] # t
      <3>1. PICK k \in bus.masters : TRUE
        BY <1>4
      <3>2. prog[k].msg = t
        BY <1>5, <3>1, View
      <3> QED
        BY <1>2, <2>1, <3>1, <3>2, View DEF Differ
    <2> QED
      BY <1>3, <2>1, <2>2, <2>3, <2>4, <2>5, <2>6, <2>7, View DEF Deaf, Kept
  <1>7. ASSUME NEW m \in bus.slaves
        PROVE  /\ m \in Node /\ ~deaf[m] /\ twi'[m] = twi[m] /\ rx'[m] = t
               /\ out'[m] = out[m] /\ deaf'[m] = deaf[m]
    <2>1. m \in Node
      BY <1>4
    <2>2. /\ Received(drv[m]) = t /\ hw[m].ea /\ drv[m].status = 3 /\ prog[m].pc = "free"
          /\ hw[m].code = "none"
      BY <1>1, <1>2, <1>3, <2>1, Delivered DEF Released
    <2>3. hw'[m] = [hw[m] EXCEPT !.code = "STOP"]
      BY <1>2, <1>3, <2>1, Signals
    <2>4. hw'[m].code = "STOP" /\ hw'[m].ea
      BY <1>2, <2>1, <2>2, <2>3, CodeOnly
    <2>5. twi[m] = "idle" /\ twi'[m] = "idle"
      BY <1>3, <2>1, <2>2, <2>4, View DEF Seen
    <2> QED
      BY <1>3, <2>1, <2>2, <2>4, <2>5, View DEF Deaf, Kept
  <1>8. ASSUME NEW m \in Node, m \notin bus.starters, m \notin bus.slaves
        PROVE  /\ deaf[m] /\ twi'[m] = twi[m] /\ rx'[m] = NoMsg
               /\ out'[m] = out[m] /\ deaf'[m] = deaf[m]
    <2>1. hw'[m] = hw[m] /\ ~hw[m].ea /\ hw[m].code = "none"
      BY <1>1, <1>2, <1>3, <1>8, Signals DEF Placed, Place, Released
    <2>2. Seen(bus', m, prog[m], drv[m], hw[m]) = Seen(bus, m, prog[m], drv[m], hw[m])
      BY <1>4, <1>8 DEF Seen
    <2>3. twi'[m] = twi[m]
      BY <1>3, <2>1, <2>2, View
    <2>4. deaf[m] /\ out'[m] = out[m] /\ deaf'[m] = deaf[m]
      BY <1>3, <2>1, View DEF Deaf
    <2>5. rx'[m] = NoMsg
      BY <1>3, <2>1, View DEF Kept
    <2> QED
      BY <2>3, <2>4, <2>5
  <1>9. \A m \in Node : rx[m] = NoMsg
    BY <1>3, View DEF Kept, Released
  <1>10. PICK n \in bus.masters : TRUE
    BY <1>4
  <1> DEFINE tied == bus.starters \ {n}
  <1>11. n \in Node /\ tied \in SUBSET GC!Rivals(n)
    BY <1>2, <1>5, <1>6 DEF GC!Rivals
  <1>12. GC!Listeners(n) = bus.slaves
    <2>1. \A m \in Node : m \in bus.slaves <=> m # n /\ ~deaf[m]
      BY <1>4, <1>5, <1>6, <1>7, <1>8
    <2> QED
      BY <1>2, <1>4, <2>1 DEF GC!Listeners
  <1>13. twi' = [m \in Node |-> IF m \in bus.starters \ bus.masters THEN "lost"
                                ELSE IF m \in bus.masters THEN "stop" ELSE twi[m]]
    <2>1. \A m \in Node : twi'[m] = IF m \in bus.starters \ bus.masters THEN "lost"
                                    ELSE IF m \in bus.masters THEN "stop" ELSE twi[m]
      BY <1>4, <1>5, <1>6, <1>7, <1>8
    <2> QED
      BY <2>1, AreFunctions
  <1>14. rx' = [m \in Node |-> IF m \in bus.slaves THEN t ELSE NoMsg]
    <2>1. \A m \in Node : rx'[m] = IF m \in bus.slaves THEN t ELSE NoMsg
      BY <1>4, <1>5, <1>6, <1>7, <1>8
    <2> QED
      BY <2>1, AreFunctions
  <1>15. out' = out /\ deaf' = deaf
    <2>1. \A m \in Node : out'[m] = out[m] /\ deaf'[m] = deaf[m]
      BY <1>5, <1>6, <1>7, <1>8
    <2> QED
      BY <2>1, AreFunctions
  <1>16. \E x \in SUBSET GC!Rivals(n) :
           LET answered == GC!Listeners(n) # {}
               lost     == {m \in x : answered /\ out[m] # out[n]}
               ended    == ({n} \cup x) \ lost
           IN  twi' = [m \in GC!Node |-> IF m \in lost THEN "lost"
                                         ELSE IF m \notin ended THEN twi[m]
                                         ELSE IF answered THEN "stop" ELSE "idle"]
    <2> tied \in SUBSET GC!Rivals(n)
      BY <1>11
    <2> WITNESS tied \in SUBSET GC!Rivals(n)
    <2>1. {m \in tied : GC!Listeners(n) # {} /\ out[m] # out[n]} = bus.starters \ bus.masters
      BY <1>4, <1>5, <1>6, <1>12
    <2>2. ({n} \cup tied) \ (bus.starters \ bus.masters) = bus.masters
      BY <1>4, <1>10
    <2> HIDE DEF tied
    <2> QED
      BY <1>2, <1>4, <1>12, <1>13, <2>1, <2>2
  <1>17. rx' = [m \in GC!Node |-> IF m \in GC!Listeners(n) THEN out[n] ELSE NoMsg]
    BY <1>2, <1>5, <1>12, <1>14
  <1>18. GC!Transfer(n)
    BY <1>2, <1>3, <1>5, <1>9, <1>15, <1>16, <1>17 DEF GC!Transfer
  <1> QED
    BY <1>11, <1>18

(* Every step of the driver is a step of the abstract bus, or none.        *)
LEMMA RefStep ==
  ASSUME Inv, Timely, [Next]_vars
  PROVE  [GC!BusNext]_(GC!busVars)
  <1>1. GC!Node = Node
    BY DEF GC!Node, Node
  <1>2. ASSUME NEW n \in Node, Main(n) PROVE [GC!BusNext]_(GC!busVars)
    <2>1. CASE Check(n)
      BY <1>1, <2>1, CheckRefines DEF GC!BusNext
    <2>2. CASE Fill(n) \/ Go(n)
      BY <2>2, FillSilent, GoSilent
    <2>3. CASE TakeSent(n) \/ TakeReceived(n)
      BY <1>1, <2>3, TakeRefines DEF GC!BusNext
    <2> QED
      BY <1>2, <2>1, <2>2, <2>3 DEF Main
  <1>3. ASSUME NEW n \in Node, Interrupt(n) PROVE [GC!BusNext]_(GC!busVars)
    <2>1. CASE SentISR(n)
      BY <1>1, <2>1, SentRefines DEF GC!BusNext
    <2>2. CASE StopISR(n)
      BY <1>1, <2>2, StopRefines DEF GC!BusNext
    <2> QED
      BY <1>3, <2>1, <2>2, StartSilent, BytesSilent, NackSilent, HearSilent, OtherSilent
         DEF Interrupt
  <1>4. ASSUME Wires PROVE [GC!BusNext]_(GC!busVars)
    <2>1. CASE StartCondition
      BY <2>1, StartConditionSilent
    <2>2. CASE AddressByte /\ {n \in Node \ bus.masters : hw[n].ea} = {}
      BY <1>1, <2>2, UnheardRefines DEF GC!BusNext
    <2>3. CASE DataByte \/ (AddressByte /\ {n \in Node \ bus.masters : hw[n].ea} # {})
      BY <2>3, BytesOnWires
    <2>4. CASE StopCondition /\ bus.phase = "nack"
      BY <2>4, NackStopSilent
    <2>5. CASE StopCondition /\ bus.phase = "data"
      BY <1>1, <2>5, StopConditionRefines DEF GC!BusNext
    <2> QED
      BY <1>4, <2>1, <2>2, <2>3, <2>4, <2>5 DEF Wires, StopCondition
  <1>5. CASE UNCHANGED vars
    <2>1. UNCHANGED <<twi, out, deaf, rx>>
      BY <1>5, View, Stutters DEF vars
    <2> QED
      BY <1>5, <2>1 DEF vars, GC!busVars
  <1> QED
    BY <1>2, <1>3, <1>4, <1>5 DEF Next

(* Byte by byte, with ties, lost arbitration and addresses that nobody     *)
(* acknowledges, send_msg and the interrupt routine do what GeneralCall    *)
(* promises to the protocols, for any number of boards and any texts.      *)
THEOREM DriverRefines == ASSUME Timely PROVE Spec => ImplementsGeneralCall
  <1>1. Inv /\ [Next]_vars => [GC!BusNext]_(GC!busVars)
    BY RefStep
  <1> QED
    BY <1>1, RefInit, Reachable, PTL DEF Spec, ImplementsGeneralCall, GC!BusSpec
================================================================================
