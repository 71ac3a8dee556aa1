--------------------------- MODULE CalibrationProofs ---------------------------
(***************************************************************************)
(* What Calibration promises for every number of luminaires and of levels. *)
(***************************************************************************)
EXTENDS Calibration, TLAPS

(* Stages and samples are counted with naturals.                           *)
LEMMA Numbers ==
  /\ N \in Nat /\ N > 1 /\ DimU \in Nat /\ DimU > 0
  /\ N-1 \in Node /\ 0 \in Node /\ 1 \in Node /\ N \notin Node
  /\ \A n \in Node : n \in Nat /\ n < N
  /\ \A i \in 0 .. N : i < N => i \in Node
  /\ \A j \in Level : j \in Nat /\ j < DimU
  /\ \A j \in Nat : j < DimU => j \in Level
  BY NAssumption, CalibrationAssumption DEF Node, Level

(* A natural and the one before it.                                        *)
LEMMA Successor ==
  \A a, b : a \in Nat /\ a + 1 = b => b \in Nat /\ b # 0 /\ a = b - 1
  OBVIOUS

(* A lamp set to a level leaves the lights and what is seen of them in     *)
(* their types.                                                            *)
LEMMA SetLedType ==
  ASSUME TypeOK, NEW n \in Node, NEW v \in Level, SetLed(n, v)
  PROVE  light' \in Lights /\ seen' \in [Node -> SUBSET Lights]
  <1>1. light' \in Lights
    BY DEF SetLed, TypeOK, Lights
  <1> QED
    BY <1>1 DEF SetLed, TypeOK

(* So does a sample, which is stored only if y has room for it.            *)
LEMMA EndReadType ==
  ASSUME TypeOK, NEW n \in Node, NEW next \in PcState, EndRead(n, next)
  PROVE  TypeOK'
  <1>1. cnt' \in [Node -> 0 .. DimU]
    BY Numbers DEF EndRead, TypeOK
  <1>2. y' \in [Node -> [Level -> SUBSET Lights]]
    <2>1. [j \in Level |-> IF j = cnt[n] THEN seen[n] ELSE y[n][j]] \in [Level -> SUBSET Lights]
      BY DEF TypeOK
    <2> QED
      BY <2>1 DEF EndRead, TypeOK
  <1>3. seen' \in [Node -> SUBSET Lights] /\ pc' \in [Node -> PcState]
    BY DEF EndRead, TypeOK, Goto
  <1> QED
    BY <1>1, <1>2, <1>3 DEF EndRead, TypeOK, BusTypeOK, busVars

(* The lamp is only set to a level that is there, and a board that is not  *)
(* done is in a stage that is there.                                       *)
InRange ==
  \A n \in Node : /\ pc[n] = "lamp" => cnt[n] < DimU
                  /\ pc[n] # "done" => stage[n] < N

(* Every step keeps every variable in its type, given that the counters    *)
(* are in the ranges that the program relies on.                           *)
LEMMA TypeStep ==
  ASSUME TypeOK, InRange, [Next]_vars
  PROVE  TypeOK'
  <1> USE CalibrationAssumption, Numbers DEF TypeOK, BusTypeOK, Message
  <1>1. ASSUME NEW n \in Node, Lamp(n) \/ LightOff(n) PROVE TypeOK'
    <2>1. PICK v \in Level : SetLed(n, v)
      BY <1>1 DEF Lamp, LightOff, InRange
    <2>2. light' \in Lights /\ seen' \in [Node -> SUBSET Lights]
      BY <2>1, SetLedType
    <2> QED
      BY <1>1, <2>2 DEF Lamp, LightOff, Goto, PcState, busVars
  <1>2. ASSUME NEW n \in Node, Ask(n) \/ Tell(n) PROVE TypeOK'
    BY <1>2 DEF Ask, Tell, Send, Goto, PcState, TwiState
  <1>3. ASSUME NEW n \in Node, AskedAll(n) PROVE TypeOK'
    BY <1>3 DEF AskedAll, TakeSent, BeginRead, Goto, PcState
  <1>4. ASSUME NEW n \in Node, MasterRead(n) \/ SlaveRead(n) PROVE TypeOK'
    BY <1>4, EndReadType DEF MasterRead, SlaveRead, PcState
  <1>5. ASSUME NEW n \in Node, ToldAll(n) PROVE TypeOK'
    BY <1>5 DEF ToldAll, TakeSent, Goto, PcState
  <1>6. ASSUME NEW n \in Node, Hear(n) PROVE TypeOK'
    BY <1>6 DEF Hear, TakeReceived, Goto, PcState
  <1>7. ASSUME NEW n \in Node, LookSR(n) PROVE TypeOK'
    <2>1. rI2C' \in [Node -> Message \cup {NoMsg}] /\ pc' \in [Node -> PcState]
      BY <1>7 DEF LookSR, BeginRead, Goto, PcState
    <2>2. seen' \in [Node -> SUBSET Lights]
      <3>1. {light} \in SUBSET Lights
        OBVIOUS
      <3>2. seen' = seen \/ seen' = [seen EXCEPT ![n] = {light}]
        BY <1>7 DEF LookSR, BeginRead
      <3> QED
        BY <3>1, <3>2
    <2> QED
      BY <1>7, <2>1, <2>2 DEF LookSR
  <1>8. ASSUME NEW n \in Node, LookMS(n) PROVE TypeOK'
    BY <1>8 DEF LookMS, Goto, PcState
  <1>9. ASSUME NEW n \in Node, Fit(n) PROVE TypeOK'
    <2>1. stage' \in [Node -> 0 .. N] /\ cnt' \in [Node -> 0 .. DimU]
      <3>1. pc[n] = "fit" /\ stage[n] \in 0 .. N
        BY <1>9 DEF Fit
      <3>2. stage[n] < N
        BY <3>1 DEF InRange
      <3>3. stage[n] + 1 \in 0 .. N
        BY <3>1, <3>2
      <3> QED
        BY <1>9, <3>3 DEF Fit
    <2>2. pc' \in [Node -> PcState]
      BY <1>9 DEF Fit, Goto, Enter, PcState
    <2> QED
      BY <1>9, <2>1, <2>2 DEF Fit, busVars
  <1>10. ASSUME NEW n \in Node, Broadcast(n) PROVE TypeOK'
    <2>1. twi' \in [Node -> TwiState] /\ UNCHANGED deaf
      BY <1>10 DEF Broadcast, Transfer, TwiState
    <2>2. rx' \in [Node -> Message \cup {NoMsg}] /\ UNCHANGED <<out, rI2C, recvflag, sendflag>>
      BY <1>10 DEF Broadcast, Transfer
    <2> QED
      BY <1>10, <2>1, <2>2 DEF Broadcast, mainVars
  <1>11. ASSUME NEW n \in Node, Sent(n) PROVE TypeOK'
    BY <1>11 DEF Sent, SentISR, TwiState, mainVars
  <1>12. ASSUME NEW n \in Node, Received(n) PROVE TypeOK'
    BY <1>12 DEF Received, ReceiveISR, mainVars
  <1>13. CASE UNCHANGED vars
    BY <1>13 DEF vars, busVars, mainVars
  <1> QED
    BY <1>1, <1>2, <1>3, <1>4, <1>5, <1>6, <1>7, <1>8, <1>9, <1>10,
       <1>11, <1>12, <1>13 DEF Next, Main

(* They are: the MASTER begins a stage without samples, and comes back to  *)
(* its lamp only after a sample that was not the last; the stage after the *)
(* last is entered as done.                                                *)
LEMMA RangeStep ==
  ASSUME TypeOK, InRange, [Next]_vars
  PROVE  InRange'
  <1> USE Numbers DEF TypeOK, InRange, Goto
  <1>1. ASSUME NEW n \in Node, Lamp(n) \/ Ask(n) \/ AskedAll(n) \/ LightOff(n) \/ Tell(n)
                               \/ ToldAll(n) \/ Hear(n) \/ LookMS(n)
        PROVE  InRange'
    BY <1>1 DEF Lamp, Ask, AskedAll, LightOff, Tell, ToldAll, Hear, LookMS, BeginRead
  <1>6. ASSUME NEW n \in Node, LookSR(n) PROVE InRange'
    <2>1. pc' = [pc EXCEPT ![n] = "read"] \/ pc' = [pc EXCEPT ![n] = "lookMS"]
      BY <1>6 DEF LookSR, BeginRead
    <2> QED
      BY <1>6, <2>1 DEF LookSR
  <1>2. ASSUME NEW n \in Node, MasterRead(n) \/ SlaveRead(n) PROVE InRange'
    <2>1. PICK next \in {"lamp", "off", "lookMS"} :
             /\ EndRead(n, next)
             /\ next = "lamp" => cnt[n] + 1 < DimU
      BY <1>2 DEF MasterRead, SlaveRead
    <2>2. /\ pc' = [pc EXCEPT ![n] = next] /\ pc[n] = "read" /\ stage' = stage
          /\ cnt' = [cnt EXCEPT ![n] = IF cnt[n] < DimU THEN cnt[n] + 1 ELSE cnt[n]]
      BY <2>1 DEF EndRead
    <2> QED
      BY <2>1, <2>2
  <1>3. ASSUME NEW n \in Node, Fit(n) PROVE InRange'
    BY <1>3 DEF Fit
  <1>4. ASSUME NEW n \in Node, Broadcast(n) \/ Sent(n) \/ Received(n) PROVE InRange'
    BY <1>4 DEF Broadcast, Sent, Received, mainVars
  <1>5. CASE UNCHANGED vars
    BY <1>5 DEF vars, mainVars
  <1> QED
    BY <1>1, <1>2, <1>3, <1>4, <1>5, <1>6 DEF Next, Main

(* The board that counted may have a sendflag, the others have none.       *)
LEMMA InitFlags ==
  ASSUME BusInit
  PROVE  /\ sendflag \in [Node -> BOOLEAN]
         /\ \A n \in Node : sendflag[n] => n = N-1
  <1>1. CASE sendflag = [n \in Node |-> FALSE]
    BY <1>1
  <1>2. CASE sendflag = [n \in Node |-> n = N-1]
    BY <1>2
  <1> QED
    BY <1>1, <1>2 DEF BusInit

(* Both together are inductive.                                            *)
LEMMA TypeInvariant == Safety => [](TypeOK /\ InRange)
  <1>1. Init => TypeOK /\ InRange
    <2> SUFFICES ASSUME Init PROVE TypeOK /\ InRange
      OBVIOUS
    <2>1. BusTypeOK(Message)
      BY CalibrationAssumption, InitFlags DEF Init, BusInit, BusTypeOK, Message, TwiState
    <2>2. pc \in [Node -> PcState] /\ stage \in [Node -> 0 .. N] /\ cnt \in [Node -> 0 .. DimU]
      BY Numbers DEF Init, Enter, PcState
    <2>3. light \in Lights
      BY Numbers DEF Init, AllDark, Lights
    <2>4. y \in [Node -> [Level -> SUBSET Lights]] /\ seen \in [Node -> SUBSET Lights]
      BY DEF Init
    <2> QED
      BY <2>1, <2>2, <2>3, <2>4, Numbers DEF TypeOK, InRange, Init
  <1> QED
    BY <1>1, TypeStep, RangeStep, PTL DEF Safety

(* Every variable keeps to its type.                                       *)
THEOREM TypeCorrect == Safety => []TypeOK
  BY TypeInvariant, PTL

--------------------------------------------------------------------------------
(* Under the hypothesis on the delays the boards keep step.                *)

(* The board that counted may have a sendflag to spare: it then takes that *)
(* for the end of a message it has only just handed over, and is EARLY     *)
(* until that message has really ended.                                    *)
Spare(n) == sendflag[n] => n = N-1
Early(n) == n = N-1 /\ ~sendflag[n]
Quiet(n) == twi[n] = "idle" /\ Spare(n)

Handed(n, msg) == twi[n] = "start" /\ out[n] = msg

NoMail(n) == rx[n] = NoMsg /\ ~recvflag[n]
Mail(n, msg) ==
  \/ rx[n] = msg /\ ~recvflag[n]
  \/ rx[n] = NoMsg /\ recvflag[n] /\ rI2C[n] = msg

(* The roles of a node, given that "MS" has been on the bus in the stages  *)
(* before i only, and "SR" d times in stage i.                             *)

(* n is the MASTER of stage i: what it has done and handed over, and the   *)
(* level of its lamp.                                                      *)
Master(n, i, d) ==
  /\ n = i /\ stage[n] = i /\ NoMail(n)
  /\ \/ /\ pc[n] = "lamp" /\ cnt[n] < DimU
        /\ light[n] = (IF cnt[n] = 0 THEN 0 ELSE cnt[n]-1)
        /\ \/ Quiet(n) /\ cnt[n] = d
           \/ Early(n) /\ Handed(n, SR) /\ cnt[n] = d+1
           \/ Early(n) /\ twi[n] = "stop" /\ cnt[n] = d /\ d # 0
     \/ pc[n] = "ask" /\ Quiet(n) /\ cnt[n] = d /\ d < DimU /\ light[n] = d
     \/ /\ pc[n] = "asked" /\ cnt[n] < DimU /\ light[n] = cnt[n]
        /\ \/ Handed(n, SR) /\ Spare(n) /\ cnt[n] = d
           \/ twi[n] = "stop" /\ Spare(n) /\ cnt[n]+1 = d
           \/ twi[n] = "idle" /\ sendflag[n] /\ cnt[n]+1 = d
     \/ /\ pc[n] = "read" /\ cnt[n] < DimU /\ light[n] = cnt[n]
        /\ \/ Quiet(n) /\ cnt[n]+1 = d
           \/ Early(n) /\ Handed(n, SR) /\ cnt[n] = d
           \/ Early(n) /\ twi[n] = "stop" /\ cnt[n]+1 = d
     \/ /\ pc[n] \in {"off", "tell"} /\ cnt[n] = DimU
        /\ light[n] = (IF pc[n] = "off" THEN DimU-1 ELSE 0)
        /\ \/ Quiet(n) /\ d = DimU
           \/ Early(n) /\ Handed(n, SR) /\ d+1 = DimU
           \/ Early(n) /\ twi[n] = "stop" /\ d = DimU
     \/ pc[n] = "told" /\ Handed(n, MS) /\ Spare(n) /\ cnt[n] = DimU /\ d = DimU /\ light[n] = 0
     \/ pc[n] = "fit" /\ Handed(n, MS) /\ Early(n) /\ cnt[n] = DimU /\ d = DimU /\ light[n] = 0

(* n has left the calibration while its last "MS" waits for the bus.       *)
Gone(n, i, d) ==
  /\ n = N-1 /\ i = n /\ stage[n] = N /\ pc[n] = "done" /\ NoMail(n)
  /\ Handed(n, MS) /\ ~sendflag[n] /\ d = DimU /\ light[n] = 0

(* The delay of the MASTER before a message is over, and the message has   *)
(* not been on the bus yet: nobody has anything left to do.                *)
Speaking(i) == i < N /\ (pc[i] = "ask" \/ twi[i] = "start")

(* n is a SLAVE of stage i, and has taken all samples it was told to take  *)
(* or is taking the last of them.                                          *)
Slave(n, i, d) ==
  /\ n # i /\ i < N /\ stage[n] = i /\ Quiet(n)
  /\ \/ pc[n] = "wait" /\ NoMail(n) /\ cnt[n] = d
     \/ pc[n] = "wait" /\ Mail(n, SR) /\ cnt[n]+1 = d /\ ~Speaking(i)
     \/ pc[n] = "look" /\ NoMail(n) /\ rI2C[n] = SR /\ cnt[n]+1 = d /\ ~Speaking(i)
     \/ pc[n] = "read" /\ NoMail(n) /\ rI2C[n] = NoMsg /\ cnt[n]+1 = d /\ ~Speaking(i)
     \/ pc[n] = "lookMS" /\ NoMail(n) /\ rI2C[n] = NoMsg /\ cnt[n] = d /\ ~Speaking(i)

(* n was a SLAVE of the stage before and has been told that it is over.    *)
Late(n, i, d) ==
  /\ n+1 # i /\ stage[n]+1 = i /\ Quiet(n) /\ cnt[n] = DimU /\ d = 0 /\ ~Speaking(i)
  /\ \/ pc[n] = "wait" /\ Mail(n, MS)
     \/ pc[n] \in {"look", "lookMS"} /\ NoMail(n) /\ rI2C[n] = MS
     \/ pc[n] = "fit" /\ NoMail(n)

(* n was the MASTER of the stage before: it may be so slow to see its      *)
(* sendflag that the first "SR" of the next MASTER finds it there.         *)
LastMaster(n, i, d) ==
  /\ n+1 = i /\ stage[n] = n /\ cnt[n] = DimU
  /\ \/ pc[n] = "told" /\ twi[n] = "stop" /\ Spare(n)
     \/ pc[n] = "told" /\ twi[n] = "idle" /\ sendflag[n]
     \/ pc[n] = "fit" /\ Quiet(n)
     \/ pc[n] = "fit" /\ Early(n) /\ twi[n] = "stop"
  /\ \/ NoMail(n) /\ d = 0
     \/ Mail(n, SR) /\ d = 1 /\ i < N /\ ~Speaking(i) /\ twi[n] = "idle"
  /\ twi[n] = "stop" => ~Speaking(i)

(* n has been through all stages.                                          *)
Over(n, i, d) ==
  /\ i = N /\ d = 0 /\ stage[n] = N /\ pc[n] = "done" /\ NoMail(n)
  /\ Quiet(n) \/ (Early(n) /\ twi[n] = "stop")

Role(n, i, d) ==
  /\ deaf[n] => twi[n] # "idle"
  /\ n # i \/ Late(n, i, d) => light[n] = 0
  /\ \/ Master(n, i, d) \/ Gone(n, i, d) \/ Slave(n, i, d)
     \/ Late(n, i, d) \/ LastMaster(n, i, d) \/ Over(n, i, d)

InStep(i, d) == \A n \in Node : Role(n, i, d)

(* Although nothing but the delays holds the boards together each is in    *)
(* one of these roles: nobody is behind by more than a sample or ahead of  *)
(* what has been on the bus, and only the lamp of the MASTER may be on.    *)
LockStep == \E i \in 0 .. N, d \in 0 .. DimU : InStep(i, d)

(* What has been handed over reaches all other boards in one transaction,  *)
(* and nobody else was sending.                                            *)
LEMMA BroadcastReaches ==
  ASSUME TypeOK, NEW i \in 0 .. N, NEW d \in 0 .. DimU, InStep(i, d),
         NEW n \in Node, Broadcast(n)
  PROVE  /\ n = i /\ twi[n] = "start" /\ Speaking(i)
         /\ twi' = [twi EXCEPT ![n] = "stop"]
         /\ rx' = [k \in Node |-> IF k = n THEN NoMsg ELSE out[n]]
         /\ UNCHANGED <<out, deaf, rI2C, recvflag, sendflag, mainVars>>
  <1> USE Numbers DEF TypeOK, BusTypeOK, InStep, Role
  <1>1. \A k \in Node : twi[k] = "start" => k = i
    BY DEF Master, Gone, Slave, Late, LastMaster, Over, Quiet, Handed
  <1>2. n = i /\ twi[n] = "start" /\ Speaking(i)
    BY <1>1 DEF Broadcast, Transfer, Speaking
  <1>3. Rivals(n) = {}
    BY <1>1, <1>2 DEF Rivals
  <1>4. \A k \in Node \ {n} : ~deaf[k]
    <2>1. ASSUME NEW k \in Node, k # n PROVE twi[k] = "idle"
      <3>1. i # N /\ k # i
        BY <1>2, <2>1
      <3>2. Slave(k, i, d) \/ Late(k, i, d) \/ LastMaster(k, i, d)
        BY <3>1 DEF Master, Gone, Over
      <3> QED
        BY <1>2, <3>2 DEF Slave, Late, LastMaster, Quiet
    <2> QED
      BY <2>1
  <1>5. Listeners(n) = Node \ {n} /\ Listeners(n) # {}
    <2>1. \E k \in Node : k # n
      BY 0 # 1
    <2> QED
      BY <1>4, <2>1 DEF Listeners
  <1>6. twi' = [twi EXCEPT ![n] = "stop"]
    BY <1>3, <1>5 DEF Broadcast, Transfer
  <1>7. rx' = [k \in Node |-> IF k = n THEN NoMsg ELSE out[n]]
    BY <1>5 DEF Broadcast, Transfer
  <1> QED
    BY <1>2, <1>6, <1>7 DEF Broadcast, Transfer

(* A board of which nothing changes keeps its role, unless the MASTER has  *)
(* only just made ready to speak.                                          *)
LEMMA Bystander ==
  ASSUME TypeOK, NEW i \in 0 .. N, NEW d \in 0 .. DimU,
         NEW k \in Node, Role(k, i, d),
         twi'[k] = twi[k], out'[k] = out[k], deaf'[k] = deaf[k], rx'[k] = rx[k],
         rI2C'[k] = rI2C[k], recvflag'[k] = recvflag[k], sendflag'[k] = sendflag[k],
         pc'[k] = pc[k], stage'[k] = stage[k], cnt'[k] = cnt[k], light'[k] = light[k],
         Speaking(i)' => Speaking(i)
  PROVE  Role(k, i, d)'
  BY DEF Role, Master, Gone, Slave, Late, LastMaster, Over, Handed, Early, Quiet, Spare, NoMail, Mail

(* When the delay of the MASTER is over everybody else waits for it, or is *)
(* the last MASTER and about to wait.                                      *)
Attentive(k, i, d) ==
  /\ deaf[k] => twi[k] # "idle"
  /\ light[k] = 0
  /\ \/ Slave(k, i, d) /\ pc[k] = "wait" /\ NoMail(k) /\ cnt[k] = d
     \/ LastMaster(k, i, d) /\ twi[k] = "idle" /\ NoMail(k) /\ d = 0

(* This is what the delay gives the MASTER.                                *)
LEMMA CalmMeans ==
  ASSUME TypeOK, NEW i \in 0 .. N, NEW d \in 0 .. DimU, InStep(i, d),
         Master(i, i, d), i \in Node, Calm(i), NEW k \in Node, k # i
  PROVE  Attentive(k, i, d)
  <1>1. Slave(k, i, d) \/ Late(k, i, d) \/ LastMaster(k, i, d)
    BY Numbers DEF InStep, Role, Master, Gone, Over
  <1>2. Settled(k) /\ pc[k] \notin {"look", "read", "lookMS", "fit"}
    BY DEF Calm
  <1>3. deaf[k] => twi[k] # "idle"
    BY DEF InStep, Role
  <1>4. light[k] = 0
    BY DEF InStep, Role
  <1> QED
    BY <1>1, <1>2, <1>3, <1>4, CalibrationAssumption
       DEF Attentive, Slave, Late, LastMaster, Settled, NoMail, Mail

(* It stays so as long as the MASTER is about to speak.                    *)
LEMMA AttentiveStays ==
  ASSUME TypeOK, NEW i \in 0 .. N, NEW d \in 0 .. DimU,
         NEW k \in Node, k # i, Attentive(k, i, d),
         twi'[k] = twi[k], out'[k] = out[k], deaf'[k] = deaf[k], rx'[k] = rx[k],
         rI2C'[k] = rI2C[k], recvflag'[k] = recvflag[k], sendflag'[k] = sendflag[k],
         pc'[k] = pc[k], stage'[k] = stage[k], cnt'[k] = cnt[k], light'[k] = light[k]
  PROVE  Role(k, i, d)'
  BY DEF Attentive, Role, Slave, LastMaster, Early, Quiet, Spare, NoMail, Mail

(* The MASTER changes its lamp when everybody is attentive.                *)
LEMMA LampStep ==
  ASSUME TypeOK, NEW i \in 0 .. N, NEW d \in 0 .. DimU, InStep(i, d),
         NEW n \in Node, Lamp(n)
  PROVE  InStep(i, d)'
  <1> USE Numbers DEF TypeOK, BusTypeOK, Lights
  <1>1. n = i /\ Master(n, i, d) /\ Calm(n) /\ pc[n] = "lamp" /\ Quiet(n) /\ cnt[n] = d
    BY DEF Lamp, Calm, InStep, Role, Master, Gone, Slave, Late, LastMaster, Over, Quiet, Handed
  <1>2. /\ pc' = [pc EXCEPT ![n] = "ask"] /\ light' = [light EXCEPT ![n] = d]
        /\ UNCHANGED <<busVars, stage, cnt>>
    BY <1>1 DEF Lamp, SetLed, Goto
  <1>3. Role(n, i, d)'
    <2>1. Master(n, i, d)'
      BY <1>1, <1>2 DEF Master, busVars, NoMail, Quiet, Spare
    <2> QED
      BY <1>1, <1>2, <2>1 DEF Role, InStep, busVars, Late, Master
  <1>4. ASSUME NEW k \in Node, k # n PROVE Role(k, i, d)'
    BY <1>1, <1>2, <1>4, CalmMeans, AttentiveStays DEF busVars
  <1> QED
    BY <1>3, <1>4 DEF InStep

(* Handing "MS" over.                                                      *)
LEMMA TellStep ==
  ASSUME TypeOK, NEW i \in 0 .. N, NEW d \in 0 .. DimU, InStep(i, d),
         NEW n \in Node, Tell(n)
  PROVE  InStep(i, d)'
  <1> USE Numbers DEF TypeOK, BusTypeOK
  <1>1. n = i /\ Master(n, i, d) /\ Calm(n) /\ pc[n] = "tell" /\ Quiet(n) /\ d = DimU
    BY DEF Tell, Calm, InStep, Role, Master, Gone, Slave, Late, LastMaster, Over, Quiet, Handed
  <1>2. /\ pc' = [pc EXCEPT ![n] = "told"] /\ twi' = [twi EXCEPT ![n] = "start"]
        /\ out' = [out EXCEPT ![n] = MS] /\ deaf' = [deaf EXCEPT ![n] = TRUE]
        /\ UNCHANGED <<rx, rI2C, recvflag, sendflag, stage, cnt, light>>
    BY <1>1 DEF Tell, Send, Goto
  <1>3. Role(n, i, d)'
    <2>1. Master(n, i, d)'
      BY <1>1, <1>2 DEF Master, NoMail, Quiet, Spare, Handed
    <2> QED
      BY <1>1, <1>2, <2>1 DEF Role, Late, Master
  <1>4. ASSUME NEW k \in Node, k # n PROVE Role(k, i, d)'
    BY <1>1, <1>2, <1>4, CalmMeans, AttentiveStays
  <1> QED
    BY <1>3, <1>4 DEF InStep

(* Handing "SR" over: everybody has been attentive since the lamp changed. *)
LEMMA AskStep ==
  ASSUME TypeOK, NEW i \in 0 .. N, NEW d \in 0 .. DimU, InStep(i, d),
         NEW n \in Node, Ask(n)
  PROVE  InStep(i, d)'
  <1> USE Numbers DEF TypeOK, BusTypeOK
  <1>1. n = i /\ Master(n, i, d) /\ pc[n] = "ask" /\ Quiet(n) /\ Speaking(i)
    <2>1. n = i /\ Master(n, i, d) /\ pc[n] = "ask"
      BY DEF Ask, InStep, Role, Master, Gone, Slave, Late, LastMaster, Over
    <2> QED
      BY <2>1 DEF Master, Speaking
  <1>2. /\ pc' = [pc EXCEPT ![n] = "asked"] /\ twi' = [twi EXCEPT ![n] = "start"]
        /\ out' = [out EXCEPT ![n] = SR] /\ deaf' = [deaf EXCEPT ![n] = TRUE]
        /\ rI2C' = [rI2C EXCEPT ![n] = NoMsg]
        /\ UNCHANGED <<rx, recvflag, sendflag, stage, cnt, light>>
    BY <1>1 DEF Ask, Send, Goto
  <1>3. Role(n, i, d)'
    <2>1. Master(n, i, d)'
      BY <1>1, <1>2 DEF Master, NoMail, Quiet, Spare, Handed
    <2> QED
      BY <1>1, <1>2, <2>1 DEF Role, Late, Master
  <1>4. ASSUME NEW k \in Node, k # n PROVE Role(k, i, d)'
    BY <1>1, <1>2, <1>4, Bystander DEF InStep
  <1> QED
    BY <1>3, <1>4 DEF InStep

(* The MASTER sees a sendflag, of the message in hand or to spare.         *)
LEMMA AskedAllStep ==
  ASSUME TypeOK, NEW i \in 0 .. N, NEW d \in 0 .. DimU, InStep(i, d),
         NEW n \in Node, AskedAll(n)
  PROVE  InStep(i, d)'
  <1> USE Numbers DEF TypeOK, BusTypeOK
  <1>1. n = i /\ Master(n, i, d) /\ pc[n] = "asked" /\ sendflag[n]
    BY DEF AskedAll, TakeSent, InStep, Role, Master, Gone, Slave, Late, LastMaster, Over
  <1>2. /\ pc' = [pc EXCEPT ![n] = "read"] /\ sendflag' = [sendflag EXCEPT ![n] = FALSE]
        /\ UNCHANGED <<twi, out, deaf, rx, rI2C, recvflag, stage, cnt, light>>
    BY DEF AskedAll, TakeSent, BeginRead, Goto
  <1>3. Role(n, i, d)'
    <2>1. Master(n, i, d)'
      BY <1>1, <1>2 DEF Master, NoMail, Quiet, Spare, Early, Handed
    <2> QED
      BY <1>1, <1>2, <2>1 DEF InStep, Role, Late, Master
  <1>4. Speaking(i)' => Speaking(i)
    BY <1>1, <1>2 DEF Speaking
  <1>5. ASSUME NEW k \in Node, k # n PROVE Role(k, i, d)'
    BY <1>1, <1>2, <1>4, <1>5, Bystander DEF InStep
  <1> QED
    BY <1>3, <1>5 DEF InStep

(* The MASTER sees a sendflag after "MS": the next stage may have begun.   *)
LEMMA ToldAllStep ==
  ASSUME TypeOK, NEW i \in 0 .. N, NEW d \in 0 .. DimU, InStep(i, d),
         NEW n \in Node, ToldAll(n)
  PROVE  InStep(i, d)'
  <1> USE Numbers DEF TypeOK, BusTypeOK
  <1>1. pc[n] = "told" /\ sendflag[n] /\ (Master(n, i, d) \/ LastMaster(n, i, d))
    BY DEF ToldAll, TakeSent, InStep, Role, Master, Gone, Slave, Late, LastMaster, Over
  <1>2. /\ pc' = [pc EXCEPT ![n] = "fit"] /\ sendflag' = [sendflag EXCEPT ![n] = FALSE]
        /\ UNCHANGED <<twi, out, deaf, rx, rI2C, recvflag, stage, cnt, light>>
    BY DEF ToldAll, TakeSent, Goto
  <1>3. Speaking(i)' => Speaking(i)
    BY <1>2 DEF Speaking
  <1>4. Role(n, i, d)'
    <2>1. Master(n, i, d) => Master(n, i, d)'
      BY <1>1, <1>2 DEF Master, NoMail, Quiet, Spare, Early, Handed
    <2>2. LastMaster(n, i, d) => LastMaster(n, i, d)'
      BY <1>1, <1>2, <1>3 DEF LastMaster, NoMail, Mail, Quiet, Spare, Early
    <2> QED
      BY <1>1, <1>2, <2>1, <2>2 DEF InStep, Role, Late, Master, LastMaster
  <1>5. ASSUME NEW k \in Node, k # n PROVE Role(k, i, d)'
    BY <1>2, <1>3, <1>5, Bystander DEF InStep
  <1> QED
    BY <1>4, <1>5 DEF InStep

(* The MASTER goes dark; a SLAVE that still reads takes its last sample.   *)
LEMMA LightOffStep ==
  ASSUME TypeOK, NEW i \in 0 .. N, NEW d \in 0 .. DimU, InStep(i, d),
         NEW n \in Node, LightOff(n)
  PROVE  InStep(i, d)'
  <1> USE Numbers DEF TypeOK, BusTypeOK, Lights
  <1>1. n = i /\ Master(n, i, d) /\ pc[n] = "off"
    BY DEF LightOff, InStep, Role, Master, Gone, Slave, Late, LastMaster, Over
  <1>2. /\ pc' = [pc EXCEPT ![n] = "tell"] /\ light' = [light EXCEPT ![n] = 0]
        /\ UNCHANGED <<busVars, stage, cnt>>
    BY DEF LightOff, SetLed, Goto
  <1>3. (Speaking(i)' => Speaking(i)) /\ Role(n, i, d)'
    <2>1. Master(n, i, d)'
      BY <1>1, <1>2 DEF Master, busVars, NoMail, Quiet, Spare, Early, Handed
    <2>2. Speaking(i)' => Speaking(i)
      BY <1>1, <1>2 DEF Speaking, busVars
    <2> QED
      BY <1>1, <1>2, <2>1, <2>2 DEF Role, InStep, busVars
  <1>4. ASSUME NEW k \in Node, k # n PROVE Role(k, i, d)'
    BY <1>2, <1>3, <1>4, Bystander DEF InStep, busVars
  <1> QED
    BY <1>3, <1>4 DEF InStep

(* The MASTER has its sample.                                              *)
LEMMA MasterReadStep ==
  ASSUME TypeOK, NEW i \in 0 .. N, NEW d \in 0 .. DimU, InStep(i, d),
         NEW n \in Node, MasterRead(n)
  PROVE  InStep(i, d)'
  <1> USE Numbers DEF TypeOK, BusTypeOK, Lights
  <1>1. n = i /\ Master(n, i, d) /\ pc[n] = "read" /\ cnt[n] < DimU
    <2>1. pc[n] = "read" /\ stage[n] = n
      BY DEF MasterRead, IsMaster, EndRead
    <2> QED
      BY <2>1 DEF InStep, Role, Master, Gone, Slave, Late, LastMaster, Over
  <1>2. /\ pc' = [pc EXCEPT ![n] = IF cnt[n] + 1 < DimU THEN "lamp" ELSE "off"]
        /\ cnt' = [cnt EXCEPT ![n] = cnt[n] + 1]
        /\ UNCHANGED <<busVars, stage, light>>
    BY <1>1 DEF MasterRead, EndRead, Goto
  <1>3. (Speaking(i)' => Speaking(i)) /\ Role(n, i, d)'
    <2>1. Master(n, i, d)'
      <3>0. cnt[n] \in Nat /\ cnt'[n] = cnt[n] + 1 /\ light[n] = cnt[n]
        BY <1>1, <1>2 DEF Master
      <3>1. /\ cnt'[n] \in Nat /\ cnt'[n] # 0 /\ light'[n] = cnt'[n] - 1
            /\ stage'[n] = i /\ NoMail(n)'
        <4>1. cnt'[n] \in Nat /\ cnt'[n] # 0 /\ cnt[n] = cnt'[n] - 1
          <5>1. cnt[n] + 1 = cnt'[n]
            BY <3>0
          <5> QED
            BY <3>0, <5>1, Successor, Zenon
        <4>2. light'[n] = cnt'[n] - 1
          BY <1>2, <3>0, <4>1
        <4>3. stage'[n] = i /\ NoMail(n)'
          BY <1>1, <1>2 DEF Master, busVars, NoMail
        <4> QED
          BY <4>1, <4>2, <4>3
      <3>2. \/ Quiet(n)' /\ cnt'[n] = d
            \/ Early(n)' /\ Handed(n, SR)' /\ cnt'[n] = d+1
            \/ Early(n)' /\ twi'[n] = "stop" /\ cnt'[n] = d
        BY <1>1, <1>2 DEF Master, busVars, Quiet, Spare, Early, Handed
      <3>3. CASE cnt[n] + 1 < DimU
        BY <1>1, <1>2, <3>1, <3>2, <3>3 DEF Master
      <3>4. CASE ~(cnt[n] + 1 < DimU)
        <4>1. pc'[n] = "off" /\ cnt'[n] = DimU
          <5>1. cnt[n] + 1 = DimU
            BY <1>1, <3>0, <3>4
          <5> QED
            BY <1>2, <3>0, <3>4, <5>1
        <4> QED
          BY <1>1, <3>1, <3>2, <4>1 DEF Master
      <3> QED
        BY <3>3, <3>4
    <2>2. Speaking(i)' => Speaking(i)
      BY <1>1, <1>2 DEF Speaking, busVars
    <2>3. ~Late(n, i, d)'
      BY <1>1, <1>2 DEF Late, Master
    <2> QED
      BY <1>1, <1>2, <2>1, <2>2, <2>3 DEF Role, InStep, busVars
  <1>4. ASSUME NEW k \in Node, k # n PROVE Role(k, i, d)'
    BY <1>2, <1>3, <1>4, Bystander DEF InStep, busVars
  <1> QED
    BY <1>3, <1>4 DEF InStep

(* A SLAVE has its sample.                                                 *)
LEMMA SlaveReadStep ==
  ASSUME TypeOK, NEW i \in 0 .. N, NEW d \in 0 .. DimU, InStep(i, d),
         NEW n \in Node, SlaveRead(n)
  PROVE  InStep(i, d)'
  <1> USE Numbers DEF TypeOK, BusTypeOK, Lights
  <1>1. n # i /\ Slave(n, i, d) /\ pc[n] = "read" /\ cnt[n] < DimU /\ cnt[n] + 1 = d
    <2>1. pc[n] = "read" /\ stage[n] # n
      BY DEF SlaveRead, IsMaster, EndRead
    <2>2. Slave(n, i, d)
      BY <2>1 DEF InStep, Role, Master, Gone, Slave, Late, LastMaster, Over
    <2>3. cnt[n] + 1 = d
      BY <2>1, <2>2 DEF Slave
    <2>4. n # i
      BY <2>2 DEF Slave
    <2>5. cnt[n] \in Nat /\ d <= DimU
      OBVIOUS
    <2>6. cnt[n] < DimU
      BY <2>3, <2>5
    <2> QED
      BY <2>1, <2>2, <2>3, <2>4, <2>6
  <1>2. /\ pc' = [pc EXCEPT ![n] = "lookMS"] /\ cnt' = [cnt EXCEPT ![n] = d]
        /\ UNCHANGED <<busVars, stage, light>>
    BY <1>1 DEF SlaveRead, EndRead, Goto
  <1>3. (Speaking(i)' => Speaking(i)) /\ Role(n, i, d)'
    <2>1. Speaking(i)' => Speaking(i)
      BY <1>1, <1>2 DEF Speaking, busVars
    <2>2. Slave(n, i, d)'
      BY <1>1, <1>2, <2>1 DEF Slave, busVars, NoMail, Quiet, Spare
    <2>3. ~Late(n, i, d)'
      BY <1>1, <1>2 DEF Late, Slave
    <2> QED
      BY <1>1, <1>2, <2>1, <2>2, <2>3 DEF Role, InStep, busVars
  <1>4. ASSUME NEW k \in Node, k # n PROVE Role(k, i, d)'
    BY <1>2, <1>3, <1>4, Bystander DEF InStep, busVars
  <1> QED
    BY <1>3, <1>4 DEF InStep

(* A SLAVE takes a message and looks at it.                                *)
LEMMA HearStep ==
  ASSUME TypeOK, NEW i \in 0 .. N, NEW d \in 0 .. DimU, InStep(i, d),
         NEW n \in Node, Hear(n)
  PROVE  InStep(i, d)'
  <1> USE Numbers DEF TypeOK, BusTypeOK, Lights
  <1>1. /\ pc[n] = "wait" /\ recvflag[n]
        /\ (Slave(n, i, d) /\ Mail(n, SR)) \/ Late(n, i, d)
    BY DEF Hear, TakeReceived, InStep, Role, Master, Gone, Slave, Late, LastMaster, Over, NoMail
  <1>2. /\ pc' = [pc EXCEPT ![n] = "look"] /\ recvflag' = [recvflag EXCEPT ![n] = FALSE]
        /\ UNCHANGED <<twi, out, deaf, rx, rI2C, sendflag, stage, cnt, light>>
    BY <1>1 DEF Hear, TakeReceived, Goto
  <1>3. Speaking(i)' => Speaking(i)
    BY <1>1, <1>2 DEF Speaking
  <1>4. Role(n, i, d)'
    <2>1. Slave(n, i, d) => Slave(n, i, d)'
      BY <1>1, <1>2, <1>3 DEF Slave, NoMail, Mail, Quiet, Spare
    <2>2. Late(n, i, d) => Late(n, i, d)'
      BY <1>1, <1>2, <1>3 DEF Late, NoMail, Mail, Quiet, Spare
    <2> QED
      BY <1>1, <1>2, <2>1, <2>2 DEF Role, InStep, Slave
  <1>5. ASSUME NEW k \in Node, k # n PROVE Role(k, i, d)'
    BY <1>2, <1>3, <1>5, Bystander DEF InStep
  <1> QED
    BY <1>4, <1>5 DEF InStep

(* A SLAVE that looks for "SR" finds it, or holds the "MS" instead.        *)
LEMMA LookSRStep ==
  ASSUME TypeOK, NEW i \in 0 .. N, NEW d \in 0 .. DimU, InStep(i, d),
         NEW n \in Node, LookSR(n)
  PROVE  InStep(i, d)'
  <1> USE Numbers, CalibrationAssumption DEF TypeOK, BusTypeOK, Lights
  <1>1. /\ pc[n] = "look" /\ NoMail(n)
        /\ (Slave(n, i, d) /\ rI2C[n] = SR) \/ (Late(n, i, d) /\ rI2C[n] = MS)
    BY DEF LookSR, InStep, Role, Master, Gone, Slave, Late, LastMaster, Over
  <1>2. /\ \/ Slave(n, i, d) /\ pc' = [pc EXCEPT ![n] = "read"] /\ rI2C' = [rI2C EXCEPT ![n] = NoMsg]
           \/ Late(n, i, d) /\ pc' = [pc EXCEPT ![n] = "lookMS"] /\ UNCHANGED rI2C
        /\ UNCHANGED <<twi, out, deaf, rx, recvflag, sendflag, stage, cnt, light>>
    BY <1>1 DEF LookSR, BeginRead, Goto
  <1>3. Speaking(i)' => Speaking(i)
    <2>1. pc'[n] # "ask"
      BY <1>2
    <2> QED
      BY <1>2, <2>1 DEF Speaking
  <1>4. Role(n, i, d)'
    <2>1. CASE pc' = [pc EXCEPT ![n] = "read"]
      <3>1. Slave(n, i, d)
        BY <1>1, <1>2, <2>1
      <3>2. Slave(n, i, d)'
        BY <1>1, <1>2, <1>3, <2>1, <3>1 DEF Slave, NoMail, Mail, Quiet, Spare
      <3> QED
        BY <1>1, <1>2, <3>1, <3>2 DEF Role, InStep, Slave
    <2>2. CASE pc' = [pc EXCEPT ![n] = "lookMS"]
      <3>1. Late(n, i, d) /\ UNCHANGED rI2C
        BY <1>1, <1>2, <2>2
      <3>2. Late(n, i, d)'
        BY <1>1, <1>2, <1>3, <2>2, <3>1 DEF Late, NoMail, Quiet, Spare
      <3> QED
        BY <1>2, <3>1, <3>2 DEF Role, InStep
    <2> QED
      BY <1>2, <2>1, <2>2
  <1>5. ASSUME NEW k \in Node, k # n PROVE Role(k, i, d)'
    BY <1>2, <1>3, <1>5, Bystander DEF InStep
  <1> QED
    BY <1>4, <1>5 DEF InStep

(* A SLAVE that looks for "MS" has none unless the stage is over.          *)
LEMMA LookMSStep ==
  ASSUME TypeOK, NEW i \in 0 .. N, NEW d \in 0 .. DimU, InStep(i, d),
         NEW n \in Node, LookMS(n)
  PROVE  InStep(i, d)'
  <1> USE Numbers, CalibrationAssumption DEF TypeOK, BusTypeOK, Lights
  <1>1. /\ pc[n] = "lookMS" /\ NoMail(n)
        /\ (Slave(n, i, d) /\ rI2C[n] = NoMsg) \/ (Late(n, i, d) /\ rI2C[n] = MS)
    BY DEF LookMS, InStep, Role, Master, Gone, Slave, Late, LastMaster, Over
  <1>2. /\ \/ Slave(n, i, d) /\ pc' = [pc EXCEPT ![n] = "wait"] /\ UNCHANGED rI2C
           \/ Late(n, i, d) /\ pc' = [pc EXCEPT ![n] = "fit"] /\ rI2C' = [rI2C EXCEPT ![n] = NoMsg]
        /\ UNCHANGED <<twi, out, deaf, rx, recvflag, sendflag, stage, cnt, light>>
    BY <1>1 DEF LookMS, Goto
  <1>3. Speaking(i)' => Speaking(i)
    <2>1. pc'[n] # "ask"
      BY <1>2
    <2> QED
      BY <1>2, <2>1 DEF Speaking
  <1>4. Role(n, i, d)'
    <2>1. CASE pc' = [pc EXCEPT ![n] = "wait"]
      <3>1. Slave(n, i, d)
        BY <1>1, <1>2, <2>1
      <3>2. Slave(n, i, d)'
        BY <1>1, <1>2, <1>3, <2>1, <3>1 DEF Slave, NoMail, Quiet, Spare
      <3> QED
        BY <1>1, <1>2, <3>1, <3>2 DEF Role, InStep, Slave
    <2>2. CASE pc' = [pc EXCEPT ![n] = "fit"]
      <3>1. Late(n, i, d)
        BY <1>1, <1>2, <2>2
      <3>2. Late(n, i, d)'
        BY <1>1, <1>2, <1>3, <2>2, <3>1 DEF Late, NoMail, Quiet, Spare
      <3> QED
        BY <1>2, <3>1, <3>2 DEF Role, InStep
    <2> QED
      BY <1>2, <2>1, <2>2
  <1>5. ASSUME NEW k \in Node, k # n PROVE Role(k, i, d)'
    BY <1>2, <1>3, <1>5, Bystander DEF InStep
  <1> QED
    BY <1>4, <1>5 DEF InStep

(* The end of a stage for board n, which enters the next one.              *)
LEMMA FitStep ==
  ASSUME TypeOK, InRange, NEW i \in 0 .. N, NEW d \in 0 .. DimU, InStep(i, d),
         NEW n \in Node, Fit(n)
  PROVE  InStep(i, d)'
  <1> USE Numbers, CalibrationAssumption DEF TypeOK, BusTypeOK, Lights
  <1>1. /\ pc[n] = "fit"
        /\ Master(n, i, d) \/ Late(n, i, d) \/ LastMaster(n, i, d)
    BY DEF Fit, InStep, Role, Master, Gone, Slave, Late, LastMaster, Over
  <1>2. /\ pc' = [pc EXCEPT ![n] = pc'[n]]
        /\ pc'[n] = (IF stage[n] = N-1 THEN "done" ELSE Enter(n, stage[n] + 1))
        /\ stage' = [stage EXCEPT ![n] = stage[n] + 1]
        /\ cnt' = [cnt EXCEPT ![n] = 0]
        /\ UNCHANGED <<twi, out, deaf, rx, rI2C, recvflag, sendflag, light>>
    BY <1>1 DEF Fit, Goto, busVars
  <1>3. Speaking(i)' => Speaking(i)
    <2>1. pc'[n] # "ask"
      BY <1>2 DEF Enter
    <2> QED
      BY <1>2, <2>1 DEF Speaking
  <1>4. Role(n, i, d)'
    <2>1. CASE Master(n, i, d)
      <3>1. n = N-1 /\ stage[n] = n /\ Early(n) /\ Handed(n, MS) /\ NoMail(n) /\ light[n] = 0
        BY <1>1, <2>1 DEF Master, Early
      <3>2. Gone(n, i, d)'
        BY <1>1, <1>2, <2>1, <3>1 DEF Gone, Master, NoMail, Handed, Early
      <3> QED
        BY <1>1, <1>2, <2>1, <3>1, <3>2 DEF Role, InStep, Master
    <2>2. CASE Late(n, i, d)
      <3>1. /\ stage'[n] = i /\ n + 1 # i /\ NoMail(n)' /\ Quiet(n)' /\ cnt'[n] = 0 /\ d = 0
            /\ light'[n] = 0
        BY <1>1, <1>2, <2>2 DEF Late, NoMail, Quiet, Spare, InStep, Role
      <3>2. CASE i = N
        <4>1. pc'[n] = "done"
          <5>1. stage[n] + 1 = N /\ stage[n] \in Nat
            BY <2>2, <3>2 DEF Late
          <5> HIDE Numbers, CalibrationAssumption DEF TypeOK
          <5>2. stage[n] = N-1
            BY <5>1, Successor, Zenon
          <5> QED
            BY <1>2, <5>2
        <4>2. Over(n, i, d)'
          BY <3>1, <3>2, <4>1 DEF Over
        <4> QED
          BY <1>2, <3>1, <4>2 DEF Role, InStep
      <3>3. CASE i # N /\ n = i
        <4>1. pc'[n] = "lamp"
          BY <1>2, <2>2, <3>3 DEF Late, Enter
        <4>2. Master(n, i, d)'
          BY <3>1, <3>3, <4>1 DEF Master
        <4> QED
          BY <1>2, <3>1, <4>2 DEF Role, InStep
      <3>4. CASE i # N /\ n # i
        <4>1. pc'[n] = "wait"
          BY <1>2, <2>2, <3>4 DEF Late, Enter
        <4>2. Slave(n, i, d)'
          BY <3>1, <3>4, <4>1 DEF Slave
        <4> QED
          BY <1>2, <3>1, <4>2 DEF Role, InStep
      <3> QED
        BY <3>2, <3>3, <3>4
    <2>3. CASE LastMaster(n, i, d)
      <3>1. n + 1 = i /\ n # i /\ stage'[n] = i /\ cnt'[n] = 0 /\ light'[n] = 0
        BY <1>2, <2>3 DEF LastMaster, InStep, Role
      <3>2. CASE i = N
        <4>1. pc'[n] = "done"
          <5>1. stage[n] + 1 = N /\ stage[n] \in Nat
            BY <2>3, <3>2 DEF LastMaster
          <5> HIDE Numbers, CalibrationAssumption DEF TypeOK
          <5>2. stage[n] = N-1
            BY <5>1, Successor, Zenon
          <5> QED
            BY <1>2, <5>2
        <4>2. Over(n, i, d)'
          BY <1>1, <1>2, <2>3, <3>1, <3>2, <4>1
             DEF Over, LastMaster, NoMail, Quiet, Spare, Early
        <4> QED
          BY <1>2, <3>1, <4>2 DEF Role, InStep
      <3>3. CASE i # N
        <4>1. pc'[n] = "wait"
          BY <1>2, <2>3, <3>3 DEF LastMaster, Enter
        <4>2. Quiet(n)'
          BY <1>1, <1>2, <2>3, <3>1, <3>3 DEF LastMaster, Early, Quiet, Spare
        <4>3. \/ NoMail(n)' /\ d = 0
              \/ Mail(n, SR)' /\ d = 1 /\ ~Speaking(i)'
          BY <1>2, <1>3, <2>3 DEF LastMaster, NoMail, Mail
        <4>4. Slave(n, i, d)'
          BY <3>1, <3>3, <4>1, <4>2, <4>3 DEF Slave
        <4> QED
          BY <1>2, <3>1, <4>4 DEF Role, InStep
      <3> QED
        BY <3>2, <3>3
    <2> QED
      BY <1>1, <2>1, <2>2, <2>3
  <1>5. ASSUME NEW k \in Node, k # n PROVE Role(k, i, d)'
    BY <1>2, <1>3, <1>5, Bystander DEF InStep
  <1> QED
    BY <1>4, <1>5 DEF InStep

(* The last interrupt of a message: its sender was waiting for it, or is   *)
(* early and has a sendflag to spare again.                                *)
LEMMA SentStep ==
  ASSUME TypeOK, NEW i \in 0 .. N, NEW d \in 0 .. DimU, InStep(i, d),
         NEW n \in Node, Sent(n)
  PROVE  InStep(i, d)'
  <1> USE Numbers DEF TypeOK, BusTypeOK, Lights
  <1>1. twi[n] = "stop" /\ (Master(n, i, d) \/ LastMaster(n, i, d) \/ Over(n, i, d))
    BY DEF Sent, SentISR, InStep, Role, Gone, Handed, Slave, Late, Quiet
  <1>2. /\ twi' = [twi EXCEPT ![n] = "idle"] /\ deaf' = [deaf EXCEPT ![n] = FALSE]
        /\ sendflag' = [sendflag EXCEPT ![n] = TRUE]
        /\ UNCHANGED <<out, rx, rI2C, recvflag, pc, stage, cnt, light>>
    BY DEF Sent, SentISR, mainVars
  <1>3. Speaking(i)' => Speaking(i)
    BY <1>2 DEF Speaking
  <1>4. Role(n, i, d)'
    <2>1. Master(n, i, d) => Master(n, i, d)'
      BY <1>1, <1>2 DEF Master, NoMail, Quiet, Spare, Early, Handed
    <2>2. LastMaster(n, i, d) => LastMaster(n, i, d)'
      BY <1>1, <1>2, <1>3 DEF LastMaster, NoMail, Mail, Quiet, Spare, Early
    <2>3. Over(n, i, d) => Over(n, i, d)'
      BY <1>1, <1>2 DEF Over, NoMail, Quiet, Spare, Early
    <2>4. ~Late(n, i, d)'
      BY <1>1, <1>2 DEF Late, Master, LastMaster, Over
    <2> QED
      BY <1>1, <1>2, <2>1, <2>2, <2>3, <2>4 DEF InStep, Role
  <1>5. ASSUME NEW k \in Node, k # n PROVE Role(k, i, d)'
    BY <1>2, <1>3, <1>5, Bystander DEF InStep
  <1> QED
    BY <1>4, <1>5 DEF InStep

(* The interrupt of a board that has received moves the message from the   *)
(* bus to its buffer.                                                      *)
LEMMA ReceivedStep ==
  ASSUME TypeOK, NEW i \in 0 .. N, NEW d \in 0 .. DimU, InStep(i, d),
         NEW n \in Node, Received(n)
  PROVE  InStep(i, d)'
  <1> USE Numbers, CalibrationAssumption DEF TypeOK, BusTypeOK, Lights
  <1>1. /\ rx[n] # NoMsg /\ pc[n] # "lookMS" /\ pc[n] # "look"
        /\ Slave(n, i, d) \/ Late(n, i, d) \/ LastMaster(n, i, d)
    BY DEF Received, ReceiveISR, InStep, Role, Master, Gone, Over, Slave, Late, LastMaster, NoMail
  <1>2. /\ rI2C' = [rI2C EXCEPT ![n] = rx[n]] /\ recvflag' = [recvflag EXCEPT ![n] = TRUE]
        /\ rx' = [rx EXCEPT ![n] = NoMsg]
        /\ UNCHANGED <<twi, out, deaf, sendflag, pc, stage, cnt, light>>
    BY DEF Received, ReceiveISR, mainVars
  <1>3. (Speaking(i)' <=> Speaking(i)) /\ ~NoMail(n)
    BY <1>1, <1>2 DEF Speaking, NoMail
  <1>4. ASSUME NEW msg \in Message, Mail(n, msg) PROVE Mail(n, msg)'
    BY <1>1, <1>2, <1>4 DEF Mail
  <1>5. Role(n, i, d)'
    <2>1. Slave(n, i, d) => Slave(n, i, d)'
      BY <1>1, <1>2, <1>3, <1>4 DEF Slave, Quiet, Spare, Message
    <2>2. Late(n, i, d) <=> Late(n, i, d)'
      <3>1. Late(n, i, d) => Late(n, i, d)'
        BY <1>1, <1>2, <1>3, <1>4 DEF Late, Quiet, Spare, Message
      <3>2. Slave(n, i, d) \/ LastMaster(n, i, d) => ~Late(n, i, d)'
        BY <1>2 DEF Slave, Late, LastMaster
      <3> QED
        BY <1>1, <3>1, <3>2
    <2>3. LastMaster(n, i, d) => LastMaster(n, i, d)'
      BY <1>1, <1>2, <1>3, <1>4 DEF LastMaster, Quiet, Spare, Early, Message
    <2> QED
      BY <1>1, <1>2, <2>1, <2>2, <2>3 DEF InStep, Role
  <1>6. ASSUME NEW k \in Node, k # n PROVE Role(k, i, d)'
    BY <1>2, <1>3, <1>6, Bystander DEF InStep
  <1> QED
    BY <1>5, <1>6 DEF InStep

(* "SR" makes every attentive board owe one more sample, "MS" ends the     *)
(* stage.                                                                  *)
LEMMA BroadcastStep ==
  ASSUME TypeOK, NEW i \in 0 .. N, NEW d \in 0 .. DimU, InStep(i, d),
         NEW n \in Node, Broadcast(n)
  PROVE  LockStep'
  <1> USE Numbers, CalibrationAssumption DEF TypeOK, BusTypeOK, Lights
  <1>1. /\ n = i /\ twi[n] = "start" /\ Speaking(i)
        /\ twi' = [twi EXCEPT ![n] = "stop"]
        /\ rx' = [k \in Node |-> IF k = n THEN NoMsg ELSE out[n]]
        /\ UNCHANGED <<out, deaf, rI2C, recvflag, sendflag, pc, stage, cnt, light>>
    BY BroadcastReaches DEF mainVars
  <1>2. Master(n, i, d) \/ Gone(n, i, d)
    BY <1>1 DEF InStep, Role, Slave, Late, LastMaster, Over, Quiet
  <1>3. ~Late(n, i, d) /\ NoMail(n)' /\ (deaf'[n] => twi'[n] # "idle")
    BY <1>1, <1>2 DEF Late, Master, Gone, NoMail
  <1>4. ASSUME NEW k \in Node, k # n
        PROVE  /\ Slave(k, i, d) \/ LastMaster(k, i, d)
               /\ NoMail(k) /\ light[k] = 0 /\ (deaf'[k] => twi'[k] # "idle")
               /\ rx'[k] = out[n] /\ ~recvflag'[k]
    <2>1. Slave(k, i, d) \/ Late(k, i, d) \/ LastMaster(k, i, d)
      BY <1>1, <1>4 DEF InStep, Role, Master, Gone, Over
    <2>2. ~Late(k, i, d) /\ NoMail(k)
      BY <1>1, <2>1 DEF Late, Slave, LastMaster
    <2> QED
      BY <1>1, <1>4, <2>1, <2>2 DEF InStep, Role, NoMail
  <1>5. CASE out[n] = SR
    <2>1. Master(n, i, d) /\ d < DimU
      <3>1. Master(n, i, d) /\ cnt[n] \in Nat /\ twi[n] # "idle"
        BY <1>1, <1>2, <1>5 DEF Gone, Handed
      <3>2. (cnt[n] \in {d, d+1} /\ cnt[n] < DimU) \/ d + 1 = DimU
        BY <1>1, <1>5, <3>1 DEF Master, Handed, Quiet
      <3> QED
        BY <3>1, <3>2
    <2>2. d + 1 \in 0 .. DimU /\ d + 1 # 0
      BY <2>1
    <2>3. Master(n, i, d+1)'
      BY <1>1, <1>3, <1>5, <2>1, <2>2 DEF Master, Handed, Quiet, Early, Spare
    <2>4. ~Speaking(i)'
      BY <1>1, <1>5, <2>1 DEF Master, Speaking, Handed, Quiet
    <2>5. ~Late(n, i, d+1)'
      BY <2>2 DEF Late
    <2>6. Role(n, i, d+1)'
      BY <1>1, <1>3, <2>3, <2>5 DEF Role
    <2>7. ASSUME NEW k \in Node, k # n PROVE Role(k, i, d+1)'
      <3>1. Mail(k, SR)'
        BY <1>4, <1>5, <2>7 DEF Mail
      <3>2. Slave(k, i, d) => Slave(k, i, d+1)'
        BY <1>1, <1>4, <2>4, <2>7, <3>1 DEF Slave, Quiet, Spare
      <3>3. LastMaster(k, i, d) => LastMaster(k, i, d+1)'
        BY <1>1, <1>4, <2>4, <2>7, <3>1 DEF LastMaster, Quiet, Spare, Early
      <3> QED
        BY <1>1, <1>4, <2>7, <3>2, <3>3 DEF Role
    <2> QED
      BY <2>2, <2>6, <2>7 DEF LockStep, InStep
  <1>6. CASE out[n] # SR
    <2>1. /\ out[n] = MS /\ d = DimU /\ light[n] = 0
          /\ \/ Master(n, i, d) /\ pc[n] \in {"told", "fit"} /\ cnt[n] = DimU
             \/ Gone(n, i, d)
      <3>1. CASE Master(n, i, d)
        <4>1. pc[n] \in {"told", "fit"} /\ Handed(n, MS)
          BY <1>1, <1>6, <3>1 DEF Master, Handed, Quiet
        <4> QED
          BY <3>1, <4>1 DEF Master, Handed
      <3>2. CASE Gone(n, i, d)
        BY <3>2 DEF Gone, Handed
      <3> QED
        BY <1>2, <3>1, <3>2
    <2>2. i + 1 \in 0 .. N /\ 0 \in 0 .. DimU
      BY <1>1
    <2>3. ~Speaking(i+1)'
      <3>1. CASE i + 1 = N
        BY <3>1 DEF Speaking
      <3>2. CASE i + 1 # N
        <4>1. i + 1 \in Node /\ i + 1 # n
          BY <1>1, <2>2, <3>2
        <4>2. Slave(i+1, i, d) \/ LastMaster(i+1, i, d)
          BY <1>4, <4>1
        <4>3. twi[i+1] = "idle" /\ pc[i+1] # "ask"
          BY <1>1, <4>1, <4>2 DEF Slave, LastMaster, Quiet
        <4> QED
          BY <1>1, <4>1, <4>3 DEF Speaking
      <3> QED
        BY <3>1, <3>2
    <2>4. Role(n, i+1, 0)'
      <3>1. Master(n, i, d) => LastMaster(n, i+1, 0)'
        BY <1>1, <1>3, <2>1, <2>3 DEF LastMaster, Master, Handed, Quiet, Early, Spare
      <3>2. Gone(n, i, d) => Over(n, i+1, 0)'
        BY <1>1, <1>3 DEF Gone, Over, Early
      <3> QED
        BY <1>1, <1>3, <2>1, <3>1, <3>2 DEF Role
    <2>5. ASSUME NEW k \in Node, k # n PROVE Role(k, i+1, 0)'
      <3>1. Mail(k, MS)'
        BY <1>4, <2>1, <2>5 DEF Mail
      <3>2. Slave(k, i, d)
        BY <1>1, <1>4, <2>1, <2>5 DEF LastMaster
      <3>3. Late(k, i+1, 0)'
        BY <1>1, <1>4, <2>1, <2>3, <2>5, <3>1, <3>2 DEF Late, Slave, Quiet, Spare
      <3> QED
        BY <1>1, <1>4, <2>5, <3>3 DEF Role
    <2> QED
      BY <2>2, <2>4, <2>5 DEF LockStep, InStep
  <1> QED
    BY <1>5, <1>6

(* Every step keeps all boards in their roles.                             *)
LEMMA LockStepStep ==
  ASSUME TypeOK, InRange, LockStep, [Next]_vars
  PROVE  LockStep'
  <1>1. PICK i \in 0 .. N, d \in 0 .. DimU : InStep(i, d)
    BY DEF LockStep
  <1>2. InStep(i, d)' => LockStep'
    BY DEF LockStep
  <1>3. ASSUME NEW n \in Node,
               \/ Lamp(n) \/ Ask(n) \/ AskedAll(n) \/ MasterRead(n) \/ LightOff(n) \/ Tell(n)
               \/ ToldAll(n)
        PROVE  LockStep'
    BY <1>1, <1>2, <1>3, LampStep, AskStep, AskedAllStep, MasterReadStep, LightOffStep,
       TellStep, ToldAllStep
  <1>4. ASSUME NEW n \in Node,
               Hear(n) \/ LookSR(n) \/ SlaveRead(n) \/ LookMS(n) \/ Fit(n)
        PROVE  LockStep'
    BY <1>1, <1>2, <1>4, HearStep, LookSRStep, SlaveReadStep, LookMSStep, FitStep
  <1>5. ASSUME NEW n \in Node, Broadcast(n) \/ Sent(n) \/ Received(n) PROVE LockStep'
    BY <1>1, <1>2, <1>5, BroadcastStep, SentStep, ReceivedStep
  <1>6. CASE UNCHANGED vars
    <2>1. Speaking(i)' => Speaking(i)
      BY <1>6 DEF vars, busVars, mainVars, Speaking
    <2>2. ASSUME NEW k \in Node PROVE Role(k, i, d)'
      BY <1>1, <1>6, <2>1, Bystander DEF vars, busVars, mainVars, InStep
    <2> QED
      BY <1>2, <2>2 DEF InStep
  <1> QED
    BY <1>3, <1>4, <1>5, <1>6 DEF Next, Main

(* However many boards there are, none falls out of step.                  *)
THEOREM BoardsKeepStep == Safety => []LockStep
  <1>1. Init => LockStep
    <2> SUFFICES ASSUME Init PROVE InStep(0, 0)
      BY Numbers DEF LockStep
    <2>1. ASSUME NEW n \in Node PROVE Role(n, 0, 0)
      <3>1. NoMail(n) /\ Quiet(n) /\ ~deaf[n] /\ light[n] = 0 /\ stage[n] = 0 /\ cnt[n] = 0
        BY InitFlags DEF Init, BusInit, NoMail, Quiet, Spare, AllDark
      <3>2. n = 0 => Master(n, 0, 0)
        BY <3>1, Numbers DEF Init, Enter, Master
      <3>3. n # 0 => Slave(n, 0, 0)
        BY <3>1, Numbers DEF Init, Enter, Slave
      <3> QED
        BY <3>1, <3>2, <3>3 DEF Role
    <2> QED
      BY <2>1 DEF InStep
  <1> QED
    BY <1>1, TypeInvariant, LockStepStep, PTL DEF Safety

--------------------------------------------------------------------------------
(* What keeping step gives.                                                *)

(* Two lamps are never on together.                                        *)
THEOREM OneLampHolds == Safety => []OneLamp
  <1>1. LockStep => OneLamp
    BY DEF LockStep, InStep, Role, OneLamp
  <1> QED
    BY <1>1, BoardsKeepStep, PTL

(* A board that is done leaves no message and no flag behind, but for the  *)
(* sendflag of the board that counted.                                     *)
THEOREM CleanHandoverHolds == Safety => []CleanHandover
  <1>1. TypeOK /\ LockStep => CleanHandover
    <2> SUFFICES ASSUME TypeOK, LockStep, NEW n \in Node, pc[n] = "done"
                 PROVE  /\ rx[n] = NoMsg /\ ~recvflag[n] /\ light[n] = 0
                        /\ n # N-1 => twi[n] = "idle" /\ ~sendflag[n]
      BY DEF CleanHandover
    <2>1. PICK i \in 0 .. N, d \in 0 .. DimU : Role(n, i, d)
      BY DEF LockStep, InStep
    <2>2. Gone(n, i, d) \/ Over(n, i, d)
      BY <2>1 DEF Role, Master, Slave, Late, LastMaster
    <2>3. light[n] = 0
      BY <2>1, <2>2, Numbers DEF Role, Gone, Over
    <2> QED
      BY <2>2, <2>3 DEF Gone, Over, NoMail, Quiet, Spare, Early
  <1> QED
    BY <1>1, TypeCorrect, BoardsKeepStep, PTL

(* What a board that keeps step has seen in sample j of stage i, given     *)
(* that the lamp of the MASTER goes out at once after the last sample.     *)
Fair(i, j, s) ==
  IF j < DimU-1 THEN s = {Only(i, j)} ELSE s # {} /\ s \subseteq {Only(i, j), AllDark}

SampleOf(n) ==
  /\ \A j \in Level : j < cnt[n] => Fair(stage[n], j, y[n][j])
  /\ pc[n] = "read" => cnt[n] < DimU /\ Fair(stage[n], cnt[n], seen[n])

Samples == \A n \in Node : SampleOf(n)

(* All lamps but that of the MASTER are dark.                              *)
LEMMA LightsNow ==
  ASSUME TypeOK, NEW i \in 0 .. N, NEW d \in 0 .. DimU, InStep(i, d), i \in Node
  PROVE  light = Only(i, light[i])
  <1>1. \A k \in Node : k # i => light[k] = 0
    BY DEF InStep, Role
  <1> QED
    BY <1>1 DEF TypeOK, Lights, Only, AllDark

(* A board that reads is a SLAVE with one sample to take, or the MASTER.   *)
LEMMA Reader ==
  ASSUME TypeOK, NEW i \in 0 .. N, NEW d \in 0 .. DimU, InStep(i, d),
         NEW k \in Node, pc[k] = "read"
  PROVE  /\ stage[k] = i /\ cnt[k] < DimU
         /\ k # i => Slave(k, i, d) /\ cnt[k] + 1 = d /\ ~Speaking(i)
  <1> USE Numbers DEF TypeOK
  <1>1. Master(k, i, d) \/ Slave(k, i, d)
    BY DEF InStep, Role, Gone, Late, LastMaster, Over
  <1>2. CASE Master(k, i, d)
    BY <1>2 DEF Master
  <1>3. CASE Slave(k, i, d)
    <2>1. k # i /\ stage[k] = i /\ cnt[k] + 1 = d /\ ~Speaking(i)
      BY <1>3 DEF Slave
    <2>2. cnt[k] \in Nat /\ d <= DimU
      OBVIOUS
    <2> QED
      BY <1>3, <2>1, <2>2
  <1> QED
    BY <1>1, <1>2, <1>3

(* While a SLAVE takes a sample the lamp has the level of that sample,     *)
(* unless it is the last: then it may be off already.                      *)
LEMMA SlaveLight ==
  ASSUME TypeOK, NEW i \in 0 .. N, NEW d \in 0 .. DimU, InStep(i, d),
         NEW k \in Node, Slave(k, i, d), cnt[k] + 1 = d, ~Speaking(i)
  PROVE  i \in Node /\ (light[i] = cnt[k] \/ (cnt[k] = DimU-1 /\ light[i] = 0))
  <1> USE Numbers DEF TypeOK
  <1>1. i \in Node /\ i < N /\ cnt[k] \in Nat /\ d # 0
    BY DEF Slave
  <1>2. pc[i] # "ask" /\ twi[i] # "start"
    BY <1>1 DEF Speaking
  <1>3. Master(i, i, d)
    BY <1>1, <1>2 DEF InStep, Role, Gone, Handed, Slave, Late, LastMaster, Over
  <1>4. cnt[k] = d - 1
    <2>1. cnt[k] \in Nat /\ cnt[k] + 1 = d
      BY <1>1
    <2> QED
      BY ONLY <2>1, Successor, Zenon
  <1>5. \/ pc[i] = "lamp" /\ cnt[i] = d /\ light[i] = cnt[i] - 1
        \/ pc[i] \in {"asked", "read"} /\ cnt[i] + 1 = d /\ light[i] = cnt[i]
        \/ pc[i] = "off" /\ d = DimU /\ light[i] = DimU - 1
        \/ pc[i] = "tell" /\ d = DimU /\ light[i] = 0
    BY <1>1, <1>2, <1>3 DEF Master, Handed
  <1> QED
    BY <1>1, <1>4, <1>5

(* So what it begins to see is fair.                                       *)
LEMMA BeginFair ==
  ASSUME TypeOK, NEW i \in Node, NEW j \in Level,
         light = Only(i, light[i]), light[i] = j \/ (j = DimU-1 /\ light[i] = 0)
  PROVE  Fair(i, j, {light})
  <1>1. Only(i, 0) = AllDark
    BY DEF Only, AllDark
  <1>2. CASE light[i] = j
    BY <1>2 DEF Fair
  <1>3. CASE j = DimU-1 /\ light[i] = 0
    BY <1>1, <1>3, Numbers DEF Fair
  <1> QED
    BY <1>2, <1>3

(* A board whose samples and whose reading are as before keeps them, and   *)
(* one that enters a stage has none.                                       *)
LEMMA SampleKept ==
  ASSUME TypeOK, NEW k \in Node, SampleOf(k),
         cnt'[k] = cnt[k], stage'[k] = stage[k], y'[k] = y[k],
         pc'[k] = "read" => pc[k] = "read" /\ seen'[k] = seen[k]
  PROVE  SampleOf(k)'
  BY DEF SampleOf, Fair, Only, AllDark

(* The last MASTER goes dark under readers of the last sample only.        *)
LEMMA LightOffSamples ==
  ASSUME TypeOK, LockStep, Samples, NEW n \in Node, LightOff(n)
  PROVE  Samples'
  <1> USE Numbers DEF TypeOK
  <1>1. PICK i \in 0 .. N, d \in 0 .. DimU : InStep(i, d)
    BY DEF LockStep
  <1>2. n = i /\ Master(n, i, d) /\ pc[n] = "off"
    BY <1>1 DEF LightOff, InStep, Role, Master, Gone, Slave, Late, LastMaster, Over
  <1>3. light' = AllDark
    <2>1. light = Only(i, light[i])
      BY <1>1, <1>2, LightsNow
    <2> QED
      BY <1>2, <2>1 DEF LightOff, SetLed, Only, AllDark
  <1>4. /\ \A k \in Node : pc'[k] = "read" => pc[k] = "read"
        /\ seen' = [k \in Node |-> IF pc[k] = "read" THEN seen[k] \cup {AllDark} ELSE seen[k]]
        /\ UNCHANGED <<y, cnt, stage>>
    BY <1>3 DEF LightOff, SetLed, Goto
  <1>5. ASSUME NEW k \in Node PROVE SampleOf(k)'
    <2>1. CASE pc[k] # "read"
      BY <1>4, <2>1, SampleKept DEF Samples
    <2>2. CASE pc[k] = "read"
      <3>1. k # i /\ cnt[k] + 1 = d /\ ~Speaking(i)
        BY <1>1, <1>2, <2>2, Reader
      <3>2. d = DimU
        BY <1>2, <3>1 DEF Master, Speaking, Handed
      <3>3. cnt[k] \in Nat /\ ~(cnt[k] < DimU-1) /\ cnt[k] < DimU
        BY <3>1, <3>2
      <3>4. Fair(stage[k], cnt[k], seen[k])
        BY <2>2 DEF Samples, SampleOf
      <3>5. Fair(stage[k], cnt[k], seen[k] \cup {AllDark})
        BY <3>3, <3>4 DEF Fair
      <3>6. seen'[k] = seen[k] \cup {AllDark} /\ cnt'[k] = cnt[k] /\ stage'[k] = stage[k] /\ y'[k] = y[k]
        BY <1>4, <2>2
      <3>7. Fair(stage'[k], cnt'[k], seen'[k])
        BY <3>5, <3>6
      <3>8. \A j \in Level : j < cnt'[k] => Fair(stage'[k], j, y'[k][j])
        BY <3>6 DEF Samples, SampleOf
      <3> QED
        BY <3>3, <3>6, <3>7, <3>8 DEF SampleOf, Fair, Only, AllDark
    <2> QED
      BY <2>1, <2>2
  <1> QED
    BY <1>5 DEF Samples

(* A sample that is taken is what was seen meanwhile.                      *)
LEMMA EndReadSamples ==
  ASSUME TypeOK, LockStep, Samples, NEW n \in Node, NEW next \in {"lamp", "off", "lookMS"},
         EndRead(n, next)
  PROVE  Samples'
  <1> USE Numbers DEF TypeOK
  <1>1. cnt[n] < DimU /\ Fair(stage[n], cnt[n], seen[n])
    BY DEF Samples, SampleOf, EndRead
  <1>2. /\ cnt'[n] = cnt[n] + 1 /\ stage' = stage /\ pc'[n] # "read"
        /\ y'[n] = [j \in Level |-> IF j = cnt[n] THEN seen[n] ELSE y[n][j]]
    BY <1>1 DEF EndRead, Goto
  <1>3. ASSUME NEW j \in Level, j < cnt'[n] PROVE Fair(stage'[n], j, y'[n][j])
    <2>1. CASE j = cnt[n]
      <3>1. y'[n][j] = seen[n]
        BY <1>2, <2>1
      <3> QED
        BY <1>1, <1>2, <2>1, <3>1
    <2>2. CASE j # cnt[n]
      <3>1. j < cnt[n]
        <4>1. j \in Nat /\ cnt[n] \in Nat /\ j < cnt[n] + 1
          BY <1>2, <1>3
        <4> QED
          BY ONLY <2>2, <4>1, SMT
      <3>2. y'[n][j] = y[n][j]
        BY <1>2, <2>2
      <3> QED
        BY <1>2, <3>1, <3>2 DEF Samples, SampleOf
    <2> QED
      BY <2>1, <2>2
  <1>4. SampleOf(n)'
    BY <1>2, <1>3 DEF SampleOf, Fair, Only, AllDark
  <1>5. ASSUME NEW k \in Node, k # n PROVE SampleOf(k)'
    <2>1. pc'[k] = pc[k] /\ cnt'[k] = cnt[k] /\ y'[k] = y[k] /\ seen'[k] = seen[k] /\ stage'[k] = stage[k]
      BY <1>5 DEF EndRead, Goto
    <2> QED
      BY <2>1, SampleKept DEF Samples
  <1> QED
    BY <1>4, <1>5 DEF Samples

(* A board begins to read under the right lamp.                            *)
LEMMA BeginReadSamples ==
  ASSUME TypeOK, LockStep, Samples, NEW n \in Node,
         AskedAll(n) \/ LookSR(n)
  PROVE  Samples'
  <1> USE Numbers DEF TypeOK
  <1>1. PICK i \in 0 .. N, d \in 0 .. DimU : InStep(i, d)
    BY DEF LockStep
  <1>2. ASSUME NEW k \in Node, k # n
        PROVE pc'[k] = pc[k] /\ seen'[k] = seen[k]
    <2>1. CASE AskedAll(n)
      BY <1>2, <2>1 DEF AskedAll, BeginRead, Goto
    <2>2. CASE LookSR(n)
      BY <1>2, <2>2 DEF LookSR, BeginRead, Goto
    <2> QED
      BY <2>1, <2>2
  <1>3. UNCHANGED <<y, cnt, stage>>
    BY DEF AskedAll, LookSR
  <1>4. ASSUME pc'[n] = "read"
        PROVE  /\ seen'[n] = {light} /\ stage[n] = i /\ i \in Node
               /\ cnt[n] < DimU
               /\ light[i] = cnt[n] \/ (cnt[n] = DimU-1 /\ light[i] = 0)
    <2>1. CASE AskedAll(n)
      <3>1. n = i /\ Master(n, i, d) /\ pc[n] = "asked"
        BY <1>1, <2>1 DEF AskedAll, InStep, Role, Master, Gone, Slave, Late, LastMaster, Over
      <3> QED
        BY <2>1, <3>1 DEF AskedAll, BeginRead, Master
    <2>2. CASE LookSR(n)
      <3>1. rI2C[n] = SR /\ pc[n] = "look" /\ seen'[n] = {light}
        BY <1>4, <2>2 DEF LookSR, BeginRead, Goto
      <3>2. Slave(n, i, d)
        BY <1>1, <3>1, CalibrationAssumption
           DEF InStep, Role, Master, Gone, Late, LastMaster, Over
      <3>3. cnt[n] + 1 = d /\ ~Speaking(i) /\ stage[n] = i
        BY <3>1, <3>2 DEF Slave
      <3>4. i \in Node /\ (light[i] = cnt[n] \/ (cnt[n] = DimU-1 /\ light[i] = 0))
        BY <1>1, <3>2, <3>3, SlaveLight
      <3>5. cnt[n] \in Nat /\ d <= DimU
        OBVIOUS
      <3>6. cnt[n] < DimU
        BY <3>3, <3>5
      <3> QED
        BY <3>1, <3>3, <3>4, <3>6
    <2> QED
      BY <2>1, <2>2
  <1>5. SampleOf(n)'
    <2>1. CASE pc'[n] = "read"
      <3>1. cnt[n] \in Level /\ light = Only(i, light[i])
        BY <1>1, <1>4, <2>1, LightsNow
      <3>2. Fair(i, cnt[n], {light})
        BY <1>4, <2>1, <3>1, BeginFair
      <3>3. Fair(stage'[n], cnt'[n], seen'[n])
        BY <1>3, <1>4, <2>1, <3>2
      <3>4. \A j \in Level : j < cnt'[n] => Fair(stage'[n], j, y'[n][j])
        BY <1>3 DEF Samples, SampleOf
      <3> QED
        BY <1>3, <1>4, <2>1, <3>3, <3>4 DEF SampleOf, Fair, Only, AllDark
    <2>2. CASE pc'[n] # "read"
      BY <1>3, <2>2, SampleKept DEF Samples
    <2> QED
      BY <2>1, <2>2
  <1>6. ASSUME NEW k \in Node, k # n PROVE SampleOf(k)'
    BY <1>2, <1>3, <1>6, SampleKept DEF Samples
  <1> QED
    BY <1>5, <1>6 DEF Samples

(* Every step keeps the samples fair.                                      *)
LEMMA SamplesStep ==
  ASSUME TypeOK, LockStep, Samples, [Next]_vars
  PROVE  Samples'
  <1> USE DEF TypeOK
  <1>1. ASSUME NEW n \in Node, Lamp(n) PROVE Samples'
    <2>1. \A k \in Node : k # n => pc[k] # "read"
      BY <1>1 DEF Lamp, Calm
    <2>2. \A k \in Node : pc'[k] # "read"
      BY <1>1, <2>1 DEF Lamp, Goto
    <2>3. UNCHANGED <<y, cnt, stage>>
      BY <1>1 DEF Lamp
    <2> QED
      BY <2>2, <2>3, SampleKept DEF Samples
  <1>2. ASSUME NEW n \in Node,
               Ask(n) \/ Tell(n) \/ ToldAll(n) \/ Hear(n) \/ LookMS(n)
        PROVE  Samples'
    <2>1. \A k \in Node : pc'[k] = "read" => pc[k] = "read"
      BY <1>2 DEF Ask, Tell, ToldAll, Hear, LookMS, Goto
    <2>2. UNCHANGED <<y, cnt, stage, seen>>
      BY <1>2 DEF Ask, Tell, ToldAll, Hear, LookMS
    <2> QED
      BY <2>1, <2>2, SampleKept DEF Samples
  <1>3. ASSUME NEW n \in Node, MasterRead(n) \/ SlaveRead(n) PROVE Samples'
    <2>1. \E next \in {"lamp", "off", "lookMS"} : EndRead(n, next)
      BY <1>3 DEF MasterRead, SlaveRead
    <2> QED
      BY <2>1, EndReadSamples
  <1>4. ASSUME NEW n \in Node, Fit(n) PROVE Samples'
    <2>1. SampleOf(n)'
      <3>1. cnt'[n] = 0 /\ pc'[n] # "read"
        BY <1>4 DEF Fit, Goto, Enter
      <3>2. \A j \in Level : ~(j < 0)
        BY Numbers
      <3> QED
        BY <3>1, <3>2 DEF SampleOf
    <2>2. ASSUME NEW k \in Node, k # n PROVE SampleOf(k)'
      <3>1. /\ pc'[k] = pc[k] /\ cnt'[k] = cnt[k] /\ stage'[k] = stage[k]
            /\ y'[k] = y[k] /\ seen'[k] = seen[k]
        BY <1>4, <2>2 DEF Fit, Goto
      <3> QED
        BY <3>1, SampleKept DEF Samples
    <2> QED
      BY <2>1, <2>2 DEF Samples
  <1>5. ASSUME NEW n \in Node, Broadcast(n) \/ Sent(n) \/ Received(n) PROVE Samples'
    <2>1. UNCHANGED <<pc, y, cnt, stage, seen>>
      BY <1>5 DEF Broadcast, Sent, Received, mainVars
    <2> QED
      BY <2>1, SampleKept DEF Samples
  <1>6. CASE UNCHANGED vars
    <2>1. UNCHANGED <<pc, y, cnt, stage, seen>>
      BY <1>6 DEF vars, mainVars
    <2> QED
      BY <2>1, SampleKept DEF Samples
  <1> QED
    BY <1>1, <1>2, <1>3, <1>4, <1>5, <1>6, LightOffSamples, BeginReadSamples DEF Next, Main

(* No board takes more samples than y has room for or fits with fewer, and *)
(* what it fits was taken under the lamp of the stage at the right level,  *)
(* but for the last sample, which may have seen the lamp go out.           *)
THEOREM CleanSamplesHolds == Safety => []CleanSamples
  <1>1. Init => Samples
    <2>1. Init => \A n \in Node : cnt[n] = 0 /\ pc[n] # "read"
      BY DEF Init, Enter
    <2>2. \A j \in Level : ~(j < 0)
      BY Numbers
    <2> QED
      BY <2>1, <2>2 DEF Samples, SampleOf
  <1>2. TypeOK /\ LockStep /\ Samples => CleanSamples
    <2> SUFFICES ASSUME TypeOK, LockStep, Samples, NEW n \in Node
                 PROVE  /\ pc[n] = "read" => cnt[n] < DimU
                        /\ pc[n] = "fit" =>
                             /\ cnt[n] = DimU
                             /\ \A j \in 0 .. DimU-2 : y[n][j] = {Only(stage[n], j)}
                             /\ y[n][DimU-1] # {}
                             /\ y[n][DimU-1] \subseteq {Only(stage[n], DimU-1), AllDark}
      BY DEF CleanSamples
    <2>1. pc[n] = "read" => cnt[n] < DimU
      BY DEF Samples, SampleOf
    <2>2. ASSUME pc[n] = "fit" PROVE cnt[n] = DimU
      <3>1. PICK i \in 0 .. N, d \in 0 .. DimU : Role(n, i, d)
        BY DEF LockStep, InStep
      <3> QED
        BY <2>2, <3>1 DEF Role, Master, Gone, Slave, Late, LastMaster, Over
    <2>3. ASSUME pc[n] = "fit", NEW j \in 0 .. DimU-2 PROVE y[n][j] = {Only(stage[n], j)}
      <3>1. j \in Level /\ j < DimU /\ j < DimU-1
        BY Numbers
      <3> QED
        BY <2>2, <2>3, <3>1 DEF Samples, SampleOf, Fair
    <2>4. ASSUME pc[n] = "fit" PROVE Fair(stage[n], DimU-1, y[n][DimU-1])
      <3>1. DimU-1 \in Level /\ DimU-1 < DimU
        BY Numbers
      <3> QED
        BY <2>2, <2>4, <3>1 DEF Samples, SampleOf
    <2>5. ~(DimU-1 < DimU-1)
      BY Numbers
    <2> QED
      BY <2>1, <2>2, <2>3, <2>4, <2>5 DEF Fair
  <1> QED
    BY <1>1, <1>2, TypeCorrect, BoardsKeepStep, SamplesStep, PTL DEF Safety

================================================================================
