------------------------------ MODULE Calibration ------------------------------
(***************************************************************************)
(* Meta::calibrateLumVoltageModel: in stage i the node with index i is the *)
(* MASTER.  It sets its lamp to DimU levels one after the other, has       *)
(* everybody read the sensor ("SR") at each, and lets everybody fit its    *)
(* model ("MS").  All others are SLAVEs of that stage.                     *)
(***************************************************************************)
EXTENDS GeneralCall, FiniteSets

CONSTANTS
  DimU,     \* dimU: the levels tried, and the length of y
  SR, MS    \* the two commands

ASSUME CalibrationAssumption ==
  /\ DimU \in Nat \ {0}
  /\ SR # MS
  /\ NoMsg \notin {SR, MS}

Message == {SR, MS}
Level   == 0 .. DimU-1

VARIABLES
  pc,       \* where the main program of a node is
  stage,    \* the loop variable i
  cnt,      \* the loop variable n: samples taken in this stage
  light,    \* the level of every lamp (u[n] = n*(Umax/dimU): level 0 is off)
  y,        \* y[n][j]: the lights under which sample j was taken
  seen      \* the lights since a node began to read its sensor

mainVars == <<pc, stage, cnt, light, y, seen>>
vars     == <<busVars, mainVars>>

(* MASTER: "lamp", "ask", "asked", "read", "off", "tell", "told", "fit".   *)
(* SLAVE: "wait", "look", "read", "lookMS", "fit".                         *)
PcState == {"lamp", "ask", "asked", "read", "off", "tell", "told",
            "wait", "look", "lookMS", "fit", "done"}

Lights  == [Node -> Level]
AllDark == [n \in Node |-> 0]
Only(i, v) == [AllDark EXCEPT ![i] = v]

TypeOK ==
  /\ BusTypeOK(Message)
  /\ pc    \in [Node -> PcState]
  /\ stage \in [Node -> 0 .. N]
  /\ cnt   \in [Node -> 0 .. DimU]
  /\ light \in Lights
  /\ y     \in [Node -> [Level -> SUBSET Lights]]
  /\ seen  \in [Node -> SUBSET Lights]

(* The choice of MASTER or SLAVE for stage i.                              *)
Enter(n, i) == IF i = n THEN "lamp" ELSE "wait"

(* All boards have done setLedU(0); y is an uninitialised local.           *)
Init ==
  /\ BusInit
  /\ pc    = [n \in Node |-> Enter(n, 0)]
  /\ stage = [n \in Node |-> 0]
  /\ cnt   = [n \in Node |-> 0]
  /\ light = AllDark
  /\ y     = [n \in Node |-> [j \in Level |-> {}]]
  /\ seen  = [n \in Node |-> {}]

IsMaster(n) == stage[n] = n

Goto(n, label) == pc' = [pc EXCEPT ![n] = label]

(* The hypothesis on the delays of 20 and 200 ms: when one is over, the    *)
(* node's own message is over too, and every other node has served its     *)
(* interrupts, acted on what it received and finished reading or computing. *)
Calm(n) ==
  /\ twi[n] = "idle"
  /\ \A m \in Node \ {n} : Settled(m) /\ pc[m] \notin {"look", "read", "lookMS", "fit"}

(* A lamp changes; whoever is reading its sensor sees both lights.         *)
SetLed(n, v) ==
  /\ light' = [light EXCEPT ![n] = v]
  /\ seen'  = [m \in Node |-> IF pc[m] = "read" THEN seen[m] \cup {light'} ELSE seen[m]]

--------------------------------------------------------------------------------
(* The MASTER.                                                             *)

(* Faulty variants: no delay before the lamp changes; u[n+1] for u[n].     *)
LampAtOnce(n) ==
  /\ pc[n] = "lamp"
  /\ SetLed(n, cnt[n])
  /\ Goto(n, "ask")
  /\ UNCHANGED <<busVars, stage, cnt, y>>

LampNext(n) ==
  /\ pc[n] = "lamp"
  /\ Calm(n)
  /\ SetLed(n, cnt[n] + 1)
  /\ Goto(n, "ask")
  /\ UNCHANGED <<busVars, stage, cnt, y>>

(* delay(200) before the first, delay(20), setLedU(u[n]).                  *)
Lamp(n) ==
  /\ pc[n] = "lamp"
  /\ Calm(n)
  /\ SetLed(n, cnt[n])
  /\ Goto(n, "ask")
  /\ UNCHANGED <<busVars, stage, cnt, y>>

(* The delay(200) of setLedU, resetI2CString, send_msg "SR".               *)
Ask(n) ==
  /\ pc[n] = "ask"
  /\ Calm(n)
  /\ Send(n, SR)
  /\ rI2C' = [rI2C EXCEPT ![n] = NoMsg]
  /\ Goto(n, "asked")
  /\ UNCHANGED <<rx, recvflag, sendflag, stage, cnt, light, y, seen>>

BeginRead(n) ==
  /\ Goto(n, "read")
  /\ seen' = [seen EXCEPT ![n] = {light}]

(* The wait for the own sendflag; Gety begins.                             *)
AskedAll(n) ==
  /\ pc[n] = "asked"
  /\ TakeSent(n)
  /\ BeginRead(n)
  /\ UNCHANGED <<twi, out, deaf, rx, rI2C, recvflag, stage, cnt, light, y>>

(* Gety returns the average of ten readings: y[n] = ..., n++.  Sample DimU *)
(* would be written past the end of y: here it changes no sample, and      *)
(* CleanSamples says it is never taken.                                    *)
EndRead(n, next) ==
  /\ pc[n] = "read"
  /\ y'    = [y EXCEPT ![n] = [j \in Level |-> IF j = cnt[n] THEN seen[n] ELSE y[n][j]]]
  /\ cnt'  = [cnt EXCEPT ![n] = IF cnt[n] < DimU THEN cnt[n] + 1 ELSE cnt[n]]
  /\ seen' = [seen EXCEPT ![n] = {}]
  /\ Goto(n, next)
  /\ UNCHANGED <<busVars, stage, light>>

MasterRead(n) == IsMaster(n) /\ EndRead(n, IF cnt[n] + 1 < DimU THEN "lamp" ELSE "off")

(* Faulty variant: the lamp of the MASTER stays on.                        *)
LightOffNever(n) ==
  /\ pc[n] = "off"
  /\ Goto(n, "tell")
  /\ UNCHANGED <<busVars, stage, cnt, light, y, seen>>

(* setLedU(0) right after the last sample: the delay(200) comes after it.  *)
LightOff(n) ==
  /\ pc[n] = "off"
  /\ SetLed(n, 0)
  /\ Goto(n, "tell")
  /\ UNCHANGED <<busVars, stage, cnt, y>>

(* send_msg "MS".                                                          *)
Tell(n) ==
  /\ pc[n] = "tell"
  /\ Calm(n)
  /\ Send(n, MS)
  /\ Goto(n, "told")
  /\ UNCHANGED <<rx, rI2C, recvflag, sendflag, stage, cnt, light, y, seen>>

(* Faulty variant: sendflag is not cleared.                                *)
ToldAllKeeps(n) ==
  /\ pc[n] = "told"
  /\ sendflag[n]
  /\ Goto(n, "fit")
  /\ UNCHANGED <<busVars, stage, cnt, light, y, seen>>

(* The wait for the own sendflag.                                          *)
ToldAll(n) ==
  /\ pc[n] = "told"
  /\ TakeSent(n)
  /\ Goto(n, "fit")
  /\ UNCHANGED <<twi, out, deaf, rx, rI2C, recvflag, stage, cnt, light, y, seen>>

--------------------------------------------------------------------------------
(* The SLAVE.                                                              *)

Hear(n) ==
  /\ pc[n] = "wait"
  /\ TakeReceived(n)
  /\ Goto(n, "look")
  /\ UNCHANGED <<twi, out, deaf, rx, rI2C, sendflag, stage, cnt, light, y, seen>>

(* if(rI2C is "SR"): resetI2CString, Gety begins.                          *)
LookSR(n) ==
  /\ pc[n] = "look"
  /\ \/ rI2C[n] = SR /\ rI2C' = [rI2C EXCEPT ![n] = NoMsg] /\ BeginRead(n)
     \/ rI2C[n] # SR /\ Goto(n, "lookMS") /\ UNCHANGED <<rI2C, seen>>
  /\ UNCHANGED <<twi, out, deaf, rx, recvflag, sendflag, stage, cnt, light, y>>

SlaveRead(n) == ~IsMaster(n) /\ EndRead(n, "lookMS")

(* Faulty variant: slaveEnd is never set.                                  *)
LookMSNoEnd(n) ==
  /\ pc[n] = "lookMS"
  /\ Goto(n, "wait")
  /\ UNCHANGED <<busVars, stage, cnt, light, y, seen>>

(* if(rI2C is "MS"): resetI2CString, the fit, slaveEnd.  The buffer is     *)
(* looked at again: it may have changed while the sensor was read.         *)
LookMS(n) ==
  /\ pc[n] = "lookMS"
  /\ \/ rI2C[n] = MS /\ rI2C' = [rI2C EXCEPT ![n] = NoMsg] /\ Goto(n, "fit")
     \/ rI2C[n] # MS /\ Goto(n, "wait") /\ UNCHANGED rI2C
  /\ UNCHANGED <<twi, out, deaf, rx, recvflag, sendflag, stage, cnt, light, y, seen>>

--------------------------------------------------------------------------------
(* LeastSquare(dimU, u, y) fills k[i] and theta_[i]; then i++, and after   *)
(* the last stage the average of theta_.                                   *)
Fit(n) ==
  /\ pc[n] = "fit"
  /\ stage' = [stage EXCEPT ![n] = stage[n] + 1]
  /\ cnt' = [cnt EXCEPT ![n] = 0]
  /\ Goto(n, IF stage[n] = N-1 THEN "done" ELSE Enter(n, stage[n] + 1))
  /\ UNCHANGED <<busVars, light, y, seen>>

Main(n) ==
  \/ Lamp(n) \/ Ask(n) \/ AskedAll(n) \/ MasterRead(n) \/ LightOff(n) \/ Tell(n) \/ ToldAll(n)
  \/ Hear(n) \/ LookSR(n) \/ SlaveRead(n) \/ LookMS(n) \/ Fit(n)

Broadcast(n) == Transfer(n)   /\ UNCHANGED mainVars
Sent(n)      == SentISR(n)    /\ UNCHANGED mainVars
Received(n)  == ReceiveISR(n) /\ UNCHANGED mainVars

Next == \E n \in Node : Main(n) \/ Broadcast(n) \/ Sent(n) \/ Received(n)

Safety == Init /\ [][Next]_vars

(* Each board runs its main program and serves its interrupts, and the bus *)
(* hardware completes what was started.                                    *)
Fairness ==
  \A n \in Node : /\ WF_vars(Main(n))
                  /\ WF_vars(Broadcast(n)) /\ WF_vars(Sent(n)) /\ WF_vars(Received(n))

Spec == Safety /\ Fairness

--------------------------------------------------------------------------------
(* Properties.                                                             *)

(* Two lamps are never on together: a sample of stage i sees lamp i and    *)
(* the daylight only, whoever is slow.                                     *)
OneLamp == \A m, n \in Node : light[m] # 0 /\ light[n] # 0 => m = n

(* A board that fits has a sample for every level, and each but the last   *)
(* was taken entirely under that level of the lamp of the stage; the last  *)
(* may have seen the lamp go out (MetaClass.cpp:103 does not wait).        *)
(* Nobody takes more samples than y has room for, or fits with fewer.      *)
CleanSamples ==
  /\ \A n \in Node : pc[n] = "read" => cnt[n] < DimU
  /\ \A n \in Node : pc[n] = "fit" =>
    /\ cnt[n] = DimU
    /\ \A j \in 0 .. DimU-2 : y[n][j] = {Only(stage[n], j)}
    /\ y[n][DimU-1] # {}
    /\ y[n][DimU-1] \subseteq {Only(stage[n], DimU-1), AllDark}

(* What the comment "Esperar que os restantes leiam" (MetaClass.cpp:96)    *)
(* makes of it: no board fits a sample the lamp changed under.             *)
EverySampleClean ==
  \A n \in Node : pc[n] = "fit" => \A j \in Level : y[n][j] = {Only(stage[n], j)}

(* A board whose calibration is over has left nothing behind that setu_vec *)
(* could take for its own first message, but for the board that counted:   *)
(* that one may still be sending its "MS" and bring a sendflag, and is     *)
(* what BusInit allows once the message is out.                            *)
CleanHandover ==
  \A n \in Node : pc[n] = "done" =>
    /\ rx[n] = NoMsg /\ ~recvflag[n] /\ light[n] = 0
    /\ n # N-1 => twi[n] = "idle" /\ ~sendflag[n]

(* Every board gets through all its stages.                                *)
Calibrated == <>(\A n \in Node : pc[n] = "done")

================================================================================
