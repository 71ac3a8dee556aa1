------------------------------ MODULE ClientProofs -----------------------------
(***************************************************************************)
(* Proofs about Client: types, deadlines, endpoints, and the end that      *)
(* stop() makes, for any number of endpoints, lines and sends.             *)
(***************************************************************************)
EXTENDS Client, TLAPS

(* A send is either to come, under way or failed.                          *)
SendCount == pend + bad + main <= MaxSends

(* Only a client that has stopped has run out of endpoints.                *)
EpLeft == ~stopped => ep <= Endpoints

Flags == stopped \in BOOLEAN /\ met \in BOOLEAN /\ refused \in BOOLEAN /\ over \in BOOLEAN

DataOK ==
  /\ sock  \in {"closed", "connecting", "open"}
  /\ ep    \in 1 .. Endpoints + 1
  /\ op    \in [Actor -> OpState]
  /\ dl    \in {"armed", "passed", "never"}
  /\ owner \in {"connect", "read"}
  /\ pend  \in 0 .. MaxSends
  /\ bad   \in 0 .. MaxSends
  /\ main  \in 0 .. MaxSends
  /\ lines \in 0 .. MaxLines

TypeInv == DataOK /\ SendCount /\ EpLeft

(* Closing the socket turns operations into failed ones and nothing else.  *)
LEMMA AbortedFacts ==
  ASSUME NEW o \in [Actor -> OpState]
  PROVE  /\ Aborted(o) \in [Actor -> OpState]
         /\ \A a \in Actor : Aborted(o)[a] = IF o[a] = "pending" THEN "failed" ELSE o[a]
BY DEF Aborted, Actor, OpState

(* A handler that is done leaves the other actors alone.                   *)
LEMMA DoneFacts ==
  ASSUME op \in [Actor -> OpState], NEW a \in Actor
  PROVE  /\ Done(a) \in [Actor -> OpState]
         /\ \A b \in Actor : Done(a)[b] = IF b = a THEN "none" ELSE op[b]
BY DEF Done, Actor, OpState

(* What stop() leaves of the operations o.                                 *)
LEMMA StopFacts ==
  ASSUME NEW o \in [Actor -> OpState], Stop(o)
  PROVE  /\ stopped' /\ sock' = "closed"
         /\ UNCHANGED <<dl, owner, met>>
         /\ op' \in [Actor -> OpState]
         /\ \A a \in Actor : op'[a] # "pending"
         /\ op'["beat"] # "timer"
BY AbortedFacts DEF Stop, Actor, OpState

(* A socket that closes passes its sends on as failed ones.                *)
LEMMA AbortCount ==
  ASSUME TypeInv, SendsAborted, main' = main
  PROVE  SendCount' /\ pend' \in 0 .. MaxSends /\ bad' \in 0 .. MaxSends
BY ClientAssumption DEF TypeInv, DataOK, SendCount, SendsAborted

(* A handler that calls stop() keeps the types.                            *)
LEMMA StopType ==
  ASSUME TypeInv, NEW o \in [Actor -> OpState], Stop(o),
         SendCount' /\ pend' \in 0 .. MaxSends /\ bad' \in 0 .. MaxSends,
         ep' \in 1 .. Endpoints + 1, UNCHANGED userVars
  PROVE  TypeInv'
<1>1. /\ stopped' /\ sock' = "closed" /\ UNCHANGED <<dl, owner>>
      /\ op' \in [Actor -> OpState]
  BY StopFacts
<1> QED
  BY <1>1, ClientAssumption DEF TypeInv, DataOK, EpLeft, userVars

(* The types survive every step.                                           *)
LEMMA TypeStep ==
  ASSUME TypeInv, [Next]_vars
  PROVE  TypeInv'
<1> USE ClientAssumption
<1> op \in [Actor -> OpState] /\ ep \in 1 .. Endpoints + 1
  BY DEF TypeInv, DataOK
<1>1. CASE HandleConnect
  <2> UNCHANGED userVars
    BY <1>1 DEF HandleConnect
  <2>1. CASE stopped
    BY <1>1, <2>1, DoneFacts
       DEF HandleConnect, Actor, SendsGoOn, TypeInv, DataOK, SendCount, EpLeft, userVars
  <2>2. CASE ~stopped /\ (sock = "closed" \/ op["connect"] = "failed")
    <3>1. NextEndpoint /\ SendsAborted
      BY <1>1, <2>2 DEF HandleConnect
    <3>2. SendCount' /\ pend' \in 0 .. MaxSends /\ bad' \in 0 .. MaxSends
      BY <3>1, AbortCount DEF userVars
    <3>3. ep' \in 1 .. Endpoints + 1 /\ ep' = ep + 1
      BY <2>2, <3>1 DEF NextEndpoint, TypeInv, DataOK, EpLeft
    <3>4. CASE ep < Endpoints
      <4>1. op' \in [Actor -> OpState]
        BY <3>1, <3>4, AbortedFacts DEF NextEndpoint, OpState, Actor
      <4> QED
        BY <3>1, <3>2, <3>3, <3>4, <4>1 DEF NextEndpoint, TypeInv, DataOK, EpLeft, userVars
    <3>5. CASE ~(ep < Endpoints)
      <4>1. Done("connect") \in [Actor -> OpState] /\ Stop(Done("connect"))
        BY <3>1, <3>5, DoneFacts DEF NextEndpoint, Actor
      <4> QED
        BY <3>2, <3>3, <4>1, StopType
    <3> QED
      BY <3>4, <3>5
  <2>3. CASE ~stopped /\ ~(sock = "closed" \/ op["connect"] = "failed")
    <3>1. op' = [op EXCEPT !["connect"] = "none", !["read"] = "pending", !["beat"] = "pending"]
      BY <1>1, <2>3 DEF HandleConnect
    <3>2. op' \in [Actor -> OpState]
      BY <3>1 DEF Actor, OpState
    <3> QED
      BY <1>1, <2>3, <3>2
         DEF HandleConnect, StartRead, SendsGoOn, TypeInv, DataOK, SendCount, EpLeft, userVars
  <2> QED
    BY <2>1, <2>2, <2>3
<1>2. CASE HandleRead
  <2> UNCHANGED <<ep, userVars>>
    BY <1>2 DEF HandleRead
  <2>1. CASE ~stopped /\ op["read"] = "failed"
    <3>1. Done("read") \in [Actor -> OpState] /\ Stop(Done("read")) /\ SendsAborted
      BY <1>2, <2>1, DoneFacts DEF HandleRead, Actor
    <3> QED
      BY <3>1, AbortCount, StopType DEF userVars
  <2>2. CASE ~(~stopped /\ op["read"] = "failed")
    <3>1. op' \in [Actor -> OpState] /\ UNCHANGED <<stopped, sock, pend, bad>>
          /\ dl' \in {dl, "armed"} /\ owner' \in {owner, "read"}
      BY <1>2, <2>2, DoneFacts DEF HandleRead, StartRead, SendsGoOn, Started, Actor, OpState
    <3> QED
      BY <3>1 DEF TypeInv, DataOK, SendCount, EpLeft, userVars
  <2> QED
    BY <2>1, <2>2
<1>3. CASE HandleWrite
  <2> UNCHANGED <<ep, userVars>>
    BY <1>3 DEF HandleWrite
  <2>1. CASE ~stopped /\ op["beat"] = "failed"
    <3>1. Done("beat") \in [Actor -> OpState] /\ Stop(Done("beat")) /\ SendsAborted
      BY <1>3, <2>1, DoneFacts DEF HandleWrite, Actor
    <3> QED
      BY <3>1, AbortCount, StopType DEF userVars
  <2>2. CASE ~(~stopped /\ op["beat"] = "failed")
    <3>1. op' \in [Actor -> OpState] /\ UNCHANGED <<stopped, sock, pend, bad, dl, owner>>
      BY <1>3, <2>2, DoneFacts DEF HandleWrite, SendsGoOn, Actor, OpState
    <3> QED
      BY <3>1 DEF TypeInv, DataOK, SendCount, EpLeft, userVars
  <2> QED
    BY <2>1, <2>2
<1>4. CASE StartWrite
  BY <1>4, DoneFacts
     DEF StartWrite, Actor, OpState, Started, TypeInv, DataOK, SendCount, EpLeft, connVars, userVars
<1>5. CASE CheckDeadline
  <2> UNCHANGED <<stopped, ep, owner, userVars>>
    BY <1>5 DEF CheckDeadline
  <2>1. op' \in [Actor -> OpState] /\ sock' \in {sock, "closed"} /\ dl' \in {dl, "never"}
    BY <1>5, DoneFacts, AbortedFacts DEF CheckDeadline, Actor
  <2>2. SendCount' /\ pend' \in 0 .. MaxSends /\ bad' \in 0 .. MaxSends
    <3>1. CASE SendsGoOn
      BY <3>1 DEF SendsGoOn, TypeInv, DataOK, SendCount, userVars
    <3>2. CASE SendsAborted
      BY <3>2, AbortCount DEF userVars
    <3> QED
      BY <1>5, <3>1, <3>2 DEF CheckDeadline
  <2> QED
    BY <2>1, <2>2 DEF TypeInv, DataOK, EpLeft, userVars
<1>6. CASE HandleSend
  <2> UNCHANGED <<ep, userVars>>
    BY <1>6 DEF HandleSend
  <2>1. SendCount' /\ pend' \in 0 .. MaxSends /\ bad' \in 0 .. MaxSends
    BY <1>6 DEF HandleSend, TypeInv, DataOK, SendCount, userVars
  <2>2. CASE stopped
    BY <1>6, <2>1, <2>2 DEF HandleSend, TypeInv, DataOK, EpLeft, userVars
  <2>3. CASE ~stopped
    BY <1>6, <2>1, <2>3, StopType DEF HandleSend
  <2> QED
    BY <2>2, <2>3
<1>7. CASE Network \/ Elapse \/ BeatDue
  <2>1. op' \in [Actor -> OpState] /\ sock' \in {sock, "open"} /\ dl' \in {dl, "passed"}
        /\ UNCHANGED <<stopped, ep, owner, main>> /\ lines' \in {lines, lines - 1}
        /\ (lines' # lines => lines > 0)
    BY <1>7 DEF Network, Connected, ConnectFails, LineArrives, ReadFails, BeatEnds, SendEnds,
                Elapse, BeatDue, connVars, userVars, Actor, OpState
  <2>2. SendCount' /\ pend' \in 0 .. MaxSends /\ bad' \in 0 .. MaxSends
    <3>1. CASE SendEnds
      <4>1. pend \in 1 .. MaxSends /\ bad \in 0 .. MaxSends /\ pend + bad + main <= MaxSends
        BY <3>1 DEF SendEnds, TypeInv, DataOK, SendCount
      <4>2. pend' = pend - 1 /\ main' = main /\ main \in 0 .. MaxSends
        BY <3>1 DEF SendEnds, TypeInv, DataOK, userVars
      <4>3. bad' = bad \/ bad' = bad + 1
        BY <3>1 DEF SendEnds
      <4> QED
        BY <4>1, <4>2, <4>3 DEF SendCount
    <3>2. CASE UNCHANGED <<pend, bad>>
      BY <2>1, <3>2 DEF TypeInv, DataOK, SendCount
    <3> QED
      BY <1>7, <3>1, <3>2 DEF Network, Connected, ConnectFails, LineArrives, ReadFails, BeatEnds,
                              Elapse, BeatDue
  <2>3. lines' \in 0 .. MaxLines
    BY <2>1 DEF TypeInv, DataOK
  <2> QED
    BY <2>1, <2>2, <2>3 DEF TypeInv, DataOK, EpLeft
<1>8. CASE StartSend \/ Return
  <2>1. SendCount' /\ pend' \in 0 .. MaxSends /\ bad' \in 0 .. MaxSends /\ main' \in 0 .. MaxSends
    BY <1>8 DEF StartSend, Return, TypeInv, DataOK, SendCount
  <2> QED
    BY <1>8, <2>1 DEF StartSend, Return, TypeInv, DataOK, EpLeft, connVars
<1>9. CASE UNCHANGED vars
  BY <1>9 DEF vars, connVars, userVars, TypeInv, DataOK, SendCount, EpLeft
<1> QED
  BY <1>1, <1>2, <1>3, <1>4, <1>5, <1>6, <1>7, <1>8, <1>9 DEF Next, Handler

(* The flags are set to truth values only.                                 *)
LEMMA FlagStep ==
  ASSUME Flags, [Next]_vars
  PROVE  Flags'
<1> USE DEF Flags, connVars, userVars
<1>1. CASE HandleConnect
  BY <1>1, Zenon DEF HandleConnect, NextEndpoint, Stop
<1>2. CASE HandleRead \/ HandleWrite
  BY <1>2, Zenon DEF HandleRead, HandleWrite, Stop
<1>3. CASE StartWrite \/ CheckDeadline \/ HandleSend
  BY <1>3, Zenon DEF StartWrite, CheckDeadline, HandleSend, Stop
<1>4. CASE Network \/ Elapse \/ BeatDue \/ StartSend \/ Return
  BY <1>4, Zenon DEF Network, Connected, ConnectFails, LineArrives, ReadFails, BeatEnds, SendEnds,
                     Elapse, BeatDue, StartSend, Return
<1>5. CASE UNCHANGED vars
  BY <1>5, Zenon DEF vars
<1> QED
  BY <1>1, <1>2, <1>3, <1>4, <1>5 DEF Next, Handler

(* The constructor's state has the types.                                  *)
LEMMA InitTypes == Init => TypeInv /\ Flags
<1>1. Init => TypeInv
  <2> SUFFICES ASSUME Init PROVE TypeInv
    OBVIOUS
  <2>1. op \in [Actor -> OpState]
    BY DEF Init, Actor, OpState
  <2> QED
    BY <2>1, ClientAssumption DEF Init, TypeInv, DataOK, SendCount, EpLeft
<1>2. Init => Flags
  BY Zenon DEF Init, Flags
<1> QED
  BY <1>1, <1>2

(* The types hold, and the counters of sends within their bound, however   *)
(* many endpoints, lines and sends there are.                              *)
THEOREM TypeCorrect == Safety => []TypeOK
<1>1. TypeInv /\ Flags => TypeOK
  BY Zenon DEF TypeInv, DataOK, Flags, TypeOK
<1> QED
  BY <1>1, InitTypes, TypeStep, FlagStep, PTL DEF Safety

--------------------------------------------------------------------------------
(* The deadline.                                                           *)

(* Only the operation that set it and the deadline itself matter: connect  *)
(* hands over to read with a deadline of read's own.                       *)
LEMMA DeadlineStep ==
  ASSUME TypeInv, Flags, DeadlineIsOwn, [Next]_vars
  PROVE  DeadlineIsOwn'
<1> op \in [Actor -> OpState]
  BY DEF TypeInv, DataOK
<1> USE DEF DeadlineIsOwn
<1>1. CASE HandleConnect
  <2>1. CASE stopped
    BY <1>1, <2>1 DEF HandleConnect
  <2>2. CASE ~stopped /\ (sock = "closed" \/ op["connect"] = "failed")
    <3>1. NextEndpoint
      BY <1>1, <2>2 DEF HandleConnect
    <3>2. CASE ep < Endpoints
      <4>1. op'["connect"] = "pending" /\ owner' = "connect"
        BY <3>1, <3>2, AbortedFacts DEF NextEndpoint, Actor
      <4> QED
        BY <4>1
    <3>3. CASE ~(ep < Endpoints)
      BY <3>1, <3>3 DEF NextEndpoint, Stop
    <3> QED
      BY <3>2, <3>3
  <2>3. CASE ~stopped /\ ~(sock = "closed" \/ op["connect"] = "failed")
    <3>1. op'["read"] = "pending" /\ owner' = "read"
      BY <1>1, <2>3 DEF HandleConnect, StartRead, Actor
    <3> QED
      BY <3>1
  <2> QED
    BY <2>1, <2>2, <2>3
<1>2. CASE HandleRead
  <2>1. CASE ~stopped /\ op["read"] = "ok"
    <3>1. owner' = "read" /\ op'["read"] # "none"
      BY <1>2, <2>1 DEF HandleRead, StartRead, Started, Actor
    <3> QED
      BY <3>1
  <2>2. CASE stopped
    BY <1>2, <2>2 DEF HandleRead
  <2>3. CASE ~stopped /\ op["read"] = "failed"
    BY <1>2, <2>3 DEF HandleRead, Stop
  <2> QED
    BY <1>2, <2>1, <2>2, <2>3 DEF HandleRead
<1>3. CASE HandleWrite
  <2>1. CASE ~stopped /\ op["beat"] = "ok"
    <3>1. UNCHANGED <<stopped, dl, owner>> /\ op'["connect"] = op["connect"]
          /\ op'["read"] = op["read"]
      BY <1>3, <2>1 DEF HandleWrite, Actor
    <3> QED
      BY <3>1
  <2>2. CASE stopped
    BY <1>3, <2>2 DEF HandleWrite
  <2>3. CASE ~stopped /\ op["beat"] = "failed"
    BY <1>3, <2>3 DEF HandleWrite, Stop
  <2> QED
    BY <1>3, <2>1, <2>2, <2>3 DEF HandleWrite
<1>4. CASE HandleSend
  BY <1>4 DEF HandleSend, Stop
<1>5. CASE CheckDeadline
  <2>1. CASE stopped
    BY <1>5, <2>1 DEF CheckDeadline
  <2>2. CASE ~stopped
    BY <1>5, <2>2 DEF CheckDeadline
  <2> QED
    BY <2>1, <2>2
<1>6. CASE \/ StartWrite \/ Network \/ Elapse \/ BeatDue \/ StartSend \/ Return
           \/ UNCHANGED vars
  <2>1. /\ UNCHANGED <<stopped, owner>>
        /\ dl' \in {"armed", "passed"} => dl \in {"armed", "passed"}
    BY <1>6 DEF StartWrite, Network, Connected, ConnectFails, LineArrives, ReadFails, BeatEnds,
                SendEnds, Elapse, BeatDue, StartSend, Return, vars, connVars
  <2>2. \A a \in {"connect", "read"} : op'[a] = "none" => op[a] = "none"
    BY <1>6 DEF StartWrite, Done, Network, Connected, ConnectFails, LineArrives, ReadFails,
                BeatEnds, SendEnds, Elapse, BeatDue, StartSend, Return, vars, Actor
  <2> QED
    BY <2>1, <2>2
<1> QED
  BY <1>1, <1>2, <1>3, <1>4, <1>5, <1>6 DEF Next, Handler

(* The deadline that may close the socket belongs to the operation that is *)
(* under way, however many endpoints are tried and lines read.             *)
THEOREM OwnDeadline == Safety => []DeadlineIsOwn
<1>1. Init => TypeInv /\ Flags /\ DeadlineIsOwn
  <2>1. Init => TypeInv /\ Flags
    BY InitTypes
  <2>2. Init => DeadlineIsOwn
    BY DEF Init, DeadlineIsOwn, Actor
  <2> QED
    BY <2>1, <2>2
<1> QED
  BY <1>1, TypeStep, FlagStep, DeadlineStep, PTL DEF Safety
--------------------------------------------------------------------------------
(* The endpoints.                                                          *)

(* Before the first read a client that goes on is connecting, and the      *)
(* other actors have not begun.                                            *)
Trying ==
  ~stopped /\ ~met => op["connect"] # "none" /\ op["read"] = "none" /\ op["beat"] = "none"

(* Of the handlers that may call stop(), read's and heartbeat's run only   *)
(* after a connection was met, and connect's when the list has come to its *)
(* end.                                                                    *)
LEMMA TryingStep ==
  ASSUME TypeInv, Flags, Trying, EndpointsTried, [Next]_vars
  PROVE  Trying' /\ EndpointsTried'
<1> op \in [Actor -> OpState] /\ ep \in Nat
  BY ClientAssumption DEF TypeInv, DataOK
<1> USE DEF Trying, EndpointsTried
<1>1. CASE HandleConnect
  <2>1. CASE stopped
    BY <1>1, <2>1 DEF HandleConnect
  <2>2. CASE ~stopped /\ (sock = "closed" \/ op["connect"] = "failed")
    <3>1. NextEndpoint /\ ep' = ep + 1
      BY <1>1, <2>2 DEF HandleConnect, NextEndpoint
    <3>2. CASE ep < Endpoints
      <4>1. UNCHANGED <<stopped, met>> /\ op' = [Aborted(op) EXCEPT !["connect"] = "pending"]
        BY <3>1, <3>2 DEF NextEndpoint
      <4>2. /\ op'["connect"] = "pending"
            /\ op["read"] = "none" => op'["read"] = "none"
            /\ op["beat"] = "none" => op'["beat"] = "none"
        BY <4>1, AbortedFacts DEF Actor
      <4> QED
        BY <2>2, <4>1, <4>2
    <3>3. CASE ~(ep < Endpoints)
      <4>1. stopped'
        BY <3>1, <3>3 DEF NextEndpoint, Stop
      <4>2. ep' > Endpoints
        BY <3>1, <3>3, ClientAssumption
      <4> QED
        BY <4>1, <4>2
    <3> QED
      BY <3>2, <3>3
  <2>3. CASE ~stopped /\ ~(sock = "closed" \/ op["connect"] = "failed")
    BY <1>1, <2>3 DEF HandleConnect
  <2> QED
    BY <2>1, <2>2, <2>3
<1>2. CASE HandleRead
  <2>1. stopped \/ met
    BY <1>2 DEF HandleRead
  <2>2. met' = met /\ refused' = refused /\ ep' = ep
    BY <1>2 DEF HandleRead, Stop
  <2>3. stopped => stopped'
    BY <1>2 DEF HandleRead
  <2> QED
    BY <2>1, <2>2, <2>3
<1>3. CASE HandleWrite
  <2>1. stopped \/ met
    BY <1>3 DEF HandleWrite
  <2>2. met' = met /\ refused' = refused /\ ep' = ep
    BY <1>3 DEF HandleWrite, Stop
  <2>3. stopped => stopped'
    BY <1>3 DEF HandleWrite
  <2> QED
    BY <2>1, <2>2, <2>3
<1>4. CASE HandleSend
  <2>1. CASE stopped
    BY <1>4, <2>1 DEF HandleSend
  <2>2. CASE ~stopped
    BY <1>4, <2>2 DEF HandleSend, Stop
  <2> QED
    BY <2>1, <2>2
<1>5. CASE CheckDeadline
  <2>1. UNCHANGED <<stopped, ep, met, refused>>
    BY <1>5 DEF CheckDeadline
  <2>2. CASE stopped
    BY <2>1, <2>2
  <2>3. CASE ~stopped
    <3>1. op' = Aborted(op)
      BY <1>5, <2>3 DEF CheckDeadline
    <3>2. \A a \in Actor : op'[a] = "none" <=> op[a] = "none"
      BY <3>1, AbortedFacts
    <3>3. {"connect", "read", "beat"} \subseteq Actor
      BY DEF Actor
    <3> QED
      BY <2>1, <2>3, <3>2, <3>3
  <2> QED
    BY <2>2, <2>3
<1>6. CASE StartWrite
  <2>1. UNCHANGED <<stopped, ep, met, refused>> /\ op["beat"] = "due"
    BY <1>6 DEF StartWrite, connVars
  <2> QED
    BY <2>1
<1>7. CASE Network \/ Elapse \/ BeatDue \/ StartSend \/ Return \/ UNCHANGED vars
  <2>1. UNCHANGED <<stopped, ep, met, refused>>
    BY <1>7 DEF Network, Connected, ConnectFails, LineArrives, ReadFails, BeatEnds, SendEnds,
                Elapse, BeatDue, StartSend, Return, vars, connVars
  <2>2. \A a \in Actor : op'[a] = "none" <=> op[a] = "none"
    BY <1>7 DEF Network, Connected, ConnectFails, LineArrives, ReadFails, BeatEnds, SendEnds,
                Elapse, BeatDue, StartSend, Return, vars, Actor
  <2>3. {"connect", "read", "beat"} \subseteq Actor
    BY DEF Actor
  <2> QED
    BY <2>1, <2>2, <2>3
<1> QED
  BY <1>1, <1>2, <1>3, <1>4, <1>5, <1>6, <1>7 DEF Next, Handler

(* Unless a send of main fails first, a client that stops without having   *)
(* met a server has tried every endpoint, however many there are.          *)
THEOREM AllTried == Safety => []EndpointsTried
<1>1. Init => TypeInv /\ Flags
  BY InitTypes
<1>2. Init => Trying /\ EndpointsTried
  BY DEF Init, Trying, EndpointsTried, Actor
<1> QED
  BY <1>1, <1>2, TypeStep, FlagStep, TryingStep, PTL DEF Safety

--------------------------------------------------------------------------------
(* The end.                                                                *)

(* A client that has stopped has nothing under way: what is left are       *)
(* handlers that are to run.                                               *)
Quiet ==
  stopped => sock = "closed" /\ op["beat"] # "timer" /\ \A a \in Actor : op[a] # "pending"

(* One step of a client that has stopped.                                  *)
Wound ==
  /\ stopped' /\ sock' = "closed" /\ dl' \in {dl, "passed"}
  /\ \A actor \in Actor : op'[actor] \in {op[actor], "none"}

(* Every handler of a client that has stopped ends its actor, and no       *)
(* operation is under way that could bring another.                        *)
LEMMA WoundStep ==
  ASSUME TypeInv, Flags, Quiet, stopped, [Next]_vars
  PROVE  Wound
<1> op \in [Actor -> OpState] /\ {"connect", "read", "beat", "check"} \subseteq Actor
  BY DEF TypeInv, DataOK, Actor
<1> USE DEF Wound
<1>1. /\ sock = "closed" /\ op["beat"] # "timer"
      /\ op["connect"] # "pending" /\ op["read"] # "pending" /\ op["beat"] # "pending"
  BY DEF Quiet
<1>2. ~Connected /\ ~ConnectFails /\ ~LineArrives /\ ~ReadFails /\ ~BeatEnds /\ ~BeatDue
  BY <1>1 DEF Connected, ConnectFails, LineArrives, ReadFails, BeatEnds, BeatDue
<1>3. CASE HandleConnect \/ HandleRead \/ HandleWrite
  <2>1. /\ UNCHANGED <<stopped, sock, dl>>
        /\ \E a \in {"connect", "read", "beat"} : op' = Done(a)
    BY <1>3 DEF HandleConnect, HandleRead, HandleWrite
  <2> QED
    BY <1>1, <2>1, DoneFacts
<1>4. CASE StartWrite \/ CheckDeadline
  <2>1. UNCHANGED <<stopped, sock, dl>> /\ \E a \in {"beat", "check"} : op' = Done(a)
    BY <1>4 DEF StartWrite, CheckDeadline, connVars
  <2> QED
    BY <1>1, <2>1, DoneFacts
<1>5. CASE HandleSend \/ SendEnds \/ Elapse \/ StartSend \/ Return \/ UNCHANGED vars
  <2>1. UNCHANGED <<stopped, sock, op>> /\ dl' \in {dl, "passed"}
    BY <1>5 DEF HandleSend, SendEnds, Elapse, StartSend, Return, vars, connVars
  <2> QED
    BY <1>1, <2>1
<1> QED
  BY <1>2, <1>3, <1>4, <1>5 DEF Next, Handler, Network

(* stop() leaves a quiet client, and a quiet client stays so.              *)
LEMMA QuietStep ==
  ASSUME TypeInv, Flags, Quiet, [Next]_vars
  PROVE  Quiet'
<1> op \in [Actor -> OpState]
  BY DEF TypeInv, DataOK
<1>1. CASE stopped
  <2>1. Wound
    BY <1>1, WoundStep
  <2>2. "beat" \in Actor
    BY DEF Actor
  <2> QED
    BY <1>1, <2>1, <2>2 DEF Quiet, Wound
<1>2. CASE ~stopped
  <2>1. ASSUME NEW o \in [Actor -> OpState], Stop(o)
        PROVE  Quiet'
    BY <2>1, StopFacts DEF Quiet
  <2>2. CASE HandleConnect
    <3>1. CASE ~stopped'
      BY <3>1 DEF Quiet
    <3>2. CASE stopped'
      <4>1. Stop(Done("connect"))
        BY <1>2, <2>2, <3>2 DEF HandleConnect, NextEndpoint
      <4>2. Done("connect") \in [Actor -> OpState]
        BY DoneFacts DEF Actor
      <4> QED
        BY <2>1, <4>1, <4>2
    <3> QED
      BY <3>1, <3>2
  <2>3. CASE HandleRead \/ HandleWrite
    <3>1. CASE ~stopped'
      BY <3>1 DEF Quiet
    <3>2. CASE stopped'
      <4>1. \E a \in {"read", "beat"} : Stop(Done(a))
        BY <1>2, <2>3, <3>2 DEF HandleRead, HandleWrite
      <4>2. \A a \in {"read", "beat"} : Done(a) \in [Actor -> OpState]
        BY DoneFacts DEF Actor
      <4> QED
        BY <2>1, <4>1, <4>2
    <3> QED
      BY <3>1, <3>2
  <2>4. CASE HandleSend
    <3>1. Stop(op)
      BY <1>2, <2>4 DEF HandleSend
    <3> QED
      BY <2>1, <3>1
  <2>5. CASE \/ StartWrite \/ CheckDeadline \/ Network \/ Elapse \/ BeatDue
             \/ StartSend \/ Return \/ UNCHANGED vars
    <3>1. stopped' = stopped
      BY <2>5 DEF StartWrite, CheckDeadline, Network, Connected, ConnectFails, LineArrives,
                  ReadFails, BeatEnds, SendEnds, Elapse, BeatDue, StartSend, Return, vars, connVars
    <3> QED
      BY <1>2, <3>1 DEF Quiet
  <2> QED
    BY <2>2, <2>3, <2>4, <2>5 DEF Next, Handler
<1> QED
  BY <1>1, <1>2

(* Whatever handlers still come after stop(), the client starts nothing of *)
(* its own again.                                                          *)
THEOREM NoRestart == Safety => StopIsFinal
<1>1. Init => TypeInv /\ Flags
  BY InitTypes
<1>2. Init => Quiet
  BY DEF Init, Quiet
<1>3. TypeInv /\ Flags /\ Quiet /\ [Next]_vars =>
        [stopped =>
           /\ stopped' /\ sock' = "closed" /\ dl' \in {dl, "passed"}
           /\ \A actor \in Actor : op'[actor] \in {op[actor], "none"}]_vars
  BY WoundStep DEF Wound
<1> QED
  BY <1>1, <1>2, <1>3, TypeStep, FlagStep, QuietStep, PTL DEF Safety, StopIsFinal

================================================================================
