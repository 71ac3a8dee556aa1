--------------------------------- MODULE Client --------------------------------
(***************************************************************************)
(* The TCP client: its actors connect, read, heartbeat and deadline run on *)
(* one io thread, each as a chain of asynchronous operations and handlers, *)
(* while main() starts sends from a thread of its own.                     *)
(*                                                                         *)
(* An operation ends (on the network, or because the socket is closed)     *)
(* before its handler runs; in between other handlers may.                 *)
(***************************************************************************)
EXTENDS Naturals

CONSTANTS
  Endpoints,   \* how many endpoints the resolver has found
  MaxLines,    \* bound: lines the server sends; then it is silent
  MaxSends     \* the start_send calls of main

ASSUME ClientAssumption ==
  Endpoints \in Nat \ {0} /\ MaxLines \in Nat /\ MaxSends \in Nat

VARIABLES
  stopped,   \* stopped_
  sock,      \* socket_: "connecting" is open without a connection
  ep,        \* which endpoint is tried
  op,        \* the operation or waiting handler of every actor
  dl,        \* deadline_
  owner,     \* history: the actor that last set deadline_
  pend, bad, \* sends under way; sends with an error whose handler is to run
  main,      \* calls of start_send that main has yet to make
  lines,     \* lines the server has yet to send
  met,       \* history: a read was started on a connection
  refused,   \* history: handle_send has called stop
  over       \* main has returned

connVars == <<stopped, sock, ep, dl, owner, met, refused>>
userVars == <<main, lines, over>>
vars     == <<connVars, op, pend, bad, userVars>>

(* "pending": under way.  "ok", "failed": over, the handler is to run.     *)
(* "waiting": for the deadline.  "timer": heartbeat_timer_ runs; "due":    *)
(* start_write is to run.                                                  *)
Actor   == {"connect", "read", "beat", "check"}
OpState == {"none", "pending", "ok", "failed", "timer", "due", "waiting"}

TypeOK ==
  /\ stopped \in BOOLEAN
  /\ sock  \in {"closed", "connecting", "open"}
  /\ ep    \in 1 .. Endpoints + 1
  /\ op    \in [Actor -> OpState]
  /\ dl    \in {"armed", "passed", "never"}
  /\ owner \in {"connect", "read"}
  /\ pend  \in 0 .. MaxSends
  /\ bad   \in 0 .. MaxSends
  /\ main  \in 0 .. MaxSends
  /\ lines \in 0 .. MaxLines
  /\ met \in BOOLEAN /\ refused \in BOOLEAN /\ over \in BOOLEAN

(* The constructor and start(): start_connect, then async_wait.            *)
Init ==
  /\ stopped = FALSE /\ sock = "connecting" /\ ep = 1
  /\ op = [[actor \in Actor |-> "none"]
             EXCEPT !["connect"] = "pending", !["check"] = "waiting"]
  /\ dl = "armed" /\ owner = "connect"
  /\ pend = 0 /\ bad = 0 /\ main = MaxSends
  /\ lines = MaxLines
  /\ met = FALSE /\ refused = FALSE /\ over = FALSE

(* socket_.close(): the operations under way fail, the sends among them.   *)
Aborted(o)   == [actor \in Actor |-> IF o[actor] = "pending" THEN "failed" ELSE o[actor]]
SendsAborted == bad' = bad + pend /\ pend' = 0
SendsGoOn    == UNCHANGED <<pend, bad>>

(* stop(), from a handler that leaves the operations o: it also cancels    *)
(* the timers, whose handlers then run.                                    *)
Stop(o) ==
  /\ stopped' = TRUE
  /\ sock' = "closed"
  /\ op' = [Aborted(o) EXCEPT !["beat"] = IF @ = "timer" THEN "due" ELSE @]
  /\ UNCHANGED <<dl, owner, met>>

Done(actor) == [op EXCEPT ![actor] = "none"]

--------------------------------------------------------------------------------
(* connect                                                                 *)

Connected ==
  /\ op["connect"] = "pending"
  /\ op' = [op EXCEPT !["connect"] = "ok"]
  /\ sock' = "open"
  /\ UNCHANGED <<stopped, ep, dl, owner, met, refused, pend, bad, userVars>>

ConnectFails ==
  /\ op["connect"] = "pending"
  /\ op' = [op EXCEPT !["connect"] = "failed"]
  /\ UNCHANGED <<connVars, pend, bad, userVars>>

(* Faulty variant: nobody looks whether there is another endpoint.         *)
NextEndpointAlways ==
  /\ ep' = ep + 1
  /\ sock' = "connecting" /\ dl' = "armed" /\ owner' = "connect"
  /\ op' = [Aborted(op) EXCEPT !["connect"] = "pending"]
  /\ UNCHANGED <<stopped, met>>

(* Faulty variant: the first endpoint that fails ends it.                  *)
NextEndpointNever == ep' = ep /\ Stop(Done("connect"))

(* start_connect(++endpoint_iter), after a close                           *)
NextEndpoint ==
  /\ ep' = ep + 1
  /\ IF ep < Endpoints
     THEN /\ sock' = "connecting" /\ dl' = "armed" /\ owner' = "connect"
          /\ op' = [Aborted(op) EXCEPT !["connect"] = "pending"]
          /\ UNCHANGED <<stopped, met>>
     ELSE Stop(Done("connect"))

(* Faulty variant: the deadline stays that of the connect.                 *)
StartReadNoDeadline == UNCHANGED <<dl, owner>>

(* the deadline that start_read sets                                       *)
StartRead == dl' = "armed" /\ owner' = "read"

(* An operation that starts on a closed socket fails.                      *)
Started == IF sock = "open" THEN "pending" ELSE "failed"

(* handle_connect                                                          *)
HandleConnect ==
  /\ op["connect"] \in {"ok", "failed"}
  /\ \/ /\ stopped
        /\ op' = Done("connect")
        /\ UNCHANGED <<stopped, sock, ep, dl, owner, met>> /\ SendsGoOn
     \/ /\ ~stopped /\ (sock = "closed" \/ op["connect"] = "failed")
        /\ NextEndpoint /\ SendsAborted
     \/ /\ ~stopped /\ sock # "closed" /\ op["connect"] = "ok"
        /\ StartRead
        /\ op' = [op EXCEPT !["connect"] = "none", !["read"] = "pending", !["beat"] = "pending"]
        /\ met' = TRUE
        /\ UNCHANGED <<stopped, sock, ep>> /\ SendsGoOn
  /\ UNCHANGED <<refused, userVars>>

--------------------------------------------------------------------------------
(* read                                                                    *)

LineArrives ==
  /\ op["read"] = "pending" /\ lines > 0
  /\ lines' = lines - 1
  /\ op' = [op EXCEPT !["read"] = "ok"]
  /\ UNCHANGED <<connVars, pend, bad, main, over>>

ReadFails ==
  /\ op["read"] = "pending"
  /\ op' = [op EXCEPT !["read"] = "failed"]
  /\ UNCHANGED <<connVars, pend, bad, userVars>>

(* Faulty variant: stopped_ is not looked at.                              *)
HandleReadOn ==
  /\ op["read"] \in {"ok", "failed"}
  /\ \/ /\ op["read"] = "ok"
        /\ StartRead
        /\ op' = [op EXCEPT !["read"] = Started]
        /\ UNCHANGED <<stopped, sock, met>> /\ SendsGoOn
     \/ /\ op["read"] = "failed"
        /\ Stop(Done("read")) /\ SendsAborted
  /\ UNCHANGED <<ep, refused, userVars>>

(* handle_read                                                             *)
HandleRead ==
  /\ op["read"] \in {"ok", "failed"}
  /\ \/ /\ stopped
        /\ op' = Done("read")
        /\ UNCHANGED <<stopped, sock, dl, owner, met>> /\ SendsGoOn
     \/ /\ ~stopped /\ op["read"] = "ok"
        /\ StartRead
        /\ op' = [op EXCEPT !["read"] = Started]
        /\ UNCHANGED <<stopped, sock, met>> /\ SendsGoOn
     \/ /\ ~stopped /\ op["read"] = "failed"
        /\ Stop(Done("read")) /\ SendsAborted
  /\ UNCHANGED <<ep, refused, userVars>>

--------------------------------------------------------------------------------
(* heartbeat                                                               *)

BeatEnds ==
  /\ op["beat"] = "pending"
  /\ op' \in {[op EXCEPT !["beat"] = "ok"], [op EXCEPT !["beat"] = "failed"]}
  /\ UNCHANGED <<connVars, pend, bad, userVars>>

(* handle_write: ten seconds until the next one, or stop.                  *)
HandleWrite ==
  /\ op["beat"] \in {"ok", "failed"}
  /\ \/ /\ stopped
        /\ op' = Done("beat")
        /\ UNCHANGED <<stopped, sock, dl, owner, met>> /\ SendsGoOn
     \/ /\ ~stopped /\ op["beat"] = "ok"
        /\ op' = [op EXCEPT !["beat"] = "timer"]
        /\ UNCHANGED <<stopped, sock, dl, owner, met>> /\ SendsGoOn
     \/ /\ ~stopped /\ op["beat"] = "failed"
        /\ Stop(Done("beat")) /\ SendsAborted
  /\ UNCHANGED <<ep, refused, userVars>>

BeatDue ==
  /\ op["beat"] = "timer"
  /\ op' = [op EXCEPT !["beat"] = "due"]
  /\ UNCHANGED <<connVars, pend, bad, userVars>>

(* start_write, which a cancelled timer calls too                          *)
StartWrite ==
  /\ op["beat"] = "due"
  /\ op' = IF stopped THEN Done("beat") ELSE [op EXCEPT !["beat"] = Started]
  /\ UNCHANGED <<connVars, pend, bad, userVars>>

--------------------------------------------------------------------------------
(* deadline                                                                *)

Elapse ==
  /\ dl = "armed" /\ dl' = "passed"
  /\ UNCHANGED <<stopped, sock, ep, owner, met, refused, op, pend, bad, userVars>>

(* Faulty variant: the actor does not go back to sleep.                    *)
CheckDeadlineOnce ==
  /\ op["check"] = "waiting" /\ (stopped \/ dl = "passed")
  /\ \/ /\ stopped
        /\ op' = Done("check")
        /\ UNCHANGED <<sock, dl>> /\ SendsGoOn
     \/ /\ ~stopped
        /\ sock' = "closed" /\ dl' = "never"
        /\ op' = Aborted(Done("check")) /\ SendsAborted
  /\ UNCHANGED <<stopped, ep, owner, met, refused, userVars>>

(* check_deadline.  When the deadline has been moved it only goes back to  *)
(* sleep.                                                                  *)
CheckDeadline ==
  /\ op["check"] = "waiting" /\ (stopped \/ dl = "passed")
  /\ \/ /\ stopped
        /\ op' = Done("check")
        /\ UNCHANGED <<sock, dl>> /\ SendsGoOn
     \/ /\ ~stopped
        /\ sock' = "closed" /\ dl' = "never"
        /\ op' = Aborted(op) /\ SendsAborted
  /\ UNCHANGED <<stopped, ep, owner, met, refused, userVars>>

--------------------------------------------------------------------------------
(* main and its sends                                                      *)

(* start_send: it asks neither whether there is a connection nor whether   *)
(* the client has stopped.                                                 *)
StartSend ==
  /\ main > 0 /\ main' = main - 1
  /\ IF sock = "closed" THEN bad' = bad + 1 /\ UNCHANGED pend
                        ELSE pend' = pend + 1 /\ UNCHANGED bad
  /\ UNCHANGED <<connVars, op, lines, over>>

(* The message is out: handle_send only prints.  Or it fails.              *)
SendEnds ==
  /\ pend > 0 /\ sock = "open" /\ pend' = pend - 1
  /\ bad' \in {bad, bad + 1}
  /\ UNCHANGED <<connVars, op, userVars>>

(* handle_send with an error                                               *)
HandleSend ==
  /\ bad > 0
  /\ \/ /\ stopped
        /\ bad' = bad - 1
        /\ UNCHANGED <<pend, op, stopped, sock, dl, owner, met, refused>>
     \/ /\ ~stopped
        /\ bad' = bad - 1 + pend /\ pend' = 0
        /\ Stop(op) /\ refused' = TRUE
  /\ UNCHANGED <<ep, userVars>>

(* main returns after its last send, whatever the io thread is doing.      *)
Return ==
  /\ main = 0 /\ over' = TRUE
  /\ UNCHANGED <<connVars, op, pend, bad, main, lines>>

Handler ==
  \/ HandleConnect \/ HandleRead \/ HandleWrite \/ StartWrite \/ CheckDeadline \/ HandleSend

Network == Connected \/ ConnectFails \/ LineArrives \/ ReadFails \/ BeatEnds \/ SendEnds

Next ==
  /\ ~over
  /\ Handler \/ Network \/ Elapse \/ BeatDue \/ StartSend \/ Return

Safety == Init /\ [][Next]_vars

(* The io thread runs every handler that is ready, and time passes.  The   *)
(* network owes nothing, and main may sleep as long as it likes.           *)
Fairness ==
  /\ WF_vars(~over /\ HandleConnect) /\ WF_vars(~over /\ HandleRead)
  /\ WF_vars(~over /\ HandleWrite)   /\ WF_vars(~over /\ StartWrite)
  /\ WF_vars(~over /\ CheckDeadline) /\ WF_vars(~over /\ HandleSend)
  /\ WF_vars(~over /\ Elapse)        /\ WF_vars(~over /\ BeatDue)

Spec == Safety /\ Fairness

--------------------------------------------------------------------------------
(* Properties.                                                             *)

(* The deadline that may close the socket was set by the operation that is *)
(* under way: a read is never cut short by what was left of a connect, nor *)
(* a second endpoint by the first.                                         *)
DeadlineIsOwn ==
  ~stopped /\ dl \in {"armed", "passed"} =>
    \/ op["connect"] # "none" /\ owner = "connect"
    \/ op["read"] # "none" /\ owner = "read"

(* Unless a send of main fails first, the client gives up connecting only  *)
(* when it has tried every endpoint, whichever of time-out, failure and    *)
(* success comes first at each.                                            *)
EndpointsTried == stopped /\ ~met /\ ~refused => ep > Endpoints

(* Once stop() has run, whichever handler called it, the client starts     *)
(* nothing of its own again, although handlers of all actors still come.   *)
StopIsFinal ==
  [][stopped =>
       /\ stopped' /\ sock' = "closed" /\ dl' \in {dl, "passed"}
       /\ \A actor \in Actor : op'[actor] \in {op[actor], "none"}]_vars

(* With a silent server the client comes to an end: time-out, stop, and no *)
(* operation left, so that io_service::run returns.                        *)
Idle == bad = 0 /\ \A actor \in Actor : op[actor] = "none"
Ends == <>(over \/ (stopped /\ Idle))

================================================================================
