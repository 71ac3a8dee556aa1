--------------------------------- MODULE Server --------------------------------
(***************************************************************************)
(* The TCP side of the server: tcpServer, its sessions, and the lists of   *)
(* MainController through which the serial threads push new samples to the *)
(* clients that asked for them.                                            *)
(*                                                                         *)
(* Handlers run on the threads that call io_service::run, one more of them *)
(* for every accept().  A handler that waits in session::Write keeps its   *)
(* thread.  Each step of a handler that another thread can see is a step   *)
(* here; a handler without such a step in its middle is one action.        *)
(*                                                                         *)
(* Every list has a luminaire and a command, l or d.  printMetrics copies  *)
(* and walks the two lists of its luminaire one after the other, and no    *)
(* request touches both, so an id here stands for one list.                *)
(*                                                                         *)
(* A session is deleted while handlers that are bound to it may still be   *)
(* under way.  What such a handler does is undefined: "broken" says that   *)
(* it has run, and the model ends there.                                   *)
(***************************************************************************)
EXTENDS Naturals, Sequences, FiniteSets

CONSTANTS
  MaxSessions, \* bound: sessions that accept() makes
  Arduino,     \* the ids of the luminaires: each has a serial thread
  WrongId,     \* ids a client may name that no luminaire has
  Reading,     \* the writer that is a handle_read, where the others are serial threads
  MaxLines     \* bound: lines a client sends

ASSUME ServerAssumption ==
  /\ MaxSessions \in Nat \ {0}
  /\ Arduino \cap WrongId = {}
  /\ Reading \notin Arduino
  /\ MaxLines \in Nat

(* Sessions, numbered as they are made.                                    *)
Session == 1 .. MaxSessions

ListId == Arduino \cup WrongId
Writer == Arduino \cup {Reading}

VARIABLES
  life,      \* of a session
  up,        \* the socket of a session is open at both ends
  dl,        \* the deadline timer of a session
  rd,        \* the read operation of a session and its handler
  out,       \* async_write operations of a session under way
  failing,   \* how far a handle_write with an error is
  sending,   \* session::sending
  asleep,    \* the threads in cv.wait of session::Write
  lines,     \* lines the client of a session has sent
  subs,      \* realtimecallbacks: a list of sessions for every id
  threads,   \* threads that call io.run()
  wired,     \* main() has set the two callbacks of the server
  ser,       \* the sessions printMetrics still has to send to
  broken     \* a deleted session has been used

sessionVars == <<life, up, dl, rd, out, failing, sending, asleep, lines>>
vars == <<sessionVars, subs, threads, wired, ser, broken>>

Life  == {"none", "accepting", "open", "deleted"}
(* "unset": no date yet, which async_wait takes for one that has passed.   *)
(* "stale": the wait of a deleted session.                                 *)
Dline == {"unset", "armed", "passed", "never", "stale"}
(* "waiting": async_read_until is under way; "reply": in Write; "next":    *)
(* start_read is to come; "leave", "delete": in delete_session.            *)
Rd    == {"none", "waiting", "erase", "push", "reply", "next", "leave", "delete"}
Fail  == {"no", "leave", "delete"}

TypeOK ==
  /\ life     \in [Session -> Life]
  /\ up       \in [Session -> BOOLEAN]
  /\ dl       \in [Session -> Dline]
  /\ rd       \in [Session -> Rd]
  /\ out      \in [Session -> Nat]
  /\ failing  \in [Session -> Fail]
  /\ sending  \in [Session -> BOOLEAN]
  /\ asleep   \in [Session -> SUBSET Writer]
  /\ lines    \in [Session -> 0 .. MaxLines]
  /\ subs     \in [ListId -> Seq(Session)]
  /\ threads  \in 1 .. MaxSessions
  /\ wired    \in BOOLEAN
  /\ ser      \in [Arduino -> Seq(Session)]
  /\ broken   \in BOOLEAN

At(s, label) == rd' = [rd EXCEPT ![s] = label]

(* The constructor of tcpServer and the accept() of main.                  *)
Init ==
  /\ life     = [s \in Session |-> IF s = 1 THEN "accepting" ELSE "none"]
  /\ up       = [s \in Session |-> FALSE]
  /\ dl       = [s \in Session |-> "unset"]
  /\ rd       = [s \in Session |-> "none"]
  /\ out      = [s \in Session |-> 0]
  /\ failing  = [s \in Session |-> "no"]
  /\ sending  = [s \in Session |-> FALSE]
  /\ asleep   = [s \in Session |-> {}]
  /\ lines    = [s \in Session |-> 0]
  /\ subs     = [i \in ListId |-> <<>>]
  /\ threads  = 1
  /\ wired    = FALSE
  /\ ser      = [a \in Arduino |-> <<>>]
  /\ broken   = FALSE

(* main() sets the callbacks after accept(), with a thread running.        *)
Wire ==
  /\ ~wired
  /\ wired' = TRUE
  /\ UNCHANGED <<sessionVars, subs, threads, ser, broken>>

(* A thread is free to run one more handler.                               *)
Running == {s \in Session : rd[s] \notin {"none", "waiting"}}
Failing == {s \in Session : failing[s] # "no"}
FreeThread == Cardinality(Running) + Cardinality(Failing) < threads

--------------------------------------------------------------------------------
(* tcpServer::accept and handle_accept.                                    *)

(* Faulty variant: accept() starts no thread of its own.                   *)
AcceptAloneMore == threads' = threads

(* Faulty variant: it starts a second one.                                 *)
AcceptTwoMore == threads' = threads + 2

(* accept(): a new session, async_accept, one more thread in io.run().     *)
AcceptMore == threads' = threads + 1

(* handle_accept without an error, and the start_read in it.               *)
Accept(s) ==
  /\ life[s] = "accepting" /\ FreeThread
  /\ s + 1 \in Session
  /\ life' = [life EXCEPT ![s] = "open", ![s + 1] = "accepting"]
  /\ up' = [up EXCEPT ![s] = TRUE]
  /\ dl' = [dl EXCEPT ![s] = "armed"]
  /\ At(s, "waiting")
  /\ AcceptMore
  /\ UNCHANGED <<out, failing, sending, asleep, lines, subs, wired, ser, broken>>

(* ... and with one: the session is deleted.                               *)
AcceptFails(s) ==
  /\ life[s] = "accepting" /\ FreeThread
  /\ s + 1 \in Session
  /\ life' = [life EXCEPT ![s] = "deleted", ![s + 1] = "accepting"]
  /\ dl' = [dl EXCEPT ![s] = "stale"]
  /\ AcceptMore
  /\ UNCHANGED <<up, rd, out, failing, sending, asleep, lines, subs, wired, ser, broken>>

--------------------------------------------------------------------------------
(* The client at the other end.                                            *)

(* It goes away, or the network does.                                      *)
Disconnect(s) ==
  /\ life[s] = "open" /\ up[s]
  /\ up' = [up EXCEPT ![s] = FALSE]
  /\ UNCHANGED <<life, dl, rd, out, failing, sending, asleep, lines>>
  /\ UNCHANGED <<subs, threads, wired, ser, broken>>

(* Time passes.                                                            *)
Elapse(s) ==
  /\ dl[s] = "armed"
  /\ dl' = [dl EXCEPT ![s] = "passed"]
  /\ UNCHANGED <<life, up, rd, out, failing, sending, asleep, lines>>
  /\ UNCHANGED <<subs, threads, wired, ser, broken>>

--------------------------------------------------------------------------------
(* session.                                                                *)

(* Faulty variant: the socket stays open, as in tcpServer::check_deadline. *)
CheckDeadlineOpen(s) ==
  /\ dl[s] \in {"unset", "passed"}
  /\ life[s] \in {"accepting", "open"} /\ FreeThread
  /\ dl' = [dl EXCEPT ![s] = "never"]
  /\ UNCHANGED <<life, up, rd, out, failing, sending, asleep, lines>>
  /\ UNCHANGED <<subs, threads, wired, ser, broken>>

(* check_deadline of a deadline that has passed.  One that has not goes    *)
(* back to sleep and changes nothing.                                      *)
CheckDeadline(s) ==
  /\ dl[s] \in {"unset", "passed"}
  /\ life[s] \in {"accepting", "open"} /\ FreeThread
  /\ up' = [up EXCEPT ![s] = FALSE]
  /\ dl' = [dl EXCEPT ![s] = "never"]
  /\ UNCHANGED <<life, rd, out, failing, sending, asleep, lines>>
  /\ UNCHANGED <<subs, threads, wired, ser, broken>>

(* handle_read with a line, up to where get_clientRequest does something   *)
(* that others see.  A heartbeat, a line before the callback is set and a  *)
(* "g" whose id is no number lead nowhere; c subscribes and d unsubscribes *)
(* to the list of an id, whatever the id is; everything else replies once. *)
HandleRead(s) ==
  /\ life[s] = "open" /\ rd[s] = "waiting" /\ up[s] /\ FreeThread
  /\ lines[s] < MaxLines
  /\ lines' = [lines EXCEPT ![s] = @ + 1]
  /\ \/ At(s, "next")
     \/ wired /\ At(s, "reply")
     \/ wired /\ At(s, "erase")
     \/ wired /\ At(s, "push")
  /\ UNCHANGED <<life, up, dl, out, failing, sending, asleep>>
  /\ UNCHANGED <<subs, threads, wired, ser, broken>>

(* compare_funcs: every entry of the session leaves the list, and the      *)
(* others keep their order.                                                *)
Without(list, s) ==
  LET kept    == {j \in 1 .. Len(list) : list[j] # s}
      Rank(j) == Cardinality({m \in kept : m <= j})
  IN  [k \in 1 .. Cardinality(kept) |-> list[CHOOSE j \in kept : Rank(j) = k]]

Unsubscribe(s) ==
  /\ life[s] = "open" /\ rd[s] = "erase"
  /\ \E id \in ListId : subs' = [subs EXCEPT ![id] = Without(@, s)]
  /\ At(s, "next")
  /\ UNCHANGED <<life, up, dl, out, failing, sending, asleep, lines>>
  /\ UNCHANGED <<threads, wired, ser, broken>>

(* Faulty variant: the earlier entry is not removed first.                 *)
SubscribeAgain(s) ==
  /\ life[s] = "open" /\ rd[s] = "push"
  /\ \E id \in ListId : subs' = [subs EXCEPT ![id] = <<s>> \o @]
  /\ At(s, "next")
  /\ UNCHANGED <<life, up, dl, out, failing, sending, asleep, lines>>
  /\ UNCHANGED <<threads, wired, ser, broken>>

(* compare_funcs, then push_front.                                         *)
Subscribe(s) ==
  /\ life[s] = "open" /\ rd[s] = "push"
  /\ \E id \in ListId : subs' = [subs EXCEPT ![id] = <<s>> \o Without(@, s)]
  /\ At(s, "next")
  /\ UNCHANGED <<life, up, dl, out, failing, sending, asleep, lines>>
  /\ UNCHANGED <<threads, wired, ser, broken>>

(* start_read at the end of handle_read.                                   *)
StartRead(s) ==
  /\ life[s] = "open" /\ rd[s] = "next"
  /\ dl' = [dl EXCEPT ![s] = "armed"]
  /\ At(s, "waiting")
  /\ UNCHANGED <<life, up, out, failing, sending, asleep, lines>>
  /\ UNCHANGED <<subs, threads, wired, ser, broken>>

(* Faulty variant: nobody waits for sending.                               *)
WriteAtOnce(s, w) ==
  /\ life[s] = "open" /\ failing[s] = "no"
  /\ sending' = [sending EXCEPT ![s] = TRUE]
  /\ dl' = [dl EXCEPT ![s] = "armed"]
  /\ out' = [out EXCEPT ![s] = @ + 1]
  /\ UNCHANGED <<life, up, failing, asleep, lines>>

(* session::Write by writer w, whose turn it is to hold mut (which a       *)
(* failing handle_write does not release): async_write unless sending.     *)
Write(s, w) ==
  /\ life[s] = "open" /\ failing[s] = "no" /\ w \notin asleep[s]
  /\ ~sending[s]
  /\ sending' = [sending EXCEPT ![s] = TRUE]
  /\ dl' = [dl EXCEPT ![s] = "armed"]
  /\ out' = [out EXCEPT ![s] = @ + 1]
  /\ UNCHANGED <<life, up, failing, asleep, lines>>

(* cv.wait(lock)                                                           *)
Sleep(s, w) ==
  /\ life[s] = "open" /\ failing[s] = "no" /\ w \notin asleep[s]
  /\ sending[s]
  /\ asleep' = [asleep EXCEPT ![s] = @ \cup {w}]
  /\ UNCHANGED <<life, up, dl, rd, out, failing, sending, lines>>
  /\ UNCHANGED <<subs, threads, wired, ser, broken>>

Reply(s) ==
  /\ rd[s] = "reply"
  /\ \/ Sleep(s, Reading)
     \/ /\ Write(s, Reading)
        /\ At(s, "next")
        /\ UNCHANGED <<subs, threads, wired, ser, broken>>

(* Faulty variant: handle_write wakes nobody.                              *)
NotifyNobody(s) == UNCHANGED asleep

(* cv.notify_one()                                                         *)
NotifyOne(s) ==
  IF asleep[s] = {} THEN UNCHANGED asleep
  ELSE \E w \in asleep[s] : asleep' = [asleep EXCEPT ![s] = @ \ {w}]

(* handle_write: the message has gone into the socket.                     *)
HandleWrite(s) ==
  /\ life[s] = "open" /\ out[s] > 0 /\ up[s] /\ failing[s] = "no" /\ FreeThread
  /\ out' = [out EXCEPT ![s] = @ - 1]
  /\ sending' = [sending EXCEPT ![s] = FALSE]
  /\ NotifyOne(s)
  /\ UNCHANGED <<life, up, dl, rd, failing, lines>>
  /\ UNCHANGED <<subs, threads, wired, ser, broken>>

(* handle_write with an error: mut is held until delete_session is over.   *)
WriteFails(s) ==
  /\ life[s] = "open" /\ out[s] > 0 /\ ~up[s] /\ failing[s] = "no" /\ FreeThread
  /\ out' = [out EXCEPT ![s] = @ - 1]
  /\ sending' = [sending EXCEPT ![s] = FALSE]
  /\ NotifyOne(s)
  /\ failing' = [failing EXCEPT ![s] = "leave"]
  /\ UNCHANGED <<life, up, dl, rd, lines>>
  /\ UNCHANGED <<subs, threads, wired, ser, broken>>

(* handle_read with an error.                                              *)
ReadFails(s) ==
  /\ life[s] = "open" /\ rd[s] = "waiting" /\ ~up[s] /\ FreeThread
  /\ At(s, "leave")
  /\ UNCHANGED <<life, up, dl, out, failing, sending, asleep, lines>>
  /\ UNCHANGED <<subs, threads, wired, ser, broken>>

(* Faulty variant: the loop ends one luminaire early.                      *)
DeleteRealtimeLess(s) ==
  \E last \in Arduino :
    subs' = [i \in ListId |-> IF i \in Arduino \ {last} THEN Without(subs[i], s) ELSE subs[i]]

(* delete_realtime: s leaves the lists of all luminaires.                  *)
DeleteRealtime(s) ==
  subs' = [i \in ListId |-> IF i \in Arduino THEN Without(subs[i], s) ELSE subs[i]]

(* onSessionDelete(_session).  An empty std::function throws, which ends   *)
(* the process.                                                            *)
Forget(s) ==
  /\ life[s] = "open"
  /\ \/ rd[s] = "leave" /\ At(s, "delete") /\ UNCHANGED failing
     \/ failing[s] = "leave" /\ failing' = [failing EXCEPT ![s] = "delete"] /\ UNCHANGED rd
  /\ \/ wired /\ DeleteRealtime(s) /\ UNCHANGED broken
     \/ ~wired /\ broken' = TRUE /\ UNCHANGED subs
  /\ UNCHANGED <<life, up, dl, out, sending, asleep, lines>>
  /\ UNCHANGED <<threads, wired, ser>>

(* delete _session                                                         *)
Delete(s) ==
  /\ life[s] = "open"
  /\ \/ rd[s] = "delete" /\ At(s, "none") /\ UNCHANGED failing
     \/ failing[s] = "delete" /\ failing' = [failing EXCEPT ![s] = "no"] /\ UNCHANGED rd
  /\ life' = [life EXCEPT ![s] = "deleted"]
  /\ up' = [up EXCEPT ![s] = FALSE]
  /\ dl' = [dl EXCEPT ![s] = "stale"]
  /\ UNCHANGED <<out, sending, asleep, lines, subs, threads, wired, ser, broken>>

--------------------------------------------------------------------------------
(* printMetrics in the serial thread of luminaire a, for every new sample. *)

MetricsBegin(a) ==
  /\ ser[a] = <<>> /\ subs[a] # <<>>
  /\ ser' = [ser EXCEPT ![a] = subs[a]]
  /\ UNCHANGED <<sessionVars, subs, threads, wired, broken>>

Metrics(a) ==
  /\ ser[a] # <<>>
  /\ LET s == Head(ser[a])
     IN  \/ Sleep(s, a)
         \/ /\ Write(s, a)
            /\ ser' = [ser EXCEPT ![a] = Tail(@)]
            /\ UNCHANGED <<rd, subs, threads, wired, broken>>

--------------------------------------------------------------------------------
(* What a deleted session is still used for.                               *)

(* A handler or a writer of it goes on: undefined.                         *)
Stale(s) ==
  /\ life[s] = "deleted"
  /\ \/ rd[s] # "none" \/ out[s] > 0 \/ failing[s] # "no"
     \/ \E a \in Arduino : ser[a] # <<>> /\ Head(ser[a]) = s
  /\ broken' = TRUE
  /\ UNCHANGED <<sessionVars, subs, threads, wired, ser>>

(* Two threads in the lists at once, one of them changing them: there is   *)
(* no lock, so this too is undefined.  A serial thread that is not sending *)
(* may be at its copy, another session at its own change.                  *)
Changing(s) ==
  life[s] = "open" /\ (rd[s] \in {"erase", "push", "leave"} \/ failing[s] = "leave")

ListRace(s) ==
  /\ wired /\ Changing(s)
  /\ \/ \E a \in Arduino : ser[a] = <<>>
     \/ \E other \in Session \ {s} : Changing(other)
  /\ broken' = TRUE
  /\ UNCHANGED <<sessionVars, subs, threads, wired, ser>>

(* The wait that the destructor cancelled: check_deadline always runs once *)
(* more, and finds the old contents of the memory or something else.       *)
StaleTimer(s) ==
  /\ dl[s] = "stale" /\ FreeThread
  /\ dl' = [dl EXCEPT ![s] = "never"]
  /\ broken' \in BOOLEAN
  /\ UNCHANGED <<life, up, rd, out, failing, sending, asleep, lines>>
  /\ UNCHANGED <<subs, threads, wired, ser>>

Handler(s) ==
  \/ Accept(s) \/ AcceptFails(s) \/ CheckDeadline(s)
  \/ HandleRead(s) \/ Unsubscribe(s) \/ Subscribe(s) \/ StartRead(s) \/ Reply(s)
  \/ HandleWrite(s) \/ WriteFails(s) \/ ReadFails(s) \/ Forget(s) \/ Delete(s)
  \/ Stale(s) \/ StaleTimer(s) \/ ListRace(s)

Next ==
  /\ ~broken
  /\ \/ Wire
     \/ \E s \in Session : Handler(s) \/ Disconnect(s) \/ Elapse(s)
     \/ \E a \in Arduino : MetricsBegin(a) \/ Metrics(a)

Safety == Init /\ [][Next]_vars

(* The threads of the pool run what is ready, and time passes.  Clients    *)
(* owe nothing: they may neither read nor write nor leave.                 *)
Fairness ==
  \A s \in Session :
    /\ WF_vars(~broken /\ Elapse(s))
    /\ WF_vars(~broken /\ CheckDeadline(s))
    /\ WF_vars(~broken /\ \/ Unsubscribe(s) \/ Subscribe(s) \/ StartRead(s) \/ Reply(s)
                          \/ ReadFails(s))
    /\ WF_vars(~broken /\ (WriteFails(s) \/ Forget(s) \/ Delete(s)))

Spec == Safety /\ Fairness

--------------------------------------------------------------------------------
(* Properties.                                                             *)

(* Two messages are never written to one client at the same time, however  *)
(* many threads have something for it (session.h:56): async_write calls    *)
(* that overlap would mix their bytes.                                     *)
OneWrite == \A s \in Session : out[s] <= 1 /\ (out[s] = 1 /\ life[s] = "open" => sending[s])

(* A thread sleeps in Write only while a write is under way whose end will *)
(* wake it, or one that was woken is on its way: no wake-up is lost.       *)
WillBeWoken ==
  \A s \in Session : life[s] = "open" /\ asleep[s] # {} /\ failing[s] = "no" =>
    \/ out[s] > 0
    \/ rd[s] = "reply" /\ Reading \notin asleep[s]
    \/ \E a \in Arduino \ asleep[s] : ser[a] # <<>> /\ Head(ser[a]) = s

(* However many clients do not read what they are sent, one thread of the  *)
(* pool is not asleep: the handlers that would wake the others, accept and *)
(* the timers among them, can run.                                         *)
Blocked == {s \in Session : rd[s] = "reply" /\ Reading \in asleep[s]}
PoolServes == Cardinality(Blocked) < threads

(* A client gets each sample once: no list has two entries of it, in       *)
(* whatever order it asks and cancels.                                     *)
SubscribedOnce ==
  \A i \in ListId : \A j, k \in 1 .. Len(subs[i]) : subs[i][j] = subs[i][k] => j = k

(* In the lists printMetrics walks through there is no deleted session,    *)
(* unless its own handler was still running when it was deleted.  (In the  *)
(* list of an id without a luminaire one stays, and nobody walks it.)      *)
NoneLeftBehind ==
  \A a \in Arduino : \A j \in 1 .. Len(subs[a]) :
    life[subs[a][j]] = "deleted" => rd[subs[a][j]] # "none"

(* Every write ends, also for a client that does not read: the deadline    *)
(* closes its socket once it has gone silent.                              *)
WritesEnd ==
  \A s \in Session : sending[s] ~> ~sending[s] \/ life[s] = "deleted" \/ broken

================================================================================
