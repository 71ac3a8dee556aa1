# Distributed lighting control: models, checks and proofs

The repository is a distributed control system for the lamps of an office.  Every desk has an Arduino with a lamp
and a light sensor (`src/lightControl`).  The boards share an I2C bus: they count each other, calibrate a model of
how each lamp lights each desk, and then tell each other their duty cycles in every control cycle.  Each board also
sends its samples over a serial line to a server (`src/raspberryServer`), which keeps a history of each and answers
TCP clients (`src/tcpClient`).

This directory holds TLA+ models of that system, the TLC configurations that check them, and proofs for TLAPS.
`PROJECT.json` gives, for every definition, the lines of the source that it stands for.

    tlc -config DutyExchange3.cfg MCDutyExchange.tla     # one run; the other runs likewise
    tlapm DutyExchangeProofs.tla                         # one module of proofs

## 1. Inventory

| part | state it keeps | operations | talks to |
|---|---|---|---|
| I2C driver (`TWI.cpp`) | `twi_status`, one buffer for both directions, three callbacks | `send_msg`, the interrupt routine | the bus; `Meta` through callbacks in the interrupt |
| Enumeration (`lightControl.ino` 82-207) | `Narduinos`, the index vector, flags | probe every address, announce number and indices | driver |
| Calibration (`MetaClass.cpp` 56-153) | stage, samples, lamp | MASTER and SLAVE sides of every stage | driver, lamp, sensor |
| Exchange (`MetaClass.cpp` 175-227) | slot, `rI2C`, `recvflag`, `sendflag`, vector `u` | TALK and SHUT sides of every slot | driver, controller |
| Controller (`LightController.cpp`) | gains, integrator, `u`, `ref`, `ffflag` | `calcController` in the timer interrupt, `setRef` in `loop()` | lamp, sensor, exchange |
| Serial commands (`SerialCom.cpp`) | a buffer of 10 characters | `receive_message`, `process_request` | server |
| History (`Arduino.cpp`) | vectors of 2000 samples, `K`, `cycle` | `receiveInformation` in the serial thread, getters in others | `MainController` |
| Serial line (`Serial.cpp`) | a file descriptor, no lock | `read_ln`, `Write` (a character at a time), `Close` | boards, history |
| Requests (`mainController.cpp`) | lists of callbacks | `get_clientRequest`, `printMetrics`, `delete_realtime` | sessions, history |
| Sessions (`session.cpp`, `tcpServer.cpp`) | socket, deadline, `sending`, mutex and condition | accept, read, write, delete | clients, requests |
| Client (`client.cpp`) | socket, two timers, `stopped_` | connect, read, heartbeat, deadline, send | server |

What is hard, and what makes each part correct:

* **Exchange.**  The boards are synchronised only by messages that carry neither a sender nor a slot, by a delay of
  20 ms before each, and by one flag and one buffer per board that the interrupt routine writes.  Correct means: no
  board falls out of step, the bus is not contended, no message is overwritten or taken for another kind, everybody
  holds what everybody else last said, and the rounds go on.
* **Calibration.**  The same flags and buffer.  Correct means: one lamp at a time, every sample under the lamp level
  it is fitted to, exactly as many samples as levels, nothing left over for the exchange, and an end.
* **History.**  One writer and any number of readers without a lock, on a ring whose index runs one too far.  Correct
  means: a reader gets a whole line and the newest one, energy never runs backward, power is a power, the values of
  the last minute are consecutive.
* **Sessions and subscriptions.**  A handler may sleep in `Write` on a thread of the very pool that must wake it; two
  handlers of one session may each delete it; lists are changed and walked by different threads.  Correct means: one
  write at a time on a socket, no lost wake-up, never all threads asleep, no write without an end, no callback of a
  client that is gone.
* **Client.**  Five chains of handlers end each other through one `stop()`.  Correct means: every endpoint is tried,
  a deadline cuts only the operation that set it, nothing restarts after `stop()`, and the client ends when the server
  is silent.
* **Enumeration.**  No board knows in advance which of them will count; waits that depend on the address decide it,
  and callbacks are exchanged while messages arrive.  Correct means: one board counts, every board ends, and all with
  the same vector, on which every later protocol relies.
* **I2C driver.**  One buffer and one pointer serve both directions, several boards may start at once, and the main program
  tests `twi_status` with interrupts on.  Correct means: a message arrives whole at every board that was listening or is
  known to have reached nobody, and each flag is set once per message.
* **Commands to the lamp.**  Requests of different threads write to one serial line without a lock, the board puts lines
  together in ten characters without a test, and the set point is stored under the interrupt that uses it.  Correct
  means: no fewer than four requests at once can overrun the buffer, a garbled line does not spoil the next command, the lamp
  follows what the server reports, and a set point that the controller has used while it was being stored is
  followed by a jump of the feedforward to the one in force, never to a half-stored one.
* **Controller numerics.**  Not modelled, see section 7.

## 2. Modules

| module | models | extends or uses |
|---|---|---|
| `GeneralCall` | `TWI::send_msg(0, ...)` and the three callbacks, as the main programs see them | |
| `TwiDriver` | `TWI.cpp` byte by byte, and the wires: implements `GeneralCall` | `GeneralCall` |
| `TwiDriverProofs` | theorems about `TwiDriver`, the refinement among them | |
| `Enumeration` | `countArduinos` and what `setup()` does up to `new Meta`, on every board | |
| `EnumerationProofs` | theorems about `Enumeration` | |
| `DutyExchange` | `setu_vec`, `loop()` and the timer interrupt of every board | `GeneralCall`, `RoundRobin` |
| `RoundRobin` | abstract: luminaires announce in turn, all store before the next announces | |
| `DutyExchangeProofs` | theorems about `DutyExchange` | |
| `Calibration` | `calibrateLumVoltageModel` of every board | `GeneralCall` |
| `CalibrationProofs` | theorems about `Calibration` | |
| `History` | one `Arduino` object with its serial thread and its readers | |
| `HistoryProofs` | theorems about `History` | |
| `Server` | `tcpServer`, `session`, and the subscriptions of `MainController` | |
| `ServerProofs` | theorems about `Server` | |
| `Client` | `client` and its `main` | |
| `ClientProofs` | theorems about `Client` | |
| `Occupancy` | the command `s`: `Arduino::setOccupancy`, `Serial::Write`, `SerialCom`, `setRef` and the timer interrupt | |
| `OccupancyProofs` | theorems about `Occupancy` | |
| `MC...` | model values for TLC, one per model | |

### GeneralCall
A node is a position in `arduinoIndex`, the same vector on all boards.  `twi`, `out` stand for `twi_status` and the
buffer of a board's own message, `rx` for a message whose STOP interrupt has not been served, and `rI2C`, `recvflag`,
`sendflag` for the members of `Meta`.  `deaf` says that `TWCR` was last written without `TWEA`: `send_msg` and every interrupt of a
sender do so, and only `set_slaveR` at the end of a message that went through puts it back, so a board that was not
acknowledged or lost the bus stays deaf until it has sent something else.  `Transfer` is a whole transaction: when
several boards have requested a START, those that are tied and send the same text share it, those that send another end in
`"lost"` (the `default` branch of the interrupt never clears `twi_status`), and every other board that is not deaf holds the message.
If nobody acknowledges the address all of them are idle again.  `SentISR` and `ReceiveISR` are the interrupts at the end.

`BusInit` lets the board that counted begin with a `sendflag` that belongs to none of its messages, as `Enumeration` can leave it
(finding 3).  `BusSpec` is the bus with any main programs, and what `TwiDriver` implements.

*A single board.*  With N = 1 nobody acknowledges the general call; the driver takes the `TWI_MTX_ADR_NACK` branch and
calls a callback that `countArduinos` has removed, so `setu_vec` waits for its `sendflag` for ever.  `NAssumption`
therefore says N >= 2.

### TwiDriver
The interrupt routine has one action per case of its switch; `AddressByte`, `DataByte`, `StartCondition` and `StopCondition` are the
hardware as far as it decides the next case.  A board whose interrupt is pending holds the clock and its main program does
not move.  `send_msg` is three steps: the look at `twi_status`, the buffer, `send_start`.  The refinement commits it at the first
(`prog[n].pc # "free"` maps to `"start"`), and a transaction at the STOP.

*The hypothesis `Timely`.*  Between its look at `twi_status` and `send_start` (`TWI.cpp` 122-151) a board still acknowledges its
address, and then reception and transmission share the one buffer; the same holds for the code behind TWSTO before
`set_slaveR`.  With `Timely` no address goes by meanwhile: it takes 180 us at 50 kHz, and the stretches are tens of
instructions.  With `Timely = FALSE` TLC shows the race at once, so the refinement really depends on it.  Printing in
the interrupt (`TWI_DEBUG`) stretches the clock and does not shorten an address.

*The texts.*  None is the beginning of another (`TextAssumption`): a board that has run out of bytes sends a STOP
against a rival's data, which the hardware does not define.  "U", "SR", "MS" and numbers with two decimals
are prefix-free except for the indices of the enumeration, which only one board sends.
`DataByte` asks that all who still talk have a byte left, so the model has no step where the hardware has no rule.
The proofs use of the assumption only that a text fits the buffer.

### Enumeration
`bd` holds, for every board, its program counter and the globals of the sketch under their names (`ok`, `ko`, `heard`
for `send_success`, `send_error`, `receive_success`; `found` for the addresses in `ArduinoIndex`).  The bus is that of
`GeneralCall` with what this part needs in addition: calls to one address, `TWI_MTX_ADR_NACK` with `onSendError`, and the
callbacks as variables, since the program exchanges them while messages are under way.  A node of the
later models is a position in the vector that this one computes (`SameVector`).

*The hypotheses `InTime`.*  `InStep`: the boards are switched on together, within about 60 ms, and a sweep reaches
the addresses that wait within a step of 100 ms (with `TWI_DEBUG` on an unanswered call prints 43 characters, about 4 ms; the
addresses 10 to 19, the only ones whose boards wait at all, come first).  `Calm`: the two `delay(100)` outlast a
poll that has begun and a few instructions.  `KeptUp`: a receiver copies an integer in less time than a message
of five bytes at 50 kHz takes.  `sendI2CState` on a board without a `Meta` writes through a null pointer; on the
ATmega328 the byte it hits (0x2C) is reserved, so in the model nothing else changes and `stray` records it.
The run takes the hypotheses.  `NobodyInvented` and `TypeCorrect` in `EnumerationProofs` are for either value of `InTime`, since they do not
need it; that one board counts, and that all end with the same vector, are proved under it.

A comment at `lightControl.ino` 139 says that the lowest address counts.  The wait is the longer the lower the address, so
it is the board with the highest; nothing depends on which.

### DutyExchange
`pc` names the waits and the code between them: `"talk"` (before "U"), `"sentU"`, `"value"`, `"sentDuty"` for TALK;
`"hush"`, `"lookU"`, `"await"`, `"lookDuty"` for SHUT; `"poll"` and `"tail"` for `loop()`.  A wait ends in a step of
its own, and the interrupts (`Timer`, `Sent`, `Received`) come between any two steps.  The control law is open: the
timer stores any duty cycle, and `getOwnDutyCycle`, which reads a double while the interrupt may write it, returns any.

*The hypothesis `DelaysCover`.*  `delay(20)` before each message is the only thing that makes a talker wait for
slow receivers.  With `DelaysCover = TRUE` a delay ends only when every other board has served its interrupts
and acted on what it received.  The code justifies it as far as timing can be justified: a receiver
has to leave a loop, compare one character and return, and the longest thing that can come between is one timer
interrupt, and a few lines on the serial port at 115200 baud.  It is a hypothesis all the same: without it a message
can be lost, and then every board waits for ever.

*The stale flag.*  The board that counted may arrive with `sendflag` set.  It is the last to talk in the first round, and then does not wait for
its own "U" but goes on to its value at once, so the listeners may act on the "U" only after that.  The properties hold with and
without it; the proof needs a role of its own for this board (section 5).

### Calibration
`light` is the level of each lamp, `y[n][j]` the set of lamp states seen while board n took its sample j (a sample
is an average of ten readings and takes time, so other boards act in between).  `CleanSamples` speaks of these sets: one sample per
level, each under that level.  The least squares arithmetic is left out: what is checked is that it is fed the right
samples.  The runs start with or without the stale `sendflag` of the board that counted: as MASTER of the last stage it then
reads its first sample before its first "SR" is out, and is one message ahead of its flag to the end, so `CleanHandover`, which says
that nothing is left over for the exchange, excepts its last message and its flag.  Once that message is out, this is
what the `Init` of `DutyExchange` takes over.

### History
The vectors are one vector of records.  Every write of a cell, of `K`, and every read of either is a step of its own,
in program order (on the write side the mutex around the printing orders the writes of the cells and that of `K`).
`getPower` and `get_minute` are a step per read.  `PowerIsPower` bounds the energy that `getPower` divides by its time rather than the
quotient, and says that the time is not 0 once a line has come; before the first line, or when two lines come in one millisecond, the code
answers 0/0, which is not a number.  `Slack` bounds how many lines may begin to arrive while
one getter runs; a getter that is preempted for a whole lap (40 s at a sample every 20 ms) is left out by `Slack + 3 <= N`.

### Server
A session is in one of the states of `life`; `rd` says where its read operation or read handler is, `failing` where a failed
`handle_write` is, `asleep` which threads sleep in its `Write`.  The pool has as many threads as `accept()` has been called
(each call starts one), and a handler that runs takes one.  A session that is deleted under another handler, and two
threads in the same list at once, are undefined behaviour: `broken` says that it has happened and the model stops, so
the properties speak of what the code does until then.  A `handle_write` whose error handler deletes the session also unlocks the
mutex of what it has deleted; as nothing else uses that mutex any more the model goes on there, and so
checks more states than if it stopped.  The lists of the commands `l` and `d` are alike and one of
them stands for both.  `tcpServer::sessions` is only ever appended to and is left out, as are `stop()` and the destructor,
which `main` never reaches.  `WrongId` are ids that no luminaire has: `c` takes them and `delete_realtime` does not
look at them, so the list of such an id keeps the callback of a session that is gone; `NoneLeftBehind` speaks of the luminaires there are.

### Client
`op` has, for the four actors of the io thread, the state of their operation or handler: an operation that is over
waits as `"ok"` or `"failed"` until its handler runs.  `main` starts sends at any time and returns after the last.

### Occupancy
One luminaire.  A request takes the first free name in `Client`; `WriteChar` is one `write` of one character, so the lines of two requests
can interleave in any way.  `Meaning` is what `sscanf` makes of a line: `tipo` and `valor` are not initialised (`SerialCom.cpp`
59-60), so an empty line or one without a number yields any value.  `ref` is a `double`, on this processor four bytes, stored under the
interrupt that reads it: `"torn"` stands for whatever is there in between.  `Loop` is the whole round of the board, of which `setu_vec`
is `DutyExchange`'s concern.

`Tick` is the interrupt, with the two branches of `calcController`: `Jump`, the cycle of feedforward alone that `ffflag` asks for,
and `Pid`, all other cycles.  Both read `ref` (the feedforward in both; the error and its dead zone in `Pid`) and drive the LED.  The
numbers are left out: `jump` is the set point of the last jump and `lamp` the one the LED was last driven from.  An interrupt
that falls into `setRef` therefore does drive the LED from a set point half stored, or from the new one before the
cycle that the comment at `LightController.cpp` 86 calls the first (`lamp = "torn"` is reached in the run).  What the code does promise, and `RefFollows`
says of every state, is that a jump never takes a half-stored set point, and that after such a cycle a jump to the set point in force
is due.  The first holds although the two flags are unprotected: a round that may change the set point begins after a
tick, and that tick has cleared `ffflag`.  What a half-stored set point leaves in `e`, `windup` and the integrator, which a jump does
not clear, is numerics (section 7).  The order of the two stores of `setRef` is taken from the
program: `ffflag` is volatile, `ref` is not.  `ffflag` has two bytes, of which only one ever changes.

*The overflow.*  `incoming` has ten characters and no test, and nothing in the server limits the requests.  The model has the
overflow (`Overrun`): the board is then at `"overrun"`, behind which nothing is said of its main program.  `LineFits` says what it
takes: `peak` is the most requests that have written at once so far, and before an overflow three characters of each must have filled the
array, which takes four requests with ten characters.  In the run two requests overrun six characters.  The receive buffer of the board's
UART (64 characters) is not modelled: a long round under many requests may lose characters there.

## 3. Runs

| run | configuration | distinct states | shows |
|---|---|---|---|
| `enumeration` | boards 10, 11, 13 of the addresses 10..13, 4 waits, `InTime` | 2 thousand | one board counts, nobody invents a board, all end with the same vector |
| `enumeration_stray` | as `enumeration` | violation | `sendI2CState` runs without a `Meta` |
| `duty_exchange` | 3 boards, 2 duty cycles, `DelaysCover` | 201 thousand | everything promised above for the exchange, with or without a stale flag, and that it implements `RoundRobin` |
| `calibration` | 3 boards, 3 levels | 29 thousand | calibration is clean up to the last sample and ends |
| `calibration_last_sample` | 3 boards, 2 levels | violation | the last sample may see the lamp go out |
| `driver` | 3 boards, texts <<1>> and <<2, 1>>, buffer of 3, 3 sends, `Timely` | 702 thousand | the driver implements `GeneralCall` |
| `commands` | 2 requests at once, 6 characters, 3 commands | 449 thousand | what an overflow takes, the lamp follows, a changed set point is jumped to |
| `history` | ring of 5, 7 lines, one reader | 2.3 million | the getters are fresh and consistent over more than a lap |
| `history_ring` | ring of 5 | violation | `K` reaches N |
| `server` | 3 sessions, 1 luminaire, 1 wrong id, 2 lines each | 3.1 million | writes, wake-ups, pool, lists |
| `server_liveness` | 3 sessions, 1 luminaire, 1 line each | 168 thousand | writes end |
| `client` | 2 endpoints, 2 lines, 2 sends | 7 thousand | all about the client |

Bounds.  In the enumeration the constants `First`, `Last`, `Slots` shorten the 111 addresses and ten waits; there are
neighbours, a gap, and a board at the end of the range, and the state at any time depends on the addresses only through
their order and the waits.  In the exchange three boards are the fewest where a board is neither the talker of this slot nor that of the last.  Two
duty cycles are enough to tell a stale value from a new one, since values are only copied.  In the history, five cells
and seven lines give a lap, the lost line and the first line of the next lap, with two steps of time; one
reader is enough for TLC because readers share nothing they write (the proofs have any number).  In the
server the third session is the one that waits in accept while two others are open, so that two writers can sleep
while the pool has three threads; `MaxSessions`, `MaxLines` bound otherwise endless runs.  In the driver three boards give two that arbitrate
and one that listens; one text is lower on the wires and shorter, the other fills the buffer; three sends let a board that lost,
or that is deaf, meet a later message.  In the commands two requests can interleave and the third command comes after them, to
find what they left in `incoming`; in six characters garbled lines of five fit and those of six do not.  In the client the second
endpoint and the second send are the first that can meet the remains of another.

`CHECK_DEADLOCK FALSE` is given where the program may stop: the enumeration and the calibration end, bounded inputs run out
(driver, history, server), the client ends.  The exchange and the commands are checked for deadlock.

Every property of a passing run has a mutant in `PROJECT.json`: an operator in the module, commented as a faulty
variant, that replaces a definition the way a plausible mistake in the code would, and with which TLC finds
the property violated.

## 4. Fairness

* Enumeration, exchange, calibration: each board runs its main program, its timer ticks and its interrupts are served, and a
  requested transaction takes place (weak fairness of each; they are independent processors).
* Server: the pool runs a handler that is ready and time passes.  Nothing is owed by clients: a client may neither
  read, write nor leave.  `WritesEnd` holds because a client that has gone silent is cut by the deadline; a client
  that never reads but sends a heartbeat every ten seconds moves the deadline each time, and a write to it need not end.
  `MaxLines` is what makes clients fall silent in the model.
* Client: the io thread runs its handlers and time passes; the network and `main` owe nothing.
* Commands: a write to the line ends, `loop()` goes on (`setu_vec` ends, which is `RoundsGoOn` of the exchange) and the timer ticks.  No
  request need ever come.  `Agreement` is about a command that ran beside no other: lines that run into one another may
  mean anything.
* Driver: none, `BusSpec` is a safety property; that the bus moves is assumed where `GeneralCall` is used.

## 5. Proofs

All proofs are for every value of the constants that the assumptions allow, and for unbounded time where TLC's
bounds are constants of the module (`MaxLines` and the like are arbitrary naturals in the theorems).

* `EnumerationProofs`.  `NobodyInvented` and `TypeCorrect` need no hypothesis on time: two boards may count and messages may be lost.
  The invariant follows an address from the acknowledge of a call (`OneCall`: a call in flight is to address `i`, and if it ended
  well that is a board), through the message and the global `index` (`Indexes`), into the vector; `Indexes` also needs that
  `receive_success` is cleared before the callback that sets `index` is installed.
  `OneCountsHolds` and `SameVectorHolds` take `Punctual`: the hypotheses `InTime`, and that all addresses are among the ten that wait.
  The others (20 and above) do not wait at all, so any two of them would begin to count together; the address is read from the
  EEPROM, and that each board was given one of 10 to 19 is an assumption on how the boards were set up.
  The invariant is the stage of the system: all wait (`AllWait`); the board with the highest address, which
  loses patience first, calls one address after the other and each called board leaves its wait (`OneCalls`); all were
  called (`AllCalled`); and the caller tells its vector, of which every other board has the beginning that has
  been told, but for the one index that may be on its way (`AllTold`).
* `TwiDriverProofs`.  `TypeCorrect` and `DriverRefines`, under `Timely`, for any number of boards, texts and size of the buffer.  The
  invariant gives each board a place in each phase of the bus (`Place`): it waits or prepares, asks for a START, has started, talks, was not
  acknowledged, lost the arbitration, listens, is at the end of its own message or has one to deliver.  The places of all boards
  hang together by one sequence `t`, the bytes that have been out: whoever talks has a text that begins with `t` and its next byte at hand,
  and the buffer of whoever listens holds `t` up to the byte whose interrupt is still to come.  That those who share a transaction send the
  same text, and the loser another one, follows from `t` and `Differ`.  In the refinement `Check` is the `Send` of the
  abstract bus, `SentISR` its `SentISR`, `StopISR` its `ReceiveISR`, the STOP of a message (or an address nobody heard) its
  `Transfer`, and every other step a stutter.  `Timely` enters where an address is matched: no board is then between the look at
  `twi_status` and the write to `TWCR`, so no buffer has two uses.
* `DutyExchangeProofs`.  `TypeCorrect` holds without any hypothesis on the delays.  The others
  take `DelaysCover`.  The inductive invariant is `LockStep`: relative to `turn`, the slot whose value has not been on
  the bus, every board has one of five roles.  A `Talker` has the turn; the `LastTalker` has just had it; a
  `Listener` is in the slot of the turn with the mail that has been said so far; a board that is `Late` is one slot behind
  and has the value it lacks in its buffer; an `EarlyTalker` is the last board with its stale flag (`Spare`), which leaves its
  slot while its value is still being sent.  None of the safety properties is inductive alone: that the bus is not
  contended needs that nobody else is a talker, which needs that nobody lost a message, which needs that nobody's buffer was
  full.  `OneTalkerHolds`, `NoOverrunHolds` and `FramingHolds` follow from `LockStep`;
  `ViewAgreementHolds` is an induction of its own on top of it; and `Refinement` uses both to show that a step of
  the boards is an announcement, a store, or nothing to `RoundRobin`.
* `CalibrationProofs`.  `BoardsKeepStep`: whatever the order of steps that the delays leave open (that a delay of 20 or 200 ms
  outlasts the others' handling of a message is a guard of the model, as `DelaysCover` in the exchange), there are a stage `i` and a number `d` of "SR" that have been on
  the bus in it, and every board has its role given these (`LockStep`).  The `Master` has handed over at most one message that is not
  out; a `Slave` has taken the samples it was told to take but the last; a board is `Late` that has not yet acted on the "MS" of the stage
  before; the `LastMaster` may be so slow to see its `sendflag` that the next master's first "SR" finds it there; the last
  board may be `Gone` with its message still waiting for the bus; and in the end all are `Over`.  The board with the stale
  `sendflag`, which is one message ahead of its flag, has variants of its own (`Early`).  `OneLampHolds`
  and `CleanHandoverHolds` are read off the roles.  `CleanSamplesHolds` is an induction of its own on top: what a board has seen in
  a sample is the one level that belongs to it, and in the last sample of a stage perhaps the dark after it (`Fair`, finding 2).
* `HistoryProofs`.  `TypeCorrect` says that `K` stays in 0..N and that every index a getter uses is in the vectors.
  `Freshness` is `GetterIsFresh` for any ring, any number of readers.  The invariant counts the laps (`LapCount`:
  `cycle` and `K` agree modulo N+1), says which line is in which cell (`RingHolds`), and what a getter
  that has read `K` still finds in its cell after up to `Slack` further lines (`GetterHolds`).
  `PowerIsPowerHolds` and `MeterRunsForwardHolds` add that each cell follows on the one before it, over the lost line too, but for the oldest
  and the one whose energy is not counted yet (`Chained`), that a later line has a later time unless two come in one
  millisecond (`Timed`, for the division of `getPower`), what a reader holds of them in the middle of a getter (`Reads`), and
  that nobody has been told more energy than the newest cell has (`Tells`).
  `MinuteValuesHolds` takes `Unhurried`: two lines do not have the same millisecond, the first comes later than a window after the
  boot, and a window is shorter than the vectors by what may arrive during a call.  The code justifies all three: a line per
  period of the exchange, a calibration before the first, 2000 cells.  Its invariant relates the vector that was
  copied for the call, before `K` was read and while lines came in, to the lines that `K` stands for (`Copied`), and the cell the loop is at to
  the number of values it has collected (`Walks`).
* `ServerProofs`.  All six theorems follow from one invariant `IInv`, for any number of sessions, luminaires and lines.  `Numbered`: the
  session that waits for a client has the number of the threads, those before it are open or deleted, those behind do not exist yet.
  `Orderly`, for each session: an open one has a read operation or its handler, and a write on its way exactly if `sending`; the thread that
  runs its read handler sleeps only in a reply, a serial thread only while this session is the next it has to serve; and if anyone sleeps in
  its `Write` and no write has failed, somebody will wake them (`Waker`).  `Lists`: no list has a session twice or one that was not
  accepted, and one that `delete_session` has taken off the luminaires' lists stays off them.  `PoolServesHolds` then is a count: the
  threads asleep in a reply belong to different sessions, and none to the one that waits for a client.  `Counting`, that the positions
  of a list have ranks, is what is needed of `Without`.
* `ClientProofs`.  `TypeCorrect` needs that sends are counted once (`SendCount`).  `OwnDeadline` is inductive as it
  stands.  `AllTried` needs that until a connection was met there is a connect under way and neither read nor heartbeat, and
  `NoRestart` that a stopped client has a closed socket, nothing under way and no timer running.
* `OccupancyProofs`.  Neither theorem has a hypothesis: they are for any number of clients and commands and any size of the
  buffer.  `JumpFollowsRef` is `RefFollows`; the invariant (`RefInv`) adds that the set point is half stored only in the middle
  of `setRef`, and that a jump is due only at the end of a round or between rounds, before the tick that lets the next one begin.
  `LinesFit` is `LineFits`.  The invariant (`LineInv`) looks at the characters under way, in `incoming` and on the wire, as one sequence: the
  line at its end, which nobody has ended yet, is no longer than what the clients have written of unfinished commands (`Written`, at
  most three each), and no line before it is longer than three characters for each of `peak`.

Every safety property that a passing run checks is a theorem.  Only model-checked are the liveness properties (`Enumerated`, `RoundsGoOn`,
`Calibrated`, `WritesEnd`, `Ends`, `Agreement`): they rest on fairness and so on ENABLED, which the prover cannot do.  The same holds for
the freedom from deadlock that the runs of the exchange and of the commands check.  The three findings are counterexamples and need no proof.

## 6. Findings

1. **The ring has no cell for one line in N+1** (`history_ring`).  `getkNext` lets `K` reach N (`Arduino.cpp` 108) and
   `receiveInformation` stores that line past the end of the vectors.  The getters are not disturbed: a reader gets the
   line before for the length of one sample, and `calcEnergy` takes the step of time over the gap.
2. **The last calibration sample of a slower board may see the lamp go out** (`calibration_last_sample`).
   The comments at `MetaClass.cpp` 94 and 96 speak of waiting until the others have read; the code waits until its message is out.
3. **`sendI2CState` is installed while the last index is on the bus** (`enumeration_stray`): it may run before `meta` is
   set, or leave the new `Meta` with a `sendflag` that belongs to no message of its own.

## 7. Not modelled, and the plan

In this order:

1. **Composition** of enumeration, calibration and exchange in one module.  At present each starts where `SameVector`,
   `CleanHandover` and `BusInit` say that the one before ends.
2. **Reset** (`r`): the reading thread is interrupted and not joined, and its port is closed under it; and the reset of all
   (`o`) that the server sends.
3. **Controller** numerics: saturation, dead zone, the sum of the other duty cycles that is kept in an `int`, over bounded integers
   against a reference.
4. **Requests**: totals, `b` (with the walk past the end at `mainController.cpp` 247), `m`; the server composed with `Client`, and an abstract
   specification of a subscription (every sample at most once, in order, until cancelled).
5. **A single board**: the driver reports an error nobody listens to, and the exchange waits for ever.
6. **Proofs** about what is still to be modelled: the composition of item 1, where the last state of one part has to imply the `Init` of the
   next, and the reference of item 3.  Of the present modules no safety property is left.

Left out for good: `Error.cpp` and other printing, `exemplo.cpp`, the Matlab scripts and the data of `Dados`,
the uploader `upload.c`, and `arduinoI2C`, an older copy of the driver with a test sketch.
