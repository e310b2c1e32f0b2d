# A TLA+ model of StratuMAK's task controller and of its clients' channels

StratuMAK is a machine controller (a LinuxCNC descendant). Its task controller,
*milltask*, was rewritten in Go (`src/src/stmak/internal/task`): it serves
operator commands, runs G-code programs through the C++ interpreter, feeds the
realtime motion planner, and stops everything when something goes wrong. The
goroutines that do this share one record, two mutexes and a handful of channels,
and the code's comments record a long list of races that were found and fixed
one at a time. User interfaces, some of them Python programs, reach it over
WebSocket connections, with a goroutine for each thing they watch. This directory
models those parts of the program in TLA+, model-checks them with TLC on small
instances, and proves the properties that hold for instances of every size with
TLAPS.

## The system

| Component | State | Operations | What makes it correct |
|---|---|---|---|
| milltask core (`task.go`, `commands.go`) | task state and mode, interpreter state, exec state, `cmdMu`, `runDone`, MDI queue | AUTO commands (run, pause, resume, step), Abort, MDI, state and mode changes, jog, home | one user of the interpreter; every command returns; what it reports is what is going on |
| sequencer (`sequencer.go`) | one queue, one goroutine and three channels per generation; `seqInflight`, `seqFaulted`, `tapping`, `tpAbortPending` | StartSequencer, AbortSequencer, EnqueueCmd, the loop, seqFaultExit | one consumer; no lost commands; an abort ends it; a fault is seen and recovered from |
| producer (`runProgram` in `commands.go`) | its program position and abort channel | read, execute, drain, synch, fault | stops when its generation is aborted |
| canon (`canon.go`) | modal state, the cache of the last blending mode sent | one method per canonical function, most of which enqueue a command | what it thinks motion was told is what motion was told |
| safety monitor (`monitor.go`) | comm error counts, jog watchdog | errorStop, estop, jog expiry | a trip stops the machine at once and leaves it recoverable |
| M-code handlers (`mcode_handler.go`) | a job channel, a worker, an abort channel | Submit, Abort, Stop | each caller gets the result of its own job |
| motion (`cnc/motion`, `cnc/tp`) | the planner's queue and its pause, abort and step bits | commands, one servo cycle | an abort drops the queue, a pause holds it |
| tool and IO controller (`cnc/iotask`) | tool in spindle, prepared pocket, handshake pins | prepare, load, unload, abort | a handshake is answered once |
| interpreter (`cnc/rs274ngc`) | program position, parameters, modal state | open, read, execute, synch, reset, restore | sequential, not thread-safe |
| API server: streams (`stream_pump.go`, `stream_handler.go`) | per connection: a bounded queue, a wake-up channel, a drain and a writer goroutine | PumpTransmit | nothing drained is lost or sent twice; a slow client costs bounded memory; no poll after the handler returned |
| API server: watches (`ws_handler.go`, `push_watch.go`) | the registry of subscriptions, per connection a reader, a write lock and the push loops | subscribe, unsubscribe, call, push, keepalive; unregister at unload | an unload reaches and waits for every loop; a client never sees an older value after a newer one |
| operator messages (`messages.go`, `watches.go`) | a list of 50, identifiers | send, dismiss, read | a client that watches it shows it |
| position logger (`poslog.go`) | a buffer, a running flag, a stop channel | start, stop, clear, poll, sample | a sample is handed out once, in order |
| Python client (`gmi/python`: `_watch.py`, `positionlogger.py`) | a thread with an asyncio loop, its connection, the points of the plot | start, stop, clear, reconnect | it connects again until stopped; a stop ends the thread |
| jogs and HAL panel (`halui.go`, `commands.go`, `monitor.go`) | one record per axis index, the panel's copies of its pins | jog, repeat, stop, select, watchdog | nothing moves that nobody is going to stop |
| HAL (`hallib`, `halcmd`) | pins, signals, functions, threads in shared memory | create, link, load, unload | a pin has one writer; nothing refers to an unloaded component |
| launcher (`launcher`) | loaded modules and their order | start, unload, cleanup | teardown in reverse order, once |
| streams and scope (`halstream`, `halscope`) | ring positions, sample indices | sample, drain, trigger | every lost sample is counted |
| tool table, persistence, program filter, path search | database rows, child processes | load, save, convert | |
| pick-and-place task, classic ladder | an application's jobs, a ladder program | | |
| bridges (MQTT, ADS, HTTP, JSON), panels, preview, calibration | copies of pin values | | |
| GMI and component compilers | none | parse, check, generate | |
| Python user interfaces, wizards, generated resources | windows and widgets | event handlers of one thread | |

How they interact. A client's request runs on its own goroutine and serializes
on `cmdMu`; the reported state is guarded by `t.mu`, held for a few lines at a
time. *Run* opens the file, replaces the sequencer generation and launches a
producer goroutine. The producer calls the interpreter, which calls back into
the canon, which enqueues commands on the channel of the current generation; the
sequencer goroutine dequeues them, waits for motion as each asks, and sends them
to motion. *Pause*, *resume* and *step* skip `cmdMu`: they change the state,
close a channel the sequencer watches and tell motion. *Abort* closes the abort
channel and stops motion before it queues on `cmdMu`; the monitor's trip does the
same. Under `cmdMu` a teardown then clears the queue, waits for the producer,
resets the interpreter, joins the old sequencer and starts a new one.

A user interface has one WebSocket connection to the API server. Its reader
goroutine serves calls (which end in the operations above) and subscriptions; each
subscription has a goroutine that polls a *watch function* of the module (the
message list, the status, the buffer of sampled positions) and sends what changed.
A module can be unloaded and loaded again while clients are connected. Continuous
jogs come from a client that repeats its command while a button is held, watched by
a timer of the monitor, or from HAL pins, scanned by the panel goroutine.

What is hard, and what the hazards in `PROJECT.json` enumerate line by line: two
teardowns and a Run that overlap; signals sent without the lock that everything
else waits for; state that is read under `t.mu` and used after it; a channel
closed early that a later wait consumes; a goroutine that writes its last state
after its successor's; a fault whose only consumer has just exited; waits that
poll several values of another goroutine; a subscription superseded, cancelled or
orphaned by a reload while its loop is in a poll or a write; a client that is stopped
while it is connecting; samples under way in a connection that breaks; a button
released while its jog is still waiting for a mode switch.

## Modules

| Module | Models | Runs |
|---|---|---|
| `TrajQueue` | motion as the task sees it: the planner queue and its pause, abort and step bits, as operators on a record | through `TaskSequencer` |
| `TaskSequencer` | clients, the monitor, fault recovery, producers and the sequencer, on top of `TrajQueue`; `MCTaskSequencer` adds the symmetry set for TLC | `fault`, `trip`, `pause`, `live`, `v_m0`, `v_own` |
| `McodeHandler` | user M-codes: the worker, the sequencer goroutine as its caller, the teardowns that abandon a call | `mcode` |
| `StreamFifo` | what a stream promises: in order, once, a tail lost only when the connection breaks | as a property of `pump` |
| `StreamPump` | the pump of a transmit stream with its two goroutines, which implements `StreamFifo`; `MCStreamPump` gives message sizes | `pump` |
| `WatchServer` | watch subscriptions in front of the message list, and the unload of the module behind them | `watch` |
| `BackPlot` | the Python client and its position logger, the connections, the server's push loops and the sampler | `plot` |
| `JogWatchdog` | continuous jogs from clients and from pins, the watchdog, and motion | `jog`, `v_jog` |
| `TaskSequencerProofs`, `TaskOwnershipProofs`, `TaskProgramProofs`, `McodeHandlerProofs`, `StreamPumpProofs`, `WatchServerProofs`, `BackPlotProofs`, `JogWatchdogProofs` | lemmas and theorems | |

`TaskSequencer` composes the actors of milltask over one planner; `BackPlot`
composes the client library, the network, the server and the logger. The modules do
not share state otherwise: `McodeHandler` is the sequencer's M-code call in detail,
`WatchServer` and `StreamPump` are two kinds of connection.

### TrajQueue

A segment is one unit of depth. `MotAbort`, `MotPause`, `MotResume`, `MotStep`
and `AddSegment` are the handlers of `motion/command.c` together with the planner
functions they call. `Cycle(tp)` is the set of records a servo cycle may leave:
an empty queue clears pause and abort, an aborting planner that reached zero
velocity drops its queue, an unpaused one completes a segment, and stepping
re-pauses when the executing id changes. Whether velocity has reached zero, and
how far a segment is, are choices of the cycle.

### TaskSequencer

Threads are clients, the monitor, a pool of recoverers (the goroutines that
`seqFaultExit` spawns) and a pool of producers. `pc[t]` is a thread's step,
`op[t]` why it runs. One action is one hold of `t.mu`, one operation on a channel
or mutex, or one call to motion or to the interpreter.

A *generation* is one element of `Gen`: its queue, its abort channel (closed when
it is in `closed`) and its goroutine (`spc`, with the command in hand in `cmd`).
`cur` is the generation whose channels the Task holds. The names are reused when
nothing refers to one any more (`Unused`); a name not in use counts as closed.
`old[t]` is the generation StartSequencer captured to join it, `mine[p]` the abort
channel handed to a producer, `tgt[p]` the channel EnqueueCmd captured before its
select.

| Code | Actions |
|---|---|
| `Abort`, `signalAbort`, `abortMachineLocked` | `Abort`, `AbortSigStop`, `Lock`, `AbortClobber`, then the teardown, then `AbortRestore` |
| teardown: `stopSignals`, `finishShutdown`, `restartSequencer` | `AbortSequencer`, `FlushQueue`, `StopMotion`, `WaitRunDone`, `InterpReset`, `StartSequencer`, `JoinSequencer`, `SpawnSequencer`, `CommitTerminal` |
| `errorStop` | `MonitorTrip`, then the teardown, with `cmdMu` taken in the middle |
| `recoverSeqFault` | a recoverer: `Lock`, `FaultCheck`, then the teardown |
| `autoCommand(AutoRun)` | `Run`, `Lock`, `FaultCheck` (front door), `RunGuard`, StartSequencer, `RunOpen`, `RunLaunch` |
| `doPauseLocked`, `doResumeLocked`, `doStepActiveLocked` | `Pause`/`PauseMotion`, `Resume`/`ResumeMotion`, `Step`/`StepWake` |
| `runProgram`, `seekToLine`, `waitSequencerDrain`, `faultProgram`, `EnqueueCmd` | `ProgramStart` ... `ProgramExit` |
| `sequencerLoop`, `seqCheckPause`, the waits, `seqFaultExit` | `Seq...` |

Canon commands are reduced to the kinds whose control differs: `move` (a segment,
throttled and single-stepped), `params` (motion parameters), `aux` (IO or spindle,
with a motion-drained precondition), `m0` (a pause after motion has drained),
`tapOn`/`tapOff` (the rigid-tap bracket in which pause and step are deferred), and
the markers `sync` and `done`. One execute of the interpreter may emit any number
of them.

What is abstracted: polling intervals and sleeps (a poll loop waits until one of
its exits holds); the bound of 1000 retries of a refused motion command (it may
give up at any time); the two holds of `t.mu` in `seqEnterPause` are one; the
capture and the enqueue of the restored modal state after an abort are one; the
default blending mode that `restartSequencer`, and `syncTermCond` after a run-from-line,
send to motion directly, past the queue (`commands.go:475`; it changes parameters only);
the read of the queue depth that ends `waitTPAbortDone` and the store that follows it,
since the sequencer that makes both is the only one to fill the planner's queue.
`abortMotion` is two steps, the mark and the call (`MarkAbort`, `SendAbort`). Assumed: the machine is ON, homed and in AUTO mode, so that no
guard on those refuses and no mode switch interferes.

### McodeHandler

A *job* is one submission: the M-code and the abort and result channels that
`Submit` makes for it. `signalled` holds the jobs whose abort channel is closed,
`result` what each result channel buffers, `abortCh` the job whose abort channel
`h.abortCh` is. Names return to `Unused` when the worker, the sequencer and the
handler have all let go of them. The sequencer goroutine is reduced to its M-codes
(`TaskSequencer` models the rest, and `SingleSequencer` why one goroutine at a time
runs it); `seqAbort` is the abort channel of the current generation.

| Code | Actions |
|---|---|
| `sequencerLoop` | `Take`, `SeqStop` |
| `McodeCmd.Execute`, `Submit`, `check` | `Submit`, `Put` (the select on `jobCh` and the abort), `Poll` |
| `worker` | `WorkerTake`, `WorkerReturn` |
| `mcodeHandler.Abort` | `McodeAbort` |
| `Abort`, `signalAbort`, `abortMachineLocked` | `SignalAbort`, `McodeAbort`, `Lock`, `AbortSequencer`, `McodeAbort`, `StartSequencer`, `SpawnSequencer` |
| `errorStop` | `MonitorTrip`, `AbortSequencer`, `McodeAbort`, `Lock`, `StartSequencer`, `SpawnSequencer` |
| `faultProgram` | `FaultProgram`, `StartSequencer`, `SpawnSequencer` |
| `recoverSeqFault` | `Poll` spawns it, `Lock`, `StartSequencer`, `SpawnSequencer` |

The steps of a teardown that do not touch M-codes (motion, IO, the interpreter) are
left out. Several pending recoveries do the same as one, so one recoverer serves.
Handlers keep the contract of `mcode_handler.gmi`: one reports "aborted" (-2) only
after it was signalled. One that did so unasked would end the sequencer with no
fault and nobody to restart it, because `McodeCmd.Execute` turns -2 into the error
that the loop takes for an abort; `ExitIsNoticed` says that this is the only way. A code that
nobody registered fails like one whose handler fails.
Not modelled: registration (all slots are filled before programs run), `Stop` at
module unload, the fault path of an MDI, and the pipe that carries the abort into C.

### StreamPump

`PumpTransmit` runs two goroutines over a queue guarded by a mutex. The drain
goroutine polls the producer, which must be drained in time, and never touches the
network; the writer sends, and may block as long as the client likes. `msgs` is the
queue, `cost` what its messages and the batch being written are charged, `ready` the
one-slot wake-up channel, `stop` the closed `drainStop`. `polled` and `wire` are
history: what the producer handed over, what the client was sent. A message is a
model value with a size; `Charges` is what a sequence of them is accounted for.
`Overhead`, `PollSize` and `MaxQueued` are the code's constants, scaled down.

| Code | Actions |
|---|---|
| the drain loop | `DrainCheck` (stop or go on), `Room` (the reservation for the largest result), `PollMessage`, `PollNothing`, `PollEnd`, `Signal` (the non-blocking send), `Idle` (the ticker) |
| the writer loop | `Take`, `Wake` (the select on the wake-up channel and on the end of the drain goroutine), `Flush`, `Write`, `WriteFails` |
| its deferred calls | `Close`, `Join` |
| `stream_handler.go`, the client, shutdown | `ConnDone` |

`StreamFifo` has three variables: what went in, what came out, whether it is open,
broken or closed. `StreamPump` instances it with `in <- polled`, `out <- wire`; a
write that failed is `Break`, the return of the handler `Close`, and everything else a
step of the stream or a stutter.

### WatchServer

A subscription and its push loop have one number, `subSeq` when it was made. `pc[i]`
is the loop's step, `mod[i]` the module load it calls into, `group[i]` the one whose
WaitGroup counts it; `cancelled` and `tracked` are the contexts and the registry.
`reader[c]` is the step of a connection's reader goroutine. A task's message list is a
set, since identifiers grow; `version` counts its changes, so that a frame can be
dated, and exists in the model only.

| Code | Actions |
|---|---|
| `handleSubscribe`: look up, supersede, track, build the watch | `Lookup`, `Subscribe`, `Track`, `Factory`, `FactoryFailed` |
| `handleUnsubscribe`, `handleCall` | `Unsubscribe`; `Call`, `Reply` |
| the read loop's end and `dropAll`; keepalive | `ReadFails`; `Keepalive` |
| `pushLoop`, `writeUpdate` | `Poll`, `WriteBegin`, `WriteEnd`, `Tick`, `Leave` |
| `UnregisterByInstance`, `launcher/unload.go` | `Sweep`, `Destroy`, `GiveUp` (five seconds passed) |
| `messages.go`, `watches.go` | `Operator`, with `Appended` and `Changed`; `Load`, `ChangeList` |

One function is watched, so a connection has at most one subscription at a time.
Events of `Env`: `"wedged"`, a loop that does not come back, so that the unload gives
up; `"factory"`, a watch that cannot be built; `"change"`, a list that the module
changes by itself.

### BackPlot

A sample is its ordinal number, a batch a sequence of them. The client's thread is
`_main` with `thread` as its step; `_shutdown` and the `clear` call are coroutines on
the same loop, so they interleave with `_main` where it awaits. A connection keeps
the calls under way (`up`) and, for the last one, the updates under way (`down`).

| Code | Actions |
|---|---|
| `_watch.py` `start`, `stop`, `_main`, `_recv_loop` | `Start`, `Stop`; `Connect`, `ConnectFails`, `Subscribe`, `Receive`, `ReceiveEnds`, `Close`, `Sleep`, `Cancelled` |
| `_watch.py` `_shutdown` | `FinalCall`, `CloseSocket`, `CancelMain` |
| `positionlogger.py` | `OnConnect`, `FirstClear`, `Clear`, `ClearCall`; `Receive` for `_process_chunk` |
| `poslog.go` | `ServeStart`, `ServeStop`, `ServeClear`, `Drain`; `ReadStopCh`, `Ends`, `Sample` with `AppendPoint` |
| `ws_handler.go` | `ServeSubscribe`, `Drain`, `Write`, `Hangup` |
| the network and the server process (external) | `DropConnection`, `Restart` |

`prev` keeps the size of the last batch only: a batch of the same size *may* read the
same, and the push loop then takes it for no change and drops it.

### JogWatchdog

A drive is a joint or an axis; `record[i]` is `activeJogs[i]`, which has an index and
no kind of its own key. A jog is two steps, or three if motion must change its mode
first, which it does while holding `cmdMu`; a stop is two, the record and then motion.

| Code | Actions |
|---|---|
| `Jog`, `JogFromHAL`, `jogInternal`, `ensureJogModeLocked` | `JogRefused`, `JogStart`, `JogSwitch`, `JogSwitched`, `JogGivesUp` |
| `JogStop` | `StopRecord`, `StopMotion`, `StopAtOnce` |
| `checkJogWatchdog` | `Expire`, `ExpireAbort` |
| `halui.go` `checkJointJog`, `checkAxisJog` | `ScanPin`, `ScanSelected`, then `HalCall` |
| `checkJointSelection` / `checkAxisSelection`, `SetJogAxis` | `SelectJoint` with `Retarget` / `SelectAxis` |
| motion `command.c`, `control.c` | `JogCont`, `JogAbort`, `MachineOff`, `MachineOn`, `LateFree` |
| a user interface (external) | `Press`, `SendJog`, `Release`, `Disconnect` |

The scan is not one step: between two of its reads any other thread may run. Its
calls are made in the code's order, joint by joint, and each returns before the next.
A drive has one jog pin and one pin for the selection, where the panel has four of each
kind (plus, minus, analog and the user interface's): they are scanned one after the
other by the same code, and two held for one drive are not modelled. A status of motion
that cannot be read makes `ensureJogModeLocked` go on in whatever mode motion is in; the
jog is then recorded, and motion refuses it in the wrong one: `h_jog_cont`
(`motctl_handlers.c:340`) sends a negative axis with a joint and a negative joint with an
axis, which `command.c:535` to `581` turn down by the TELEOP flag before the case of
`EMCMOT_JOG_CONT` is reached.
`Env` has `"off"`, the machine goes off and on, and `"between"`, a pin changes between
two reads of one scan (see the windows below). Incremental and absolute jogs end by themselves, and wheel jogs in motion; they are
left out.

## The runs

The runs of `TaskSequencer` use one recoverer (two in `fault`), two producers (one in
`live`), a sequencer queue of one slot and a planner of one or two slots. That is enough for the interesting cases: the
queue is full with one command in it while another is in hand and a third is being
emitted; the planner is at its mark with one segment; one client racing a monitor, a
recoverer, two programs and two live generations covers every pair of actors, and
`fault` adds a second client, so that two teardowns meet. With two producers a new
program can start while the goroutine of the one before is still there, which is what
the exclusion of the interpreter is about. Programs have any length: every line and
command is a choice. Three generation names suffice for two live ones and a captured
old one; with two a replacement waits until nobody refers to the one before, which
`fault` never has to (a third changes none of its 1667483 states). The code spawns a
goroutine for every fault (`sequencer.go:804`); in the model a fault needs a recoverer at
rest, and a second one in `fault` lets a fault follow while the recovery of the one
before is still under way. (`trip` with three has 2972411 states and holds too; it takes minutes.)

| Run | Exercises | Properties |
|---|---|---|
| `fault` | two clients run and abort; lines in error; motion and IO refuse commands or stop answering | `InterpExclusive`, `WaitersSignalled`, `SingleSequencer`, `RestIsIdle`, `FaultVisible`, `SequencerServes`, `ErrorLatched` |
| `trip` | the monitor trips at any moment, racing runs and aborts | `RestIsIdle` |
| `pause` | pause, resume, step, M0, tapping, run-from-line, a file that will not open | `TypeOK`, `PausedIsResumable`, `BelowHighWater` |
| `live` | faults, bad lines and aborts under fairness | `RequestsReturn`, `FaultRecovered` |
| `mcode` | aborts, trips, bad lines and failing handlers around user M-codes | `TypeOK`, `ExitIsNoticed`, `OwnResult`, `AbortReachesWaited`, `AbortReturns` |
| `pump` | small and large messages, a producer that ends, a client that stalls or goes | `TypeOK`, `WakeupPending`, `Bounded`, `CostExact`, `InOrder`, `DrainGoesOn`, `DoneReturns` |
| `watch` | subscribe again, unsubscribe, calls, failing factories, lost clients, unload and reload | `TypeOK`, `TrackedExactly`, `UnloadSafe`, `NeverBack`, `ListConverges`, `UnloadEnds` |
| `plot` | a lost connection, a restart of the server, clears, a stop at any moment | `TypeOK`, `ShownOnce`, `Sampled`, `ThreadEnds`, `Reconnects`, `SamplersEnd` |
| `jog` | two joints and an axis, one client, the panel, mode switches, the machine going off | `TypeOK`, `NoRunaway`, `Deadman` |

What each property says is in the comment above its definition. In short:

* `fault` shows that the interpreter has one user; that a teardown waits only for a
  producer it has told to stop; that a replaced sequencer has returned before the next
  one runs; that a fault stays visible until recovered and always leaves a serving
  sequencer; that nothing left over from a generation that was taken down writes over
  the error its teardown committed; and that the machine at rest reports idle.
* `trip` shows the last of these when the stop signals go out before the mutex is held.
* `pause` shows that a paused sequencer can always be resumed, and that the planner's
  queue stays below its mark although the test and the segment are two steps.
* `live` shows that every request and every teardown returns, and that a fault does not
  stay.
* `mcode` shows that no caller takes another submission's result, that an abort reaches
  the M-code that is waited for, that the sequencer never ends unnoticed, and that an
  abort returns whatever the handlers do. Four jobs: one running and one queued, both
  abandoned, and one that `h.abortCh` still names, leave a fourth name for the next
  submission, so that the bound never blocks one. One client, the monitor, a producer
  and a recoverer make every pair of teardowns of different kinds.
* `pump` shows that the pump implements `StreamFifo`, stays within its bound, accounts
  exactly, loses no wake-up, drains a stalled client's producer as long as there is
  room, and returns. Sizes 1 and 2, a poll result of at most 2, an overhead of 1 and a
  bound of 9 let three messages queue up, stop the drain by the bound and not by the
  run's five messages.
* `watch` shows that the registry tracks exactly what an unload must reach, that no
  loop it waits for calls into a destroyed module, that a client never goes back, ends
  up showing the list, and that an unload ends. One connection, two loads of the module,
  two subscriptions and two changes of the list: a supersession, or an unsubscription
  and a new one, on either side of a reload.
* `plot` shows that no sample is shown twice or out of order, that a client that is set
  up has a sampler, that a stop ends the thread from wherever it is, that a client that
  was not stopped is connected again, and that no sampler outlives a logger stopped for good.
  Two starts, two connections and two samples: one loss and one reconnection, or a
  second session, whose start finds the sampler of the first still running, about to
  read the stop channel or already on the new one; with the buffer of one overflowing.
  `OnceInOrder` below covers any number.
* `jog` shows that whatever moves is watched, driven by a pin whose release will reach
  it, or about to be stopped; and that a drive stops once nobody holds it. The joint
  with pins and the one with a button can be jogged, selected and re-targeted against
  each other, and the axis makes the mode switches.

Deadlock is checked, since a client may always issue a request, except in `watch` and
`plot`: they count subscriptions, starts and samples, and are really over when those
are used up.

*Fairness* (`FairSpec` of each module). Every goroutine that can take a step takes one
in the end, the Go scheduler is preemptive; a goroutine that waits for a Go mutex gets
it in the end although others take it in between (a `sync.Mutex` hands itself over to a
waiter that starved for a millisecond); a select that finds a case ready again and again
takes it in the end, since Go chooses at random among the ready cases. The last two are
strong fairness.

* `TaskSequencer`: all goroutines and the servo thread, with `SF` of `Lock` and
  `StartSequencer`. Clients need not issue requests and the monitor need not trip. A
  program that never ends is not excluded; one *line* that emits commands for ever
  would be, in the code, an interpreter that never returns: `SF` of an `ExecuteLine`
  that ends the line rules it out. `live` has `aux` commands and a queue of one, so that
  a program blocks on a full queue, also of a generation that is being taken down. It has
  one producer: without a trip or a refused parameter a Run's program has ended before
  the next begins.
* `McodeHandler`: nothing is assumed of the worker, a handler may run for ever;
  `SF_vars(SeqStop)` for the select on the abort channel.
* `StreamPump`: both goroutines; poll never blocks. A write is assumed to end only once
  the connection's context has ended.
* `WatchServer`: `Destroy`, the reader and the loops; `SF` of `Leave`, the cancelled
  branch of the loop's select. A write ends because keepalive closes the connection of a
  client that does not read.
* `BackPlot`: the client's thread and coroutines and the server's goroutines; an attempt
  to connect ends one way or the other, and a server that is tried for ever is reached
  at last (`SF` of `Connect`), without which `Reconnects` is not the client's to promise.
* `JogWatchdog`: the monitor's ticker (`SF` of `Expire`, as a repeated command may reset
  the age of a record again and again), stops that were called, the panel's calls.
  Nothing is assumed of user interfaces or pins.

### What the violation runs show

Each states what a comment of the code claims and finds a trace that breaks it.
`PROJECT.json` gives the lines and the quotes.

| Run | Claim | What happens |
|---|---|---|
| `v_m0` | a mandatory stop stops | pause and resume while the M0 itself is in hand leave the resume channel closed, the M0 runs straight through |
| `v_own` | a Run is refused while a program is mid-run, so the interpreter has one user | the guard takes the slot by setting `Reading`; an error reported before the program's first step (the monitor's trip, or the fault of a parameter that an abort restored) sets `Idle`; the next Run, already waiting on `cmdMu`, passes the guard, and two programs are in the interpreter |
| `v_jog` | jogs from pins manage themselves, so the watchdog skips them | another axis is selected while `halui.axis.selected.plus` is held; the release stops the new one, nothing stops the old one |

The passing runs state the same properties over the parts of the system where they
do hold: `InterpExclusive` and `WaitersSignalled` without a trip, a refused parameter
and a file that will not open, `RestIsIdle` without pause and seek, `NoRunaway` with one
axis.

### Other windows

TLC also refutes these formulas, which no run keeps. The first two, `RestIsIdle` and
`FaultVisible` take only other constants in the configuration of the run that has the
property; the others a few steps to write into the module. Constants are those of
`v_m0` unless said otherwise, with the operations and events named.

In milltask:

* `WaitersSignalled` with `"openFails"`: a Run makes `runDone` (`commands.go:1279`) and
  returns the error of re-opening its file (`commands.go:1293`) without a producer to
  close it; the next abort waits for it and holds `cmdMu` for ever.
* `WaitersSignalled` with `"trip"`: the trip closes `seqAbort` before it has `cmdMu`
  (`monitor.go:289`), a queued Run replaces the generation and captures the new channel
  (`commands.go:1304`), and the trip's teardown waits for that program, although
  `commands.go:2750` asks that "The caller must already have signalled the abort". With
  two producers and a bad line, or a refused parameter, this becomes a deadlock: the
  producer polls a generation that was replaced and never drains, the teardown that
  would end it waits for it. `ErrorLatched` fails with `"trip"` in the same way, after
  two programs overlapped.
* `RestIsIdle` with `pause`: a pause that meets the end-of-program marker leaves
  `Paused` with no producer (`sequencer.go:1174`), which `commands.go:1175` says must
  not happen. The same with no pause at all: an M0 after `tapOn` (`run`, `resume`; kinds
  `m0`, `tapOn`, `tapOff`), or a step during the tap cycle (`run`, `step`, `resume`,
  `abort`, `"badLine"`; kinds `move`, `tapOn`, `tapOff`, two producers, a queue of two).
  A tap cycle does not stop for a pause, and a program that ends within it leaves it.
* `RestIsIdle` with `"trip"` and more: with kinds `m0` (`run`; two producers, three
  generations) the older of two overlapping programs sends its M0 after a Run has passed
  its guard, and the marker leaves `Paused`; with `step` (`run`, `step`; kinds `move`) a
  step does the same; with `"openFails"` (`run`; kinds `aux`) the old program's command
  leaves the execution state waiting, and the Run that follows has no file.
* `FaultVisible` with `"trip"` and `"refuse"` (one client, two producers, three
  generations; `run`, `abort`; kinds `aux`): the older of two overlapping programs sends
  a command to the generation an abort has just spawned; it faults before the
  abort commits, and the commit reports done over the latched fault.
* `RestIsIdle` with `run` and `"seek"`: run-from-line past the end of the file says it
  runs from the beginning (`commands.go:1993`), but the producer returns at once with
  no end-of-program marker queued, and the task stays `Reading`.
* An abort reaches the handler that runs (`mcode_handler.go:152`, "Abort signals the
  running handler to stop."): a bad line restarts the sequencer without aborting the
  M-code handler (`faultProgram`, `commands.go:1696`), the next submission replaces
  `h.abortCh` (`mcode_handler.go:138`), and no abort reaches the first handler any
  more. `AbortReachesWaited` says it of the job that the program waits for.
* A drained machine when the interpreter synchs (`commands.go:2048`): with `run`,
  `\A p \in Producer : pc[p] = "synch" /\ tgt[p] = NoGen /\ mine[p] \notin closed =>
  Drained(tp) /\ queue[cur] = <<>> /\ spc[cur] \in {"check", "select"}`. The drain test
  falls between the sequencer's receive and its `setSeqInflight`.
* The machine is stopped before the interpreter is reset (`commands.go:2693`): with
  `run`, `abort`, `\A c \in Client : pc[c] = "interp" /\ op[c] = "abort" => tp.depth = 0 \/
  tp.aborting`. The select takes a command although the abort channel is closed.
* A Run never starts on an unrecovered fault (`commands.go:1241`): with `run`,
  `abort`, `"refuse"`, `\A c \in Client : op[c] = "run" /\ pc[c] \in {"life", "open"} =>
  ~seqFaulted`. The fault latches between the recovery check and the guard.
* Held motion reads as paused (`commands.go:1189`): with `run`, `pause`, `resume`,
  `tp.depth > 0 /\ tp.pausing /\ ~tp.aborting /\ interpState = "Reading" => \E c \in
  Client : pc[c] \in {"motPause", "motResume"}`. A pause falls between the two holds of
  `t.mu` in which the sequencer leaves the previous one.
* `PausedIsResumable` with `"badLine"`: a pause that arrives in the restart of a faulted
  program, after `StartSequencer` and before its commit (`commands.go:448`), stops the
  new sequencer, and the commit reports idle or an error over it. A resume is then a
  no-op; the next Run or abort replaces the sequencer. The trip's restart
  and, with two clients, an abort's (the old sequencer reports `Reading` as it leaves
  the pause, which admits another pause) have the same window.
* `PausedIsResumable` with `"openFails"` and two clients: the pause falls between the
  Run's new sequencer and the failure of its file, which then reports idle.

In the API server:

* A reload between a subscription's look-up and its entry in the registry leaves a loop
  that polls the old module and is counted with the new one (`mod[i] # group[i]`). No
  unload waits for it. `UnloadSafe` and `ListConverges` exempt it.
* An unload does not wait for a call (`handleCall`) that is in the module, and the
  binary push loop writes without looking at the subscription's context first; only
  the text loop is modelled.

In the Python client and its logger:

* The plot has gaps: the batch that was drained into a connection already dead is lost,
  and so is a batch that reads like the one before, which the push loop takes for no
  change. After a clear at rest the one point of the standing machine is such a batch.
* A batch under way when the plot is cleared is shown after the clear; the server is
  told to start before it is told to clear (`positionlogger.py:275`), so points of the
  session before may be drained in between.
* A stop during a reconnection, or one that meets `_on_connect`, leaves the sampler
  running on the server; a stop and a start in quick succession can leave two samplers,
  or none, since each reads the stop channel anew on every pass.
* `_watch.py:182` says that errors arrive as type "error"; the server sends failed
  calls as type "result", so a failed start is not noticed.
* `stop` joins the thread with a timeout; the model takes it not to expire.

In the jogs:

* With an index that names a joint and an axis (`Joints = {0}`, `Axes = {0}`),
  `NoRunaway` fails: a stop of axis 0 clears the record of joint 0, which moves and whose
  client has gone, and motion ignores the abort of the other kind. (`monitor.go:440`:
  "This prevents runaway jogs if a client disconnects.")
* With `"between"`, a pin that changes between the two reads of one scan and back leaves
  a joint that was never stopped, or stops one that should go on.
* The watchdog marks a record inactive and stops the drive a moment later; a jog started
  in between is stopped. A stop can overtake a jog that still waits for `cmdMu`; the
  watchdog bounds that to two seconds, which is what `Deadman` shows.

## The proofs

Checked by TLAPS for every value of the constants that `ConstantsAssumption` and
`TPSizeAssumption` admit: any number of clients, recoverers, producers and
generations, any queue sizes.

* `TypeCorrect`: `Spec => []TypeOK`. One lemma per kind of actor, one step per
  action; the first lemmas of `TaskSequencerProofs` say that each motion command and each
  servo cycle maps a planner record to a planner record.
* `OneSequencer`: `Spec => []SingleSequencer`. Not inductive by itself: that the
  spawned goroutine is the only one follows from the old one having returned, which
  the joining thread knows because nobody else can have replaced the generation
  meanwhile. The inductive invariant `Replacement` adds `ReplacerOwns` (a thread
  between StartSequencer and its spawn owns `seqLifeMu`) and `JoinedIsOver` (the
  generation it is about to replace is the current one, and its goroutine has
  exited).
* `HighWater`: if motion answers (no `"refuse"` in `Env`), `Spec =>
  []BelowHighWater`. The depth test and the segment are two steps of the sequencer;
  `RoomToMove` carries the room from one to the other, which holds because only one
  sequencer exists (`OneSequencer`) and nobody else adds segments, and `WaitIsAux`
  says which commands reach the waits in between. The hypothesis is needed:
  a status that cannot be read counts as room in the code.

In `McodeHandlerProofs`, for any set of jobs and clients:

* `CompletionIsOwn`: `Spec => OwnResult`; `AbortIsSeen`: `Spec => AbortReachesWaited`;
  `ExitNoticed`: `Spec => []ExitIsNoticed`; `TypeCorrect`. One inductive invariant,
  `IInv`, serves all four. `InHand` (the job in the sequencer's hand owns
  `h.abortCh`) gives `AbortIsSeen`. `ResultIsMine` (a buffered result belongs to the
  job in hand, and the worker no longer has that job) gives `CompletionIsOwn`; it
  needs `InWorkOnce`, since a job queued and running at once could complete twice.
  `StopIsFinished` (whoever aborted the job in hand is still on its way to the spawn)
  gives `ExitNoticed`: a handler that says "aborted" was signalled by a teardown that
  cannot be over while the sequencer it has to join is still polling.

In `TaskOwnershipProofs`, on top of `OneSequencer`:

* `Served`, which the results below and those of `TaskProgramProofs` rest on, says what
  every thread may be there for at every step, and that whoever serves a request holds
  `cmdMu`; hence one teardown at a time. It holds with every event, the trip included.
* `AlwaysServes`: `Spec => []SequencerServes`, without any hypothesis. A program that a
  Run announced and, its file not opening, never started is not at work: it is a
  reservation of the model and no goroutine (`NobodyAtWork`). `Provided` says
  that a closed channel, or a latched fault, always has a thread on its way to start
  another sequencer; so a sequencer is only missing while somebody is at work.
* `TeardownsEnd`: without `"trip"` and `"openFails"`, `Spec => []WaitersSignalled`. Two
  layers more. `Signal` says who was told what: a producer whose generation is not the
  current one was told to stop, a latched fault has closed the current channel, and a
  thread on its way to the wait has closed it itself. `ReserveServed` says that a
  producer in reserve belongs to a Run still being served, so that no wait meets a
  program that was announced and never started. The hypotheses are the two windows
  above.

In `TaskProgramProofs`, on top of those, what it means that one program runs at a time.
Its invariant `ProgramInv` says that the producer `t.runDone` stands for is the only one
(`One`), that `interpActive` and the reported state cover it (`Active`, `Busy`), that
a generation just started has been given nothing (`Begun`), that a teardown past its
wait has no program beside it (`Alone`), that the end-of-program marker is the last
command of its generation (`DoneLast`), that a program sends to the current generation
(`Target`), and that a task which reports idle has nothing of a program left in its
sequencer (`IdleCalm`). `ProgramInv` needs that there is no trip and that no parameter
is refused: both write `Idle` or an error over a Run that has just passed its guard,
which is the trace of `v_own`. These are the hypotheses of all but `PausesEnd`, where
they follow from its own, and `RestAfterTrip`, which does without.

* `InterpreterOwned`: `Spec => []InterpExclusive`. `One` gives it for programs;
  `Alone` for a teardown's reset of the interpreter, `Served` for two of them.
* `FaultIsShown`: `Spec => []FaultVisible`. As long as a fault is latched the sequencer
  is dead (`FaultDead`), so that nothing but a teardown can overwrite the error, and an
  abort that has replaced the sequencer finds no new fault (`Unfaulted`).
* `ErrorStays`: `Spec => ErrorLatched`. The error of a teardown stands with `Idle`, and a
  task that reports idle has a sequencer that reports nothing more, by `IdleCalm`.
* `RestIsReported`: `Spec => []RestIsIdle`. A task that does not report idle has
  something left that will make it (`Terminates`): a program that has not ended, its
  marker in the queue or in hand, a Run past its guard, or a teardown that will commit.
  `WaitsFor` is the same for the execution state. M0s, steps and resumes are covered:
  `Pauses` says that a pause is taken between two commands (`BetweenCommands`), is
  reported while it is held (`PausedHere`), and that none is left in a task that reports
  idle, but in a sequencer about to be replaced (`IdleUnpaused`); `Contents`, that what
  a program does not contain is nowhere. `NobodyPauses` leaves out what makes it false:
  a pause, run from line, and an M0 or a step within a tap cycle (see the windows).
* `RestAfterTrip`: `Spec => []RestIsIdle` again, with the monitor tripping at any moment
  and a restored parameter refused, both of which let two programs overlap, so that
  nothing of `ProgramInv` is left. `Straight` asks instead that nobody pauses or steps, no
  program has an M0, and files open and run from their first line; with a trip each of
  these is needed (see the windows). The invariant is `Passing`. Its heart is
  `Underway`: while the task does not report idle, there is a program that listens to the
  abort channel of the *current* generation and has not ended, or its marker in the queue
  or in hand, a Run past its guard, or a teardown that will commit. Older programs may do
  what they like: only one that listens to the current channel counts, and it sends to
  its own generation (`ToOwn`).
* `PausesEnd`: `Spec => []PausedIsResumable`, if nobody aborts, no line is in error, and
  a file fails to open only with one client. `Resumable` holds because a Run and a
  recovery replace the sequencer before a pause can reach it: `Faulty` and `Settled` say
  so of a recovery between its wait and its commit, `Opening` of a Run whose file does
  not open. Each of the hypotheses keeps out a window named above.

In `StreamPumpProofs`, for any messages, sizes and bounds:

* `ImplementsFifo`: `Spec => Fifo!Spec`, the refinement: what is on the wire is what was
  polled without what is in the queue, in the batch and, after a failed write, lost.
* `BacklogBounded` (`Bounded`): the room found by the test is still there when the
  message is appended (`Reserved`), since only the drain goroutine adds.
* `CostIsHeld`: `Spec => []CostExact`. What `Charges` yields when a message is appended or
  taken from the head is a fact about all sequences, and no installed prover can use
  an induction rule. `SumsExist` shows by a least counterexample (`Least`, from the
  well-foundedness of the naturals) that the equations of the recursive sum have a
  solution on every prefix, so that the function that `Charges` defines meets them;
  a second least counterexample then gives that it depends on the messages alone. The
  steps of the pump are short after that (`StepCost`).
* `HeldIsBounded`, with `BacklogBounded`: until a write fails, queue and batch together
  never take more than `MaxQueued`. The code bounds a counter; this bounds what is there.
* `NoLostWakeup` (`WakeupPending`) and `TypeCorrect`.

In `WatchServerProofs`, for any number of connections, subscriptions, loads, messages:

* `Tracked` (`TrackedExactly`) and `UnloadIsSafe` (`UnloadSafe`) from one invariant,
  `Registry`: what is tracked is the connection's present subscription in the registered
  module, and a destroyed module has been waited for.
* `NeverOlder` (`NeverBack`) from `Order`: at most one loop of a connection is not
  cancelled and only the holder of the write lock writes; what a loop holds to write is
  not older than what the client has seen, nor than what is being written, unless the
  loop is cancelled and has not passed the check under the lock.
* `TypeCorrect`.

In `BackPlotProofs`, for any buffer and any number of sessions and connections:

* `OnceInOrder` (`ShownOnce`): what the plot shows, the batches under way, the batch each
  loop holds and the buffer are successive stretches of one increasing sequence. Loops
  of lost connections are why it is not enough to look at the last one.
* `ConnectedIsSampled` (`Sampled`), for the first session: a stop clears the sampler, and
  whoever is connected and started after it (`Starting`) has started another. A later
  session can lose its sampler to the stop of the one before, see the windows.
* `TypeCorrect`.

In `JogWatchdogProofs`, for any joints, pins, buttons and clients:

* `NothingRunsAway`: `Spec => []NoRunaway`, if no index is that of a joint and of an
  axis, there is one axis, and a pin keeps its level during a scan. Each hypothesis is
  needed, see the windows and `v_jog`. `Covered` adds that a client with a button held has
  sent its last stop (`Released`), and that what the panel starts, or is about to, is
  what its pins drive (`FromPins`).
* `TypeCorrect`.

Every invariant and every safety action property of a passing run is the subject of a
theorem. Some theorems have hypotheses, named above, and outside them a formula is
model-checked or refuted: `RestIsIdle` is checked in `fault` and `trip`, and proved for
the family of constants that each of the two stands for. Model-checked only, since out of
the prover's reach, is all liveness under fairness (`RequestsReturn`, `FaultRecovered`,
`AbortReturns`, `DrainGoesOn`, `DoneReturns`, `ListConverges`, `UnloadEnds`,
`ThreadEnds`, `Reconnects`, `SamplersEnd`, `Deadman`). No module has a RECURSIVE
operator.

## Plan

Done: the program and sequencer, M-codes, transmit streams with their abstract FIFO,
watches with the message list and the unload, the back plot from sampler to plot, jogs
with their watchdog; the theorems above.

Left, in this order:

1. `TermCond`: the canon's blending-mode cache against what motion was told, over
   AutoRun's and the teardowns' restarts.
2. MDI on the same sequencer operators (`executeMDI`, `finishMDI` with its generation
   check, the MDI queue and its forwarding).
3. `TaskState`: estop, estop-reset, off, on, mode changes, with the monitor's
   conditions; that estop-reset finds no producer alive.
4. `ToolChange`: the IO controller's prepare, load and abort handshake.
5. The receive streams and the binary push loop; calls in flight at an unload.
6. `SampleSequence`: the 32-bit sample index against an unbounded reference count.
7. Theorems: `PausedIsResumable` and `ErrorLatched` under weaker hypotheses than those of
   `PausesEnd` and `ErrorStays`.

## Not modelled, and why

Geometry (trajectory planning, kinematics, naive-CAM merging) is numerical. The
interpreter is sequential; only its ownership matters here. HAL, the tool table and
persistence do their work under one lock each or are I/O, and the launcher is a list
but for the unload, which `WatchServer` has. Bridges, panels, previews and the
compilers have no concurrent state of their own. The pick-and-place task is an
application with a state machine of its own and comes after the plan above.

By far most of the repository's lines are Python (240 thousand lines in 458 files):
user interfaces, configuration wizards, screens generated from designer files, and
tables of translations and icons. They are event handlers of one thread and data, with
no protocol of their own: what they ask of the machine they ask through
`gmi/python`, which is modelled. The control that can go wrong by an unlucky order is in
Go and C. So the models cover a small share of the repository's lines and most of its
concurrent core; no faithful model reaches a third of those lines.
