# codex-feishu-bridge in TLA+

The bridge lets a Feishu (Lark) user drive Codex from a private chat. An inbound
event becomes a *task* with *runs*; a run drives one Codex turn through the
`codex app-server`; its progress and its result are shown on a Feishu card. This
directory models the parts of the program that decide: the database, the
goroutines around it, the delivery of cards, and the way of an event from Feishu to the
router. TLC checks small instances; TLAPS proves the safety properties of every module for all
values of its constants. Liveness is only model-checked.

## The system

| Component | Source (`src/internal/`) | State | Operations |
|---|---|---|---|
| State store | `store/store.go`, `store/schema.go` | SQLite tables `tasks`, `runs`, `event_dedup`, `message_routes`, `users`, `card_stream_sequences`; one connection, so transactions are serial | admit, start, finish, recover, attach, route, refresh users |
| Router | `router/router.go` | none of its own | one handler at a time: new task, continuation, attach, restart, stop, steer |
| Runtime controller | `runtime/controller.go` | `byRun`, `byTask`, `byThread`, `byTurn`, one `activeRun` per run, flags for loss and close | `Enqueue`, `Stop`, `Steer`, `launch`, event and request loops, `finalize`, `FailActiveRuns`, `Close` |
| Task card delivery | `runtime/controller.go` (`sendProgress`, `flushProgress`, `finalize`) | pending and last presentation, worker flag, `cardMu` | queue, send, retry, terminal patch, fallback card |
| Serve | `app/app.go` | the process | startup order, loss, restart, shutdown |
| App-server client and process | `appserver/client.go`, `process.go` | pending calls, events and requests channels, `done` | `Call`, `Respond`, read loop, shutdown |
| Feishu sender, CardKit streams | `transport/feishu/sender.go`, `store/card_stream_sequence.go` | one stream per card: resolved id, sequence, active, unavailable | start, progress, pause, disable, close, patch |
| Event source, WebSocket client | `transport/feishu/ws.go`, `ws_client.go` | two bounded queues, fragments, connection | receive, acknowledge, reconnect, assemble |
| Normalizer, intent, notifier, presentation text, redaction, configuration, doctor, diagnostics, command line | the rest | none, or loaded once | stateless |

How they interact. Feishu events enter through the WebSocket client, are queued
by the event source, and are handled one after the other by the router on the
goroutine of `Receiver.Receive`. The router writes the store and calls the
controller. The controller starts a goroutine per run (`launch`), one per stop, one
for events and one for server requests, one per `finalize`, and one worker per
run for progress. Everything durable goes through the store. The main goroutine
of `Serve` waits for the first of: the receiver, a lost app-server, a cancelled
context.

What is hard: several goroutines can end a run (`markTerminal` decides); ids of
threads and turns arrive from two sides (answers of calls and notifications);
calls time out although they took effect; the process may die between any two
transactions; consecutive runs of a task share a card. PROJECT.json lists each
hazard at its line with the properties that look at it.

What makes each part correct:

* store: one active run per task, tasks and runs agree, an event is used once and
  is open exactly while its run is active, outcomes are final, threads are kept;
* router and controller: each admitted run is finished exactly once, under the
  event that admitted it; a stop is neither lost nor done twice; a lost
  app-server leaves no run behind and ends the process;
* cards: progress that is queued, waits or is retried when its run ends does not replace the
  result, the last state gets shown, the result is delivered;
* card streams: no two operations on a card take the same sequence number, an
  activation is above all earlier ones but the closings of earlier runs, a CardKit request that
  arrives late does not take the card back;
* event source: what is answered with 200 is kept, acted on once and as it was sent; card
  actions go first; a living source handles every event, and a stopped one lets go of its
  connection;
* app-server client: an answer reaches the call that asked or nobody, no send on a
  response channel blocks, every call and `Close` return.

## The modules

| Module | Models | Kind |
|---|---|---|
| `StateDB` | every deciding transaction of `Store`, one action each | shared by the next two |
| `RunLifecycle` | what the bridge promises about runs | abstract specification |
| `BridgeStore` | the database and the callers' promise to it (`owed`) | component; implements `RunLifecycle` |
| `BridgeStoreProofs` | its invariants and refinement, proved | TLAPS |
| `Bridge` | `Serve`, router, controller, app-server on one database | composition; implements `BridgeStore` |
| `BridgeProofs` | who keeps a run, the refinement of `BridgeStore`, proved | TLAPS |
| `BridgeTurnProofs` | losses, interrupts and the turns of results, proved | TLAPS |
| `TaskCard` | progress and result of the runs that share a card | component |
| `TaskCardProofs` | its safety properties, proved | TLAPS |
| `StreamSequence` | `ReserveCardStreamSequence` and the blocks the sender takes numbers from | component, part of `CardStream` |
| `CardStream` | `Sender.Send` for the card of a task, with CardKit at Feishu | component; uses `StreamSequence` |
| `CardStreamProofs` | freshness of the numbers, proved | TLAPS |
| `CardStreamSendProofs` | activations and what is on the card, proved | TLAPS |
| `EventSource` | the WebSocket client, the queues of `SDKEventSource`, the loop of `Receiver`, with Feishu and the network | component |
| `EventSourceProofs` | its safety properties, proved | TLAPS |
| `AppServerClient` | `Client` of the app-server and the loops that consume it | component |
| `AppServerClientProofs` | its safety properties, proved | TLAPS |
| `MC*` | instances for TLC | |

Two refinements tie them together: `Bridge` implements `BridgeStore`
(`ImplementsStore`, checked and proved), and `BridgeStore` implements `RunLifecycle`
(`ImplementsLifecycle`, checked and proved). `CardStream` takes its numbers with the actions of
`StreamSequence`, so that it implements it says little by itself; it is a lemma that carries
the freshness of the numbers over. `EventSource` ends where `Bridge` begins: its
`Handle` is one handler of the router, which admits an event by its key. `TaskCard` decides
when `Send` is called and `CardStream` what a call does; `Bridge` sees the app-server as its calls
and notifications, and `AppServerClient` how they get through.

### StateDB and BridgeStore

One variable per column the program decides on. A transaction is one atomic step,
because the pool holds one connection (`SetMaxOpenConns(1)`) and an error rolls
back. `None` is the empty string or NULL. Prompts, timestamps, chat ids and
aliases are left out: nothing is decided on them after admission.

`AdmitNewTask` and `AdmitResumeRun` on a replayed event change nothing, so replay
is the absence of a step. `AdmitResumeRun` has two outcomes, as in the code: the
run is admitted, or the delivery is spent as `failed`. `FinishRun` has no guard on
the status, as in the code; the guard is the callers' discipline, which
`BridgeStore` states as `owed`: the key this process must finish a run with.
A dead process owes nothing, which is why `RecoverRunning` has to come before the
first event (`phase`).

### Bridge

One action per piece of a goroutine between two points where another can get in: a
call to the database, the app-server or Feishu, or a critical section of
`Controller.mu` or `activeRun.mu`. The actions carry the names of the functions:

* `StartUsers` ... `Exit`: `Serve`, with `FailActiveRuns` one run after the other;
* `rt`: the handler in progress with its program counter; each call of `startTask`,
  `resumeTask`, `handleAttachThread`, `handleRestart` and `failQueuedRun` is a step
  and can fail;
* `launch[r]`: the goroutine of a run, from thread/start to the second look for a
  stop request;
* `cancelStop`, `intStop`: the two goroutines `Stop` can start;
* `Interrupt`, `InterruptReturns`: turn/interrupt as it takes effect and as it returns
  (`awaitStop` in between), with the `finish` that follows. The event loop may handle the
  turn/completed of the interrupted turn before the call returns, and the call may time out
  although the turn was interrupted;
* `EventTurnStarted`, `EventTurnCompleted`, `EventFinish`: `handleEvent`. The last two
  are one notification; the run's turn and its finish are separate critical
  sections;
* `fin[r]`: `finalize` of the winner of `markTerminal`;
* `TurnEnds`, `AppServerLost`, and the effect of `Interrupt`: the app-server, external. Its
  notifications are a queue in order; it may outlive a call that timed out.

`Env` names the inputs and faults that a run explores: "stop", "steer", "attach",
"restart"; "call", "card", "store" for failing calls, "project" for a project that is no
longer configured; "loss", "shutdown", "crash" for ends of the process. A call of
`launch` that fails may have taken effect.

A run whose failure could not be stored (`leaked`), or whose `persistTerminalState` gave up at
the end of the process (`gaveUp`), stays owed until the next start: `ImplementsStore` says that it
is finished once at most, and that the next process recovers it first.

Left out of `Bridge`: what is on the card (`TaskCard`), server requests (approvals are
answered at once and keep no state), the texts that events accumulate,
informational cards, and timing beyond "a call may time out".

### TaskCard

The runs of a task in order, each with its presentation (the number of the state
it shows), the goroutines that report (`Reporters`), the worker (`Slots` are
identities for its goroutines), and the delivery of the result (`pc = "unsaved"` when
`persistTerminalState` gives up after `Close`: the run stays registered and nothing is sent).
A patch carries no sequence. When its call ends without an answer, because `beginFinish`
cancels the run's context or an attempt times out, the patch may have changed the card, may
change it at any later moment, or never does: it goes to `late`, and `PatchLate` applies it. A
permanent failure has not changed the card. Pacing only delays a step that may happen at any
time, so it is not modelled. `Attempts` is `terminalRetryAttempts`.

The late patches are a limit of what the code can promise, so each property of the card names
them as its exception: `ResultStays` says that progress does not replace a result of its run
unless it is a patch given up before the result was first sent. The exception is needed: without
failures, and with one run, `beginFinish` cuts off the worker's patch, `finalize` shows the result,
and Feishu then applies the patch. No document promises more, so there is no run for it. What
the properties do check is everything the code decides: a worker that waits for `cardMu`, is
about to call, or has something to retry sends nothing after the result.

Two goroutines can report on a run (the event loop; the receiver with a stop or a steer;
`launch`), and `sendProgress` takes its snapshot and queues it in two critical sections.
`ProgressCatchesUp` therefore speaks of what was queued last, not of the newest state:
it is shown in the end, unless Feishu refuses it for good (`refused`), or the run or the
controller ends first. That the older snapshot can be the one queued last is the finding of
`card_goes_back`.

### StreamSequence and CardStream

`StreamSequence` keeps the row of `card_stream_sequences` (`last`), the block of each
stream object (`next`, `end`), and a history variable: how often each number was
used. The clock is any number of `Clock` at each reservation, so it may stand still
or go back. `MaxSequence` stands for the 32-bit maximum and is reached.

`CardStream` has one entry per run in each of `pc`, `kind`, `using`, `then`, `seq`, `reply`: the
`Send` in progress. A worker may send any presentation after any other, since the controller
can hand over an older one (`card_goes_back`); `since` keeps what was sent since the last
success. A `Send` locks its stream object (`Lock`), then chooses as
`startTaskStream`, `streamTaskProgress` or `closeTaskStream` does; every CardKit operation
is taken from the sequence and issued (`Issue`), processed at Feishu, which refuses an
old number (`Process`), and returns to the code that follows it (`EnableReturns`,
`PauseReturns`, `ContentReturns`, `DisableReturns`, `CloseReturns`). `CutOff` is the end of the
run's context during a call, `EndRun` the end of the run, `Result` the removal of the
stream object while its holder may still use it, `Crash` the loss of the process
with its requests still on their way. `AttemptTimesOut`, and a `PatchEnds` without an answer, leave
a patch in `late`, as in `TaskCard`. A version is a presentation; `Structural` names
the versions that change more than the processing detail and therefore pause
streaming and patch.

Assumptions about Feishu: a CardKit request may be processed at any later time, also after its
process has died, and is refused if its number is not above the last one taken; so may a
patch that was given up, which has no number and is never refused.

Four stronger statements look right and are false (larger bounds showed the second one, those of
the run the others):

* "An activation is above every number used before." The result of an old run closes its
  stream after the continuation has begun, with a number from a block it reserves then. The
  continuation goes on with the rest of its own, lower block, and Feishu refuses its
  next activation. `ActivationsValid` allows one such number for each run that is over.
* "The detail on the card is at least what was acknowledged." The result of an old run removes
  the stream object that the continuation uses; a content request of that object may be
  processed late, after the continuation has patched the card and before its new object is
  activated. `AckedIsShown` therefore speaks, for any run, of the key on the card and of the
  requests that can still take effect, and of the detail itself for the first run.
* "... whatever patches were given up." Nothing keeps a late patch off the card, so a cut-off
  patch of the first run can land in the second. `card.late` says that such a patch was the last
  to reach the card; from then on until the next patch `AckedIsShown` speaks of the CardKit
  requests only.
* "... and a Send that makes no call because its presentation is recorded is a success." After
  one presentation was sent and the content request of another timed out, sending the first one
  again makes no call, and the late request then shows the other one. The `Send` returns no error;
  `since` does not count it as a success.

### EventSource

Four goroutines: `Start` of `feishuWSClient` (`start`, with its read loop in `reading` and
`frame`), its heartbeat and its watcher of the context, which end with the read loop and have
no variable, and `Receive` (`recv`, `hand`). `c.active` is set exactly while `start = "serve"`.
`Close` is called by nobody but `Receive`. The failures queue is left out: `Start` returns
only the error of its context, which is never published.

* `BeginStart` ... `WakesUp`: `Start`, from its first look at `closed` through dialling,
  serving and sleeping; `PingFails` and `Watch` close the connection under the read loop;
* `Arrive`: `completeFrame`, with the buffers that expire meanwhile, a change in the number of
  parts, parts that arrive twice, and parts without a payload, which count and leave
  nothing; the event is then cut short, its parser rejects it, and it is answered with 500;
* `Dispatch`, `Answer`: the handler that queues or refuses the event, and the answer, as two
  steps: the receiver may have acted on the event, or the connection may be gone, in between;
* `Poll`, `Select`: the two looks of `SDKEventSource.Receive`. `passed` counts the messages
  taken while a card action waits;
* `Handle`, `Drop`, `Hang`: the handler acts on the event unless its key is recorded; or the
  normalizer or the handler fails, with or without the key; or it waits in a write to the
  app-server that looks at no context;
* `Emit`, `Resplit`, `Break`: users, Feishu and the network, external. Feishu delivers an
  event until it is answered with 200.

An event is answered when it is queued. What waits in a queue or in the hand of the receiver
when the process ends is therefore lost (`gone`), by design of the code; `AnsweredIsKept`
says that nothing else is. `handleDataFrame` recovers from a panic of the handler and goes on
without an answer; that path is left out: it is one more delivery that Feishu repeats. `Undeduped` are the events that the router applies without a
key (steer, stop): `ActedOnOnce` lets them be applied again, but only after an answer was
lost (`unheard`).

### AppServerClient

`pc` has one entry per goroutine: the callers, the read loop, the controller's
request loop and the goroutine that closes. The pending map, the one-slot response
channels, `writeMu`, the two queues and the pipes are variables; `closing` says how
far `shutdown` is, which is a `sync.Once` that the others wait for. Calls are named in
the order of their ids. `removePending` belongs to the step that gives up, because
nothing reads what lies between the two. `ShutdownCloses` merges what `shutdown` does between its two
critical sections: it closes the pipes, kills the process, waits for it, and takes the
pending entries. That the process ends some time before the entries are taken is `ServerEnds`
followed by `ShutdownCloses`. `cmd.Wait` is taken to return; it would block as long as a child of
the killed process held its stderr, and what is said of `Close` and of calls does not cover that.
An answer carries the call it is meant for, which the code
does not know: `OwnAnswer` compares. Losing contact with the app-server is what
`Bridge` starts from (`AppServerLost`).

## The runs

| Run | Bounds | Shows |
|---|---|---|
| `store` | 2 tasks, 2 runs, 3 events, 2 users, 2 threads | the store's invariants, action properties and refinement |
| `bridge_threads` | 2 tasks, 2 runs, 2 threads, 2 turns; steer, failing calls | a result names its turn if its thread had no other run's |
| `bridge_crash` | 2 runs, 2 events, 2 starts; loss, crash, shutdown, restart, attach, failing store and cards, missing project | no run escapes a loss; refinement across restarts |
| `bridge_live` | 1 run, 1 turn; stop, steer, failing calls, loss, shutdown; fairness | one interrupt per run, stops end runs, ended turns become durable, loss ends the process |
| `card` | 1 run, 2 reporters, 2 states, 2 failures of all kinds, 1 attempt; late patches; fairness | the result stays and is shown, what was queued last gets shown, the result is delivered |
| `stream` | 2 runs on 2 stream objects, 2 versions in any order, one structural; numbers to 7, blocks of 2, 1 failure or crash, cancelled calls and late patches free | fresh numbers, valid activations, streaming keeps what was sent with success |
| `client` | 2 calls, queues and pipes of 1, 2 messages of the server; fairness | answers, sends, shutdown; calls and `Close` return |
| `source` | 1 message in 2 or 3 parts (one split has an empty part), 1 card action without key, queues of 1, 1 fault, 2 starts; fairness | answered events are kept, whole and acted on once; card actions first; events get handled, the source stops |

Why the bounds are enough: the conflicts are between a run and the next run of
the same task, or between two goroutines of one run, so two runs meet them; two
starts of the process are one crash and its recovery. `bridge_threads` has two threads with a
run and a turn each, because its property is about one of them whatever the other does. `card`
has two reporters for the order of their snapshots and two failures for a retried call that
overlaps the end of the run; its properties are about one run, what consecutive runs do to
one another is the finding of `card_old_result`, and the proofs cover any number of them. In `source` a queue of one
is full with the event before, and one fault (a broken or silent connection, a failed dial, an
expired or resplit buffer, a failing handler) is enough for every redelivery; the proofs
cover the rest. In `stream` the
numbers run out after three blocks: a run, its continuation and the closing that overtakes it
have one each, and whoever needs a fourth is refused. `MCView` lets states count as one that
differ in nothing that can have an effect: what an unused stream object holds, what a `Send`
that is over has sent, and requests that Feishu would refuse and nobody waits for. In `client` one more
message than a queue holds blocks the read loop, and a pipe of one message
blocks a writer. All runs but `store` have `CHECK_DEADLOCK FALSE`: inputs are bounded, and the
program is idle when they are spent. The `store` run checks deadlock: a process can always exit.

Four runs are expected to be violated. Each checks one sentence of the
documentation or a comment against the code; PROJECT.json quotes it:

| Run | What the counterexample shows |
|---|---|
| `restart_turn` | a turn whose turn/start timed out runs on after its task has failed; a restart is accepted and ends it |
| `bridge_stale_turn` | a turn whose turn/start timed out goes on in the thread; its notifications are taken for the continuation, a steer goes to it, and the `setTurn` after the steer's answer leaves the stale turn in the row of the continuation |
| `card_old_result` | the old run's late result replaces the continuation's result |
| `card_goes_back` | two goroutines report on one run, and the older of their snapshots is queued last: the card goes back to it |

`bridge_threads` checks of a result what does hold, `ResultTiedToOnlyTurn`: it names the turn
that was completed if that turn's thread has had turns of no other run, whatever the runs of
other threads do. A run on a thread that another run has used is the case of
`bridge_stale_turn`. The two card runs leave late patches out of their question: what they show
happens without any.

## Fairness

`FairSpec` of `Bridge` assumes that goroutines run, that calls return or time out
(every call in the code has a timeout or the context of the run), and that the
database works in the end; `persistTerminalState` retries without a limit, so
without the last assumption the process may wait for ever. Users, turns, losses and
signals owe nothing: a run whose turn never ends stays active. `FairSpec` of `TaskCard`
assumes the same of reporters, workers and `finalize`; failures are bounded by
`MaxFaults`, runs need not end. `FairSpec` of `AppServerClient` assumes that goroutines
run, that contexts expire, that `writeMu` is granted in the end (Go's mutex does not
starve a waiter, hence strong fairness of `WriteLock`), and that a living app-server reads its
input. The last one is needed: `writeMessage` looks at no context, so against a full pipe a
call outlives its timeout until the client is shut down. The app-server owes no
answer, the controller need not consume, and nobody has to close.

`FairSpec` of `EventSource` assumes that its goroutines run, that a dial which does not fail
succeeds, that pings on a dead connection fail in the end (the kernel gives up on
unanswered writes; the heartbeat pings on), and that Feishu keeps delivering the parts that are
missing of an event it has no answer for. The last is strong fairness: the connection may go
down between two deliveries. A handler may hang, and no user, signal or crash is owed.

## What is proved

`BridgeStoreProofs` proves, for every set of tasks, runs, events, users, threads, turns
and cards, from the one assumption that `None` is none of them:

* `StoreInvariant`: `StoreInv` is an invariant;
* from it `StoreTypeCorrect`, `OneActiveRun`, `TaskMirrorsRun`, `EventsOpenWithTheirRun`,
  `EventsClaimOnce`,
  `RunOnTaskThread`, `OnlyEnabledUsersRun`, `FinishesAreOwed`;
* `TerminalRunsAreFinal` and `ThreadsAreKept`, about steps;
* `StoreImplementsLifecycle`: initial states map to initial states and steps to steps
  or stutters of `RunLifecycle`.

None of the invariants is inductive alone. One active run per task survives an
admission only because the task's status mirrors its run; an event is closed
with its run only because the finish uses the event's own key, which is what
`OwedIffActive` says; that an outcome is final follows from `OwedIffActive` too, since
`FinishRun` itself has no guard. `References` adds that rows that do not exist are
blank. `StoreInv` is the conjunction; there is one lemma per action (`NewTaskKeeps`,
`FinishKeeps`, ...), one step per conjunct in each, and `StepKeeps` collects them.

`BridgeProofs` proves, for every set of tasks, runs, events, users, threads, turns and cards,
every number of starts and every choice of faults in `Env`, from the same assumption:

* `Invariant`: `TypeInv /\ Custody` is inductive. `Custody` says who keeps a run: the handler
  that admitted it (`rt.run`), the list of those whose failure could not be stored (`leaked`),
  or the controller (`Live`), one of them and nobody else (`OneKeeper`); what refers to a run
  refers to one the controller has taken over (`OnlyLiveRuns`); who won `markTerminal` runs
  `finalize`, and the run stays in the indexes until its outcome is durable (`FinalizedOnce`);
* `TypeCorrect` from it;
* `StoreRefinement`: every step of `Bridge` is a step of `BridgeStore` or a stutter. `owed` is
  computed from the keeper, so each proof is that a run changes hands with its key: the admission
  gives it to the handler, `Enqueue` to the controller, `persist` in `finalize` takes it;
* `RowsKeepInvariants`: `StoreInv`, and with it each invariant proved of `BridgeStore`, holds
  of the database under the whole program.

`BridgeTurnProofs` adds one invariant for each safety property of `Bridge`:

* `LossReachesEveryRun`, from `LossInv`: while `FailActiveRuns` goes through its snapshot, a
  registered run is in the rest of the snapshot or terminal, because `Enqueue` refuses
  once `unavailable` is set;
* `TurnInterruptedAtMostOnce`, from `InterruptInv`: who interrupts a run's turn has taken its stop
  request (`stopHandled`), and `Stop`'s goroutine, `launch` and an interrupt already made exclude
  each other;
* `ResultNamesItsTurn`, from `TurnsOfRuns`, `OneThread` and `TieInv`: a run asks for one turn; every
  turn the process holds for a run, in `mem`, `byTurn`, a steer, the event in hand or `finalize`, is a
  turn of the run's one thread; and the turn of a turn/completed gets from the event into `mem`,
  through `finalize` and into the row. If the thread has had turns of no other run, they are
  therefore all the same one, whatever other runs do on other threads. `RunFacts`, `StopQuiet`,
  `ThreadFacts` and `Untouched` say once per step what the proofs ask of it.

`CardStreamProofs` proves, for every block size, clock, maximum and set of stream
objects, and for `CardStream` every number of runs, versions and failures:

* `SequenceInvariant`: `SequenceInv` is an invariant of `StreamSequence`;
* from it `NumbersAreFresh`, and `BlocksAlwaysRise` about steps;
* `SentNumbersAreFresh`, for the operations of the sender (by the lemma `StreamsFollowSequence`).

That numbers are fresh is not inductive: a number must not have been used when it is
taken, so `SequenceInv` adds that used numbers and those set aside are not above `last`, that
those set aside are unused, and that no two objects share one. The lemma
needs `HasStream`: a `Send` that is about to take a number has a stream object.

`CardStreamSendProofs` proves the rest of the safety properties of the `stream` run:

* `StreamTypeCorrect`, from `Types`;
* `SendsKeepShape`: `Shape` says in which order runs begin, send and end (`RunShape`), where a
  `Send` of each kind can be (`SendShape`), and that who holds the lock of a stream object is
  alone with it: an operation that has its number has the last one the object gave (`LockShape`);
* `OvertakenOnlyByClosing`, by counting: the numbers used above the block of the object in use,
  together with the results that may still take one, are at most as many as the runs that are over.
  `ActivationsAreValid` follows;
* `AckedShown`, from `CardInv`: a `Send` of progress has its object to itself (`ObjectsHeld`,
  `Owners`), the card shows what its patch made of it until a late patch comes (`OnCard`), what
  the object in use has recorded is in `since` (`Follows`), and of the requests on their way those of an
  earlier operation have lower numbers (`Orders`). Once an operation is answered, the requests
  before it are too old for Feishu (`AnsweredLast`), which is why none that can still take
  effect has a detail outside `since` (`DetailKept`). `First` is what the first run has in
  addition: no earlier result removes its object.

`Turns` and `SendCases` say what a step of a `Send` does to its object; the invariants are derived
from them where the action itself does not matter.

`EventSourceProofs` proves, for every set of messages and card actions, splits, empty parts,
capacities, faults and restarts, the five safety properties of the `source` run. Each has its
own strengthening on top of `Types`, which is `SourceTypes`, gives `SourceTypeCorrect`, and adds
to `TypeOK` that a receiver holds an event exactly while it handles one:

* `CardActionsFirst`, from `Waiting`: a message that overtook a card action was taken before
  the receiver looked again, so at the second look `passed` is 0;
* `EventsAreWhole`, from `Assembly`: the count of a buffer is the number of its parts as long as
  none is empty, so the last part finds all of them (a fact about cardinalities);
* `AnsweredKept`, from `Keeping`: the event of an answer with 200 is kept while the answer is
  being written, and a recorded key belongs to an event that was acted on or dropped;
* `ActedOnceOnly`, from `Copies`: of an event whose answers all arrived there is one copy, in a
  queue, in the hand of the receiver or acted on, and Feishu has been told of it or is about
  to be.

`Steps` splits a step by what it can disturb, and there is one lemma per kind of step and
invariant (`ArriveTypes`, `DispatchSingle`, `StepKept`, ...); `PutHolds` and `TakeHolds` say what
a queue holds after `Append` and `Tail`.

`AppServerClientProofs` proves, for every number of calls and every capacity of pipes and
queues, from the assumption that calls, the other goroutines and `None` are distinct, the four
safety properties of the `client` run. `Placed` says where each goroutine can be, that a call is
named by its id, and that the one that writes holds `writeMu`; with `Flags` and `Pipes` it gives
`ClientTypeCorrect`.

* `AnswersFindTheirCall`, from `Owned`: an entry of the pending map, a value in a response
  channel and a result belong to the call whose id they carry, and ids are not used twice;
* `SendsNeverBlock`, from `OneHolder`: what answers a call is in one place at most, its entry,
  the hand of the read loop, the set that `failPending` has taken, or its channel; whoever sends
  has therefore found the channel empty;
* `ClosedStaysEmpty`: a call that was registered before `done` was closed is failed by
  `failPending`, and none registers afterwards.

`TaskCardProofs` proves, for any number of runs, observers, states, failures and attempts, the
three safety properties of the `card` run, late patches included; `CardTypeCorrect` follows from `Types`, which adds to
`TypeOK` that a result that may still be retried has attempts left.

* `ResultIsKept`, from `Locked`: who calls Feishu holds `cardMu`, one worker of a run at most is
  in a call, and none is once the run's result has been sent. A patch of progress can therefore be
  given up only before that. The second look that a worker takes under `cardMu` is what keeps
  this;
* `DoneIsShown`, from `Shown`: a result that is applied, or reported as sent, is the one on the
  card, unless a late patch is. It needs `InOrder` (one run is registered until its outcome is durable, so the state of a
  run whose result is being sent does not change any more) and `WorkStarted` (no work for runs
  that are still to come).

`WorkerEffect` and `ResultEffect` say what a step of a worker and of a delivery does to `cardMu`
and the card; the invariants are derived from them and not from the actions.

`BlocksAlwaysRise`, `TerminalRunsAreFinal` and `EventsClaimOnce` are proved and have no run of their
own: the refinements that the runs check imply them.

Only model-checked: liveness, which is out of the prover's reach: `ENABLED` and fairness cannot
be proved about. These are `StopEndsRun`, `EndedTurnIsRecorded` and `LossEndsProcess` of
`bridge_live`, `ProgressCatchesUp` and `ResultDelivered` of `card`, `CallsReturn` and
`CloseReturns` of `client`, `EventsHandled` and `SourceStops` of `source`. The four runs
that expect a violation are TLC's alone, too. Every invariant and every action property of a
passing run is proved.

## Not modelled

Stateless code (normalizer, intent, notifier, redaction, presentation text, card
layout), configuration, doctor, diagnostics and the command line decide nothing
about the order of steps. Of the WebSocket client, the bootstrap request, proxies, TLS and
the length of the heartbeat interval are left out; the interval only paces pings, which
`EventSource` lets happen at any time. That a launch which fails while the app-server is lost
reports the connection error and not the restart is in `Bridge` (`CallErrors`), but no run asks
for it. Three hazards of the router and the store have their states in `Bridge` and no
property: two tasks on one thread, an attached task without a card, and a restart event
that is spent without one; no document says what should happen.
PROJECT.json has a line for each component.

## Plan

1. Done: `StateDB`, `RunLifecycle`, `BridgeStore`; `Bridge`; `TaskCard`; `StreamSequence`,
   `CardStream`; `AppServerClient`; `EventSource`; proofs of the safety properties of all of them.
2. What a presentation keeps of the events of a turn (`presentation.go`): the bounds of its
   texts and the order of its steps; approvals in `Bridge`.
