------------------------------ MODULE TaskCard -------------------------------
(***************************************************************************)
(* How the controller keeps the card of one task up to date.  The task's   *)
(* runs follow one another on the same root card.  Goroutines that observe *)
(* a run (event loop, launch, router) report its state with sendProgress;  *)
(* one worker per run sends the latest presentation and retries it; when   *)
(* the run is over, finalize sends the result, retries it, and in the end  *)
(* sends it as a card of its own.                                          *)
(*                                                                         *)
(* A presentation is the number of the state it shows.  The pacing of the  *)
(* worker (update interval, retry delay, the force flag that skips both)   *)
(* only delays its next step, so a step may happen at any time.  A patch   *)
(* carries no sequence: one whose call was cut off or timed out may have   *)
(* changed the card, may change it at any later moment, or never does.     *)
(***************************************************************************)
EXTENDS Naturals

CONSTANTS
  NumRuns,    \* runs of the task, in the order they are enqueued
  Reporters,  \* goroutines that report progress
  Slots,      \* identities for the worker goroutines of one run
  MaxState,   \* bound on the changes of a run's state
  MaxFaults,  \* bound on the calls to Feishu that fail
  Attempts,   \* terminalRetryAttempts
  Faults,     \* the failures explored: subset of {"transient", "permanent", "close"}
  None

ASSUME TaskCardAssumption ==
  /\ NumRuns \in Nat /\ MaxFaults \in Nat /\ MaxState \in Nat \ {0} /\ Attempts \in Nat \ {0}
  /\ Faults \subseteq {"transient", "permanent", "close"}
  /\ None \notin {"worker", "result"}

Runs == 1..NumRuns

VARIABLES
  registered,  \* byTask: the run whose state can still change, or 0
  started,     \* runs enqueued so far
  closed,      \* Controller.Close was called
  state,       \* [Runs -> the run's current state], what progressPresentation shows
  reporter,    \* [Reporters -> a sendProgress in progress]
  progress,    \* [Runs -> the progress fields of activeRun]
  worker,      \* [Runs -> [Slots -> a flushProgress goroutine]]
  terminal,    \* runs that are terminal
  cancelled,   \* runs whose context is cancelled
  mutex,       \* [Runs -> who holds cardMu: None, "worker", "result"]
  result,      \* [Runs -> the delivery of the result by finalize]
  card,        \* what the root card shows
  late,        \* patches given up without an answer: Feishu may still apply them
  own,         \* runs whose result has a card of its own
  refused,     \* [Runs -> the latest presentation Feishu refused for good, or 0]
  faults       \* calls that have failed

vars == <<registered, started, closed, state, reporter, progress, worker, terminal, cancelled,
          mutex, result, card, late, own, refused, faults>>

NoReport == [pc |-> "idle", run |-> 0, shows |-> 0]
NoWorker == [pc |-> "off", shows |-> 0, applied |-> FALSE]
NoResult == [pc |-> "none", tries |-> 0, applied |-> FALSE]

Init ==
  /\ registered = 0 /\ started = 0 /\ closed = FALSE
  /\ state = [r \in Runs |-> 0]
  /\ reporter = [g \in Reporters |-> NoReport]
  /\ progress = [r \in Runs |-> [dirty |-> FALSE, pending |-> 0, last |-> 0, worker |-> FALSE]]
  /\ worker = [r \in Runs |-> [w \in Slots |-> NoWorker]]
  /\ terminal = {} /\ cancelled = {}
  /\ mutex = [r \in Runs |-> None]
  /\ result = [r \in Runs |-> NoResult]
  /\ card = [run |-> 0, shows |-> 0, kind |-> "start"]
  /\ late = {} /\ own = {} /\ refused = [r \in Runs |-> 0] /\ faults = 0

-----------------------------------------------------------------------------
(* Reports *)

\* Enqueue registers the next run; its router goroutine reports the first state.
Enqueue(g) ==
  /\ registered = 0 /\ started < NumRuns /\ ~closed
  /\ reporter[g].pc = "idle"
  /\ started' = started + 1 /\ registered' = started + 1
  /\ state' = [state EXCEPT ![started + 1] = 1]
  /\ reporter' = [reporter EXCEPT ![g] = [pc |-> "snapshot", run |-> started + 1, shows |-> 0]]
  /\ UNCHANGED <<closed, progress, worker, terminal, cancelled, mutex, result, card, late, own, refused, faults>>

\* An observer of the run changes its state and calls sendProgress; Stop calls
\* it even when nothing changed.
Report(g, changed) ==
  /\ registered # 0 /\ reporter[g].pc = "idle"
  /\ changed => state[registered] < MaxState
  /\ state' = IF changed THEN [state EXCEPT ![registered] = @ + 1] ELSE state
  /\ reporter' = [reporter EXCEPT ![g] = [pc |-> "snapshot", run |-> registered, shows |-> 0]]
  /\ UNCHANGED <<registered, started, closed, progress, worker, terminal, cancelled, mutex, result,
                 card, late, own, refused, faults>>

\* progressPresentation.
Snapshot(g) ==
  /\ reporter[g].pc = "snapshot"
  /\ reporter' = [reporter EXCEPT ![g].pc = "queue", ![g].shows = state[reporter[g].run]]
  /\ UNCHANGED <<registered, started, closed, state, progress, worker, terminal, cancelled, mutex,
                 result, card, late, own, refused, faults>>

\* queueProgress has nothing to do for a presentation that is pending or sent.
NothingNew(r, v) ==
  \/ r \in terminal
  \/ progress[r].dirty /\ v = progress[r].pending
  \/ ~progress[r].dirty /\ v = progress[r].last

\* queueProgress returns true: the caller has to start the worker.
NeedsWorker(r) == ~progress[r].worker

\* queueProgress, and the start of the worker unless the controller is closed.
Queue(g) ==
  LET r == reporter[g].run  v == reporter[g].shows IN
  /\ reporter[g].pc = "queue"
  /\ reporter' = [reporter EXCEPT ![g] = NoReport]
  /\ IF NothingNew(r, v)
       THEN UNCHANGED <<progress, worker>>
       ELSE /\ progress' = [progress EXCEPT ![r] =
                 [@ EXCEPT !.dirty = TRUE, !.pending = v,
                           !.worker = IF NeedsWorker(r) THEN ~closed ELSE progress[r].worker]]
            /\ IF NeedsWorker(r) /\ ~closed
                 THEN \E w \in Slots :
                        /\ worker[r][w].pc = "off"
                        /\ worker' = [worker EXCEPT ![r][w].pc = "next"]
                 ELSE UNCHANGED worker
  /\ UNCHANGED <<registered, started, closed, state, terminal, cancelled, mutex, result, card, late, own, refused, faults>>

-----------------------------------------------------------------------------
(* flushProgress *)

WorkerFrame == UNCHANGED <<registered, started, closed, state, reporter, terminal, cancelled, result, own>>

\* Mutant: the worker leaves without saying so.
WorkerLeavesSilently(r, w) ==
  /\ worker[r][w].pc = "next"
  /\ r \in cancelled \cup terminal \/ ~progress[r].dirty
  /\ worker' = [worker EXCEPT ![r][w] = NoWorker]
  /\ UNCHANGED <<progress, mutex, card, late, refused, faults>> /\ WorkerFrame

\* The context is cancelled, or nextProgress finds nothing to send: the worker
\* clears progressWorker and returns.
WorkerLeaves(r, w) ==
  /\ worker[r][w].pc = "next"
  /\ r \in cancelled \cup terminal \/ ~progress[r].dirty
  /\ progress' = [progress EXCEPT ![r].worker = FALSE]
  /\ worker' = [worker EXCEPT ![r][w] = NoWorker]
  /\ UNCHANGED <<mutex, card, late, refused, faults>> /\ WorkerFrame

\* nextProgress takes the pending presentation.
WorkerTakes(r, w) ==
  /\ worker[r][w].pc = "next"
  /\ r \notin terminal /\ progress[r].dirty
  /\ worker' = [worker EXCEPT ![r][w] = [pc |-> "lock", shows |-> progress[r].pending, applied |-> FALSE]]
  /\ progress' = [progress EXCEPT ![r].dirty = FALSE, ![r].last = progress[r].pending]
  /\ UNCHANGED <<mutex, card, late, refused, faults>> /\ WorkerFrame

\* Mutant: the worker does not look again once it has cardMu.
WorkerCallsUnchecked(r, w) ==
  /\ worker[r][w].pc = "lock" /\ mutex[r] = None
  /\ worker' = [worker EXCEPT ![r][w].pc = "call"]
  /\ mutex' = [mutex EXCEPT ![r] = "worker"]
  /\ UNCHANGED <<progress, card, late, refused, faults>> /\ WorkerFrame

\* With cardMu: no call for a run that has become terminal.
WorkerCalls(r, w) ==
  /\ worker[r][w].pc = "lock" /\ mutex[r] = None
  /\ IF r \in terminal
       THEN /\ worker' = [worker EXCEPT ![r][w].pc = "next"]
            /\ UNCHANGED mutex
       ELSE /\ worker' = [worker EXCEPT ![r][w].pc = "call"]
            /\ mutex' = [mutex EXCEPT ![r] = "worker"]
  /\ UNCHANGED <<progress, card, late, refused, faults>> /\ WorkerFrame

\* Feishu applies the patch.
WorkerPatches(r, w) ==
  /\ worker[r][w].pc = "call" /\ ~worker[r][w].applied
  /\ card' = [run |-> r, shows |-> worker[r][w].shows, kind |-> "progress"]
  /\ worker' = [worker EXCEPT ![r][w].applied = TRUE]
  /\ UNCHANGED <<progress, mutex, late, refused, faults>> /\ WorkerFrame

\* retryProgress.
Retry(r, v) ==
  IF r \in terminal \/ progress[r].dirty THEN progress[r]
  ELSE [progress[r] EXCEPT !.dirty = TRUE, !.pending = v]

\* Mutant: cardMu stays locked when the call was cut off.
WorkerReturnsHolding(r, w, outcome) ==
  /\ worker[r][w].pc = "call"
  /\ outcome = "ok" => worker[r][w].applied
  /\ outcome = "canceled" => r \in cancelled
  /\ outcome \in {"ok", "canceled"}
  /\ worker' = [worker EXCEPT ![r][w] = [NoWorker EXCEPT !.pc = "next"]]
  /\ mutex' = IF outcome = "ok" THEN [mutex EXCEPT ![r] = None] ELSE mutex
  /\ UNCHANGED <<progress, faults, card, late, refused>> /\ WorkerFrame

\* The call returns: done, refused for good, cut off by the run's context, or
\* failed for now, which is retried.  The last two give the patch up without
\* an answer.
WorkerReturns(r, w, outcome) ==
  /\ worker[r][w].pc = "call"
  /\ CASE outcome = "ok"        -> worker[r][w].applied
       [] outcome = "canceled"  -> r \in cancelled
       [] outcome = "transient" -> TRUE
       [] outcome = "permanent" -> ~worker[r][w].applied
  /\ IF outcome \in Faults THEN faults < MaxFaults /\ faults' = faults + 1
                           ELSE outcome \in {"ok", "canceled"} /\ UNCHANGED faults
  /\ worker' = [worker EXCEPT ![r][w] = [NoWorker EXCEPT !.pc = "next"]]
  /\ mutex' = [mutex EXCEPT ![r] = None]
  /\ progress' = [progress EXCEPT ![r] =
       IF outcome = "transient" THEN Retry(r, worker[r][w].shows) ELSE @]
  /\ refused' = IF outcome = "permanent" /\ worker[r][w].shows > refused[r]
                  THEN [refused EXCEPT ![r] = worker[r][w].shows] ELSE refused
  /\ late' = IF outcome \in {"canceled", "transient"} /\ ~worker[r][w].applied
               THEN late \cup {[run |-> r, shows |-> worker[r][w].shows, kind |-> "progress"]} ELSE late
  /\ UNCHANGED card /\ WorkerFrame

Worker(r, w) ==
  \/ WorkerLeaves(r, w) \/ WorkerTakes(r, w) \/ WorkerCalls(r, w) \/ WorkerPatches(r, w)
  \/ \E outcome \in {"ok", "canceled", "transient", "permanent"} : WorkerReturns(r, w, outcome)

-----------------------------------------------------------------------------
(* finalize *)

ResultFrame == UNCHANGED <<started, closed, state, reporter, progress, worker, refused>>

ResultTo(r, pc) == result' = [result EXCEPT ![r].pc = pc, ![r].applied = FALSE]

\* The run is over: markTerminal and cancel, by whoever is first.
BeginFinish(r) ==
  /\ r = registered /\ r \notin terminal
  /\ terminal' = terminal \cup {r} /\ cancelled' = cancelled \cup {r}
  /\ ResultTo(r, "persist")
  /\ UNCHANGED <<registered, mutex, card, late, own, faults>> /\ ResultFrame

\* persistTerminalState gives up: the run stays registered, nothing is sent.
PersistGivesUp(r) ==
  /\ result[r].pc = "persist" /\ closed
  /\ ResultTo(r, "unsaved")
  /\ UNCHANGED <<registered, terminal, cancelled, mutex, card, late, own, faults>> /\ ResultFrame

\* The outcome is durable; the task may be continued before the result is sent.
Unregister(r) ==
  /\ result[r].pc = "persist"
  /\ registered' = 0
  /\ ResultTo(r, "first")
  /\ UNCHANGED <<terminal, cancelled, mutex, card, late, own, faults>> /\ ResultFrame

\* The first patch of the result, or a retry of it, under cardMu.
ResultCalls(r) ==
  /\ result[r].pc \in {"first", "retry"} /\ mutex[r] = None
  /\ mutex' = [mutex EXCEPT ![r] = "result"]
  /\ ResultTo(r, IF result[r].pc = "first" THEN "callFirst" ELSE "callRetry")
  /\ UNCHANGED <<registered, terminal, cancelled, card, late, own, faults>> /\ ResultFrame

Shows(r) == [run |-> r, shows |-> state[r], kind |-> "result"]

ResultPatches(r) ==
  /\ result[r].pc \in {"callFirst", "callRetry"} /\ ~result[r].applied
  /\ card' = Shows(r)
  /\ result' = [result EXCEPT ![r].applied = TRUE]
  /\ UNCHANGED <<registered, terminal, cancelled, mutex, late, own, faults>> /\ ResultFrame

\* Mutant: after the last retry the result is given up.
AfterTransientGivingUp(r) ==
  CASE result[r].pc = "callFirst"    -> IF closed THEN "lost" ELSE "retry"
    [] result[r].tries + 1 < Attempts -> "retry"
    [] OTHER                         -> "done"

\* Mutant: one retry too many.
AfterTransientOnceMore(r) ==
  CASE result[r].pc = "callFirst"     -> IF closed THEN "lost" ELSE "retry"
    [] result[r].tries + 1 <= Attempts -> "retry"
    [] OTHER                          -> "fallback"

\* retryTerminalPatch is a goroutine of its own; after its last attempt, the
\* result is sent as a new card.
AfterTransient(r) ==
  CASE result[r].pc = "callFirst"    -> IF closed THEN "lost" ELSE "retry"
    [] result[r].tries + 1 < Attempts -> "retry"
    [] OTHER                         -> "fallback"

\* patchWithRetry: an attempt times out, and the call goes on to the next.
AttemptTimesOut(r) ==
  /\ result[r].pc \in {"callFirst", "callRetry"} /\ ~result[r].applied
  /\ "transient" \in Faults /\ faults < MaxFaults /\ faults' = faults + 1
  /\ late' = late \cup {Shows(r)}
  /\ UNCHANGED <<registered, terminal, cancelled, mutex, card, result, own>> /\ ResultFrame

ResultReturns(r, outcome) ==
  /\ result[r].pc \in {"callFirst", "callRetry"}
  /\ outcome = "ok" => result[r].applied
  /\ outcome = "permanent" => ~result[r].applied
  /\ IF outcome = "ok" THEN UNCHANGED faults
                       ELSE outcome \in Faults /\ faults < MaxFaults /\ faults' = faults + 1
  /\ mutex' = [mutex EXCEPT ![r] = None]
  /\ result' = [result EXCEPT ![r] =
       [pc |-> CASE outcome = "ok"        -> "done"
                 [] outcome = "permanent" -> "fallback"
                 [] outcome = "transient" -> AfterTransient(r),
        tries |-> IF @.pc = "callRetry" THEN @.tries + 1 ELSE @.tries,
        applied |-> FALSE]]
  /\ late' = IF outcome = "transient" /\ ~result[r].applied THEN late \cup {Shows(r)} ELSE late
  /\ UNCHANGED <<registered, terminal, cancelled, card, own>> /\ ResultFrame

\* waitForTerminalRetry is cut short by Close: the result is not sent.
RetryStops(r) ==
  /\ result[r].pc = "retry" /\ closed
  /\ ResultTo(r, "lost")
  /\ UNCHANGED <<registered, terminal, cancelled, mutex, card, late, own, faults>> /\ ResultFrame

\* sendTerminalFallback: a new card, routed to the task.  A call that fails
\* may have created the card.
Fallback(r, sent) ==
  /\ result[r].pc = "fallback" /\ mutex[r] = None
  /\ IF sent
       THEN own' = own \cup {r} /\ ResultTo(r, "done") /\ UNCHANGED faults
       ELSE /\ faults < MaxFaults /\ faults' = faults + 1
            /\ ResultTo(r, "lost")
            /\ own' \in {own, own \cup {r}}
  /\ UNCHANGED <<registered, terminal, cancelled, mutex, card, late>> /\ ResultFrame

Finalize(r) ==
  \/ PersistGivesUp(r) \/ Unregister(r)
  \/ ResultCalls(r) \/ ResultPatches(r) \/ AttemptTimesOut(r) \/ RetryStops(r)
  \/ \E outcome \in {"ok", "transient", "permanent"} : ResultReturns(r, outcome)
  \/ \E sent \in BOOLEAN : Fallback(r, sent)

\* Controller.Close.
Close ==
  /\ "close" \in Faults /\ ~closed
  /\ closed' = TRUE
  /\ cancelled' = cancelled \cup ({registered} \cap Runs)
  /\ UNCHANGED <<registered, started, state, reporter, progress, worker, terminal, mutex, result,
                 card, late, own, refused, faults>>

\* Feishu applies a patch after all that nobody waits for any more.
PatchLate(p) ==
  /\ p \in late
  /\ card' = p
  /\ UNCHANGED <<registered, started, closed, state, reporter, progress, worker, terminal, cancelled,
                 mutex, result, late, own, refused, faults>>

-----------------------------------------------------------------------------
Send(g) == Snapshot(g) \/ Queue(g)

Next ==
  \/ \E g \in Reporters : Enqueue(g) \/ Send(g) \/ \E changed \in BOOLEAN : Report(g, changed)
  \/ \E r \in Runs, w \in Slots : Worker(r, w)
  \/ \E r \in Runs : BeginFinish(r) \/ Finalize(r)
  \/ \E p \in late : PatchLate(p)
  \/ Close

Spec == Init /\ [][Next]_vars

\* Goroutines run and calls return.  Runs need not end and states need not change.
FairSpec ==
  /\ Spec
  /\ \A g \in Reporters : WF_vars(Send(g))
  /\ \A r \in Runs : WF_vars(Finalize(r)) /\ \A w \in Slots : WF_vars(Worker(r, w))

-----------------------------------------------------------------------------
TypeOK ==
  /\ registered \in Runs \cup {0} /\ started \in 0..NumRuns /\ closed \in BOOLEAN
  /\ state \in [Runs -> 0..MaxState]
  /\ reporter \in [Reporters -> [pc : {"idle", "snapshot", "queue"}, run : Runs \cup {0}, shows : 0..MaxState]]
  /\ progress \in [Runs -> [dirty : BOOLEAN, pending : 0..MaxState, last : 0..MaxState, worker : BOOLEAN]]
  /\ worker \in [Runs -> [Slots -> [pc : {"off", "next", "lock", "call"}, shows : 0..MaxState,
                                    applied : BOOLEAN]]]
  /\ terminal \subseteq Runs /\ cancelled \subseteq Runs
  /\ mutex \in [Runs -> {None, "worker", "result"}]
  /\ result \in [Runs -> [pc : {"none", "persist", "first", "retry", "callFirst", "callRetry",
                                "fallback", "done", "lost", "unsaved"},
                          tries : 0..Attempts, applied : BOOLEAN]]
  /\ card \in [run : Runs \cup {0}, shows : 0..MaxState, kind : {"start", "progress", "result"}]
  /\ late \subseteq [run : Runs, shows : 0..MaxState, kind : {"progress", "result"}]
  /\ own \subseteq Runs /\ refused \in [Runs -> 0..MaxState] /\ faults \in 0..MaxFaults

\* The result of a run on the card is not overwritten by progress of the same
\* run that is queued, retried or in a call when the run ends: only by a patch
\* given up without an answer, which it was before the result was first sent.
ResultStays ==
  [][/\ card.kind = "result" /\ card'.run = card.run => card'.kind = "result" \/ card' \in late
     /\ \A p \in late' \ late : p.kind = "progress" => result[p.run].pc \in {"none", "persist", "unsaved", "first"}]_vars

\* A delivery that was not lost has put the result where the user finds it: on
\* the card, or on a card of its own; as long as it is the task's only result,
\* and unless Feishu has applied a patch late.
DoneMeansShown ==
  \A r \in Runs :
    result[r].pc = "done" /\ r \notin own /\ started = r /\ terminal = {r} =>
      card = Shows(r) \/ card \in late

\* docs/feishu-quickstart.zh-CN.md, "Verify the task flow": when a task is done
\* its start card becomes the result card; and so it does for a continuation.
\* (Patches that are late are excluded: nothing in the code keeps them out.)
LastResultStays ==
  \A r \in Runs :
    result[r].pc = "done" /\ r \notin own /\ started = r =>
      card = Shows(r) \/ card \in late

\* The comment of flushProgress, "so the next patch reflects the current task
\* state": within a run the card never goes back to an earlier state, when no
\* patch is late.
PatchesNeverGoBack ==
  [][card.run = card'.run /\ card' \notin late => card'.shows >= card.shows]_vars

\* What is queued last is what the card shows in the end, whoever queued it and
\* whatever the worker was doing; unless the run ends first, or Feishu refused
\* it for good, which does not keep the next presentation from being sent.  A
\* patch that is late may replace it once it has been sent.
ProgressCatchesUp ==
  \A r \in Runs : \A v \in 1..MaxState :
    progress[r].pending = v ~>
      \/ card.run = r /\ (card.shows = v \/ (card \in late /\ progress[r].last = v /\ ~progress[r].dirty))
      \/ progress[r].pending # v \/ refused[r] >= v \/ r \in terminal \/ closed

\* The result of a run that ended is delivered, on the task's card or on a card
\* of its own, unless Feishu refuses both or the controller closes; a patch that
\* is late may replace it.
ResultDelivered ==
  \A r \in Runs :
    r \in terminal ~>
      \/ r \in own \/ result[r].pc \in {"lost", "unsaved"}
      \/ result[r].pc = "done" /\ (card.run > r \/ card = Shows(r) \/ card \in late)
=============================================================================
