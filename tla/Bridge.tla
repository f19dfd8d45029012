------------------------------- MODULE Bridge --------------------------------
(***************************************************************************)
(* The bridge process: the router, which handles inbound Feishu events one *)
(* at a time; the runtime controller, whose goroutines drive one Codex     *)
(* turn per run (launch, stop, event loop, finalize); the main goroutine   *)
(* of Serve (startup, loss of the app-server, shutdown, restart); the      *)
(* database they share (StateDB); and, as the environment, the Codex       *)
(* app-server with its turns and its ordered event stream.                 *)
(*                                                                         *)
(* A step of a goroutine is what it does between two calls that can block  *)
(* or two critical sections another goroutine can get between.  A call to  *)
(* the app-server may succeed, fail, or time out after it took effect.     *)
(***************************************************************************)
EXTENDS StateDB, Naturals, Sequences

CONSTANTS
  MaxStarts,  \* bound on the starts of the process
  Env         \* the inputs and faults of the environment to explore

\* Inputs of users beyond new tasks and continuations; then failures of calls to
\* the app-server, of cards, of the database, and projects that are no longer
\* configured; then the ends of a process.
EnvKinds == {"stop", "steer", "attach", "restart", "call", "card", "store", "project",
             "loss", "shutdown", "crash"}

ASSUME BridgeAssumption == MaxStarts \in Nat /\ Env \subseteq EnvKinds

VARIABLES
  \* Serve
  proc,        \* "down", "refreshed", "serving", "failing", "closing"
  starts,      \* starts so far
  failing,     \* runs FailActiveRuns has still to look at
  failCur,     \* the run whose finalize FailActiveRuns waits for, or None
  \* Router: the handler in progress
  rt,
  leaked,      \* [Runs -> key of a run whose failQueuedRun could not be stored, or None]
  \* Controller
  unavailable, closed,
  reg,         \* byRun; byTask is the same runs by runTask
  byThread, byTurn,
  mem,         \* [Runs -> the activeRun record]
  launch,      \* [Runs -> program counter and locals of launch]
  cancelStop,  \* runs with a goroutine of Stop about to finish them as canceled
  intStop,     \* [Runs -> the turn a goroutine of Stop is about to interrupt, or None]
  awaitStop,   \* runs whose turn was interrupted, the answer on its way to Stop or launch
  fin,         \* [Runs -> progress of finalize]
  loopOn,      \* the event loop is running
  held,        \* the turn/completed the event loop is handling, or NoEvent
  interrupts,  \* [Runs -> Interrupt calls made], history for the properties
  \* Codex app-server
  up,
  turn,        \* [Turns -> state, thread and the run that asked for it]
  events       \* notifications sent and not yet taken, in order

serveVars == <<proc, starts, failing, failCur>>
rtVars    == <<rt, leaked>>
idxVars   == <<reg, byThread, byTurn>>
flagVars  == <<unavailable, closed>>
stopVars  == <<cancelStop, intStop, awaitStop, interrupts>>
loopVars  == <<loopOn, held>>
codexVars == <<up, turn, events>>
vars == <<dbVars, serveVars, rtVars, idxVars, flagVars, mem, launch, stopVars, fin, loopVars, codexVars>>

Idle     == [pc |-> "idle", key |-> None, task |-> None, run |-> None, arg |-> None]
NoMem    == [key |-> None, thread |-> None, taskThread |-> None, turn |-> None,
             terminal |-> FALSE, cancelled |-> FALSE, stopRequested |-> FALSE, stopHandled |-> FALSE]
NoLaunch == [pc |-> "off", thread |-> None, turn |-> None]
NoFin    == [pc |-> "none", status |-> "none", body |-> "none", event |-> None]
NoEvent  == [run |-> None, turn |-> None]
NoTurn   == [state |-> "none", thread |-> None, by |-> None]

RouterPCs == {"idle", "card", "root", "route", "enqueue", "failRun", "attachCard", "attachRoot",
              "attachRoute", "restarting", "stop", "steer"}
LaunchPCs == {"off", "thread", "startRun", "callTurn", "awaitTurn", "startRunTurn", "interrupt", "done"}
FinPCs    == {"none", "persist", "unregister", "card", "done", "gaveUp"}
Bodies    == {"none", "result", "stopped", "error", "connection", "restarting"}
Ended     == {"succeeded", "failed", "canceled"}

Running == proc \in {"serving", "failing", "closing"}

-----------------------------------------------------------------------------
(* activeRun and the indexes *)

\* activeRun.ids: the thread falls back to the one of the task snapshot.
ThreadOf(r) == IF mem[r].thread # None THEN mem[r].thread ELSE mem[r].taskThread

ActiveOn(t) == {r \in reg : runTask[r] = t}

\* Mutant: no fallback to the thread while turn/start has not answered.
ActiveForTurn(tn) == byTurn[tn]

\* activeFor: by turn, else by thread.
ActiveFor(tn) == IF byTurn[tn] # None THEN byTurn[tn] ELSE byThread[turn[tn].thread]

\* Mutant: markTerminal does not say whether the run was terminal already.
FinishAsAgain(r, m, status, body, tn) ==
  /\ mem' = [mem EXCEPT ![r] = [m EXCEPT !.terminal = TRUE, !.cancelled = TRUE]]
  /\ fin' = [fin EXCEPT ![r] = [pc |-> "persist", status |-> status, body |-> body, event |-> tn]]

\* markTerminal and cancel, once, on the activeRun m; who wins runs finalize.
FinishAs(r, m, status, body, tn) ==
  IF m.terminal
    THEN /\ mem' = [mem EXCEPT ![r] = m]
         /\ UNCHANGED fin
    ELSE /\ mem' = [mem EXCEPT ![r] = [m EXCEPT !.terminal = TRUE, !.cancelled = TRUE]]
         /\ fin' = [fin EXCEPT ![r] = [pc |-> "persist", status |-> status, body |-> body, event |-> tn]]

BeginFinish(r, status, body, tn) == FinishAs(r, mem[r], status, body, tn)

\* setTurn: nothing once the run is terminal.
SetTurn(r, tn) ==
  IF mem[r].terminal
    THEN UNCHANGED <<mem, byTurn>>
    ELSE /\ mem' = [mem EXCEPT ![r].turn = tn]
         /\ byTurn' = IF ThreadOf(r) # None THEN [byTurn EXCEPT ![tn] = r] ELSE byTurn

\* takeStopRequest would return true.
StopToTake(r) == mem[r].stopRequested /\ ~mem[r].stopHandled

\* What a call made with the run's context may fail with now.
CallErrors(r) ==
  {e \in {"error", "connection", "canceled"} :
     \/ e = "error" /\ "call" \in Env
     \/ e = "connection" /\ ~up
     \/ e = "canceled" /\ mem[r].cancelled}

\* Mutant: a status the schema does not know.
FinishFromErrorCancelled(r, e) ==
  IF e = "canceled" \/ mem[r].stopRequested
    THEN BeginFinish(r, "cancelled", "stopped", None)
    ELSE BeginFinish(r, "failed", e, None)

\* finishFromError.
FinishFromError(r, e) ==
  IF e = "canceled" \/ mem[r].stopRequested
    THEN BeginFinish(r, "canceled", "stopped", None)
    ELSE BeginFinish(r, "failed", e, None)

\* The memory of a process that is not there.
FreshMemory ==
  /\ failing' = {} /\ failCur' = None
  /\ rt' = Idle /\ leaked' = [r \in Runs |-> None]
  /\ unavailable' = FALSE /\ closed' = FALSE
  /\ reg' = {} /\ byThread' = [th \in Threads |-> None] /\ byTurn' = [tn \in Turns |-> None]
  /\ mem' = [r \in Runs |-> NoMem] /\ launch' = [r \in Runs |-> NoLaunch]
  /\ cancelStop' = {} /\ awaitStop' = {} /\ intStop' = [r \in Runs |-> None] /\ interrupts' = [r \in Runs |-> 0]
  /\ fin' = [r \in Runs |-> NoFin]
  /\ loopOn' = FALSE /\ held' = NoEvent

\* The app-server goes away and takes its unfinished turns with it.
KillTurns ==
  turn' = [tn \in Turns |-> IF turn[tn].state = "running" THEN [turn[tn] EXCEPT !.state = "killed"]
                                                          ELSE turn[tn]]

Init ==
  /\ EmptyDB
  /\ proc = "down" /\ starts = 0 /\ failing = {} /\ failCur = None
  /\ rt = Idle /\ leaked = [r \in Runs |-> None]
  /\ unavailable = FALSE /\ closed = FALSE
  /\ reg = {} /\ byThread = [th \in Threads |-> None] /\ byTurn = [tn \in Turns |-> None]
  /\ mem = [r \in Runs |-> NoMem] /\ launch = [r \in Runs |-> NoLaunch]
  /\ cancelStop = {} /\ awaitStop = {} /\ intStop = [r \in Runs |-> None] /\ interrupts = [r \in Runs |-> 0]
  /\ fin = [r \in Runs |-> NoFin]
  /\ loopOn = FALSE /\ held = NoEvent
  /\ up = FALSE /\ turn = [tn \in Turns |-> NoTurn] /\ events = <<>>

-----------------------------------------------------------------------------
(* Serve: startup, loss of the app-server, shutdown *)

StartUsers ==
  /\ proc = "down" /\ starts < MaxStarts
  /\ RefreshUsers(Users)
  /\ proc' = "refreshed" /\ starts' = starts + 1
  /\ UNCHANGED <<failing, failCur, rtVars, idxVars, flagVars, mem, launch, stopVars, fin, loopVars, codexVars>>

\* RecoverRunning, then a new app-server and controller.
StartRecover ==
  /\ proc = "refreshed"
  /\ RecoverRunning
  /\ proc' = "serving" /\ up' = TRUE /\ loopOn' = TRUE
  /\ UNCHANGED <<starts, failing, failCur, rtVars, idxVars, flagVars, mem, launch, stopVars, fin, held, turn, events>>

\* The main goroutine takes the reported loss and snapshots byRun.
TakeLoss ==
  /\ proc = "serving" /\ unavailable
  /\ proc' = "failing" /\ failing' = reg
  /\ UNCHANGED <<dbVars, starts, failCur, rtVars, idxVars, flagVars, mem, launch, stopVars, fin, loopVars, codexVars>>

\* FailActiveRuns finishes one run after the other, each to its end.
FailNext(r) ==
  /\ proc = "failing" /\ failCur = None /\ r \in failing
  /\ failing' = failing \ {r}
  /\ failCur' = IF mem[r].terminal THEN None ELSE r
  /\ BeginFinish(r, "failed", "restarting", None)
  /\ UNCHANGED <<dbVars, proc, starts, rtVars, idxVars, flagVars, launch, stopVars, loopVars, codexVars>>

FailReturns ==
  /\ proc = "failing" /\ failCur # None /\ fin[failCur].pc = "done"
  /\ failCur' = None
  /\ UNCHANGED <<dbVars, proc, starts, failing, rtVars, idxVars, flagVars, mem, launch, stopVars, fin, loopVars, codexVars>>

FailDone ==
  /\ proc = "failing" /\ failing = {} /\ failCur = None
  /\ proc' = "closing"
  /\ UNCHANGED <<dbVars, starts, failing, failCur, rtVars, idxVars, flagVars, mem, launch, stopVars, fin, loopVars, codexVars>>

\* A signal cancels the context of Serve.
Shutdown ==
  /\ "shutdown" \in Env
  /\ proc = "serving"
  /\ proc' = "closing"
  /\ UNCHANGED <<dbVars, starts, failing, failCur, rtVars, idxVars, flagVars, mem, launch, stopVars, fin, loopVars, codexVars>>

\* Controller.Close: no new goroutines, every context cancelled.  It does not
\* wait for a router handler longer than the source close timeout.
CloseController ==
  /\ proc = "closing" /\ ~closed
  /\ closed' = TRUE
  /\ mem' = [r \in Runs |-> IF r \in reg THEN [mem[r] EXCEPT !.cancelled = TRUE] ELSE mem[r]]
  /\ UNCHANGED <<dbVars, serveVars, rtVars, idxVars, unavailable, launch, stopVars, fin, loopVars, codexVars>>

\* What wg.Wait waits for.
GoroutinesDone ==
  /\ \A r \in Runs : /\ launch[r].pc \in {"off", "done"}
                     /\ fin[r].pc \in {"none", "done", "gaveUp"}
                     /\ intStop[r] = None
  /\ cancelStop = {} /\ awaitStop = {} /\ ~loopOn

Stopped ==
  /\ proc' = "down" /\ up' = FALSE /\ events' = <<>>
  /\ KillTurns
  /\ FreshMemory
  /\ UNCHANGED <<dbVars, starts>>

Exit  == proc = "closing" /\ closed /\ GoroutinesDone /\ Stopped
Crash == "crash" \in Env /\ proc # "down" /\ Stopped

-----------------------------------------------------------------------------
(* Router: one handler at a time, one step per call it makes *)

Accepting == proc \in {"serving", "failing"} /\ rt.pc = "idle"

RouterStep == UNCHANGED <<serveVars, flagVars, stopVars, fin, loopVars, codexVars>>
RouterOnly == UNCHANGED <<leaked, idxVars, mem, launch>> /\ RouterStep

\* startTask up to its admission.
HandleNewTask(k, t, r, u) ==
  /\ Accepting
  /\ AdmitNewTask(k, t, r, u)
  /\ rt' = [pc |-> "card", key |-> k, task |-> t, run |-> r, arg |-> None]
  /\ RouterOnly

\* resumeTask: a task that has a root card goes straight to Enqueue; one whose
\* project is no longer configured is failed.
HandleContinue(k, t, r, u) ==
  /\ Accepting
  /\ AdmitResumeRun(k, t, r, u)
  /\ \E pc \in {IF taskRoot[t] = None THEN "card" ELSE "enqueue"}
                 \cup IF "project" \in Env THEN {"failRun"} ELSE {} :
       rt' = [pc |-> pc, key |-> k, task |-> t, run |-> r, arg |-> None]
  /\ RouterOnly

HandleRefusedContinue(k, t, u) ==
  /\ Accepting
  /\ taskStatus[t] # "absent"
  /\ RejectResume(k, t, u)
  /\ UNCHANGED rt /\ RouterOnly

\* handleAttachThread, once the desktop thread is found.
HandleAttach(k, t, th, u) ==
  /\ "attach" \in Env
  /\ Accepting /\ ~unavailable /\ ~closed
  /\ AttachThread(k, t, th, u)
  /\ rt' = [Idle EXCEPT !.pc = "attachCard", !.task = t]
  /\ RouterOnly

\* handleRestart up to the restarting card.  Runs only leave the active state
\* between the two database calls, so HasActiveTask and AdmitRestart are one step.
HandleRestart(k) ==
  /\ "restart" \in Env
  /\ Accepting
  /\ ~HasActiveTask
  /\ AdmitRestart(k)
  /\ rt' = [Idle EXCEPT !.pc = "restarting"]
  /\ RouterOnly

\* The restarting card is sent and Serve is told to restart, or it is not sent
\* and the handler returns.
RouterRestart(sent) ==
  /\ rt.pc = "restarting" /\ (sent \/ "card" \in Env)
  /\ rt' = Idle
  /\ proc' = IF sent /\ proc = "serving" THEN "closing" ELSE proc
  /\ UNCHANGED <<dbVars, starts, failing, failCur, leaked, idxVars, flagVars, mem, launch, stopVars, fin,
                 loopVars, codexVars>>

\* Notifier.Start for a run.
RouterCard(c) ==
  /\ rt.pc \in {"card", "attachCard"}
  /\ \A t \in Tasks : taskRoot[t] # c
  /\ routeTask[c] = None
  /\ rt' = [rt EXCEPT !.pc = IF @ = "card" THEN "root" ELSE "attachRoot", !.arg = c]
  /\ UNCHANGED dbVars /\ RouterOnly

RouterRoot ==
  /\ rt.pc \in {"root", "attachRoot"}
  /\ SetTaskRootMessageID(rt.task, rt.arg)
  /\ rt' = [rt EXCEPT !.pc = IF @ = "root" THEN "route" ELSE "attachRoute"]
  /\ RouterOnly

RouterRoute ==
  /\ rt.pc \in {"route", "attachRoute"}
  /\ InsertMessageRoute(rt.arg, rt.task)
  /\ rt' = IF rt.pc = "route" THEN [rt EXCEPT !.pc = "enqueue"] ELSE Idle
  /\ RouterOnly

\* The card, its root record or its route failed, or the context of Serve is
\* cancelled: the run is failed; an attached task is left as it is.
RouterCallFails ==
  /\ \/ rt.pc \in {"card", "attachCard"} /\ ("card" \in Env \/ proc = "closing")
     \/ rt.pc \in {"root", "route", "attachRoot", "attachRoute"} /\ ("store" \in Env \/ proc = "closing")
  /\ rt' = IF rt.run # None THEN [rt EXCEPT !.pc = "failRun"] ELSE Idle
  /\ UNCHANGED dbVars /\ RouterOnly

\* Mutant: a lost app-server does not stop Enqueue.
EnqueueRefusedUnlessLost == closed \/ ActiveOn(rt.task) # {}

\* Controller.Enqueue refuses when closed, when the app-server is lost, or while
\* byTask still has a run of the task.
EnqueueRefused == unavailable \/ closed \/ ActiveOn(rt.task) # {}

RouterEnqueue ==
  /\ rt.pc = "enqueue" /\ ~EnqueueRefused
  /\ reg' = reg \cup {rt.run}
  /\ mem' = [mem EXCEPT ![rt.run] = [NoMem EXCEPT !.key = rt.key, !.taskThread = runThread[rt.run]]]
  /\ launch' = [launch EXCEPT ![rt.run].pc = "thread"]
  /\ rt' = Idle
  /\ UNCHANGED <<dbVars, leaked, byThread, byTurn>> /\ RouterStep

RouterEnqueueRefused ==
  /\ rt.pc = "enqueue" /\ EnqueueRefused
  /\ rt' = [rt EXCEPT !.pc = "failRun"]
  /\ UNCHANGED dbVars /\ RouterOnly

\* failQueuedRun, with the thread of the admitted task.
RouterFailRun ==
  /\ rt.pc = "failRun"
  /\ FinishRun(rt.key, rt.run, "failed", runThread[rt.run], None)
  /\ rt' = Idle
  /\ RouterOnly

\* failQueuedRun cannot be stored either; there is no retry.
RouterFailRunFails ==
  /\ "store" \in Env
  /\ rt.pc = "failRun"
  /\ leaked' = [leaked EXCEPT ![rt.run] = rt.key]
  /\ rt' = Idle
  /\ UNCHANGED <<dbVars, idxVars, mem, launch>> /\ RouterStep

-----------------------------------------------------------------------------
(* Controller.Stop and Controller.Steer, called by the router *)

Stoppable(r) == Accepting /\ ~unavailable /\ ~closed /\ r \in reg /\ ~mem[r].terminal

StopRequest(r) ==
  /\ "stop" \in Env
  /\ Stoppable(r)
  /\ mem' = [mem EXCEPT ![r].stopRequested = TRUE]
  /\ rt' = [Idle EXCEPT !.pc = "stop", !.arg = r]
  /\ UNCHANGED <<dbVars, leaked, idxVars, launch>> /\ RouterStep

\* Stop reads the ids: without a thread it cancels the run; without a turn it
\* leaves the request to launch; else it interrupts the turn, unless launch
\* has taken the request.  A goroutine is started only while not closed.
StopAct ==
  LET r == rt.arg IN
  /\ rt.pc = "stop"
  /\ rt' = Idle
  /\ \/ /\ ThreadOf(r) = None
        /\ mem' = [mem EXCEPT ![r].cancelled = TRUE]
        /\ cancelStop' = IF closed THEN cancelStop ELSE cancelStop \cup {r}
        /\ UNCHANGED intStop
     \/ /\ ThreadOf(r) # None /\ (mem[r].turn = None \/ ~StopToTake(r))
        /\ UNCHANGED <<mem, cancelStop, intStop>>
     \/ /\ ThreadOf(r) # None /\ mem[r].turn # None /\ StopToTake(r)
        /\ mem' = [mem EXCEPT ![r].stopHandled = TRUE]
        /\ intStop' = IF closed THEN intStop ELSE [intStop EXCEPT ![r] = mem[r].turn]
        /\ UNCHANGED cancelStop
  /\ UNCHANGED <<dbVars, leaked, idxVars, launch, serveVars, flagVars, awaitStop, interrupts, fin, loopVars, codexVars>>

StopCancels(r) ==
  /\ r \in cancelStop
  /\ cancelStop' = cancelStop \ {r}
  /\ BeginFinish(r, "canceled", "stopped", None)
  /\ UNCHANGED <<dbVars, serveVars, rtVars, idxVars, flagVars, launch, intStop, awaitStop, interrupts, loopVars, codexVars>>

\* The call of Interrupt, by Stop's goroutine or launch: a running turn ends as
\* interrupted, and its turn/completed may overtake the answer; or the call fails.
Interrupt(r, tn) ==
  /\ interrupts' = [interrupts EXCEPT ![r] = @ + 1]
  /\ \/ /\ up /\ turn[tn].state = "running"
        /\ turn' = [turn EXCEPT ![tn].state = "canceled"]
        /\ events' = Append(events, [type |-> "completed", turn |-> tn])
        /\ awaitStop' = awaitStop \cup {r}
        /\ UNCHANGED <<mem, fin>>
     \/ /\ "call" \in Env \/ ~up \/ closed \/ turn[tn].state # "running"
        /\ BeginFinish(r, "failed", IF up THEN "error" ELSE "connection", None)
        /\ UNCHANGED <<turn, events, awaitStop>>
  /\ UNCHANGED up

\* The call returns, or times out although the turn was interrupted; finish.
InterruptReturns(r) ==
  /\ r \in awaitStop
  /\ awaitStop' = awaitStop \ {r}
  /\ \/ BeginFinish(r, "canceled", "stopped", None)
     \/ /\ "call" \in Env \/ ~up \/ closed
        /\ BeginFinish(r, "failed", IF up THEN "error" ELSE "connection", None)
  /\ UNCHANGED <<dbVars, serveVars, rtVars, idxVars, flagVars, launch, cancelStop, intStop, interrupts,
                 loopVars, codexVars>>

StopInterrupts(r) ==
  /\ intStop[r] # None
  /\ intStop' = [intStop EXCEPT ![r] = None]
  /\ Interrupt(r, intStop[r])
  /\ UNCHANGED <<dbVars, serveVars, rtVars, idxVars, flagVars, launch, cancelStop, loopVars>>

\* Steer reads the turn, calls turn/steer on it and sets the turn it returns.
SteerCall(r) ==
  /\ "steer" \in Env
  /\ Stoppable(r)
  /\ ThreadOf(r) # None /\ mem[r].turn # None
  /\ rt' = [Idle EXCEPT !.pc = "steer", !.run = None, !.arg = <<r, mem[r].turn>>]
  /\ UNCHANGED dbVars /\ RouterOnly

SteerReturns(ok) ==
  /\ rt.pc = "steer"
  /\ rt' = Idle
  /\ IF ok THEN /\ turn[rt.arg[2]].state # "none"
                /\ SetTurn(rt.arg[1], rt.arg[2])
           ELSE UNCHANGED <<mem, byTurn>>
  /\ UNCHANGED <<dbVars, leaked, reg, byThread, launch>> /\ RouterStep

-----------------------------------------------------------------------------
(* Controller.launch, one goroutine per run *)

LaunchFrame == UNCHANGED <<serveVars, rtVars, flagVars, cancelStop, intStop, loopVars>>

LaunchTo(r, pc) ==
  launch' = [launch EXCEPT ![r] = IF pc = "done" THEN [NoLaunch EXCEPT !.pc = pc] ELSE [@ EXCEPT !.pc = pc]]

\* thread/start creates a thread, thread/resume returns the task's.
AnsweredThreads(r) ==
  IF runKind[r] = "resume" THEN {ThreadOf(r)}
  ELSE {th \in Threads : /\ \A t \in Tasks : taskThread[t] # th
                         /\ \A q \in Runs : mem[q].thread # th /\ runThread[q] # th}

\* The thread id arrives; setThread registers it unless the run is terminal.
LaunchThread(r) ==
  /\ launch[r].pc = "thread"
  /\ \E th \in AnsweredThreads(r) :
       IF mem[r].terminal
         THEN /\ LaunchTo(r, "done")
              /\ UNCHANGED <<mem, byThread>>
         ELSE /\ launch' = [launch EXCEPT ![r].pc = "startRun", ![r].thread = th]
              /\ mem' = [mem EXCEPT ![r].thread = th]
              /\ byThread' = [byThread EXCEPT ![th] = r]
  /\ UNCHANGED <<dbVars, reg, byTurn, awaitStop, interrupts, fin, codexVars>> /\ LaunchFrame

\* Mutant: launch looks at the stop request without taking it.
AfterStartRunLeavingStop(r) == [mem[r] EXCEPT !.taskThread = launch[r].thread]

\* setState and takeStopRequest after StartRun.
AfterStartRun(r) ==
  [mem[r] EXCEPT !.taskThread = launch[r].thread, !.stopHandled = @ \/ StopToTake(r)]

\* StartRun with the thread, and the first look for a stop request.
LaunchStartRun(r) ==
  /\ launch[r].pc = "startRun"
  /\ StartRun(r, launch[r].thread, None)
  /\ \/ /\ StopToTake(r)
        /\ FinishAs(r, AfterStartRun(r), "canceled", "stopped", None)
        /\ LaunchTo(r, "done")
     \/ /\ ~StopToTake(r)
        /\ mem' = [mem EXCEPT ![r] = AfterStartRun(r)]
        /\ LaunchTo(r, "callTurn")
        /\ UNCHANGED fin
  /\ UNCHANGED <<idxVars, awaitStop, interrupts, codexVars>> /\ LaunchFrame

\* Mutant: no second look, so a stop requested during turn/start is lost.
LaunchStartRunTurnIgnoringStop(r) ==
  /\ launch[r].pc = "startRunTurn"
  /\ StartRun(r, launch[r].thread, launch[r].turn)
  /\ LaunchTo(r, "done")
  /\ mem' = [mem EXCEPT ![r].taskThread = launch[r].thread]
  /\ UNCHANGED <<idxVars, awaitStop, interrupts, fin, codexVars>> /\ LaunchFrame

\* StartRun with the turn, and the second look for a stop request.
LaunchStartRunTurn(r) ==
  /\ launch[r].pc = "startRunTurn"
  /\ StartRun(r, launch[r].thread, launch[r].turn)
  /\ LaunchTo(r, IF StopToTake(r) THEN "interrupt" ELSE "done")
  /\ mem' = [mem EXCEPT ![r] = AfterStartRun(r)]
  /\ UNCHANGED <<idxVars, awaitStop, interrupts, fin, codexVars>> /\ LaunchFrame

\* StartRun fails: the run is no longer active (ErrNotFound), or the database does.
LaunchStartRunFails(r) ==
  /\ launch[r].pc \in {"startRun", "startRunTurn"}
  /\ runStatus[r] \notin Active \/ closed \/ "store" \in Env
  /\ LaunchTo(r, "done")
  /\ BeginFinish(r, "failed", "error", None)
  /\ UNCHANGED <<dbVars, idxVars, awaitStop, interrupts, codexVars>> /\ LaunchFrame

\* turn/start reaches the app-server, even when the run's context is cancelled
\* already: Call writes the request before it looks at the context.
LaunchCallTurn(r) ==
  /\ launch[r].pc = "callTurn" /\ up
  /\ \E tn \in Turns :
       /\ turn[tn].state = "none"
       /\ turn' = [turn EXCEPT ![tn] = [state |-> "running", thread |-> launch[r].thread, by |-> r]]
       /\ events' = Append(events, [type |-> "started", turn |-> tn])
       /\ launch' = [launch EXCEPT ![r].pc = "awaitTurn", ![r].turn = tn]
  /\ UNCHANGED <<dbVars, idxVars, mem, awaitStop, interrupts, fin, up>> /\ LaunchFrame

\* turn/start answers; setTurn.
LaunchTurn(r) ==
  /\ launch[r].pc = "awaitTurn"
  /\ SetTurn(r, launch[r].turn)
  /\ LaunchTo(r, IF mem[r].terminal THEN "done" ELSE "startRunTurn")
  /\ UNCHANGED <<dbVars, reg, byThread, awaitStop, interrupts, fin, codexVars>> /\ LaunchFrame

\* A call of launch fails: an error answer or a timeout, the connection, the context.
LaunchCallFails(r) ==
  /\ launch[r].pc \in {"thread", "callTurn", "awaitTurn"}
  /\ \E e \in CallErrors(r) : FinishFromError(r, e)
  /\ LaunchTo(r, "done")
  /\ UNCHANGED <<dbVars, idxVars, awaitStop, interrupts, codexVars>> /\ LaunchFrame

LaunchInterrupts(r) ==
  /\ launch[r].pc = "interrupt"
  /\ Interrupt(r, launch[r].turn)
  /\ LaunchTo(r, "done")
  /\ UNCHANGED <<dbVars, idxVars>> /\ LaunchFrame

-----------------------------------------------------------------------------
(* The event loop *)

LoopFrame == UNCHANGED <<dbVars, serveVars, rtVars, reg, byThread, flagVars, launch, stopVars, up>>

LoopTakes(type) ==
  /\ loopOn /\ held = NoEvent
  /\ events # <<>> /\ Head(events).type = type
  /\ events' = Tail(events)

\* turn/started.
EventTurnStarted ==
  /\ LoopTakes("started")
  /\ LET tn == Head(events).turn IN
     IF ActiveFor(tn) = None THEN UNCHANGED <<mem, byTurn>> ELSE SetTurn(ActiveFor(tn), tn)
  /\ UNCHANGED <<fin, loopVars, turn>> /\ LoopFrame

\* turn/completed: find the run and set its turn ...
EventTurnCompleted ==
  /\ LoopTakes("completed")
  /\ LET tn == Head(events).turn IN
     IF ActiveFor(tn) = None
       THEN UNCHANGED <<mem, byTurn, held>>
       ELSE /\ SetTurn(ActiveFor(tn), tn)
            /\ held' = [run |-> ActiveFor(tn), turn |-> tn]
  /\ UNCHANGED <<fin, loopOn, turn>> /\ LoopFrame

\* ... and finish the run with the status of the turn.
EventFinish ==
  /\ held # NoEvent
  /\ BeginFinish(held.run, turn[held.turn].state, "result", held.turn)
  /\ held' = NoEvent
  /\ UNCHANGED <<byTurn, loopOn, turn, events>> /\ LoopFrame

\* The event loop, once the stream is drained, or the request loop, at any
\* time, sees its closed channel: reportAppServerLoss.
ReportLoss ==
  /\ Running /\ ~up /\ ~unavailable /\ ~closed
  /\ unavailable' = TRUE
  /\ UNCHANGED <<dbVars, serveVars, rtVars, idxVars, closed, mem, launch, stopVars, fin, loopVars, codexVars>>

\* Mutant: the loop does not look at the context of the controller.
LoopStopsOnLoss ==
  /\ loopOn /\ held = NoEvent /\ unavailable
  /\ loopOn' = FALSE
  /\ UNCHANGED <<held, byTurn, mem, fin, turn, events>> /\ LoopFrame

\* The loop leaves on either signal, whatever is still in the stream.
LoopStops ==
  /\ loopOn /\ held = NoEvent /\ (unavailable \/ closed)
  /\ loopOn' = FALSE
  /\ UNCHANGED <<held, byTurn, mem, fin, turn, events>> /\ LoopFrame

-----------------------------------------------------------------------------
(* Controller.finalize, by whoever won markTerminal *)

FinFrame == UNCHANGED <<serveVars, rtVars, flagVars, mem, launch, stopVars, loopVars, codexVars>>

\* Mutant: the turn is left out, as if StartRun had always recorded it before.
FinPersistWithoutTurn(r) ==
  /\ fin[r].pc = "persist"
  /\ FinishRun(mem[r].key, r, fin[r].status, ThreadOf(r), None)
  /\ fin' = [fin EXCEPT ![r].pc = "unregister"]
  /\ UNCHANGED idxVars /\ FinFrame

\* persistTerminalState: retried until the database takes it.
FinPersist(r) ==
  /\ fin[r].pc = "persist"
  /\ FinishRun(mem[r].key, r, fin[r].status, ThreadOf(r), mem[r].turn)
  /\ fin' = [fin EXCEPT ![r].pc = "unregister"]
  /\ UNCHANGED idxVars /\ FinFrame

\* ... or until the controller closes.
FinGivesUp(r) ==
  /\ "store" \in Env
  /\ fin[r].pc = "persist" /\ closed
  /\ fin' = [fin EXCEPT ![r].pc = "gaveUp"]
  /\ UNCHANGED <<dbVars, idxVars>> /\ FinFrame

FinUnregister(r) ==
  LET th == ThreadOf(r)  tn == mem[r].turn IN
  /\ fin[r].pc = "unregister"
  /\ reg' = reg \ {r}
  /\ byThread' = IF th # None /\ byThread[th] = r THEN [byThread EXCEPT ![th] = None] ELSE byThread
  /\ byTurn' = IF tn # None /\ byTurn[tn] = r THEN [byTurn EXCEPT ![tn] = None] ELSE byTurn
  /\ fin' = [fin EXCEPT ![r].pc = "card"]
  /\ UNCHANGED dbVars /\ FinFrame

\* The terminal card (module TaskCard) is delivered on the task's card, or as a
\* new card that is routed to the task.
FinCard(r) ==
  /\ fin[r].pc = "card"
  /\ fin' = [fin EXCEPT ![r] = [NoFin EXCEPT !.pc = "done"]]
  /\ \/ UNCHANGED dbVars
     \/ \E c \in Cards : /\ \A t \in Tasks : taskRoot[t] # c
                         /\ rt.arg # c
                         /\ InsertMessageRoute(c, runTask[r])
  /\ UNCHANGED idxVars /\ FinFrame

-----------------------------------------------------------------------------
(* The Codex app-server *)

TurnEnds(tn, outcome) ==
  /\ up /\ turn[tn].state = "running"
  /\ turn' = [turn EXCEPT ![tn].state = outcome]
  /\ events' = Append(events, [type |-> "completed", turn |-> tn])
  /\ UNCHANGED <<dbVars, serveVars, rtVars, idxVars, flagVars, mem, launch, stopVars, fin, loopVars, up>>

AppServerLost ==
  /\ "loss" \in Env
  /\ Running /\ up
  /\ up' = FALSE
  /\ KillTurns
  /\ UNCHANGED <<dbVars, serveVars, rtVars, idxVars, flagVars, mem, launch, stopVars, fin, loopVars, events>>

-----------------------------------------------------------------------------
Serve == StartUsers \/ StartRecover \/ TakeLoss \/ (\E r \in Runs : FailNext(r)) \/ FailReturns \/ FailDone
           \/ CloseController \/ Exit

HandleEvent ==
  \/ \E k \in Keys, t \in Tasks, r \in Runs, u \in Users : HandleNewTask(k, t, r, u)
  \/ \E k \in Keys, t \in Tasks, r \in Runs, u \in Users : HandleContinue(k, t, r, u)
  \/ \E k \in Keys, t \in Tasks, u \in Users : HandleRefusedContinue(k, t, u)
  \/ \E k \in Keys, t \in Tasks, th \in Threads, u \in Users : HandleAttach(k, t, th, u)
  \/ \E k \in Keys : HandleRestart(k)
  \/ \E r \in Runs : StopRequest(r) \/ SteerCall(r)

RouterSteps ==
  \/ \E sent \in BOOLEAN : RouterRestart(sent)
  \/ \E c \in Cards : RouterCard(c)
  \/ RouterRoot \/ RouterRoute \/ RouterCallFails
  \/ RouterEnqueue \/ RouterEnqueueRefused \/ RouterFailRun \/ RouterFailRunFails
  \/ StopAct \/ (\E ok \in BOOLEAN : SteerReturns(ok))

Launch(r) ==
  \/ LaunchThread(r) \/ LaunchStartRun(r) \/ LaunchCallTurn(r) \/ LaunchTurn(r) \/ LaunchStartRunTurn(r)
  \/ LaunchStartRunFails(r) \/ LaunchCallFails(r) \/ LaunchInterrupts(r)

Stopper(r) == StopCancels(r) \/ StopInterrupts(r) \/ InterruptReturns(r)

EventLoop == EventTurnStarted \/ EventTurnCompleted \/ EventFinish \/ LoopStops

Finalize(r) == FinPersist(r) \/ FinGivesUp(r) \/ FinUnregister(r) \/ FinCard(r)

AppServer == AppServerLost \/ \E tn \in Turns, outcome \in Ended : TurnEnds(tn, outcome)

Next ==
  \/ Serve \/ Shutdown \/ Crash
  \/ HandleEvent \/ RouterSteps
  \/ \E r \in Runs : Launch(r) \/ Stopper(r) \/ Finalize(r)
  \/ EventLoop \/ ReportLoss
  \/ AppServer

Spec == Init /\ [][Next]_vars

\* Goroutines run, calls return or time out, and the database works in the end.
\* Users, turns, losses, signals and crashes are not obliged to happen.
FairSpec ==
  /\ Spec
  /\ WF_vars(Serve) /\ WF_vars(RouterSteps) /\ WF_vars(EventLoop) /\ WF_vars(ReportLoss)
  /\ \A r \in Runs : WF_vars(Launch(r)) /\ WF_vars(Stopper(r)) /\ WF_vars(Finalize(r))

-----------------------------------------------------------------------------
TypeOK ==
  /\ DBTypeOK
  /\ proc \in {"down", "refreshed", "serving", "failing", "closing"} /\ starts \in 0..MaxStarts
  /\ failing \subseteq Runs /\ failCur \in Runs \cup {None}
  /\ rt.pc \in RouterPCs /\ rt.key \in Keys \cup {None} /\ rt.task \in Tasks \cup {None}
  /\ rt.run \in Runs \cup {None}
  /\ leaked \in [Runs -> Keys \cup {None}]
  /\ {unavailable, closed, loopOn, up} \subseteq BOOLEAN
  /\ reg \subseteq Runs
  /\ byThread \in [Threads -> Runs \cup {None}] /\ byTurn \in [Turns -> Runs \cup {None}]
  /\ mem \in [Runs -> [key : Keys \cup {None}, thread : Threads \cup {None},
                       taskThread : Threads \cup {None}, turn : Turns \cup {None},
                       terminal : BOOLEAN, cancelled : BOOLEAN,
                       stopRequested : BOOLEAN, stopHandled : BOOLEAN]]
  /\ launch \in [Runs -> [pc : LaunchPCs, thread : Threads \cup {None}, turn : Turns \cup {None}]]
  /\ cancelStop \subseteq Runs /\ awaitStop \subseteq Runs /\ intStop \in [Runs -> Turns \cup {None}]
  /\ fin \in [Runs -> [pc : FinPCs, status : Terminal \cup {"none"}, body : Bodies,
                       event : Turns \cup {None}]]
  /\ held.run \in Runs \cup {None} /\ held.turn \in Turns \cup {None}
  /\ interrupts \in [Runs -> Nat]
  /\ turn \in [Turns -> [state : {"none", "running", "killed"} \cup Ended,
                         thread : Threads \cup {None}, by : Runs \cup {None}]]
  /\ events \in Seq([type : {"started", "completed"}, turn : Turns])

\* Who owes a run its FinishRun: the handler in progress, a failQueuedRun that
\* could not be stored, or the controller until the run is durable.
Owed == [r \in Runs |->
  CASE rt.run = r -> rt.key
    [] leaked[r] # None -> leaked[r]
    [] r \in reg /\ fin[r].pc \in {"none", "persist", "gaveUp"} -> mem[r].key
    [] OTHER -> None]

Store == INSTANCE BridgeStore WITH
  owed <- Owed, phase <- IF proc \in {"down", "refreshed"} THEN proc ELSE "serving"

\* The goroutines together use the database as BridgeStore says: every run that
\* is admitted is finished once, with its own event, by the process that
\* admitted it, and stays in the indexes until its outcome is durable.
ImplementsStore == Store!Spec

\* When FailActiveRuns has gone through its snapshot, no run is left that could
\* wait for the lost app-server: none is registered after the snapshot.
LossFailsEveryRun ==
  proc = "failing" /\ failing = {} /\ failCur = None => \A r \in reg : mem[r].terminal

\* However Stop calls, launch and turn events interleave, a run's turn is
\* interrupted at most once.
InterruptedAtMostOnce == \A r \in Runs : interrupts[r] <= 1

\* A turn/completed that arrives before turn/start returns still leaves the
\* turn's id in the durable row of the run, whatever goes on on other threads, as
\* long as no other run has had a turn on the thread of that turn.
ResultTiedToOnlyTurn ==
  \A r \in Runs :
    /\ fin[r].pc \in {"unregister", "card"} /\ fin[r].event # None
    /\ \A tn \in Turns : turn[tn].state # "none" /\ turn[tn].thread = turn[fin[r].event].thread => turn[tn].by = r
    => runTurn[r] = fin[r].event

\* A stop that was accepted ends the run: it is not lost between the steps of
\* launch, whichever of the two reads the other's write first.
StopEndsRun ==
  \A r \in Runs : mem[r].stopRequested ~> mem[r].terminal \/ ~Running

\* A turn that Codex has ended while its run is registered becomes durable.
EndedTurnIsRecorded ==
  \A r \in Runs :
    (r \in reg /\ \E tn \in Turns : turn[tn].by = r /\ turn[tn].state \in Ended)
      ~> runStatus[r] \in Terminal \/ ~Running

\* When the app-server is lost, the process comes to its end, so that the
\* supervisor can start a clean one.
LossEndsProcess == (proc = "serving" /\ ~up) ~> proc = "down"

\* docs/troubleshooting.md, "Native restart command": the request is rejected
\* while a task is active, so an active Codex turn is never interrupted.
RestartSparesTurns ==
  rt.pc = "restarting" => \A tn \in Turns : turn[tn].state # "running"

\* The comment of the turn/completed case of handleEvent, "so the durable result
\* is still tied to that turn": the row of a run that was ended by the completion
\* of the turn it asked for has this turn.
OwnTurnIsRecorded ==
  \A r \in Runs :
    /\ fin[r].pc \in {"unregister", "card"} /\ fin[r].event # None
    /\ turn[fin[r].event].by = r
    => runTurn[r] = fin[r].event
=============================================================================
