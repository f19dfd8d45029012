-------------------------- MODULE BridgeTurnProofs ---------------------------
(***************************************************************************)
(* Proofs about Bridge, continued: what becomes of the runs when the       *)
(* app-server is lost, how often a turn is interrupted, and which turn the *)
(* row of a finished run names.  Each rests on an inductive invariant of   *)
(* its own, next to TypeInv and Custody.                                   *)
(***************************************************************************)
EXTENDS BridgeProofs

-----------------------------------------------------------------------------
(* The loss of the app-server *)

\* While FailActiveRuns goes through its snapshot, a registered run is still in
\* the snapshot or already terminal: no run is registered once the loss is known.
LossInv == proc = "failing" => unavailable /\ \A r \in reg : r \in failing \/ mem[r].terminal

\* What most steps do: they finish runs, or take them out of the index.
LossQuiet ==
  /\ UNCHANGED <<proc, failing, unavailable>>
  /\ reg' \subseteq reg
  /\ \A r \in Runs : mem[r].terminal => mem'[r].terminal

LEMMA LossKept ==
  ASSUME TypeInv, LossInv, LossQuiet
  PROVE  LossInv'
BY DEF LossInv, LossQuiet, TypeInv, IndexTypes

\* The goroutines leave the state of Serve alone.
LEMMA GoroutinesSpareServe ==
  ASSUME \/ StopAct \/ (\E ok \in BOOLEAN : SteerReturns(ok))
         \/ EventTurnStarted \/ EventTurnCompleted \/ EventFinish
         \/ \E r \in Runs :
              \/ StopRequest(r) \/ SteerCall(r) \/ StopCancels(r) \/ StopInterrupts(r) \/ InterruptReturns(r)
              \/ LaunchThread(r) \/ LaunchStartRunFails(r) \/ LaunchCallFails(r) \/ LaunchStartRun(r)
              \/ LaunchStartRunTurn(r) \/ LaunchCallTurn(r) \/ LaunchTurn(r) \/ LaunchInterrupts(r)
  PROVE  UNCHANGED <<proc, failing, unavailable>>
<1> USE DEF serveVars, flagVars, RouterStep, RouterOnly, LaunchFrame, LoopFrame
<1>1. CASE StopAct \/ (\E ok \in BOOLEAN : SteerReturns(ok))
  BY <1>1 DEF StopAct, SteerReturns
<1>2. CASE EventTurnStarted \/ EventTurnCompleted \/ EventFinish
  BY <1>2 DEF EventTurnStarted, EventTurnCompleted, EventFinish
<1>3. ASSUME NEW r \in Runs,
             StopRequest(r) \/ SteerCall(r) \/ StopCancels(r) \/ StopInterrupts(r) \/ InterruptReturns(r)
      PROVE  UNCHANGED <<proc, failing, unavailable>>
  BY <1>3 DEF StopRequest, SteerCall, StopCancels, StopInterrupts, InterruptReturns
<1>4. ASSUME NEW r \in Runs,
             \/ LaunchThread(r) \/ LaunchStartRunFails(r) \/ LaunchCallFails(r) \/ LaunchStartRun(r)
             \/ LaunchStartRunTurn(r) \/ LaunchCallTurn(r) \/ LaunchTurn(r) \/ LaunchInterrupts(r)
      PROVE  UNCHANGED <<proc, failing, unavailable>>
  BY <1>4 DEF LaunchThread, LaunchStartRunFails, LaunchCallFails, LaunchStartRun, LaunchStartRunTurn,
              LaunchCallTurn, LaunchTurn, LaunchInterrupts
<1> QED
  BY <1>1, <1>2, <1>3, <1>4

LEMMA LossStep ==
  ASSUME TypeInv, Custody, LossInv, [Next]_vars
  PROVE  LossInv'
<1>1. ASSUME NEW r \in Runs, FailNext(r) PROVE LossInv'
  <2>1. Finished(r, None)
    BY <1>1, BeginFinishEffect DEF FailNext, Terminal, Bodies
  <2> QED
    BY <1>1, <2>1 DEF FailNext, Finished, LossInv, TypeInv, IndexTypes, idxVars, flagVars
<1>2. ASSUME RunAction, \A r \in Runs : ~FailNext(r) PROVE LossInv'
  <2>1. \E r \in Runs : RunStep(r)
    BY <1>2, RunActionStep
  <2>2. UNCHANGED <<proc, failing, unavailable>>
    BY <1>2, GoroutinesSpareServe DEF RunAction
  <2> QED
    BY <2>1, <2>2, LossKept DEF RunStep, LossQuiet
<1>3. ASSUME NEW r \in Runs, LaunchStartRun(r) \/ LaunchStartRunTurn(r) PROVE LossInv'
  <2>1. RunStep(r) /\ UNCHANGED <<proc, failing, unavailable>>
    BY <1>3, LaunchStartRunStep, LaunchStartRunTurnStep, GoroutinesSpareServe
  <2> QED
    BY <2>1, LossKept DEF RunStep, LossQuiet
<1>4. CASE TakeLoss
  BY <1>4 DEF TakeLoss, LossInv, idxVars, flagVars
<1>5. CASE FailDone \/ Shutdown \/ StartUsers \/ StartRecover \/ Exit \/ Crash
  BY <1>5 DEF FailDone, Shutdown, StartUsers, StartRecover, Exit, Crash, Stopped, LossInv
<1>6. CASE FailReturns \/ ReportLoss \/ LoopStops
  BY <1>6 DEF FailReturns, ReportLoss, LoopStops, LossInv, LoopFrame, serveVars, idxVars, flagVars
<1>7. CASE \/ CloseController \/ AppServer
           \/ (EventTurnStarted \/ EventTurnCompleted) /\ ActiveFor(Head(events).turn) = None
  <2>1. IdleStep
    BY <1>7, IdleActionStep DEF IdleAction
  <2>2. UNCHANGED <<proc, failing, unavailable>>
    BY <1>7, GoroutinesSpareServe DEF CloseController, AppServer, AppServerLost, TurnEnds, serveVars, flagVars
  <2> QED
    BY <2>1, <2>2, LossKept DEF IdleStep, LossQuiet
<1>8. CASE \E sent \in BOOLEAN : RouterRestart(sent)
  BY <1>8 DEF RouterRestart, LossInv, idxVars, flagVars
<1>9. CASE AdmitAction \/ RefuseAction \/ CardAction \/ RouterFailRun
  <2>1. RouterOnly
    BY <1>9 DEF AdmitAction, RefuseAction, CardAction, HandleNewTask, HandleContinue, HandleRefusedContinue,
                HandleAttach, HandleRestart, RouterCard, RouterRoot, RouterRoute, RouterCallFails,
                RouterEnqueueRefused, RouterFailRun
  <2> QED
    BY <2>1, LossKept DEF RouterOnly, RouterStep, LossQuiet, serveVars, idxVars, flagVars
<1>10. CASE RouterEnqueue
  <2>1. proc # "failing"
    BY <1>10 DEF RouterEnqueue, EnqueueRefused, LossInv
  <2> QED
    BY <1>10, <2>1 DEF RouterEnqueue, RouterStep, LossInv, serveVars
<1>11. CASE RouterFailRunFails
  BY <1>11, LossKept DEF RouterFailRunFails, RouterStep, LossQuiet, serveVars, idxVars, flagVars
<1>12. ASSUME NEW r \in Runs, FinPersist(r) \/ FinGivesUp(r) \/ FinUnregister(r) \/ FinCard(r) PROVE LossInv'
  <2>1. FinFrame /\ reg' \subseteq reg
    BY <1>12 DEF FinPersist, FinGivesUp, FinUnregister, FinCard, idxVars
  <2> QED
    BY <2>1, LossKept DEF FinFrame, LossQuiet, serveVars, flagVars
<1>13. CASE UNCHANGED vars
  BY <1>13, LossKept DEF vars, LossQuiet, serveVars, idxVars, flagVars
<1> QED
  BY <1>1, <1>2, <1>3, <1>4, <1>5, <1>6, <1>7, <1>8, <1>9, <1>10, <1>11, <1>12, <1>13, Steps
     DEF IdleAction, StartRunAction

\* When FailActiveRuns has gone through its snapshot, every registered run is
\* terminal: none waits for the app-server that is gone.
THEOREM LossReachesEveryRun == Spec => []LossFailsEveryRun
<1>1. Init => LossInv
  BY DEF Init, LossInv
<1>2. TypeInv /\ Custody /\ LossInv /\ [Next]_vars => LossInv'
  BY LossStep
<1>3. LossInv => LossFailsEveryRun
  BY DEF LossInv, LossFailsEveryRun
<1> QED
  BY <1>1, <1>2, <1>3, Invariant, PTL DEF Spec

-----------------------------------------------------------------------------
(* What a step on a run does to its stop request, its turn and its launch *)

Early == {"thread", "startRun", "callTurn"}           \* launch has not asked for a turn
Late  == {"awaitTurn", "startRunTurn", "interrupt"}   \* launch holds a turn

\* A turn the controller knows of was started.
KnownTurnsExist ==
  \A r \in Runs : /\ mem[r].turn # None => Exists(mem[r].turn)
                  /\ launch[r].pc \in Late => Exists(launch[r].turn)

\* A stop that was taken stays taken; a terminal run keeps its turn, and another
\* gets only turns that were started; launch does not go back.
RunFacts(r) ==
  /\ mem[r].stopHandled => mem'[r].stopHandled
  /\ mem'[r].turn = mem[r].turn \/ (~mem[r].terminal /\ mem'[r].turn \in Turns /\ turn'[mem'[r].turn].state # "none")
  /\ launch'[r].pc \in Early => launch[r].pc \in Early
  /\ launch'[r].pc \in Late => turn'[launch'[r].turn].state # "none"

\* finalize starts, if it does, for another reason than a turn/completed.
FinQuiet(r) == fin'[r] = fin[r] \/ fin'[r].event = None

\* Nobody interrupts a turn of the run or gets ready to.
StopQuiet(r) ==
  /\ interrupts'[r] = interrupts[r] /\ intStop'[r] = intStop[r]
  /\ launch'[r].pc = "interrupt" => launch[r].pc = "interrupt"

LEMMA LaunchWaits ==
  ASSUME TypeInv, KnownTurnsExist, TurnsKept, NEW r \in Runs, launch'[r] = launch[r]
  PROVE  /\ launch'[r].pc \in Early => launch[r].pc \in Early
         /\ launch'[r].pc \in Late => turn'[launch'[r].turn].state # "none"
BY DEF TypeInv, LaunchTypes, KnownTurnsExist, TurnsKept, Late, Exists

LEMMA FinishedFacts ==
  ASSUME NEW r \in Runs, FinishedOrNot(r) \/ Finished(r, None)
  PROVE  /\ mem[r].stopHandled => mem'[r].stopHandled
         /\ mem'[r].turn = mem[r].turn /\ FinQuiet(r)
BY DEF Finished, FinishedOrNot, FinQuiet

LEMMA FailNextFacts ==
  ASSUME TypeInv, Custody, KnownTurnsExist, NEW r \in Runs,
         FailNext(r) \/ StopCancels(r) \/ InterruptReturns(r)
  PROVE  RunFacts(r) /\ FinQuiet(r) /\ UNCHANGED <<turn, held>> /\ StopQuiet(r)
<1> USE DEF FailNext, StopCancels, InterruptReturns, stopVars, loopVars, codexVars
<1>1. Finished(r, None)
  BY BeginFinishEffect DEF Terminal, Bodies
<1>2. TurnsKept
  BY TurnsUnchanged
<1>3. launch'[r] = launch[r] /\ UNCHANGED <<turn, held>> /\ StopQuiet(r)
  BY DEF StopQuiet
<1> QED
  BY <1>1, <1>2, <1>3, FinishedFacts, LaunchWaits DEF RunFacts

LEMMA StopInterruptsFacts ==
  ASSUME TypeInv, Custody, KnownTurnsExist, NEW r \in Runs, StopInterrupts(r)
  PROVE  RunFacts(r) /\ FinQuiet(r) /\ UNCHANGED held
<1> USE DEF StopInterrupts, loopVars
<1>1. intStop[r] \in Turns
  BY DEF TypeInv, StopTypes
<1>2. FinishedOrNot(r) /\ TurnsKept
  BY <1>1, InterruptEffect
<1>3. launch'[r] = launch[r]
  OBVIOUS
<1> QED
  BY <1>2, <1>3, FinishedFacts, LaunchWaits DEF RunFacts

LEMMA LaunchInterruptsFacts ==
  ASSUME TypeInv, Custody, KnownTurnsExist, NEW r \in Runs, LaunchInterrupts(r)
  PROVE  RunFacts(r) /\ FinQuiet(r) /\ UNCHANGED held /\ launch'[r].pc = "done"
<1> USE DEF LaunchInterrupts, LaunchFrame, loopVars
<1>1. launch[r].turn \in Turns
  BY DEF TypeInv, LaunchTypes
<1>2. FinishedOrNot(r)
  BY <1>1, InterruptEffect
<1>3. launch'[r].pc = "done"
  BY LaunchToEffect DEF LaunchPCs
<1> QED
  BY <1>2, <1>3, FinishedFacts DEF RunFacts, Early, Late

LEMMA LaunchFailsFacts ==
  ASSUME TypeInv, Custody, KnownTurnsExist, NEW r \in Runs, LaunchStartRunFails(r) \/ LaunchCallFails(r)
  PROVE  RunFacts(r) /\ FinQuiet(r) /\ UNCHANGED <<turn, held>> /\ StopQuiet(r)
<1>1. Finished(r, None)
  <2>1. CASE LaunchStartRunFails(r)
    BY <2>1, BeginFinishEffect DEF LaunchStartRunFails, Terminal, Bodies
  <2>2. CASE LaunchCallFails(r)
    <3>1. PICK e \in {"error", "connection", "canceled"} : FinishFromError(r, e)
      BY <2>2 DEF LaunchCallFails, CallErrors
    <3> QED
      BY <3>1, BeginFinishEffect DEF FinishFromError, Terminal, Bodies
  <2> QED
    BY <2>1, <2>2
<1>2. LaunchTo(r, "done") /\ UNCHANGED <<turn, held, interrupts, intStop>>
  BY DEF LaunchStartRunFails, LaunchCallFails, LaunchFrame, loopVars, codexVars
<1>3. launch'[r].pc = "done"
  BY <1>2, LaunchToEffect DEF LaunchPCs
<1> QED
  BY <1>1, <1>2, <1>3, FinishedFacts DEF RunFacts, StopQuiet, Early, Late

LEMMA SteerCallFacts ==
  ASSUME TypeInv, Custody, KnownTurnsExist, NEW r \in Runs, SteerCall(r)
  PROVE  RunFacts(r) /\ FinQuiet(r) /\ UNCHANGED <<turn, held>> /\ StopQuiet(r)
<1> USE DEF SteerCall, RouterOnly, RouterStep, stopVars, loopVars, codexVars
<1>1. TurnsKept
  BY TurnsUnchanged
<1> QED
  BY <1>1, LaunchWaits DEF RunFacts, FinQuiet, StopQuiet

LEMMA StopRequestFacts ==
  ASSUME TypeInv, Custody, KnownTurnsExist, NEW r \in Runs, StopRequest(r)
  PROVE  RunFacts(r) /\ FinQuiet(r) /\ UNCHANGED <<turn, held>> /\ StopQuiet(r)
<1> USE DEF StopRequest, RouterStep, stopVars, loopVars, codexVars
<1>1. TurnsKept
  BY TurnsUnchanged
<1>2. mem'[r].stopHandled = mem[r].stopHandled /\ mem'[r].turn = mem[r].turn
  BY DEF TypeInv, MemTypes, MemRec
<1> QED
  BY <1>1, <1>2, LaunchWaits DEF RunFacts, FinQuiet, StopQuiet

\* Stop takes the request only if nobody has, and only then interrupts.
LEMMA StopActFacts ==
  ASSUME TypeInv, Custody, KnownTurnsExist, NEW r \in Runs, r = rt.arg, StopAct
  PROVE  /\ RunFacts(r) /\ FinQuiet(r) /\ UNCHANGED <<turn, held>>
         /\ StopQuiet(r) \/ /\ ~mem[r].stopHandled /\ mem'[r].stopHandled
                            /\ interrupts'[r] = interrupts[r] /\ launch'[r] = launch[r]
<1> USE DEF StopAct, loopVars, codexVars
<1>1. TurnsKept
  BY TurnsUnchanged
<1>2. mem[r] \in MemRec
  BY DEF TypeInv, MemTypes
<1>3. CASE ThreadOf(r) = None
  <2>1. mem' = [mem EXCEPT ![r].cancelled = TRUE] \/ mem' = mem
    BY <1>3
  <2>2. mem'[r].stopHandled = mem[r].stopHandled /\ mem'[r].turn = mem[r].turn
    BY <1>2, <2>1 DEF TypeInv, MemTypes, MemRec
  <2> QED
    BY <1>1, <1>3, <2>2, LaunchWaits DEF RunFacts, FinQuiet, StopQuiet
<1>4. CASE mem[r].turn = None \/ ~StopToTake(r)
  <2>1. mem'[r].stopHandled = mem[r].stopHandled /\ mem'[r].turn = mem[r].turn
    BY <1>2, <1>4 DEF TypeInv, MemTypes, MemRec
  <2> QED
    BY <1>1, <1>4, <2>1, LaunchWaits DEF RunFacts, FinQuiet, StopQuiet
<1>5. CASE ThreadOf(r) # None /\ StopToTake(r)
  <2>1. mem' = [mem EXCEPT ![r].stopHandled = TRUE] \/ mem[r].turn = None
    BY <1>5
  <2>2. CASE mem' = [mem EXCEPT ![r].stopHandled = TRUE]
    <3>1. mem'[r].stopHandled /\ mem'[r].turn = mem[r].turn
      BY <1>2, <2>2 DEF TypeInv, MemTypes, MemRec
    <3> QED
      BY <1>1, <1>5, <3>1, LaunchWaits DEF RunFacts, FinQuiet, StopToTake
  <2> QED
    BY <1>4, <2>1, <2>2
<1> QED
  BY <1>3, <1>4, <1>5

\* setTurn, from wherever it is called, for a turn that was started.
LEMMA TurnSetFacts ==
  ASSUME TypeInv, KnownTurnsExist, NEW r \in Runs, NEW tn \in Turns, Exists(tn), SetTurn(r, tn), UNCHANGED <<turn, fin>>
  PROVE  /\ mem[r].stopHandled => mem'[r].stopHandled
         /\ mem'[r].turn = mem[r].turn \/ (~mem[r].terminal /\ mem'[r].turn \in Turns /\ turn'[mem'[r].turn].state # "none")
         /\ ~mem'[r].terminal => mem'[r].turn # None
         /\ FinQuiet(r)
<1>1. TurnSet(r, tn)
  BY SetTurnEffect
<1> QED
  BY <1>1, StateDBAssumption DEF TurnSet, FinQuiet, Exists

LEMMA SteerReturnsFacts ==
  ASSUME TypeInv, Custody, KnownTurnsExist, NEW r \in Runs, r = rt.arg[1], NEW ok \in BOOLEAN, SteerReturns(ok)
  PROVE  RunFacts(r) /\ FinQuiet(r) /\ UNCHANGED <<turn, held>> /\ StopQuiet(r)
<1> USE DEF SteerReturns, RouterStep, stopVars, loopVars, codexVars
<1>1. rt.arg[2] \in Turns
  BY DEF TypeInv, RouterTypes
<1>2. TurnsKept
  BY TurnsUnchanged
<1>3. CASE ok
  BY <1>1, <1>2, <1>3, TurnSetFacts, LaunchWaits DEF RunFacts, StopQuiet, Exists
<1>4. CASE ~ok
  BY <1>2, <1>4, LaunchWaits DEF RunFacts, FinQuiet, StopQuiet
<1> QED
  BY <1>3, <1>4

LEMMA LaunchTurnFacts ==
  ASSUME TypeInv, Custody, KnownTurnsExist, NEW r \in Runs, LaunchTurn(r)
  PROVE  RunFacts(r) /\ FinQuiet(r) /\ UNCHANGED <<turn, held>> /\ StopQuiet(r)
<1> USE DEF LaunchTurn, LaunchFrame, loopVars, codexVars
<1>1. launch[r].turn \in Turns /\ Exists(launch[r].turn)
  BY DEF TypeInv, LaunchTypes, KnownTurnsExist, Late
<1>2. launch'[r].pc \in {"done", "startRunTurn"} /\ (launch'[r].pc # "done" => launch'[r].turn = launch[r].turn)
  <2>1. LaunchTo(r, "done") \/ LaunchTo(r, "startRunTurn")
    OBVIOUS
  <2> QED
    BY <1>1, <2>1, LaunchToEffect DEF LaunchPCs, TypeInv, LaunchTypes
<1> QED
  BY <1>1, <1>2, TurnSetFacts DEF RunFacts, StopQuiet, Early, Late, Exists

LEMMA LaunchThreadFacts ==
  ASSUME TypeInv, Custody, KnownTurnsExist, NEW r \in Runs, LaunchThread(r)
  PROVE  RunFacts(r) /\ FinQuiet(r) /\ UNCHANGED <<turn, held>> /\ StopQuiet(r)
<1> USE DEF LaunchThread, LaunchFrame, loopVars, codexVars
<1>1. PICK th \in AnsweredThreads(r) :
        IF mem[r].terminal
          THEN /\ LaunchTo(r, "done")
               /\ UNCHANGED <<mem, byThread>>
          ELSE /\ launch' = [launch EXCEPT ![r].pc = "startRun", ![r].thread = th]
               /\ mem' = [mem EXCEPT ![r].thread = th]
               /\ byThread' = [byThread EXCEPT ![th] = r]
  OBVIOUS
<1>2. mem[r] \in MemRec /\ launch[r] \in LaunchRec
  BY DEF TypeInv, MemTypes, LaunchTypes
<1>3. mem'[r].stopHandled = mem[r].stopHandled /\ mem'[r].turn = mem[r].turn
  BY <1>1, <1>2 DEF TypeInv, MemTypes, MemRec
<1>4. launch'[r].pc \in {"done", "startRun"}
  <2>1. CASE LaunchTo(r, "done")
    BY <2>1, LaunchToEffect DEF LaunchPCs
  <2>2. CASE launch' = [launch EXCEPT ![r].pc = "startRun", ![r].thread = th]
    BY <1>2, <2>2 DEF TypeInv, LaunchTypes, LaunchRec
  <2> QED
    BY <1>1, <2>1, <2>2
<1> QED
  BY <1>3, <1>4 DEF RunFacts, FinQuiet, StopQuiet, Early, Late

LEMMA LaunchStartRunFacts ==
  ASSUME TypeInv, Custody, KnownTurnsExist, NEW r \in Runs, LaunchStartRun(r)
  PROVE  RunFacts(r) /\ FinQuiet(r) /\ UNCHANGED <<turn, held>> /\ StopQuiet(r)
<1> USE DEF LaunchStartRun, LaunchFrame, loopVars, codexVars
<1>1. mem[r] \in MemRec /\ launch[r].thread \in Threads
  BY DEF TypeInv, MemTypes, LaunchTypes
<1> DEFINE e == AfterStartRun(r)
<1>2. /\ e \in MemRec /\ e.key = mem[r].key /\ e.thread = mem[r].thread /\ e.turn = mem[r].turn
      /\ e.taskThread = launch[r].thread /\ e.terminal = mem[r].terminal
      /\ e.stopHandled = (mem[r].stopHandled \/ StopToTake(r))
  BY <1>1, AfterStartRunEffect
<1>3. e.thread # None \/ e.taskThread # None
  BY <1>1, <1>2, StateDBAssumption
<1> HIDE DEF e
<1>4. CASE FinishAs(r, e, "canceled", "stopped", None) /\ LaunchTo(r, "done")
  <2>1. Finished(r, None)
    BY <1>2, <1>3, <1>4, FinishAsEffect DEF Terminal, Bodies
  <2>2. launch'[r].pc = "done"
    BY <1>4, LaunchToEffect DEF LaunchPCs
  <2> QED
    BY <2>1, <2>2, FinishedFacts DEF RunFacts, StopQuiet, Early, Late
<1>5. CASE mem' = [mem EXCEPT ![r] = e] /\ LaunchTo(r, "callTurn") /\ UNCHANGED fin
  <2>1. mem'[r] = e
    BY <1>5 DEF TypeInv, MemTypes
  <2>2. launch'[r].pc = "callTurn"
    BY <1>1, <1>5, LaunchToEffect DEF LaunchPCs
  <2> QED
    BY <1>2, <1>5, <2>1, <2>2 DEF RunFacts, FinQuiet, StopQuiet, Early, Late
<1> QED
  BY <1>4, <1>5 DEF e

\* The second look takes the request if nobody has, and only then interrupts.
LEMMA LaunchStartRunTurnFacts ==
  ASSUME TypeInv, Custody, KnownTurnsExist, NEW r \in Runs, LaunchStartRunTurn(r)
  PROVE  /\ RunFacts(r) /\ FinQuiet(r) /\ UNCHANGED <<turn, held>>
         /\ StopQuiet(r) \/ /\ ~mem[r].stopHandled /\ mem'[r].stopHandled
                            /\ interrupts'[r] = interrupts[r] /\ intStop'[r] = intStop[r]
<1> USE DEF LaunchStartRunTurn, LaunchFrame, loopVars, codexVars
<1>1. mem[r] \in MemRec /\ launch[r].thread \in Threads /\ launch[r].turn \in Turns /\ Exists(launch[r].turn)
  BY DEF TypeInv, MemTypes, LaunchTypes, KnownTurnsExist, Late
<1> DEFINE e == AfterStartRun(r)
<1>2. e \in MemRec /\ e.turn = mem[r].turn /\ e.stopHandled = (mem[r].stopHandled \/ StopToTake(r))
  BY <1>1, AfterStartRunEffect
<1>3. mem' = [mem EXCEPT ![r] = e] /\ LaunchTo(r, IF StopToTake(r) THEN "interrupt" ELSE "done")
  OBVIOUS
<1> HIDE DEF e
<1>4. mem'[r] = e
  BY <1>3 DEF TypeInv, MemTypes
<1>5. CASE StopToTake(r)
  <2>1. LaunchTo(r, "interrupt")
    BY <1>3, <1>5
  <2>2. launch'[r].pc = "interrupt" /\ launch'[r].turn = launch[r].turn
    BY <1>1, <2>1, LaunchToEffect DEF LaunchPCs
  <2> QED
    BY <1>1, <1>2, <1>4, <1>5, <2>2 DEF RunFacts, FinQuiet, Early, Exists, StopToTake
<1>6. CASE ~StopToTake(r)
  <2>1. LaunchTo(r, "done")
    BY <1>3, <1>6
  <2>2. launch'[r].pc = "done"
    BY <2>1, LaunchToEffect DEF LaunchPCs
  <2> QED
    BY <1>2, <1>4, <2>2 DEF RunFacts, FinQuiet, StopQuiet, Early, Late
<1> QED
  BY <1>5, <1>6

\* turn/start: the one step that adds a turn.
LEMMA LaunchCallTurnFacts ==
  ASSUME TypeInv, Custody, KnownTurnsExist, NEW r \in Runs, LaunchCallTurn(r)
  PROVE  /\ RunFacts(r) /\ FinQuiet(r) /\ UNCHANGED held /\ StopQuiet(r)
         /\ launch[r].pc = "callTurn" /\ launch'[r].pc = "awaitTurn"
         /\ \E tn \in Turns : /\ turn'[tn].by = r
                              /\ \A un \in Turns \ {tn} : turn'[un] = turn[un]
<1> USE DEF LaunchCallTurn, LaunchFrame, loopVars
<1>1. PICK tn \in Turns :
        /\ turn[tn].state = "none"
        /\ turn' = [turn EXCEPT ![tn] = [state |-> "running", thread |-> launch[r].thread, by |-> r]]
        /\ launch' = [launch EXCEPT ![r].pc = "awaitTurn", ![r].turn = tn]
  OBVIOUS
<1>2. launch'[r].pc = "awaitTurn" /\ launch'[r].turn = tn
  BY <1>1 DEF TypeInv, LaunchTypes, LaunchRec
<1>3. turn'[tn].by = r /\ turn'[tn].state = "running" /\ \A un \in Turns \ {tn} : turn'[un] = turn[un]
  BY <1>1 DEF TypeInv, TurnTypes
<1> QED
  BY <1>2, <1>3 DEF RunFacts, FinQuiet, StopQuiet, Early

LEMMA EventFinishFacts ==
  ASSUME TypeInv, Custody, KnownTurnsExist, NEW r \in Runs, r = held.run, EventFinish
  PROVE  RunFacts(r) /\ UNCHANGED turn /\ held' = NoEvent /\ StopQuiet(r)
<1> USE DEF EventFinish, LoopFrame, stopVars
<1>1. Finished(r, held.turn)
  BY EventFinishStep
<1>2. TurnsKept
  BY TurnsUnchanged
<1> QED
  BY <1>1, <1>2, LaunchWaits DEF RunFacts, StopQuiet, Finished

LEMMA EventTurnFacts ==
  ASSUME TypeInv, Custody, KnownTurnsExist, NEW r \in Runs, r = ActiveFor(Head(events).turn), r # None,
         EventTurnStarted \/ EventTurnCompleted
  PROVE  /\ RunFacts(r) /\ FinQuiet(r) /\ UNCHANGED turn /\ StopQuiet(r)
         /\ held' = held \/ (held'.run = r /\ (~mem'[r].terminal => mem'[r].turn # None))
<1> USE DEF LoopTakes, LoopFrame, stopVars, loopVars
<1> DEFINE tn == Head(events).turn
<1>1. /\ events # <<>> /\ SetTurn(r, tn) /\ UNCHANGED <<fin, turn, launch, interrupts, intStop>>
      /\ held' = held \/ held' = [run |-> r, turn |-> tn]
  BY DEF EventTurnStarted, EventTurnCompleted
<1>2. tn \in Turns /\ Exists(tn)
  BY <1>1, ActiveForIsLive
<1>3. TurnsKept
  BY <1>1, TurnsUnchanged
<1> HIDE DEF tn
<1>4. /\ mem[r].stopHandled => mem'[r].stopHandled
      /\ mem'[r].turn = mem[r].turn \/ (~mem[r].terminal /\ mem'[r].turn \in Turns /\ turn'[mem'[r].turn].state # "none")
      /\ ~mem'[r].terminal => mem'[r].turn # None
      /\ FinQuiet(r)
  BY <1>1, <1>2, TurnSetFacts
<1>5. held' = held \/ held'.run = r
  BY <1>1
<1> QED
  BY <1>1, <1>3, <1>4, <1>5, LaunchWaits DEF RunFacts, StopQuiet

-----------------------------------------------------------------------------
(* What the other steps leave alone *)

\* Only launch starts turns.
NoNewTurn == \A tn \in Turns : turn'[tn].state # "none" => Exists(tn)

\* The step is about no run's stop request, turn or launch.
Untouched ==
  /\ \A q \in Runs : mem'[q].stopHandled = mem[q].stopHandled /\ mem'[q].turn = mem[q].turn
                     /\ mem'[q].terminal = mem[q].terminal
  /\ UNCHANGED <<launch, intStop, interrupts, held>>
  /\ TurnsKept /\ NoNewTurn

LEMMA SameTurns ==
  ASSUME TypeInv, UNCHANGED turn
  PROVE  TurnsKept /\ NoNewTurn
BY TurnsUnchanged DEF NoNewTurn, Exists

LEMMA InterruptAddsNoTurn ==
  ASSUME TypeInv, NEW r \in Runs, NEW tn \in Turns, Interrupt(r, tn)
  PROVE  NoNewTurn
<1>1. UNCHANGED turn \/ (turn[tn].state = "running" /\ turn' = [turn EXCEPT ![tn].state = "canceled"])
  BY DEF Interrupt
<1> QED
  BY <1>1 DEF NoNewTurn, Exists, TypeInv, TurnTypes, TurnRec

LEMMA CodexUntouched ==
  ASSUME TypeInv, Custody, AppServer
  PROVE  Untouched
<1>1. TurnsKept /\ IdleStep
  BY CodexStep DEF AppServer
<1>2. UNCHANGED mem
  BY DEF AppServer, AppServerLost, TurnEnds
<1>3. NoNewTurn
  <2>1. CASE AppServerLost
    BY <2>1 DEF AppServerLost, KillTurns, NoNewTurn, Exists, TypeInv, TurnTypes, TurnRec
  <2>2. ASSUME NEW tn \in Turns, NEW outcome \in Ended, TurnEnds(tn, outcome) PROVE NoNewTurn
    BY <2>2 DEF TurnEnds, NoNewTurn, Exists, TypeInv, TurnTypes, TurnRec
  <2> QED
    BY <2>1, <2>2 DEF AppServer
<1> QED
  BY <1>1, <1>2, <1>3 DEF Untouched, IdleStep, stopVars

LEMMA OthersUntouched ==
  ASSUME TypeInv, Custody,
         \/ IdleAction \/ AdmitAction \/ RefuseAction \/ CardAction \/ StartUsers \/ StartRecover
         \/ RouterFailRun \/ RouterFailRunFails \/ UNCHANGED vars
         \/ \E r \in Runs : FinPersist(r) \/ FinGivesUp(r) \/ FinUnregister(r) \/ FinCard(r)
  PROVE  Untouched
<1> USE DEF stopVars, loopVars, codexVars
<1>1. ASSUME UNCHANGED <<mem, launch, intStop, interrupts, held, turn>> PROVE Untouched
  BY <1>1, SameTurns DEF Untouched
<1>2. CASE TakeLoss \/ FailReturns \/ FailDone \/ Shutdown \/ ReportLoss \/ LoopStops
  BY <1>1, <1>2 DEF TakeLoss, FailReturns, FailDone, Shutdown, ReportLoss, LoopStops, LoopFrame
<1>3. CASE CloseController
  <2>1. \A q \in Runs : mem'[q].stopHandled = mem[q].stopHandled /\ mem'[q].turn = mem[q].turn
                        /\ mem'[q].terminal = mem[q].terminal
    BY <1>3 DEF CloseController, TypeInv, MemTypes, MemRec
  <2> QED
    BY <1>3, <2>1, SameTurns DEF CloseController, Untouched
<1>4. CASE AppServer
  BY <1>4, CodexUntouched
<1>5. CASE \E sent \in BOOLEAN : RouterRestart(sent)
  BY <1>1, <1>5 DEF RouterRestart
<1>6. CASE (EventTurnStarted \/ EventTurnCompleted) /\ ActiveFor(Head(events).turn) = None
  BY <1>1, <1>6 DEF EventTurnStarted, EventTurnCompleted, LoopFrame
<1>7. CASE AdmitAction \/ RefuseAction \/ CardAction \/ RouterFailRun
  <2>1. RouterOnly
    BY <1>7 DEF AdmitAction, RefuseAction, CardAction, HandleNewTask, HandleContinue, HandleRefusedContinue,
                HandleAttach, HandleRestart, RouterCard, RouterRoot, RouterRoute, RouterCallFails,
                RouterEnqueueRefused, RouterFailRun
  <2> QED
    BY <1>1, <2>1 DEF RouterOnly, RouterStep
<1>8. CASE StartUsers \/ StartRecover \/ RouterFailRunFails
  BY <1>1, <1>8 DEF StartUsers, StartRecover, RouterFailRunFails, RouterStep
<1>9. ASSUME NEW r \in Runs, FinPersist(r) \/ FinGivesUp(r) \/ FinUnregister(r) \/ FinCard(r) PROVE Untouched
  BY <1>1, <1>9 DEF FinPersist, FinGivesUp, FinUnregister, FinCard, FinFrame
<1>10. CASE UNCHANGED vars
  BY <1>1, <1>10 DEF vars
<1> QED
  BY <1>2, <1>3, <1>4, <1>5, <1>6, <1>7, <1>8, <1>9, <1>10 DEF IdleAction

\* The run of a fresh registration had neither a launch nor a stop.
LEMMA EnqueueFacts ==
  ASSUME TypeInv, Custody, NEW r \in Runs, r = rt.run, RouterEnqueue
  PROVE  /\ fin[r].pc = "none" /\ intStop[r] = None /\ interrupts[r] = 0
         /\ mem'[r].turn = None /\ ~mem'[r].terminal /\ launch'[r].pc = "thread"
         /\ \A q \in Runs \ {r} : mem'[q] = mem[q] /\ launch'[q] = launch[q]
         /\ UNCHANGED <<intStop, interrupts, held, fin, turn>>
         /\ runStatus[r] # "absent" /\ r \notin Live /\ rt' = Idle
<1> USE DEF RouterEnqueue, RouterStep, stopVars, loopVars, codexVars
<1>1. r \notin Live /\ runStatus[r] # "absent"
  BY DEF Custody, OneKeeper
<1>2. fin[r].pc = "none" /\ intStop[r] = None /\ interrupts[r] = 0
  BY <1>1 DEF Custody, OnlyLiveRuns
<1>3. mem'[r].turn = None /\ ~mem'[r].terminal /\ launch'[r].pc = "thread"
  BY DEF TypeInv, MemTypes, LaunchTypes, LaunchRec, NoMem
<1>4. \A q \in Runs \ {r} : mem'[q] = mem[q] /\ launch'[q] = launch[q]
  BY DEF TypeInv, MemTypes, LaunchTypes
<1> QED
  BY <1>1, <1>2, <1>3, <1>4

-----------------------------------------------------------------------------
(* A turn is interrupted at most once *)

\* Who interrupts the turn of a run took its stop request, which is taken once:
\* Stop's goroutine, launch and an interrupt already made exclude each other.
InterruptOnce(r) ==
  /\ interrupts[r] # 0 \/ intStop[r] # None \/ launch[r].pc = "interrupt" => mem[r].stopHandled
  /\ interrupts[r] \in {0, 1}
  /\ interrupts[r] = 1 => intStop[r] = None /\ launch[r].pc # "interrupt"
  /\ intStop[r] # None => launch[r].pc # "interrupt"

InterruptInv == \A r \in Runs : InterruptOnce(r)

LEMMA InterruptKept ==
  ASSUME NEW r \in Runs, InterruptOnce(r), RunFacts(r), StopQuiet(r)
  PROVE  InterruptOnce(r)'
BY DEF InterruptOnce, RunFacts, StopQuiet

LEMMA StopActInterrupts ==
  ASSUME TypeInv, Custody, KnownTurnsExist, NEW r \in Runs, r = rt.arg, InterruptOnce(r), StopAct
  PROVE  InterruptOnce(r)'
<1>1. CASE StopQuiet(r)
  BY <1>1, StopActFacts, InterruptKept
<1>2. CASE /\ ~mem[r].stopHandled /\ mem'[r].stopHandled
           /\ interrupts'[r] = interrupts[r] /\ launch'[r] = launch[r]
  BY <1>2 DEF InterruptOnce
<1> QED
  BY <1>1, <1>2, StopActFacts

LEMMA StopInterruptsInterrupts ==
  ASSUME TypeInv, Custody, KnownTurnsExist, NEW r \in Runs, InterruptOnce(r), StopInterrupts(r)
  PROVE  InterruptOnce(r)'
<1>1. intStop[r] # None /\ interrupts[r] = 0 /\ mem[r].stopHandled /\ launch[r].pc # "interrupt"
  BY DEF StopInterrupts, InterruptOnce
<1>2. interrupts'[r] = 1 /\ intStop'[r] = None /\ launch'[r] = launch[r]
  BY <1>1 DEF StopInterrupts, Interrupt, TypeInv, StopTypes
<1>3. mem'[r].stopHandled
  BY <1>1, StopInterruptsFacts DEF RunFacts
<1> QED
  BY <1>1, <1>2, <1>3 DEF InterruptOnce

LEMMA LaunchInterruptsInterrupts ==
  ASSUME TypeInv, Custody, KnownTurnsExist, NEW r \in Runs, InterruptOnce(r), LaunchInterrupts(r)
  PROVE  InterruptOnce(r)'
<1>1. launch[r].pc = "interrupt" /\ interrupts[r] = 0 /\ mem[r].stopHandled /\ intStop[r] = None
  BY DEF LaunchInterrupts, InterruptOnce
<1>2. interrupts'[r] = 1 /\ intStop'[r] = None
  BY <1>1 DEF LaunchInterrupts, LaunchFrame, Interrupt, TypeInv, StopTypes
<1>3. mem'[r].stopHandled /\ launch'[r].pc = "done"
  BY <1>1, LaunchInterruptsFacts DEF RunFacts
<1> QED
  BY <1>1, <1>2, <1>3 DEF InterruptOnce

LEMMA LaunchStartRunTurnInterrupts ==
  ASSUME TypeInv, Custody, KnownTurnsExist, NEW r \in Runs, InterruptOnce(r), LaunchStartRunTurn(r)
  PROVE  InterruptOnce(r)'
<1>1. CASE StopQuiet(r)
  BY <1>1, LaunchStartRunTurnFacts, InterruptKept
<1>2. CASE /\ ~mem[r].stopHandled /\ mem'[r].stopHandled
           /\ interrupts'[r] = interrupts[r] /\ intStop'[r] = intStop[r]
  BY <1>2 DEF InterruptOnce
<1> QED
  BY <1>1, <1>2, LaunchStartRunTurnFacts

\* A step on a run gives it a turn that exists, and interrupts it at most once.
LEMMA RunActionTurns ==
  ASSUME TypeInv, Custody, KnownTurnsExist, InterruptInv, RunAction \/ StartRunAction
  PROVE  TurnsKept /\ \E r \in Runs : RunStep(r) /\ RunFacts(r) /\ InterruptOnce(r)'
<1>0. UNCHANGED turn => TurnsKept
  BY TurnsUnchanged
<1>1. ASSUME NEW r \in Runs,
             FailNext(r) \/ StopRequest(r) \/ SteerCall(r) \/ StopCancels(r) \/ InterruptReturns(r)
      PROVE  TurnsKept /\ RunStep(r) /\ RunFacts(r) /\ InterruptOnce(r)'
  <2>1. RunStep(r)
    BY <1>1, FailNextStep, StopRequestStep, SteerCallStep, StopCancelsStep, InterruptReturnsStep
  <2>2. RunFacts(r) /\ StopQuiet(r) /\ UNCHANGED turn
    BY <1>1, FailNextFacts, StopRequestFacts, SteerCallFacts
  <2> QED
    BY <1>0, <2>1, <2>2, InterruptKept DEF InterruptInv
<1>2. ASSUME NEW r \in Runs,
             LaunchThread(r) \/ LaunchStartRun(r) \/ LaunchStartRunFails(r) \/ LaunchCallFails(r) \/ LaunchTurn(r)
      PROVE  TurnsKept /\ RunStep(r) /\ RunFacts(r) /\ InterruptOnce(r)'
  <2>1. RunStep(r)
    BY <1>2, LaunchThreadStep, LaunchStartRunStep, LaunchFailsStep, LaunchTurnStep
  <2>2. RunFacts(r) /\ StopQuiet(r) /\ UNCHANGED turn
    BY <1>2, LaunchThreadFacts, LaunchStartRunFacts, LaunchFailsFacts, LaunchTurnFacts
  <2> QED
    BY <1>0, <2>1, <2>2, InterruptKept DEF InterruptInv
<1>3. ASSUME NEW r \in Runs, LaunchCallTurn(r)
      PROVE  TurnsKept /\ RunStep(r) /\ RunFacts(r) /\ InterruptOnce(r)'
  BY <1>3, LaunchCallTurnStep, LaunchCallTurnFacts, InterruptKept DEF InterruptInv
<1>4. ASSUME NEW r \in Runs, StopInterrupts(r)
      PROVE  TurnsKept /\ RunStep(r) /\ RunFacts(r) /\ InterruptOnce(r)'
  BY <1>4, StopInterruptsStep, StopInterruptsFacts, StopInterruptsInterrupts DEF InterruptInv
<1>5. ASSUME NEW r \in Runs, LaunchInterrupts(r)
      PROVE  TurnsKept /\ RunStep(r) /\ RunFacts(r) /\ InterruptOnce(r)'
  BY <1>5, LaunchInterruptsStep, LaunchInterruptsFacts, LaunchInterruptsInterrupts DEF InterruptInv
<1>6. ASSUME NEW r \in Runs, LaunchStartRunTurn(r)
      PROVE  TurnsKept /\ RunStep(r) /\ RunFacts(r) /\ InterruptOnce(r)'
  BY <1>0, <1>6, LaunchStartRunTurnStep, LaunchStartRunTurnFacts, LaunchStartRunTurnInterrupts DEF InterruptInv
<1>7. ASSUME NEW r, r = rt.arg, StopAct
      PROVE  TurnsKept /\ r \in Runs /\ RunStep(r) /\ RunFacts(r) /\ InterruptOnce(r)'
  BY <1>0, <1>7, StopActStep, StopActFacts, StopActInterrupts DEF InterruptInv
<1>8. ASSUME NEW r, r = rt.arg[1], NEW ok \in BOOLEAN, SteerReturns(ok)
      PROVE  TurnsKept /\ r \in Runs /\ RunStep(r) /\ RunFacts(r) /\ InterruptOnce(r)'
  BY <1>0, <1>8, SteerReturnsStep, SteerReturnsFacts, InterruptKept DEF InterruptInv
<1>9. ASSUME NEW r, r = ActiveFor(Head(events).turn), r # None, EventTurnStarted \/ EventTurnCompleted
      PROVE  TurnsKept /\ r \in Runs /\ RunStep(r) /\ RunFacts(r) /\ InterruptOnce(r)'
  BY <1>0, <1>9, EventTurnStep, EventTurnFacts, InterruptKept DEF InterruptInv
<1>10. ASSUME NEW r, r = held.run, EventFinish
       PROVE  TurnsKept /\ r \in Runs /\ RunStep(r) /\ RunFacts(r) /\ InterruptOnce(r)'
  BY <1>0, <1>10, EventFinishStep, EventFinishFacts, InterruptKept DEF InterruptInv
<1> QED
  BY <1>1, <1>2, <1>3, <1>4, <1>5, <1>6, <1>7, <1>8, <1>9, <1>10 DEF RunAction, StartRunAction

LEMMA StoppedForgets ==
  ASSUME Stopped
  PROVE  /\ mem' = [r \in Runs |-> NoMem] /\ launch' = [r \in Runs |-> NoLaunch] /\ fin' = [r \in Runs |-> NoFin]
         /\ intStop' = [r \in Runs |-> None] /\ interrupts' = [r \in Runs |-> 0] /\ held' = NoEvent /\ rt' = Idle
BY DEF Stopped, FreshMemory

LEMMA InterruptStep ==
  ASSUME TypeInv, Custody, KnownTurnsExist, InterruptInv, [Next]_vars
  PROVE  KnownTurnsExist' /\ InterruptInv'
<1>1. CASE RunAction \/ StartRunAction
  <2>1. PICK r \in Runs : TurnsKept /\ RunStep(r) /\ RunFacts(r) /\ InterruptOnce(r)'
    BY <1>1, RunActionTurns
  <2>2. \A q \in Runs \ {r} : mem'[q] = mem[q] /\ launch'[q] = launch[q]
                              /\ intStop'[q] = intStop[q] /\ interrupts'[q] = interrupts[q]
    BY <2>1 DEF RunStep
  <2>3. InterruptInv'
    BY <2>1, <2>2 DEF InterruptInv, InterruptOnce
  <2>4. \A q \in Runs : /\ mem[q].turn # None => turn'[mem[q].turn].state # "none"
                        /\ launch[q].pc \in Late => turn'[launch[q].turn].state # "none"
    BY <2>1 DEF KnownTurnsExist, TurnsKept, TypeInv, MemTypes, MemRec, LaunchTypes, Late
  <2>5. KnownTurnsExist'
    BY <2>1, <2>2, <2>4 DEF KnownTurnsExist, RunFacts, Exists
  <2> QED
    BY <2>3, <2>5
<1>2. CASE Untouched
  <2>1. InterruptInv'
    BY <1>2 DEF InterruptInv, InterruptOnce, Untouched
  <2>2. \A q \in Runs : /\ mem[q].turn # None => turn'[mem[q].turn].state # "none"
                        /\ launch[q].pc \in Late => turn'[launch[q].turn].state # "none"
    BY <1>2 DEF Untouched, KnownTurnsExist, TurnsKept, TypeInv, MemTypes, MemRec, LaunchTypes, Late
  <2>3. KnownTurnsExist'
    BY <1>2, <2>2 DEF Untouched, KnownTurnsExist, Exists
  <2> QED
    BY <2>1, <2>3
<1>3. ASSUME NEW r, r = rt.run, RouterEnqueue PROVE KnownTurnsExist' /\ InterruptInv'
  <2>1. r \in Runs
    BY <1>3 DEF RouterEnqueue, TypeInv, RouterTypes
  <2>2. InterruptInv'
    BY <1>3, <2>1, EnqueueFacts DEF InterruptInv, InterruptOnce
  <2>3. KnownTurnsExist'
    BY <1>3, <2>1, EnqueueFacts DEF KnownTurnsExist, Exists, Late
  <2> QED
    BY <2>2, <2>3
<1>4. CASE Stopped
  BY <1>4, StoppedForgets DEF InterruptInv, InterruptOnce, KnownTurnsExist, NoMem, NoLaunch, Late
<1> QED
  BY <1>1, <1>2, <1>3, <1>4, Steps, OthersUntouched DEF Exit, Crash

\* However Stop, launch and turn events interleave, and whichever calls fail or
\* time out after they took effect, a run's turn is interrupted at most once.
THEOREM TurnInterruptedAtMostOnce == Spec => []InterruptedAtMostOnce
<1>1. Init => KnownTurnsExist /\ InterruptInv
  BY DEF Init, KnownTurnsExist, InterruptInv, InterruptOnce, NoMem, NoLaunch, Late
<1>2. TypeInv /\ Custody /\ KnownTurnsExist /\ InterruptInv /\ [Next]_vars => KnownTurnsExist' /\ InterruptInv'
  BY InterruptStep
<1>3. InterruptInv => InterruptedAtMostOnce
  BY DEF InterruptInv, InterruptOnce, InterruptedAtMostOnce
<1> QED
  BY <1>1, <1>2, <1>3, Invariant, PTL DEF Spec

-----------------------------------------------------------------------------
(* The rows of the runs *)

\* The row of a run the controller made durable is not written again.
RowKept(q) ==
  q \in Live /\ runStatus[q] \in Terminal => runStatus'[q] \in Terminal /\ runTurn'[q] = runTurn[q]

\* The handler takes only runs that had no row, and rows stay.
RowsMove ==
  \A q \in Runs : /\ rt'.run = q => rt.run = q \/ runStatus[q] = "absent"
                  /\ runStatus[q] # "absent" => runStatus'[q] # "absent"

\* A step on a run leaves the rows alone or starts an active run.
LEMMA RunActionRows ==
  ASSUME TypeInv, Custody, RunAction \/ StartRunAction
  PROVE  RowsMove /\ \A q \in Runs : RowKept(q)
<1>1. \E r \in Runs : RunStep(r)
  BY RunActionStep, LaunchStartRunStep, LaunchStartRunTurnStep DEF StartRunAction
<1>2. RowsMove
  BY <1>1, StateDBAssumption DEF RunStep, RowsMove
<1>3. ASSUME RunAction, NEW q \in Runs PROVE RowKept(q)
  BY <1>3, RunActionStep DEF RowKept, dbVars
<1>4. ASSUME NEW r \in Runs, LaunchStartRun(r) \/ LaunchStartRunTurn(r), NEW q \in Runs PROVE RowKept(q)
  <2>1. \E tn : StartRun(r, launch[r].thread, tn)
    BY <1>4 DEF LaunchStartRun, LaunchStartRunTurn
  <2>2. runStatus[r] \in Active /\ (q # r => runStatus'[q] = runStatus[q] /\ runTurn'[q] = runTurn[q])
    BY <2>1 DEF StartRun, TypeInv, DBTypeOK
  <2> QED
    BY <2>2 DEF RowKept, Active, Terminal
<1> QED
  BY <1>2, <1>3, <1>4 DEF StartRunAction

LEMMA OthersRows ==
  ASSUME TypeInv, Custody,
         \/ IdleAction \/ AdmitAction \/ RefuseAction \/ CardAction \/ StartUsers \/ StartRecover
         \/ RouterFailRun \/ RouterFailRunFails \/ UNCHANGED vars
  PROVE  UNCHANGED fin /\ RowsMove /\ \A q \in Runs : RowKept(q)
<1>1. ASSUME IdleStep PROVE UNCHANGED fin /\ RowsMove
  BY <1>1 DEF IdleStep, RowsMove
<1>2. ASSUME UNCHANGED <<runStatus, runTurn>>, NEW q \in Runs PROVE RowKept(q)
  BY <1>2 DEF RowKept
<1>3. CASE IdleAction
  BY <1>1, <1>2, <1>3, IdleActionStep DEF dbVars
<1>4. CASE RefuseAction
  <2>1. UNCHANGED <<runStatus, runTurn>>
    BY <1>4 DEF RefuseAction, HandleRefusedContinue, HandleAttach, HandleRestart, RejectResume, AttachThread,
                AdmitRestart, runVars
  <2> QED
    BY <1>1, <1>2, <1>4, <2>1, HandleOtherStep DEF RefuseAction
<1>5. CASE CardAction
  <2>1. UNCHANGED <<runStatus, runTurn>>
    BY <1>5 DEF CardAction, RouterCard, RouterRoot, RouterRoute, RouterCallFails, RouterEnqueueRefused,
                SetTaskRootMessageID, InsertMessageRoute, runVars, dbVars
  <2> QED
    BY <1>1, <1>2, <1>5, <2>1, RouterCardStep DEF CardAction
<1>6. CASE StartUsers
  <2>1. UNCHANGED <<runStatus, runTurn>>
    BY <1>6 DEF StartUsers, RefreshUsers, runVars
  <2> QED
    BY <1>1, <1>2, <1>6, <2>1, StartUsersStep
<1>7. CASE StartRecover
  <2>1. Live = {}
    BY <1>7 DEF StartRecover, Custody, OneKeeper, Running
  <2> QED
    BY <1>1, <1>7, <2>1, StartRecoverStep DEF RowKept
<1>8. ASSUME NEW k \in Keys, NEW t \in Tasks, NEW r \in Runs, NEW u \in Users,
             HandleNewTask(k, t, r, u) \/ HandleContinue(k, t, r, u)
      PROVE  UNCHANGED fin /\ RowsMove /\ \A q \in Runs : RowKept(q)
  <2>1. AdmitNewTask(k, t, r, u) \/ AdmitResumeRun(k, t, r, u)
    BY <1>8 DEF HandleNewTask, HandleContinue
  <2>2. runStatus[r] = "absent" /\ runStatus' = [runStatus EXCEPT ![r] = "queued"]
    BY <2>1, AdmitRows
  <2>3. \A q \in Runs \ {r} : runTurn'[q] = runTurn[q]
    BY <2>1 DEF AdmitNewTask, AdmitResumeRun, TypeInv, DBTypeOK
  <2>4. rt'.run = r /\ UNCHANGED fin
    BY <1>8 DEF HandleNewTask, HandleContinue, RouterOnly, RouterStep
  <2>5. r \notin Live
    BY <2>2 DEF Custody, OneKeeper
  <2> QED
    BY <2>2, <2>3, <2>4, <2>5 DEF RowsMove, RowKept, TypeInv, DBTypeOK
<1>9. ASSUME NEW r, r = rt.run, RouterFailRun PROVE UNCHANGED fin /\ RowsMove /\ \A q \in Runs : RowKept(q)
  <2>1. r \in Runs /\ r \notin Live /\ rt.key \in Keys /\ rt.run # None
    BY <1>9, StateDBAssumption DEF RouterFailRun, TypeInv, RouterTypes, Custody, OneKeeper
  <2>2. FinishRun(rt.key, r, "failed", runThread[r], None) /\ rt' = Idle /\ UNCHANGED fin
    BY <1>9 DEF RouterFailRun, RouterOnly, RouterStep
  <2>3. \A q \in Runs \ {r} : runStatus'[q] = runStatus[q] /\ runTurn'[q] = runTurn[q]
    BY <2>2 DEF FinishRun, TypeInv, DBTypeOK
  <2>4. runStatus'[r] # "absent"
    BY <2>1, <2>2 DEF FinishRun, TypeInv, DBTypeOK
  <2> QED
    BY <2>1, <2>2, <2>3, <2>4, StateDBAssumption DEF RowsMove, RowKept, Idle
<1>10. CASE RouterFailRunFails
  BY <1>2, <1>10, StateDBAssumption DEF RouterFailRunFails, RouterStep, RowsMove, Idle, dbVars
<1>11. CASE UNCHANGED vars
  BY <1>1, <1>2, <1>11, Stuttering DEF dbVars
<1> QED
  BY <1>3, <1>4, <1>5, <1>6, <1>7, <1>8, <1>9, <1>10, <1>11 DEF AdmitAction

-----------------------------------------------------------------------------
(* A run works on one thread *)

Threaded == {"startRun", "callTurn"} \cup Late        \* launch holds a thread

\* Where the process holds turn tn for run r.
InHands(r, tn) ==
  \/ mem[r].turn = tn \/ byTurn[tn] = r
  \/ held.run = r /\ held.turn = tn
  \/ fin[r].pc \in {"persist", "unregister", "card"} /\ fin[r].event = tn
  \/ rt.pc = "steer" /\ rt.arg = <<r, tn>>
  \/ launch[r].pc \in Late /\ launch[r].turn = tn

\* A run's turns are turns of its thread, which is the one thread it is found by
\* and the one launch works on; a new run has none before thread/start answers.
OnThread(r) ==
  /\ \A tn \in Turns : InHands(r, tn) => Exists(tn) /\ turn[tn].thread = ThreadOf(r)
  /\ \A th \in Threads : byThread[th] = r => ThreadOf(r) = th
  /\ launch[r].pc \in Threaded => mem[r].thread = launch[r].thread
  /\ launch[r].pc = "thread" => mem[r].thread = None /\ (runKind[r] # "resume" => ThreadOf(r) = None)

\* The row of a new run has no thread until launch writes it.
NewRunHasNoThread(r) ==
  runStatus[r] = "absent" \/ (runKind[r] # "resume" /\ rt.run = r) => runThread[r] = None

OneThread == \A r \in Runs : OnThread(r) /\ NewRunHasNoThread(r)

\* The step keeps the run's thread, and takes up only turns of it.
ThreadFacts(r) ==
  /\ mem'[r].thread = mem[r].thread
  /\ mem[r].thread # None \/ mem'[r].taskThread = mem[r].taskThread
  /\ \A tn \in Turns : InHands(r, tn)' =>
       InHands(r, tn) \/ (turn'[tn].state # "none" /\ turn'[tn].thread = ThreadOf(r))
  /\ \A th \in Threads : byThread'[th] = r => byThread[th] = r
  /\ \/ launch'[r] = launch[r] \/ launch'[r].pc \notin Threaded \cup {"thread"}
     \/ {launch[r].pc, launch'[r].pc} \subseteq Threaded /\ launch'[r].thread = launch[r].thread
  /\ runKind'[r] = runKind[r] \/ launch'[r].pc # "thread"

LEMMA OnThreadKept ==
  ASSUME TypeInv, NEW r \in Runs, OnThread(r), TurnsKept, ThreadFacts(r)
  PROVE  OnThread(r)'
<1>1. ThreadOf(r)' = ThreadOf(r)
  BY DEF ThreadFacts, ThreadOf
<1>2. \A tn \in Turns : InHands(r, tn)' => turn'[tn].state # "none" /\ turn'[tn].thread = ThreadOf(r)
  BY DEF ThreadFacts, OnThread, TurnsKept
<1>3. (launch[r].pc \in Threaded => mem[r].thread = launch[r].thread)'
  BY DEF ThreadFacts, OnThread, Threaded, Late
<1>4. (launch[r].pc = "thread" => mem[r].thread = None /\ (runKind[r] # "resume" => ThreadOf(r) = None))'
  BY <1>1 DEF ThreadFacts, OnThread, Threaded, Late
<1> QED
  BY <1>1, <1>2, <1>3, <1>4 DEF OnThread, ThreadFacts, Exists

\* What a step on run r leaves alone of another run.
LEMMA OtherOnThread ==
  ASSUME TypeInv, TurnsKept, NEW r \in Runs, RunStep(r), held' = held \/ held'.run \in {r, None},
         NEW q \in Runs \ {r}, OnThread(q)
  PROVE  OnThread(q)'
<1>1. \A tn \in Turns : InHands(q, tn)' => InHands(q, tn)
  BY StateDBAssumption DEF RunStep, InHands
<1> QED
  BY <1>1, OnThreadKept DEF RunStep, ThreadFacts

\* The run keeps its thread, and no turn comes into its hands.
HandsKept(r) ==
  /\ mem'[r].thread = mem[r].thread /\ mem'[r].turn = mem[r].turn
  /\ mem[r].thread # None \/ mem'[r].taskThread = mem[r].taskThread
  /\ FinQuiet(r) /\ UNCHANGED <<byThread, byTurn, held>>
  /\ runKind'[r] = runKind[r] \/ launch'[r].pc # "thread"
  /\ rt' = rt \/ rt'.pc # "steer"
  /\ \/ launch'[r] = launch[r] \/ launch'[r].pc \notin Threaded \cup {"thread"}
     \/ /\ {launch[r].pc, launch'[r].pc} \subseteq Threaded /\ launch'[r].thread = launch[r].thread
        /\ launch'[r].pc \in Late => launch[r].pc \in Late /\ launch'[r].turn = launch[r].turn

LEMMA HandsKeptFacts ==
  ASSUME NEW r \in Runs, HandsKept(r)
  PROVE  ThreadFacts(r)
<1>1. \A tn \in Turns : InHands(r, tn)' => InHands(r, tn)
  BY StateDBAssumption DEF HandsKept, InHands, FinQuiet, Threaded, Late
<1> QED
  BY <1>1 DEF HandsKept, ThreadFacts

LEMMA FinishThreads ==
  ASSUME TypeInv, NEW r \in Runs, NEW m \in MemRec, NEW s, NEW b, NEW tn, FinishAs(r, m, s, b, tn)
  PROVE  /\ mem'[r].thread = m.thread /\ mem'[r].taskThread = m.taskThread /\ mem'[r].turn = m.turn
         /\ fin'[r] = fin[r] \/ fin'[r].event = tn
<1> DEFINE e == [m EXCEPT !.terminal = TRUE, !.cancelled = TRUE]
           f == [pc |-> "persist", status |-> s, body |-> b, event |-> tn]
<1>1. e.thread = m.thread /\ e.taskThread = m.taskThread /\ e.turn = m.turn /\ f.event = tn
  BY DEF MemRec
<1>2. \/ mem' = [mem EXCEPT ![r] = m] /\ fin' = fin
      \/ mem' = [mem EXCEPT ![r] = e] /\ fin' = [fin EXCEPT ![r] = f]
  BY DEF FinishAs
<1> HIDE DEF e, f
<1> QED
  BY <1>1, <1>2 DEF TypeInv, MemTypes, FinTypes

LEMMA BeginFinishThreads ==
  ASSUME TypeInv, NEW r \in Runs, NEW s, NEW b, NEW tn, BeginFinish(r, s, b, tn)
  PROVE  /\ mem'[r].thread = mem[r].thread /\ mem'[r].taskThread = mem[r].taskThread /\ mem'[r].turn = mem[r].turn
         /\ fin'[r] = fin[r] \/ fin'[r].event = tn
<1>1. mem[r] \in MemRec
  BY DEF TypeInv, MemTypes
<1> QED
  BY <1>1, FinishThreads DEF BeginFinish

LEMMA StopperHands ==
  ASSUME TypeInv, NEW r \in Runs,
         \/ FailNext(r) \/ StopRequest(r) \/ StopCancels(r) \/ StopInterrupts(r) \/ InterruptReturns(r)
         \/ StopAct /\ r = rt.arg
  PROVE  HandsKept(r)
<1> USE DEF HandsKept, FinQuiet, idxVars, loopVars, rtVars, dbVars, runVars, RouterStep
<1>1. CASE FailNext(r) \/ StopCancels(r) \/ InterruptReturns(r)
  BY <1>1, BeginFinishThreads DEF FailNext, StopCancels, InterruptReturns
<1>2. CASE StopInterrupts(r)
  <2>1. (\E s, b : BeginFinish(r, s, b, None)) \/ UNCHANGED <<mem, fin>>
    BY <1>2 DEF StopInterrupts, Interrupt
  <2> QED
    BY <1>2, <2>1, BeginFinishThreads DEF StopInterrupts
<1>3. CASE StopRequest(r)
  BY <1>3 DEF StopRequest, Idle, TypeInv, MemTypes, MemRec
<1>4. CASE StopAct /\ r = rt.arg
  BY <1>4 DEF StopAct, Idle, TypeInv, MemTypes, MemRec
<1> QED
  BY <1>1, <1>2, <1>3, <1>4

LEMMA LaunchHands ==
  ASSUME TypeInv, OneThread, NEW r \in Runs,
         \/ LaunchStartRun(r) \/ LaunchStartRunTurn(r) \/ LaunchStartRunFails(r) \/ LaunchCallFails(r)
         \/ LaunchInterrupts(r)
  PROVE  HandsKept(r)
<1> USE DEF HandsKept, FinQuiet, idxVars, loopVars, rtVars, dbVars, LaunchFrame
<1>1. CASE LaunchStartRunFails(r) \/ LaunchCallFails(r) \/ LaunchInterrupts(r)
  <2>1. (\E s, b : BeginFinish(r, s, b, None)) \/ UNCHANGED <<mem, fin>>
    BY <1>1 DEF LaunchStartRunFails, LaunchCallFails, LaunchInterrupts, FinishFromError, Interrupt
  <2>2. launch'[r].pc = "done"
    BY <1>1, LaunchToEffect DEF LaunchStartRunFails, LaunchCallFails, LaunchInterrupts, LaunchPCs
  <2>3. UNCHANGED <<byThread, byTurn, held, runKind, rt>>
    BY <1>1 DEF LaunchStartRunFails, LaunchCallFails, LaunchInterrupts, runVars
  <2> QED
    BY <2>1, <2>2, <2>3, BeginFinishThreads DEF Threaded, Late
<1>2. CASE LaunchStartRun(r) \/ LaunchStartRunTurn(r)
  <2>1. launch[r].thread \in Threads /\ mem[r].thread = launch[r].thread
    BY <1>2 DEF LaunchStartRun, LaunchStartRunTurn, OneThread, OnThread, Threaded, Late, TypeInv, LaunchTypes
  <2>2. PICK m \in MemRec : /\ m.thread = mem[r].thread /\ m.turn = mem[r].turn
                            /\ (\E s, b : FinishAs(r, m, s, b, None)) \/ (mem' = [mem EXCEPT ![r] = m] /\ UNCHANGED fin)
    <3>1. AfterStartRun(r) \in MemRec /\ AfterStartRun(r).thread = mem[r].thread /\ AfterStartRun(r).turn = mem[r].turn
      BY <2>1, AfterStartRunEffect
    <3> QED
      BY <1>2, <3>1 DEF LaunchStartRun, LaunchStartRunTurn
  <2>3. mem'[r].thread = mem[r].thread /\ mem'[r].turn = mem[r].turn /\ FinQuiet(r)
    BY <2>2, FinishThreads DEF TypeInv, MemTypes
  <2>4. /\ UNCHANGED <<byThread, byTurn, held, runKind, rt>>
        /\ \/ launch'[r].pc = "done"
           \/ /\ {launch[r].pc, launch'[r].pc} \subseteq Threaded /\ launch'[r].thread = launch[r].thread
              /\ launch'[r].pc \in Late => launch[r].pc \in Late /\ launch'[r].turn = launch[r].turn
    <3>1. UNCHANGED <<byThread, byTurn, held, runKind, rt>>
      BY <1>2 DEF LaunchStartRun, LaunchStartRunTurn, StartRun
    <3>2. ASSUME NEW pc \in {"done", "callTurn", "interrupt"}, LaunchTo(r, pc),
                 pc = "interrupt" => launch[r].turn \in Turns
          PROVE  /\ launch'[r].pc = pc
                 /\ pc # "done" => launch'[r].thread = launch[r].thread /\ launch'[r].turn = launch[r].turn
      BY <2>1, <3>2, LaunchToEffect DEF LaunchPCs
    <3>3. CASE LaunchStartRun(r)
      <4>1. launch[r].pc = "startRun" /\ (LaunchTo(r, "done") \/ LaunchTo(r, "callTurn"))
        BY <3>3 DEF LaunchStartRun
      <4> QED
        BY <3>1, <3>2, <4>1 DEF Threaded, Late
    <3>4. CASE LaunchStartRunTurn(r)
      <4>1. /\ launch[r].pc = "startRunTurn" /\ (LaunchTo(r, "done") \/ LaunchTo(r, "interrupt"))
            /\ launch[r].turn \in Turns
        BY <3>4 DEF LaunchStartRunTurn, TypeInv, LaunchTypes
      <4> QED
        BY <3>1, <3>2, <4>1 DEF Threaded, Late
    <3> QED
      BY <1>2, <3>3, <3>4
  <2> QED
    BY <2>1, <2>3, <2>4, StateDBAssumption DEF Threaded, Late
<1> QED
  BY <1>1, <1>2

\* setTurn with a turn of the run's thread.
LEMMA SetTurnHands ==
  ASSUME TypeInv, OneThread, NEW r \in Runs, NEW tn \in Turns, SetTurn(r, tn),
         Exists(tn), turn[tn].thread = ThreadOf(r),
         held' = held \/ held' = [run |-> r, turn |-> tn], rt' = rt \/ rt'.pc # "steer",
         UNCHANGED <<turn, fin, byThread, runKind>>,
         \/ launch'[r] = launch[r] \/ launch'[r].pc = "done"
         \/ launch[r].pc \in Late /\ launch'[r].pc \in Late /\ launch'[r].thread = launch[r].thread
            /\ launch'[r].turn = launch[r].turn
  PROVE  ThreadFacts(r)
<1>1. TurnSet(r, tn)
  BY SetTurnEffect
<1>2. \A un \in Turns : byTurn'[un] = byTurn[un] \/ un = tn
  BY DEF SetTurn, TypeInv, IndexTypes
<1>3. turn'[tn].state # "none" /\ turn'[tn].thread = ThreadOf(r)
  BY DEF Exists
<1>4. ASSUME NEW un \in Turns, InHands(r, un)' PROVE InHands(r, un) \/ un = tn
  BY <1>1, <1>2, <1>4 DEF TurnSet, InHands, Late
<1> QED
  BY <1>1, <1>3, <1>4 DEF TurnSet, ThreadFacts, Threaded, Late

LEMMA TurnHands ==
  ASSUME TypeInv, Custody, KnownTurnsExist, OneThread, NEW r \in Runs,
         \/ LaunchTurn(r) \/ (r = rt.arg[1] /\ \E ok \in BOOLEAN : SteerReturns(ok))
         \/ r = ActiveFor(Head(events).turn) /\ (EventTurnStarted \/ EventTurnCompleted)
  PROVE  ThreadFacts(r)
<1> USE DEF LaunchFrame, LoopFrame, RouterStep, loopVars, rtVars, codexVars, dbVars, runVars
<1>0. OnThread(r)
  BY DEF OneThread
<1>1. CASE LaunchTurn(r)
  <2>1. launch[r].turn \in Turns /\ launch[r].pc = "awaitTurn"
    BY <1>1 DEF LaunchTurn, TypeInv, LaunchTypes
  <2>2. Exists(launch[r].turn) /\ turn[launch[r].turn].thread = ThreadOf(r)
    BY <1>0, <2>1 DEF OnThread, InHands, Late
  <2>3. LaunchTo(r, "done") \/ LaunchTo(r, "startRunTurn")
    BY <1>1 DEF LaunchTurn
  <2>4. \/ launch'[r].pc = "done"
        \/ launch'[r].pc \in Late /\ launch'[r].thread = launch[r].thread /\ launch'[r].turn = launch[r].turn
    BY <2>1, <2>3, LaunchToEffect DEF LaunchPCs, Late, TypeInv, LaunchTypes
  <2> QED
    BY <1>1, <2>1, <2>2, <2>4, SetTurnHands DEF LaunchTurn, Late
<1>2. ASSUME NEW ok \in BOOLEAN, r = rt.arg[1], SteerReturns(ok) PROVE ThreadFacts(r)
  <2>1. rt.pc = "steer" /\ rt.arg[2] \in Turns /\ rt.arg = <<r, rt.arg[2]>>
    BY <1>2 DEF SteerReturns, TypeInv, RouterTypes
  <2>2. Exists(rt.arg[2]) /\ turn[rt.arg[2]].thread = ThreadOf(r)
    BY <1>0, <2>1 DEF OnThread, InHands
  <2>3. CASE ok
    BY <1>2, <2>1, <2>2, <2>3, SetTurnHands DEF SteerReturns, Idle
  <2>4. CASE ~ok
    <3>1. HandsKept(r)
      BY <1>2, <2>4 DEF SteerReturns, HandsKept, FinQuiet, Idle
    <3> QED
      BY <3>1, HandsKeptFacts
  <2> QED
    BY <2>3, <2>4
<1>3. ASSUME r = ActiveFor(Head(events).turn), EventTurnStarted \/ EventTurnCompleted PROVE ThreadFacts(r)
  <2> DEFINE tn == Head(events).turn
  <2>1. r # None
    BY StateDBAssumption
  <2>2. tn \in Turns /\ Exists(tn)
    BY <1>3, ActiveForIsLive DEF EventTurnStarted, EventTurnCompleted, LoopTakes
  <2>3. turn[tn].thread \in Threads
    BY <2>2 DEF TypeInv, TurnTypes
  <2>4. byTurn[tn] = r \/ byThread[turn[tn].thread] = r
    BY <1>3 DEF ActiveFor
  <2>5. turn[tn].thread = ThreadOf(r)
    BY <1>0, <2>2, <2>3, <2>4 DEF OnThread, InHands
  <2>6. SetTurn(r, tn) /\ (held' = held \/ held' = [run |-> r, turn |-> tn])
    BY <1>3, <2>1 DEF EventTurnStarted, EventTurnCompleted
  <2>7. UNCHANGED <<turn, fin, byThread, runKind, launch, rt>>
    BY <1>3 DEF EventTurnStarted, EventTurnCompleted
  <2> HIDE DEF tn
  <2> QED
    BY <2>2, <2>5, <2>6, <2>7, SetTurnHands
<1> QED
  BY <1>1, <1>2, <1>3

LEMMA SteerCallHands ==
  ASSUME TypeInv, NEW r \in Runs, SteerCall(r)
  PROVE  ThreadFacts(r)
<1>1. UNCHANGED <<mem, byThread, byTurn, held, fin, launch, runKind>>
      /\ rt' = [Idle EXCEPT !.pc = "steer", !.run = None, !.arg = <<r, mem[r].turn>>]
  BY DEF SteerCall, RouterOnly, RouterStep, idxVars, loopVars, dbVars, runVars
<1>2. \A tn \in Turns : InHands(r, tn)' => InHands(r, tn)
  BY <1>1 DEF InHands, Idle
<1> QED
  BY <1>1, <1>2 DEF ThreadFacts

LEMMA EventFinishHands ==
  ASSUME TypeInv, NEW r \in Runs, r = held.run, EventFinish
  PROVE  ThreadFacts(r)
<1>1. /\ mem'[r].thread = mem[r].thread /\ mem'[r].taskThread = mem[r].taskThread /\ mem'[r].turn = mem[r].turn
      /\ fin'[r] = fin[r] \/ fin'[r].event = held.turn
  BY BeginFinishThreads DEF EventFinish
<1>2. UNCHANGED <<byThread, byTurn, rt, launch, runKind>> /\ held' = NoEvent
  BY DEF EventFinish, LoopFrame, rtVars, dbVars, runVars
<1>3. \A tn \in Turns : InHands(r, tn)' => InHands(r, tn)
  BY <1>1, <1>2, StateDBAssumption DEF InHands, NoEvent
<1> QED
  BY <1>1, <1>2, <1>3 DEF ThreadFacts

\* The turn that launch asks for is on the run's thread.
LEMMA LaunchCallTurnHands ==
  ASSUME TypeInv, OneThread, NEW r \in Runs, LaunchCallTurn(r)
  PROVE  ThreadFacts(r)
<1>1. PICK tn \in Turns :
        /\ turn' = [turn EXCEPT ![tn] = [state |-> "running", thread |-> launch[r].thread, by |-> r]]
        /\ launch' = [launch EXCEPT ![r].pc = "awaitTurn", ![r].turn = tn]
  BY DEF LaunchCallTurn
<1>2. /\ launch[r].pc = "callTurn" /\ launch'[r].pc = "awaitTurn" /\ launch'[r].turn = tn
      /\ launch'[r].thread = launch[r].thread
  BY <1>1 DEF LaunchCallTurn, TypeInv, LaunchTypes, LaunchRec
<1>3. turn'[tn].state = "running" /\ turn'[tn].thread = launch[r].thread
  BY <1>1 DEF TypeInv, TurnTypes
<1>4. mem[r].thread = launch[r].thread /\ launch[r].thread \in Threads
  BY <1>2 DEF OneThread, OnThread, Threaded, TypeInv, LaunchTypes
<1>5. launch[r].thread = ThreadOf(r)
  BY <1>4, StateDBAssumption DEF ThreadOf
<1>6. UNCHANGED <<mem, byThread, byTurn, held, fin, rt, runKind>>
  BY DEF LaunchCallTurn, LaunchFrame, idxVars, loopVars, rtVars, dbVars, runVars
<1>7. \A un \in Turns : InHands(r, un)' => InHands(r, un) \/ un = tn
  BY <1>2, <1>6 DEF InHands
<1> QED
  BY <1>2, <1>3, <1>5, <1>6, <1>7 DEF ThreadFacts, Threaded, Late

\* thread/start gives a new run its thread; thread/resume the one it has.
LEMMA LaunchThreadOnThread ==
  ASSUME TypeInv, Custody, OneThread, NEW r \in Runs, LaunchThread(r)
  PROVE  OnThread(r)'
<1>0. OnThread(r) /\ launch[r].pc = "thread" /\ mem[r].thread = None
  BY DEF OneThread, OnThread, LaunchThread
<1>1. UNCHANGED <<byTurn, held, fin, rt, turn, runKind>>
  BY DEF LaunchThread, LaunchFrame, loopVars, rtVars, codexVars, dbVars, runVars
<1>2. PICK th \in AnsweredThreads(r) :
        IF mem[r].terminal
          THEN LaunchTo(r, "done") /\ UNCHANGED <<mem, byThread>>
          ELSE /\ launch' = [launch EXCEPT ![r].pc = "startRun", ![r].thread = th]
               /\ mem' = [mem EXCEPT ![r].thread = th]
               /\ byThread' = [byThread EXCEPT ![th] = r]
  BY DEF LaunchThread
<1>3. CASE mem[r].terminal
  <2>1. launch'[r].pc = "done"
    BY <1>2, <1>3, LaunchToEffect DEF LaunchPCs
  <2>2. HandsKept(r)
    BY <1>1, <1>2, <1>3, <2>1 DEF HandsKept, FinQuiet, Threaded, Late
  <2> QED
    BY <1>0, <1>1, <2>2, HandsKeptFacts, OnThreadKept, TurnsUnchanged
<1>4. CASE ~mem[r].terminal
  <2>1. /\ launch'[r].pc = "startRun" /\ launch'[r].thread = th
        /\ mem'[r].thread = th /\ mem'[r].turn = mem[r].turn
        /\ \A uh \in Threads : byThread'[uh] = r => byThread[uh] = r \/ uh = th
    BY <1>2, <1>4 DEF TypeInv, MemTypes, MemRec, LaunchTypes, LaunchRec, IndexTypes
  <2>2. ThreadOf(r) = None \/ ThreadOf(r) = th
    BY <1>0, <1>2 DEF AnsweredThreads, OnThread
  <2>3. th # None
    <3>1. r \in Live
      BY <1>0 DEF Custody, OnlyLiveRuns
    <3> QED
      BY <1>2, <3>1, StateDBAssumption DEF AnsweredThreads, Custody, ResumedHasThread
  <2>4. ThreadOf(r)' = th
    BY <2>1, <2>3 DEF ThreadOf
  <2>5. ASSUME NEW tn \in Turns, InHands(r, tn)' PROVE (Exists(tn) /\ turn[tn].thread = ThreadOf(r))'
    <3>1. InHands(r, tn)
      BY <1>1, <2>1, <2>5 DEF InHands, Late
    <3>2. Exists(tn) /\ turn[tn].thread = ThreadOf(r) /\ turn[tn].thread \in Threads
      BY <1>0, <3>1 DEF OnThread, TypeInv, TurnTypes
    <3> QED
      BY <1>1, <2>2, <2>4, <3>2, StateDBAssumption DEF Exists
  <2>6. \A uh \in Threads : byThread'[uh] = r => uh = th
    BY <1>0, <2>1, <2>2, StateDBAssumption DEF OnThread
  <2> QED
    BY <2>1, <2>4, <2>5, <2>6 DEF OnThread
<1> QED
  BY <1>3, <1>4

\* A run the handler hands over brings the thread of its row.
LEMMA EnqueueOnThread ==
  ASSUME TypeInv, Custody, OneThread, NEW r \in Runs, r = rt.run, RouterEnqueue
  PROVE  \A q \in Runs : OnThread(q)'
<1> USE DEF RouterEnqueue, RouterStep, dbVars, runVars
<1>1. /\ fin[r].pc = "none" /\ mem'[r].turn = None /\ launch'[r].pc = "thread"
      /\ \A q \in Runs \ {r} : mem'[q] = mem[q] /\ launch'[q] = launch[q]
      /\ UNCHANGED <<held, fin, turn>> /\ r \notin Live /\ rt' = Idle
  BY EnqueueFacts
<1>2. UNCHANGED <<byThread, byTurn, runKind>>
  OBVIOUS
<1>3. ASSUME NEW q \in Runs \ {r} PROVE OnThread(q)'
  <2>1. HandsKept(q)
    BY <1>1, <1>2 DEF HandsKept, FinQuiet, Idle
  <2> QED
    BY <1>1, <2>1, HandsKeptFacts, OnThreadKept, TurnsUnchanged DEF OneThread
<1>4. mem'[r].thread = None /\ mem'[r].taskThread = runThread[r]
  BY DEF TypeInv, MemTypes, MemRec, NoMem
<1>5. runKind[r] # "resume" => ThreadOf(r)' = None
  BY <1>4 DEF OneThread, NewRunHasNoThread, ThreadOf
<1>6. \A tn \in Turns : ~InHands(r, tn)'
  BY <1>1, <1>2, StateDBAssumption DEF InHands, Idle, Late, Custody, OnlyLiveRuns
<1>7. \A th \in Threads : byThread'[th] # r
  BY <1>1, <1>2, StateDBAssumption DEF Custody, OnlyLiveRuns
<1>8. OnThread(r)'
  BY <1>1, <1>2, <1>4, <1>5, <1>6, <1>7 DEF OnThread, Threaded, Late
<1> QED
  BY <1>3, <1>8

\* The steps that are not about a run of the controller bring no turn into hand.
LEMMA OthersHands ==
  ASSUME TypeInv, Custody,
         \/ IdleAction \/ AdmitAction \/ RefuseAction \/ CardAction \/ StartUsers \/ StartRecover
         \/ RouterFailRun \/ RouterFailRunFails \/ UNCHANGED vars
  PROVE  \A q \in Runs : HandsKept(q)
<1> USE DEF idxVars, loopVars, rtVars, dbVars, runVars
<1>1. ASSUME UNCHANGED <<mem, fin, launch, byThread, byTurn, held>>, rt' = rt \/ rt'.pc # "steer",
             NEW q \in Runs, runKind'[q] = runKind[q] \/ launch[q].pc = "off"
      PROVE  HandsKept(q)
  BY <1>1 DEF HandsKept, FinQuiet, Threaded, Late
<1>2. CASE TakeLoss \/ FailReturns \/ FailDone \/ Shutdown \/ ReportLoss \/ LoopStops \/ AppServer
  BY <1>1, <1>2 DEF TakeLoss, FailReturns, FailDone, Shutdown, ReportLoss, LoopStops, LoopFrame, AppServer,
                    AppServerLost, TurnEnds
<1>3. CASE CloseController
  <2>1. \A q \in Runs : mem'[q].thread = mem[q].thread /\ mem'[q].taskThread = mem[q].taskThread
                        /\ mem'[q].turn = mem[q].turn
    BY <1>3 DEF CloseController, TypeInv, MemTypes, MemRec
  <2> QED
    BY <1>3, <2>1 DEF CloseController, HandsKept, FinQuiet
<1>4. CASE (\E sent \in BOOLEAN : RouterRestart(sent)) \/ StartUsers \/ StartRecover \/ RouterFailRunFails
           \/ UNCHANGED vars
  BY <1>1, <1>4 DEF RouterRestart, StartUsers, StartRecover, RouterFailRunFails, RouterStep, vars, Idle,
                    RefreshUsers, RecoverRunning
<1>5. CASE (EventTurnStarted \/ EventTurnCompleted) /\ ActiveFor(Head(events).turn) = None
  BY <1>1, <1>5 DEF EventTurnStarted, EventTurnCompleted, LoopFrame
<1>6. CASE RefuseAction \/ CardAction \/ RouterFailRun
  <2>1. UNCHANGED runKind
    BY <1>6 DEF RefuseAction, CardAction, HandleRefusedContinue, HandleAttach, HandleRestart, RouterCard, RouterRoot,
                RouterRoute, RouterCallFails, RouterEnqueueRefused, RouterFailRun, RejectResume, AttachThread,
                AdmitRestart, SetTaskRootMessageID, InsertMessageRoute, FinishRun
  <2>2. RouterOnly /\ (rt' = rt \/ rt'.pc # "steer")
    <3>1. rt \in RtRec
      BY DEF TypeInv, RouterTypes
    <3>2. CASE RefuseAction \/ RouterFailRun
      <4>1. CASE \E k \in Keys, t \in Tasks, th \in Threads, u \in Users : HandleAttach(k, t, th, u)
        BY <4>1 DEF HandleAttach, Idle
      <4>2. CASE \/ RouterFailRun \/ (\E k \in Keys : HandleRestart(k))
                 \/ \E k \in Keys, t \in Tasks, u \in Users : HandleRefusedContinue(k, t, u)
        BY <4>2 DEF HandleRefusedContinue, HandleRestart, RouterFailRun, Idle
      <4> QED
        BY <3>2, <4>1, <4>2 DEF RefuseAction
    <3>3. CASE (\E c \in Cards : RouterCard(c)) \/ RouterRoot \/ RouterEnqueueRefused
      BY <3>1, <3>3 DEF RouterCard, RouterRoot, RouterEnqueueRefused, RtRec
    <3>4. CASE RouterRoute \/ RouterCallFails
      BY <3>1, <3>4 DEF RouterRoute, RouterCallFails, Idle, RtRec
    <3> QED
      BY <1>6, <3>2, <3>3, <3>4 DEF CardAction
  <2> QED
    BY <1>1, <2>1, <2>2 DEF RouterOnly, RouterStep
<1>7. ASSUME NEW k \in Keys, NEW t \in Tasks, NEW r \in Runs, NEW u \in Users,
             HandleNewTask(k, t, r, u) \/ HandleContinue(k, t, r, u), NEW q \in Runs
      PROVE  HandsKept(q)
  <2>1. RouterOnly /\ rt'.pc # "steer"
    BY <1>7 DEF HandleNewTask, HandleContinue
  <2>2. AdmitNewTask(k, t, r, u) \/ AdmitResumeRun(k, t, r, u)
    BY <1>7 DEF HandleNewTask, HandleContinue
  <2>3. runStatus[r] = "absent" /\ (q # r => runKind'[q] = runKind[q])
    BY <2>2 DEF AdmitNewTask, AdmitResumeRun, TypeInv, DBTypeOK
  <2>4. launch[r].pc = "off"
    BY <2>3 DEF Custody, OneKeeper, OnlyLiveRuns
  <2> QED
    BY <1>1, <2>1, <2>3, <2>4 DEF RouterOnly, RouterStep
<1> QED
  BY <1>2, <1>3, <1>4, <1>5, <1>6, <1>7 DEF IdleAction, AdmitAction

LEMMA FinHands ==
  ASSUME TypeInv, Custody, NEW r \in Runs, FinPersist(r) \/ FinGivesUp(r) \/ FinUnregister(r) \/ FinCard(r)
  PROVE  UNCHANGED turn /\ \A q \in Runs : ThreadFacts(q)
<1> USE DEF FinFrame, rtVars, loopVars, codexVars, idxVars, dbVars, runVars
<1>1. UNCHANGED <<mem, held, turn, rt, launch, runKind>>
  BY DEF FinPersist, FinGivesUp, FinUnregister, FinCard, FinishRun, InsertMessageRoute
<1>2. /\ \A tn \in Turns, q \in Runs : byTurn'[tn] = q => byTurn[tn] = q
      /\ \A th \in Threads, q \in Runs : byThread'[th] = q => byThread[th] = q
  BY StateDBAssumption DEF FinPersist, FinGivesUp, FinUnregister, FinCard, TypeInv, IndexTypes
<1>3. \A q \in Runs, tn \in Turns :
        fin'[q].pc \in {"persist", "unregister", "card"} /\ fin'[q].event = tn =>
          fin[q].pc \in {"persist", "unregister", "card"} /\ fin[q].event = tn
  BY DEF FinPersist, FinGivesUp, FinUnregister, FinCard, NoFin, TypeInv, FinTypes, FinRec
<1>4. \A q \in Runs, tn \in Turns : InHands(q, tn)' => InHands(q, tn)
  BY <1>1, <1>2, <1>3 DEF InHands
<1> QED
  BY <1>1, <1>2, <1>4 DEF ThreadFacts

LEMMA NewRunKept ==
  ASSUME OneThread, NEW q \in Runs,
         runStatus'[q] = "absent" => runStatus[q] = "absent",
         rt'.run = q => rt.run = q \/ runStatus[q] = "absent",
         runStatus[q] = "absent" \/ runKind'[q] = runKind[q],
         \/ runThread'[q] = runThread[q]
         \/ runStatus'[q] # "absent" /\ (rt'.run # q \/ runKind'[q] = "resume")
  PROVE  NewRunHasNoThread(q)'
BY DEF OneThread, NewRunHasNoThread

LEMMA NewRunStep ==
  ASSUME TypeInv, Custody, OneThread, [Next]_vars, NEW q \in Runs
  PROVE  NewRunHasNoThread(q)'
<1>1. ASSUME RowsMove, UNCHANGED <<runKind, runThread>> PROVE NewRunHasNoThread(q)'
  BY <1>1, NewRunKept DEF RowsMove
<1>2. CASE RunAction \/ IdleAction \/ CardAction
  <2>1. UNCHANGED <<runKind, runThread>>
    BY <1>2, RunActionStep, IdleActionStep
       DEF CardAction, RouterCard, RouterRoot, RouterRoute, RouterCallFails, RouterEnqueueRefused,
           SetTaskRootMessageID, InsertMessageRoute, dbVars, runVars
  <2> QED
    BY <1>1, <1>2, <2>1, RunActionRows, OthersRows
<1>3. CASE RefuseAction \/ StartUsers \/ StartRecover \/ RouterFailRunFails \/ UNCHANGED vars
  <2>1. UNCHANGED <<runKind, runThread>>
    BY <1>3 DEF RefuseAction, HandleRefusedContinue, HandleAttach, HandleRestart, RejectResume, AttachThread,
                AdmitRestart, StartUsers, RefreshUsers, StartRecover, RecoverRunning, RouterFailRunFails, vars, dbVars, runVars
  <2> QED
    BY <1>1, <1>3, <2>1, OthersRows
<1>4. ASSUME NEW r \in Runs, LaunchStartRun(r) \/ LaunchStartRunTurn(r) PROVE NewRunHasNoThread(q)'
  <2>1. RowsMove /\ RunStep(r)
    BY <1>4, RunActionRows, LaunchStartRunStep, LaunchStartRunTurnStep DEF StartRunAction
  <2>2. \E tn : StartRun(r, launch[r].thread, tn)
    BY <1>4 DEF LaunchStartRun, LaunchStartRunTurn
  <2>3. UNCHANGED runKind /\ (q # r => runThread'[q] = runThread[q]) /\ runStatus'[r] # "absent"
    BY <2>2 DEF StartRun, TypeInv, DBTypeOK
  <2>4. rt'.run # r
    BY <2>1, StateDBAssumption DEF RunStep, Custody, OneKeeper
  <2> QED
    BY <2>1, <2>3, <2>4, NewRunKept DEF RowsMove
<1>5. ASSUME NEW k \in Keys, NEW t \in Tasks, NEW r \in Runs, NEW u \in Users,
             HandleNewTask(k, t, r, u) \/ HandleContinue(k, t, r, u)
      PROVE  NewRunHasNoThread(q)'
  <2>1. AdmitNewTask(k, t, r, u) \/ AdmitResumeRun(k, t, r, u)
    BY <1>5 DEF HandleNewTask, HandleContinue
  <2>2. RowsMove
    BY <1>5, OthersRows DEF AdmitAction
  <2>3. runStatus[r] = "absent" /\ (q # r => runKind'[q] = runKind[q])
    BY <2>1 DEF AdmitNewTask, AdmitResumeRun, TypeInv, DBTypeOK
  <2>4. \/ runThread'[q] = runThread[q]
        \/ runStatus'[q] # "absent" /\ runKind'[q] = "resume"
    BY <2>1 DEF AdmitNewTask, AdmitResumeRun, TypeInv, DBTypeOK
  <2> QED
    BY <2>2, <2>3, <2>4, NewRunKept DEF RowsMove
<1>6. CASE RouterFailRun
  <2>1. RowsMove /\ rt' = Idle /\ FinishRun(rt.key, rt.run, "failed", runThread[rt.run], None)
    BY <1>6, OthersRows DEF RouterFailRun
  <2>2. rt.run \in Runs /\ runStatus[rt.run] # "absent"
    BY <1>6 DEF RouterFailRun, TypeInv, RouterTypes, Custody, OneKeeper
  <2>3. UNCHANGED runKind /\ (q # rt.run => runThread'[q] = runThread[q])
    BY <2>1, <2>2 DEF FinishRun, TypeInv, DBTypeOK
  <2> QED
    BY <2>1, <2>2, <2>3, NewRunKept, StateDBAssumption DEF RowsMove, Idle
<1>7. CASE RouterEnqueue \/ Stopped
  <2>1. rt' = Idle /\ UNCHANGED <<runStatus, runKind, runThread>>
    BY <1>7, StoppedForgets DEF RouterEnqueue, Stopped, dbVars, runVars
  <2> QED
    BY <2>1, NewRunKept, StateDBAssumption DEF Idle
<1>8. ASSUME NEW r \in Runs, FinPersist(r) PROVE NewRunHasNoThread(q)'
  <2>1. FinishRun(mem[r].key, r, fin[r].status, ThreadOf(r), mem[r].turn) /\ rt' = rt /\ fin[r].pc = "persist"
    BY <1>8 DEF FinPersist, FinFrame, rtVars
  <2>2. r \in Live /\ fin[r].status \in Terminal \cup {"none"}
    BY <2>1 DEF Custody, OnlyLiveRuns, TypeInv, FinTypes, FinRec
  <2>3. rt.run # r /\ runStatus[r] # "absent"
    BY <2>2 DEF Custody, OneKeeper
  <2>4. UNCHANGED runKind /\ (q # r => runThread'[q] = runThread[q] /\ runStatus'[q] = runStatus[q])
        /\ runStatus'[r] # "absent"
    BY <2>1, <2>2, <2>3 DEF FinishRun, TypeInv, DBTypeOK, Terminal
  <2> QED
    BY <2>1, <2>3, <2>4, NewRunKept
<1>9. ASSUME NEW r \in Runs, FinGivesUp(r) \/ FinUnregister(r) \/ FinCard(r) PROVE NewRunHasNoThread(q)'
  <2>1. rt' = rt /\ UNCHANGED <<runStatus, runKind, runThread>>
    BY <1>9 DEF FinGivesUp, FinUnregister, FinCard, FinFrame, rtVars, InsertMessageRoute, dbVars, runVars
  <2> QED
    BY <2>1, NewRunKept
<1> QED
  BY <1>2, <1>3, <1>4, <1>5, <1>6, <1>7, <1>8, <1>9, Steps DEF StartRunAction, AdmitAction, Exit, Crash

LEMMA RunActionThreads ==
  ASSUME TypeInv, Custody, KnownTurnsExist, InterruptInv, OneThread, RunAction \/ StartRunAction, NEW q \in Runs
  PROVE  OnThread(q)'
<1>1. TurnsKept
  BY RunActionTurns
<1>2. ASSUME NEW r \in Runs, RunStep(r), held' = held \/ held'.run \in {r, None}, ThreadFacts(r)
      PROVE  OnThread(q)'
  BY <1>1, <1>2, OnThreadKept, OtherOnThread DEF OneThread
<1>3. ASSUME NEW r \in Runs, FailNext(r) \/ StopRequest(r) \/ StopCancels(r) \/ StopInterrupts(r) \/ InterruptReturns(r)
      PROVE  OnThread(q)'
  <2>1. RunStep(r)
    BY <1>3, FailNextStep, StopRequestStep, StopCancelsStep, StopInterruptsStep, InterruptReturnsStep
  <2>2. HandsKept(r)
    BY <1>3, StopperHands
  <2> QED
    BY <1>2, <2>1, <2>2, HandsKeptFacts DEF HandsKept
<1>4. ASSUME NEW r \in Runs,
             \/ LaunchStartRun(r) \/ LaunchStartRunTurn(r) \/ LaunchStartRunFails(r) \/ LaunchCallFails(r)
             \/ LaunchInterrupts(r)
      PROVE  OnThread(q)'
  <2>1. RunStep(r)
    BY <1>4, LaunchFailsStep, LaunchStartRunStep, LaunchStartRunTurnStep, LaunchInterruptsStep
  <2>2. HandsKept(r)
    BY <1>4, LaunchHands
  <2> QED
    BY <1>2, <2>1, <2>2, HandsKeptFacts DEF HandsKept
<1>5. ASSUME NEW r \in Runs, LaunchCallTurn(r) \/ LaunchTurn(r) \/ SteerCall(r) PROVE OnThread(q)'
  <2>1. RunStep(r) /\ ThreadFacts(r)
    BY <1>5, LaunchCallTurnStep, LaunchCallTurnHands, LaunchTurnStep, TurnHands, SteerCallStep, SteerCallHands
  <2>2. held' = held
    BY <1>5 DEF LaunchCallTurn, LaunchTurn, SteerCall, LaunchFrame, RouterOnly, RouterStep, loopVars
  <2> QED
    BY <1>2, <2>1, <2>2
<1>6. ASSUME NEW r \in Runs, LaunchThread(r) PROVE OnThread(q)'
  <2>1. RunStep(r) /\ held' = held
    BY <1>6, LaunchThreadStep DEF LaunchThread, LaunchFrame, loopVars
  <2> QED
    BY <1>1, <1>6, <2>1, LaunchThreadOnThread, OtherOnThread DEF OneThread
<1>7. ASSUME NEW r, r = rt.arg, StopAct PROVE OnThread(q)'
  <2>1. r \in Runs /\ RunStep(r)
    BY <1>7, StopActStep
  <2>2. HandsKept(r)
    BY <1>7, <2>1, StopperHands
  <2> QED
    BY <1>2, <2>1, <2>2, HandsKeptFacts DEF HandsKept
<1>8. ASSUME NEW r, r = rt.arg[1], NEW ok \in BOOLEAN, SteerReturns(ok) PROVE OnThread(q)'
  <2>1. r \in Runs /\ RunStep(r) /\ held' = held
    BY <1>8, SteerReturnsStep DEF SteerReturns, RouterStep, loopVars
  <2> QED
    BY <1>2, <1>8, <2>1, TurnHands
<1>9. ASSUME NEW r, r = ActiveFor(Head(events).turn), r # None, EventTurnStarted \/ EventTurnCompleted
      PROVE  OnThread(q)'
  <2>1. r \in Runs /\ RunStep(r)
    BY <1>9, EventTurnStep
  <2>2. held' = held \/ held'.run = r
    BY <1>9, <2>1, EventTurnFacts
  <2> QED
    BY <1>2, <1>9, <2>1, <2>2, TurnHands
<1>10. ASSUME NEW r, r = held.run, EventFinish PROVE OnThread(q)'
  <2>1. r \in Runs /\ RunStep(r) /\ held' = NoEvent
    BY <1>10, EventFinishStep, EventFinishFacts
  <2> QED
    BY <1>2, <1>10, <2>1, EventFinishHands DEF NoEvent
<1> QED
  BY <1>3, <1>4, <1>5, <1>6, <1>7, <1>8, <1>9, <1>10 DEF RunAction, StartRunAction

LEMMA OneThreadStep ==
  ASSUME TypeInv, Custody, KnownTurnsExist, InterruptInv, OneThread, [Next]_vars
  PROVE  OneThread'
<1>1. CASE RunAction \/ StartRunAction
  BY <1>1, RunActionThreads, NewRunStep DEF OneThread
<1>2. ASSUME TurnsKept, \A q \in Runs : ThreadFacts(q) PROVE OneThread'
  BY <1>2, OnThreadKept, NewRunStep DEF OneThread
<1>3. CASE \/ IdleAction \/ AdmitAction \/ RefuseAction \/ CardAction \/ StartUsers \/ StartRecover
           \/ RouterFailRun \/ RouterFailRunFails \/ UNCHANGED vars
  BY <1>2, <1>3, OthersHands, HandsKeptFacts, OthersUntouched DEF Untouched
<1>4. CASE \E r \in Runs : FinPersist(r) \/ FinGivesUp(r) \/ FinUnregister(r) \/ FinCard(r)
  BY <1>2, <1>4, FinHands, TurnsUnchanged
<1>5. CASE RouterEnqueue
  <2>1. rt.run \in Runs
    BY <1>5 DEF RouterEnqueue, TypeInv, RouterTypes
  <2> QED
    BY <1>5, <2>1, EnqueueOnThread, NewRunStep DEF OneThread
<1>6. CASE Stopped
  <2>1. /\ mem' = [r \in Runs |-> NoMem] /\ launch' = [r \in Runs |-> NoLaunch] /\ fin' = [r \in Runs |-> NoFin]
        /\ held' = NoEvent /\ rt' = Idle
        /\ byThread' = [th \in Threads |-> None] /\ byTurn' = [tn \in Turns |-> None]
    BY <1>6, StoppedForgets DEF Stopped, FreshMemory
  <2>2. \A r \in Runs : OnThread(r)'
    BY <2>1, StateDBAssumption DEF OnThread, InHands, NoMem, NoLaunch, NoFin, NoEvent, Idle, Threaded, Late
  <2> QED
    BY <2>2, NewRunStep DEF OneThread
<1> QED
  BY <1>1, <1>3, <1>4, <1>5, <1>6, Steps DEF Exit, Crash

-----------------------------------------------------------------------------
(* Which turn the row of a finished run names *)

\* Every turn of the thread of turn un was asked for by run r.
OnlyTurnsOf(r, un) == \A tn \in Turns : Exists(tn) /\ turn[tn].thread = turn[un].thread => turn[tn].by = r

\* A run asks for one turn: launch asks once, and a run is launched once.
TurnsOfRuns ==
  /\ \A tn, un \in Turns : Exists(tn) /\ Exists(un) /\ turn[tn].by = turn[un].by => tn = un
  /\ \A tn \in Turns : Exists(tn) => /\ launch[turn[tn].by].pc \notin Early /\ rt.run # turn[tn].by
                                     /\ runStatus[turn[tn].by] # "absent"

\* The run of a turn/completed has a turn before it is finished; finalize works
\* with that turn when its thread had turns of no other run; and the row has the turn
\* once it is durable.
Tie(r) ==
  /\ held.run = r /\ ~mem[r].terminal => mem[r].turn # None
  /\ fin[r].pc \in {"persist", "unregister", "card"} /\ fin[r].event # None /\ OnlyTurnsOf(r, fin[r].event) =>
       mem[r].turn = fin[r].event
  /\ fin[r].pc \in {"unregister", "card"} =>
       runStatus[r] \in Terminal /\ (mem[r].turn # None => runTurn[r] = mem[r].turn)

TieInv == \A r \in Runs : Tie(r)

LEMMA TieKept ==
  ASSUME TypeInv, Custody, OneThread, NEW q \in Runs, Tie(q), TurnsKept,
         mem'[q].turn = mem[q].turn \/ (~mem[q].terminal /\ mem'[q].turn # None),
         mem[q].terminal => mem'[q].terminal,
         held' = held \/ held' = NoEvent \/ (held'.run = q /\ ~mem'[q].terminal => mem'[q].turn # None),
         fin'[q] = fin[q] \/ (fin'[q].event = None /\ fin'[q].pc = "persist"),
         RowKept(q)
  PROVE  Tie(q)'
<1>1. ASSUME fin'[q].pc \in {"persist", "unregister", "card"}, fin'[q].event # None, OnlyTurnsOf(q, fin[q].event)'
      PROVE  fin'[q] = fin[q] /\ OnlyTurnsOf(q, fin[q].event)
  <2>1. fin'[q] = fin[q] /\ fin[q].event \in Turns
    BY <1>1 DEF TypeInv, FinTypes, FinRec
  <2>2. Exists(fin[q].event)
    BY <1>1, <2>1 DEF OneThread, OnThread, InHands
  <2> QED
    BY <1>1, <2>1, <2>2 DEF OnlyTurnsOf, TurnsKept, Exists
<1>2. fin[q].pc # "none" => q \in Live /\ mem'[q].turn = mem[q].turn
  BY DEF Custody, OnlyLiveRuns, FinalizedOnce
<1>3. (held.run = q /\ ~mem[q].terminal => mem[q].turn # None)'
  BY StateDBAssumption DEF Tie, NoEvent
<1>4. (fin[q].pc \in {"persist", "unregister", "card"} /\ fin[q].event # None /\ OnlyTurnsOf(q, fin[q].event) =>
         mem[q].turn = fin[q].event)'
  BY <1>1, <1>2 DEF Tie
<1>5. (fin[q].pc \in {"unregister", "card"} =>
         runStatus[q] \in Terminal /\ (mem[q].turn # None => runTurn[q] = mem[q].turn))'
  BY <1>2 DEF Tie, RowKept
<1> QED
  BY <1>3, <1>4, <1>5 DEF Tie

LEMMA TurnsOfRunsKept ==
  ASSUME TypeInv, TurnsOfRuns, TurnsKept, NoNewTurn, RowsMove,
         \A q \in Runs : launch'[q].pc \in Early => launch[q].pc \in Early
  PROVE  TurnsOfRuns'
<1>1. \A tn \in Turns : Exists(tn)' => Exists(tn) /\ turn'[tn].by = turn[tn].by /\ turn[tn].by \in Runs
  BY DEF TurnsKept, NoNewTurn, TypeInv, TurnTypes, Exists
<1> QED
  BY <1>1 DEF TurnsOfRuns, RowsMove, Exists

\* The steps on runs but turn/start add no turn.
LEMMA OnlyLaunchAddsTurns ==
  ASSUME TypeInv, RunAction \/ StartRunAction, \A r \in Runs : ~LaunchCallTurn(r)
  PROVE  NoNewTurn
<1> USE DEF codexVars, LaunchFrame, RouterOnly, RouterStep, LoopFrame
<1>1. UNCHANGED turn => NoNewTurn
  BY SameTurns
<1>2. ASSUME NEW r \in Runs,
             FailNext(r) \/ StopRequest(r) \/ SteerCall(r) \/ StopCancels(r) \/ InterruptReturns(r)
      PROVE  UNCHANGED turn
  BY <1>2 DEF FailNext, StopRequest, SteerCall, StopCancels, InterruptReturns
<1>3. ASSUME NEW r \in Runs,
             \/ LaunchThread(r) \/ LaunchStartRunFails(r) \/ LaunchCallFails(r) \/ LaunchTurn(r)
             \/ LaunchStartRun(r) \/ LaunchStartRunTurn(r)
      PROVE  UNCHANGED turn
  BY <1>3 DEF LaunchThread, LaunchStartRunFails, LaunchCallFails, LaunchTurn, LaunchStartRun, LaunchStartRunTurn
<1>4. ASSUME NEW r \in Runs, StopInterrupts(r) PROVE NoNewTurn
  <2>1. intStop[r] \in Turns /\ Interrupt(r, intStop[r])
    BY <1>4 DEF StopInterrupts, TypeInv, StopTypes
  <2> QED
    BY <2>1, InterruptAddsNoTurn
<1>5. ASSUME NEW r \in Runs, LaunchInterrupts(r) PROVE NoNewTurn
  <2>1. launch[r].turn \in Turns /\ Interrupt(r, launch[r].turn)
    BY <1>5 DEF LaunchInterrupts, TypeInv, LaunchTypes
  <2> QED
    BY <2>1, InterruptAddsNoTurn
<1>6. CASE StopAct \/ (\E ok \in BOOLEAN : SteerReturns(ok)) \/ EventTurnStarted \/ EventTurnCompleted \/ EventFinish
  BY <1>1, <1>6 DEF StopAct, SteerReturns, EventTurnStarted, EventTurnCompleted, EventFinish
<1> QED
  BY <1>1, <1>2, <1>3, <1>4, <1>5, <1>6 DEF RunAction, StartRunAction

\* finalize writes the turn it knows, then works on with the same turn.
LEMMA FinTie ==
  ASSUME TypeInv, Custody, OneThread, TieInv, NEW r \in Runs, FinPersist(r) \/ FinGivesUp(r) \/ FinUnregister(r) \/ FinCard(r)
  PROVE  TieInv' /\ RowsMove
<1> USE DEF FinFrame, rtVars, loopVars, codexVars
<1>1. UNCHANGED <<mem, held, turn, rt, launch>>
  BY DEF FinPersist, FinGivesUp, FinUnregister, FinCard
<1>2. TurnsKept
  BY <1>1, TurnsUnchanged
<1>3. fin'[r].event = fin[r].event => (OnlyTurnsOf(r, fin[r].event)' <=> OnlyTurnsOf(r, fin[r].event))
  BY <1>1 DEF OnlyTurnsOf, Exists
<1>4. ASSUME NEW q \in Runs, fin'[q] = fin[q], RowKept(q) PROVE Tie(q)'
  BY <1>1, <1>2, <1>4, TieKept DEF TieInv
<1>5. CASE FinPersist(r)
  <2>1. FinishRun(mem[r].key, r, fin[r].status, ThreadOf(r), mem[r].turn) /\ fin[r].pc = "persist"
    BY <1>5 DEF FinPersist
  <2>2. runStatus'[r] \in Terminal /\ (mem[r].turn # None => runTurn'[r] = mem[r].turn)
    BY <2>1 DEF FinishRun, Coalesce, TypeInv, DBTypeOK
  <2>3. \A q \in Runs \ {r} : runStatus'[q] = runStatus[q] /\ runTurn'[q] = runTurn[q]
    BY <2>1 DEF FinishRun, TypeInv, DBTypeOK
  <2>4. /\ fin'[r].pc = "unregister" /\ fin'[r].event = fin[r].event
        /\ \A q \in Runs \ {r} : fin'[q] = fin[q]
    BY <1>5 DEF FinPersist, TypeInv, FinTypes, FinRec
  <2>5. Tie(r)'
    BY <1>1, <1>3, <2>1, <2>2, <2>4 DEF TieInv, Tie
  <2>6. \A q \in Runs \ {r} : RowKept(q)
    BY <2>3 DEF RowKept
  <2>7. RowsMove
    BY <1>1, <1>5, FinPersistStep DEF RowsMove, TypeInv, DBTypeOK, Terminal
  <2> QED
    BY <1>4, <2>4, <2>5, <2>6, <2>7 DEF TieInv
<1>6. CASE FinGivesUp(r) \/ FinUnregister(r) \/ FinCard(r)
  <2>1. UNCHANGED <<runStatus, runTurn>>
    BY <1>6 DEF FinGivesUp, FinUnregister, FinCard, InsertMessageRoute, runVars, dbVars
  <2>2. \A q \in Runs \ {r} : fin'[q] = fin[q]
    BY <1>6 DEF FinGivesUp, FinUnregister, FinCard, TypeInv, FinTypes
  <2>3. \/ fin[r].pc = "unregister" /\ fin'[r].pc = "card" /\ fin'[r].event = fin[r].event
        \/ fin'[r].pc \notin {"persist", "unregister", "card"}
    <3>1. fin[r] \in FinRec /\ fin \in [Runs -> FinRec]
      BY DEF TypeInv, FinTypes
    <3>2. CASE FinGivesUp(r)
      BY <3>1, <3>2 DEF FinGivesUp, FinRec
    <3>3. CASE FinUnregister(r)
      BY <3>1, <3>3 DEF FinUnregister, FinRec
    <3>4. CASE FinCard(r)
      BY <3>1, <3>4 DEF FinCard, NoFin
    <3> QED
      BY <1>6, <3>2, <3>3, <3>4
  <2>4. Tie(r)'
    BY <1>1, <1>3, <2>1, <2>3 DEF TieInv, Tie
  <2> QED
    BY <1>1, <1>4, <2>1, <2>2, <2>4 DEF TieInv, RowKept, RowsMove
<1> QED
  BY <1>5, <1>6

\* The event loop finishes a run with the turn of the event it holds.
LEMMA EventFinishTie ==
  ASSUME TypeInv, Custody, KnownTurnsExist, TurnsOfRuns, OneThread, TieInv, NEW r \in Runs, r = held.run, EventFinish
  PROVE  Tie(r)'
<1>1. Finished(r, held.turn) /\ RunFacts(r) /\ UNCHANGED turn /\ held' = NoEvent
  BY EventFinishStep, EventFinishFacts
<1>2. RowKept(r) /\ TurnsKept
  BY <1>1, RunActionRows, TurnsUnchanged DEF RunAction
<1>3. CASE mem[r].terminal
  BY <1>1, <1>2, <1>3, TieKept DEF Finished, TieInv
<1>4. CASE ~mem[r].terminal
  <2>1. mem[r].turn # None /\ Exists(mem[r].turn) /\ mem[r].turn \in Turns
    BY <1>4 DEF TieInv, Tie, KnownTurnsExist, TypeInv, MemTypes, MemRec
  <2>2. held.turn \in Turns /\ Exists(held.turn)
    BY DEF EventFinish, TypeInv, StreamTypes, Exists, Ended
  <2>3. fin'[r].pc = "persist" /\ fin'[r].event = held.turn /\ mem'[r].turn = mem[r].turn
    BY <1>1, <1>4 DEF Finished
  <2>4. turn[mem[r].turn].thread = turn[held.turn].thread
    BY <2>1, <2>2 DEF OneThread, OnThread, InHands
  <2>5. OnlyTurnsOf(r, fin[r].event)' => mem[r].turn = held.turn
    <3>1. OnlyTurnsOf(r, fin[r].event)' => OnlyTurnsOf(r, held.turn)
      BY <1>1, <2>3 DEF OnlyTurnsOf, Exists
    <3> QED
      BY <2>1, <2>2, <2>4, <3>1 DEF OnlyTurnsOf, TurnsOfRuns
  <2> QED
    BY <1>1, <2>3, <2>5, StateDBAssumption DEF Tie, NoEvent
<1> QED
  BY <1>3, <1>4

\* The event loop holds an event for a run only once the run has a turn.
HeldStep(r) == held' = held \/ (held'.run = r /\ (~mem'[r].terminal => mem'[r].turn # None))

LEMMA RunActionTie ==
  ASSUME TypeInv, Custody, KnownTurnsExist, InterruptInv, TurnsOfRuns, OneThread, TieInv, RunAction \/ StartRunAction
  PROVE  TieInv'
<1>1. TurnsKept /\ \A q \in Runs : RowKept(q)
  BY RunActionTurns, RunActionRows
<1>2. ASSUME NEW r \in Runs, RunStep(r), held' = held \/ held' = NoEvent \/ held'.run = r, NEW q \in Runs \ {r}
      PROVE  Tie(q)'
  BY <1>1, <1>2, TieKept DEF RunStep, TieInv
<1>3. ASSUME NEW r \in Runs, RunStep(r), RunFacts(r), FinQuiet(r), HeldStep(r)
      PROVE  TieInv'
  <2>1. mem'[r].turn = mem[r].turn \/ (~mem[r].terminal /\ mem'[r].turn # None)
    BY <1>3, StateDBAssumption DEF RunFacts
  <2>2. mem[r].terminal => mem'[r].terminal
    BY <1>3 DEF RunStep
  <2>3. fin'[r] = fin[r] \/ (fin'[r].event = None /\ fin'[r].pc = "persist")
    BY <1>3 DEF RunStep, FinQuiet
  <2>4. Tie(r)'
    BY <1>1, <1>3, <2>1, <2>2, <2>3, TieKept DEF TieInv, HeldStep
  <2> QED
    BY <1>2, <1>3, <2>4 DEF TieInv, HeldStep
<1>4. ASSUME NEW r \in Runs,
             \/ FailNext(r) \/ StopRequest(r) \/ SteerCall(r) \/ StopCancels(r)
             \/ StopInterrupts(r) \/ InterruptReturns(r)
      PROVE  TieInv'
  <2>1. RunStep(r)
    BY <1>4, FailNextStep, StopRequestStep, SteerCallStep, StopCancelsStep, StopInterruptsStep,
       InterruptReturnsStep
  <2>2. RunFacts(r) /\ FinQuiet(r) /\ HeldStep(r)
    BY <1>4, FailNextFacts, StopRequestFacts, SteerCallFacts, StopInterruptsFacts DEF HeldStep
  <2> QED
    BY <1>3, <2>1, <2>2
<1>5. ASSUME NEW r \in Runs,
             \/ LaunchThread(r) \/ LaunchStartRunFails(r) \/ LaunchCallFails(r) \/ LaunchStartRun(r)
             \/ LaunchStartRunTurn(r) \/ LaunchCallTurn(r) \/ LaunchTurn(r) \/ LaunchInterrupts(r)
      PROVE  TieInv'
  <2>1. RunStep(r)
    BY <1>5, LaunchThreadStep, LaunchFailsStep, LaunchStartRunStep, LaunchStartRunTurnStep, LaunchCallTurnStep,
       LaunchTurnStep, LaunchInterruptsStep
  <2>2. RunFacts(r) /\ FinQuiet(r) /\ HeldStep(r)
    BY <1>5, LaunchThreadFacts, LaunchFailsFacts, LaunchStartRunFacts, LaunchStartRunTurnFacts, LaunchCallTurnFacts,
       LaunchTurnFacts, LaunchInterruptsFacts DEF HeldStep
  <2> QED
    BY <1>3, <2>1, <2>2
<1>6. ASSUME NEW r, r = rt.arg, StopAct PROVE TieInv'
  BY <1>3, <1>6, StopActStep, StopActFacts DEF HeldStep
<1>7. ASSUME NEW r, r = rt.arg[1], NEW ok \in BOOLEAN, SteerReturns(ok) PROVE TieInv'
  BY <1>3, <1>7, SteerReturnsStep, SteerReturnsFacts DEF HeldStep
<1>8. ASSUME NEW r, r = ActiveFor(Head(events).turn), r # None, EventTurnStarted \/ EventTurnCompleted PROVE TieInv'
  BY <1>3, <1>8, EventTurnStep, EventTurnFacts DEF HeldStep
<1>9. ASSUME NEW r, r = held.run, EventFinish PROVE TieInv'
  <2>1. r \in Runs /\ RunStep(r) /\ held' = NoEvent
    BY <1>9, EventFinishStep, EventFinishFacts
  <2>2. Tie(r)'
    BY <1>9, <2>1, EventFinishTie
  <2> QED
    BY <1>2, <2>1, <2>2 DEF TieInv
<1> QED
  BY <1>4, <1>5, <1>6, <1>7, <1>8, <1>9 DEF RunAction, StartRunAction

LEMMA TurnsOfRunsStep ==
  ASSUME TypeInv, Custody, KnownTurnsExist, InterruptInv, TurnsOfRuns, RunAction \/ StartRunAction
  PROVE  TurnsOfRuns'
<1>1. RowsMove
  BY RunActionRows
<1>2. PICK r \in Runs : RunStep(r) /\ RunFacts(r) /\ TurnsKept
  BY RunActionTurns
<1>3. \A q \in Runs : launch'[q].pc \in Early => launch[q].pc \in Early
  BY <1>2 DEF RunStep, RunFacts
<1>4. CASE \A q \in Runs : ~LaunchCallTurn(q)
  BY <1>1, <1>2, <1>3, <1>4, OnlyLaunchAddsTurns, TurnsOfRunsKept
<1>5. ASSUME NEW q \in Runs, LaunchCallTurn(q) PROVE TurnsOfRuns'
  <2>1. PICK tn \in Turns : turn'[tn].by = q /\ \A un \in Turns \ {tn} : turn'[un] = turn[un]
    BY <1>5, LaunchCallTurnFacts
  <2>2. launch[q].pc = "callTurn" /\ launch'[q].pc = "awaitTurn" /\ RunStep(q)
    BY <1>5, LaunchCallTurnFacts, LaunchCallTurnStep
  <2>3. \A un \in Turns : Exists(un) => turn[un].by # q /\ turn[un].by \in Runs
    BY <2>2 DEF TurnsOfRuns, Early, TypeInv, TurnTypes
  <2>4. rt'.run # q /\ runStatus'[q] # "absent" /\ launch'[q].pc \notin Early
    BY <2>2, StateDBAssumption DEF RunStep, Custody, OneKeeper, Live, Early
  <2>5. \A un \in Turns \ {tn} : Exists(un)' =>
           /\ Exists(un) /\ turn'[un].by = turn[un].by /\ turn[un].by # q /\ turn[un].by \in Runs
    BY <2>1, <2>3 DEF Exists
  <2>6. \A un, vn \in Turns : Exists(un)' /\ Exists(vn)' /\ turn'[un].by = turn'[vn].by => un = vn
    BY <2>1, <2>5 DEF TurnsOfRuns
  <2>7. \A un \in Turns : Exists(un)' => /\ launch'[turn'[un].by].pc \notin Early /\ rt'.run # turn'[un].by
                                         /\ runStatus'[turn'[un].by] # "absent"
    BY <1>1, <1>3, <2>1, <2>4, <2>5 DEF TurnsOfRuns, RowsMove
  <2> QED
    BY <2>6, <2>7 DEF TurnsOfRuns, Exists
<1> QED
  BY <1>4, <1>5

LEMMA TieStep ==
  ASSUME TypeInv, Custody, KnownTurnsExist, InterruptInv, TurnsOfRuns, OneThread, TieInv, [Next]_vars
  PROVE  TurnsOfRuns' /\ TieInv'
<1>1. CASE RunAction \/ StartRunAction
  BY <1>1, TurnsOfRunsStep, RunActionTie
<1>2. ASSUME Untouched, UNCHANGED fin, RowsMove, \A q \in Runs : RowKept(q) PROVE TurnsOfRuns' /\ TieInv'
  <2>1. TurnsOfRuns'
    BY <1>2, TurnsOfRunsKept DEF Untouched
  <2>2. ASSUME NEW q \in Runs PROVE Tie(q)'
    BY <1>2, <2>2, TieKept DEF Untouched, TieInv
  <2> QED
    BY <2>1, <2>2 DEF TieInv
<1>3. ASSUME NEW r \in Runs, FinPersist(r) \/ FinGivesUp(r) \/ FinUnregister(r) \/ FinCard(r)
      PROVE  TurnsOfRuns' /\ TieInv'
  <2>1. Untouched
    BY <1>3, OthersUntouched
  <2> QED
    BY <1>3, <2>1, FinTie, TurnsOfRunsKept DEF Untouched
<1>4. ASSUME NEW r, r = rt.run, RouterEnqueue PROVE TurnsOfRuns' /\ TieInv'
  <2>1. r \in Runs /\ UNCHANGED <<runStatus, runTurn>>
    BY <1>4 DEF RouterEnqueue, TypeInv, RouterTypes, dbVars
  <2>2. /\ fin[r].pc = "none" /\ mem'[r].turn = None /\ r \notin Live /\ rt' = Idle
        /\ \A q \in Runs \ {r} : mem'[q] = mem[q] /\ launch'[q] = launch[q]
        /\ UNCHANGED <<held, fin, turn>>
    BY <1>4, <2>1, EnqueueFacts
  <2>3. TurnsKept
    BY <2>2, TurnsUnchanged
  <2>4. \A q \in Runs \ {r} : Tie(q)'
    BY <2>1, <2>2, <2>3, TieKept DEF TieInv, RowKept
  <2>5. Tie(r)'
    BY <2>1, <2>2, StateDBAssumption DEF Tie, Custody, OnlyLiveRuns
  <2>6. \A tn \in Turns : Exists(tn) => turn[tn].by \in Runs \ {r}
    BY <1>4 DEF TurnsOfRuns, TypeInv, TurnTypes
  <2>7. TurnsOfRuns'
    BY <2>1, <2>2, <2>6, StateDBAssumption DEF TurnsOfRuns, Exists, Idle
  <2> QED
    BY <2>4, <2>5, <2>7 DEF TieInv
<1>5. CASE Stopped
  <2>1. TieInv'
    BY <1>5, StoppedForgets, StateDBAssumption DEF TieInv, Tie, NoFin, NoEvent
  <2>2. TurnsKept /\ NoNewTurn
    <3>1. KillTurns
      BY <1>5 DEF Stopped
    <3> QED
      BY <3>1, KillTurnsEffect DEF KillTurns, NoNewTurn, Exists, TypeInv, TurnTypes, TurnRec
  <2>3. RowsMove /\ \A q \in Runs : launch'[q].pc \in Early => launch[q].pc \in Early
    <3>1. rt'.run = None
      BY <1>5, StoppedForgets DEF Idle
    <3>2. RowsMove
      BY <1>5, <3>1, StateDBAssumption DEF Stopped, RowsMove, dbVars
    <3>3. \A q \in Runs : launch'[q].pc \notin Early
      BY <1>5, StoppedForgets DEF NoLaunch, Early
    <3> QED
      BY <3>2, <3>3
  <2> QED
    BY <2>1, <2>2, <2>3, TurnsOfRunsKept
<1> QED
  BY <1>1, <1>2, <1>3, <1>4, <1>5, Steps, OthersUntouched, OthersRows DEF Exit, Crash

\* A turn/completed that arrives before turn/start returns still leaves the id of
\* the turn in the durable row of its run, as long as no other run has had a turn
\* on the thread of that turn.
THEOREM ResultNamesItsTurn == Spec => []ResultTiedToOnlyTurn
<1> DEFINE Inv == KnownTurnsExist /\ InterruptInv /\ TurnsOfRuns /\ OneThread /\ TieInv
<1>1. Init => Inv
  <2>1. Init => KnownTurnsExist /\ InterruptInv /\ TurnsOfRuns /\ TieInv
    BY StateDBAssumption
       DEF Init, KnownTurnsExist, InterruptInv, InterruptOnce, TurnsOfRuns, TieInv, Tie, Exists,
           NoMem, NoLaunch, NoFin, NoEvent, NoTurn, Late
  <2>2. Init => OneThread
    BY StateDBAssumption
       DEF Init, EmptyDB, OneThread, OnThread, NewRunHasNoThread, InHands, NoMem, NoLaunch, NoFin, NoEvent, Idle,
           Threaded, Late
  <2> QED
    BY <2>1, <2>2
<1>2. TypeInv /\ Custody /\ Inv /\ [Next]_vars => Inv'
  BY InterruptStep, OneThreadStep, TieStep
<1>3. TypeInv /\ Inv => ResultTiedToOnlyTurn
  <2> SUFFICES ASSUME TypeInv, Inv, NEW r \in Runs, fin[r].pc \in {"unregister", "card"}, fin[r].event # None,
                      \A tn \in Turns : Exists(tn) /\ turn[tn].thread = turn[fin[r].event].thread => turn[tn].by = r
               PROVE  runTurn[r] = fin[r].event
    BY DEF ResultTiedToOnlyTurn, Exists
  <2> QED
    BY DEF TieInv, Tie, OnlyTurnsOf, Exists
<1> QED
  BY <1>1, <1>2, <1>3, Invariant, PTL DEF Spec
=============================================================================
