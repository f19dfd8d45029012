-------------------------- MODULE BridgeStoreProofs --------------------------
(***************************************************************************)
(* Proofs about BridgeStore, for every set of tasks, runs, events, users,  *)
(* threads, turns and cards: StoreInv is inductive, one lemma per action,  *)
(* and the safety properties and the implementation of RunLifecycle follow.*)
(***************************************************************************)
EXTENDS BridgeStore, TLAPS

\* The database starts empty, so every row invariant holds.
LEMMA InitEstablishes == Init => StoreInv
<1>1. SUFFICES ASSUME Init PROVE StoreInv
  OBVIOUS
<1> USE StateDBAssumption DEF Init, EmptyDB, Active, Terminal
<1>2. TypeOK
  BY <1>1 DEF TypeOK, DBTypeOK, RunStatuses, TaskStatuses, DedupStates
<1>3. References
  BY <1>1 DEF References
<1>4. OneActiveRunPerTask /\ TaskMirrorsActiveRun
  BY <1>1 DEF OneActiveRunPerTask, TaskMirrorsActiveRun, ActiveRunsOf
<1>5. EventOpenIffRunActive /\ EachRunClaimedOnce
  BY <1>1 DEF EventOpenIffRunActive, EachRunClaimedOnce
<1>6. ActiveRunOnTaskThread /\ ActiveRunsAreOfEnabledUsers /\ OwedIffActive
  BY <1>1 DEF ActiveRunOnTaskThread, ActiveRunsAreOfEnabledUsers, OwedIffActive
<1> QED
  BY <1>2, <1>3, <1>4, <1>5, <1>6 DEF StoreInv

\* A fresh task and a fresh run are queued together under a fresh event.
LEMMA NewTaskKeeps ==
  ASSUME NEW k \in Keys, NEW t \in Tasks, NEW r \in Runs, NEW u \in Users,
         StoreInv, NewTask(k, t, r, u)
  PROVE  StoreInv'
<1> USE StateDBAssumption
<1> USE DEF StoreInv, TypeOK, DBTypeOK, References, Active, Terminal, RunStatuses,
            TaskStatuses, DedupStates, NewTask, AdmitNewTask, FirstDelivery
<1>1. TypeOK'
  OBVIOUS
<1>2. References'
  OBVIOUS
<1>3. OneActiveRunPerTask'
  BY DEF OneActiveRunPerTask
<1>4. TaskMirrorsActiveRun'
  BY DEF TaskMirrorsActiveRun, ActiveRunsOf
<1>5. EventOpenIffRunActive'
  BY DEF EventOpenIffRunActive
<1>6. EachRunClaimedOnce'
  BY DEF EachRunClaimedOnce
<1>7. ActiveRunOnTaskThread'
  BY DEF ActiveRunOnTaskThread
<1>8. ActiveRunsAreOfEnabledUsers'
  BY DEF ActiveRunsAreOfEnabledUsers
<1>9. OwedIffActive'
  BY DEF OwedIffActive
<1> QED
  BY <1>1, <1>2, <1>3, <1>4, <1>5, <1>6, <1>7, <1>8, <1>9

\* A continuation is admitted only on a task that has no active run.
LEMMA ResumeRunKeeps ==
  ASSUME NEW k \in Keys, NEW t \in Tasks, NEW r \in Runs, NEW u \in Users,
         StoreInv, ResumeRun(k, t, r, u)
  PROVE  StoreInv'
<1> USE StateDBAssumption
<1> USE DEF StoreInv, TypeOK, DBTypeOK, References, Active, Terminal, RunStatuses,
            TaskStatuses, DedupStates, ResumeRun, AdmitResumeRun, ResumeRejected, CanStart, FirstDelivery
<1>1. TypeOK'
  OBVIOUS
<1>2. References'
  OBVIOUS
<1>3. OneActiveRunPerTask'
  BY DEF OneActiveRunPerTask, ActiveRunsOf
<1>4. TaskMirrorsActiveRun'
  BY DEF TaskMirrorsActiveRun, ActiveRunsOf
<1>5. EventOpenIffRunActive'
  BY DEF EventOpenIffRunActive, ActiveRunsOf
<1>6. EachRunClaimedOnce'
  BY DEF EachRunClaimedOnce, ActiveRunsOf
<1>7. ActiveRunOnTaskThread'
  BY DEF ActiveRunOnTaskThread, ActiveRunsOf
<1>8. ActiveRunsAreOfEnabledUsers'
  BY DEF ActiveRunsAreOfEnabledUsers, ActiveRunsOf
<1>9. OwedIffActive'
  BY DEF OwedIffActive, ActiveRunsOf
<1> QED
  BY <1>1, <1>2, <1>3, <1>4, <1>5, <1>6, <1>7, <1>8, <1>9

\* A refused continuation only spends its event.
LEMMA RefuseResumeKeeps ==
  ASSUME NEW k \in Keys, NEW t \in Tasks, NEW u \in Users,
         StoreInv, RefuseResume(k, t, u)
  PROVE  StoreInv'
<1> USE StateDBAssumption
<1> USE DEF StoreInv, TypeOK, DBTypeOK, References, Active, Terminal, RunStatuses,
            TaskStatuses, DedupStates, RefuseResume, RejectResume, FirstDelivery, taskVars, runVars
<1>1. TypeOK'
  OBVIOUS
<1>2. References'
  OBVIOUS
<1>3. OneActiveRunPerTask'
  BY DEF OneActiveRunPerTask
<1>4. TaskMirrorsActiveRun'
  BY DEF TaskMirrorsActiveRun, ActiveRunsOf
<1>5. EventOpenIffRunActive'
  BY DEF EventOpenIffRunActive
<1>6. EachRunClaimedOnce'
  BY DEF EachRunClaimedOnce
<1>7. ActiveRunOnTaskThread'
  BY DEF ActiveRunOnTaskThread
<1>8. ActiveRunsAreOfEnabledUsers'
  BY DEF ActiveRunsAreOfEnabledUsers
<1>9. OwedIffActive'
  BY DEF OwedIffActive
<1> QED
  BY <1>1, <1>2, <1>3, <1>4, <1>5, <1>6, <1>7, <1>8, <1>9

\* An attached task is idle and has no run.
LEMMA AttachKeeps ==
  ASSUME NEW k \in Keys, NEW t \in Tasks, NEW th \in Threads, NEW u \in Users,
         StoreInv, Attach(k, t, th, u)
  PROVE  StoreInv'
<1> USE StateDBAssumption
<1> USE DEF StoreInv, TypeOK, DBTypeOK, References, Active, Terminal, RunStatuses,
            TaskStatuses, DedupStates, Attach, AttachThread, FirstDelivery, runVars
<1>1. TypeOK'
  OBVIOUS
<1>2. References'
  OBVIOUS
<1>3. OneActiveRunPerTask'
  BY DEF OneActiveRunPerTask
<1>4. TaskMirrorsActiveRun'
  BY DEF TaskMirrorsActiveRun, ActiveRunsOf
<1>5. EventOpenIffRunActive'
  BY DEF EventOpenIffRunActive
<1>6. EachRunClaimedOnce'
  BY DEF EachRunClaimedOnce
<1>7. ActiveRunOnTaskThread'
  BY DEF ActiveRunOnTaskThread
<1>8. ActiveRunsAreOfEnabledUsers'
  BY DEF ActiveRunsAreOfEnabledUsers
<1>9. OwedIffActive'
  BY DEF OwedIffActive
<1> QED
  BY <1>1, <1>2, <1>3, <1>4, <1>5, <1>6, <1>7, <1>8, <1>9

\* A restart only spends its event.
LEMMA RestartKeeps ==
  ASSUME NEW k \in Keys,
         StoreInv, Restart(k)
  PROVE  StoreInv'
<1> USE StateDBAssumption
<1> USE DEF StoreInv, TypeOK, DBTypeOK, References, Active, Terminal, RunStatuses,
            TaskStatuses, DedupStates, Restart, AdmitRestart, FirstDelivery, taskVars, runVars
<1>1. TypeOK'
  OBVIOUS
<1>2. References'
  OBVIOUS
<1>3. OneActiveRunPerTask'
  BY DEF OneActiveRunPerTask
<1>4. TaskMirrorsActiveRun'
  BY DEF TaskMirrorsActiveRun, ActiveRunsOf
<1>5. EventOpenIffRunActive'
  BY DEF EventOpenIffRunActive
<1>6. EachRunClaimedOnce'
  BY DEF EachRunClaimedOnce
<1>7. ActiveRunOnTaskThread'
  BY DEF ActiveRunOnTaskThread
<1>8. ActiveRunsAreOfEnabledUsers'
  BY DEF ActiveRunsAreOfEnabledUsers
<1>9. OwedIffActive'
  BY DEF OwedIffActive
<1> QED
  BY <1>1, <1>2, <1>3, <1>4, <1>5, <1>6, <1>7, <1>8, <1>9

\* The run and its task start, and learn their thread, together.
LEMMA MarkStartedKeeps ==
  ASSUME NEW r \in Runs, NEW th \in Threads, NEW tn \in Turns \cup {None},
         StoreInv, MarkStarted(r, th, tn)
  PROVE  StoreInv'
<1> USE StateDBAssumption
<1> USE DEF StoreInv, TypeOK, DBTypeOK, References, Active, Terminal, RunStatuses,
            TaskStatuses, DedupStates, MarkStarted, StartRun, Coalesce, dedupVars
<1> DEFINE t == runTask[r]
<1>a. /\ runStatus[r] \in Active /\ t \in Tasks /\ taskStatus[t] \in Active
      /\ \A q \in Runs : runStatus[q] \in Active /\ runTask[q] = t => q = r
  BY DEF OwedIffActive, TaskMirrorsActiveRun, OneActiveRunPerTask
<1>1. TypeOK'
  BY <1>a
<1>2. References'
  BY <1>a
<1>3. OneActiveRunPerTask'
  BY <1>a DEF OneActiveRunPerTask
<1>4. TaskMirrorsActiveRun'
  BY <1>a DEF TaskMirrorsActiveRun, ActiveRunsOf
<1>5. EventOpenIffRunActive'
  BY <1>a DEF EventOpenIffRunActive
<1>6. EachRunClaimedOnce'
  BY <1>a DEF EachRunClaimedOnce
<1>7. ActiveRunOnTaskThread'
  BY <1>a DEF ActiveRunOnTaskThread
<1>8. ActiveRunsAreOfEnabledUsers'
  BY <1>a DEF ActiveRunsAreOfEnabledUsers
<1>9. OwedIffActive'
  BY <1>a DEF OwedIffActive
<1> QED
  BY <1>1, <1>2, <1>3, <1>4, <1>5, <1>6, <1>7, <1>8, <1>9

\* The owed run is the active one, and its key is the one the event row names.
LEMMA FinishKeeps ==
  ASSUME NEW r \in Runs, NEW status \in Terminal, NEW th \in Threads \cup {None},
         NEW tn \in Turns \cup {None},
         StoreInv, Finish(r, status, th, tn)
  PROVE  StoreInv'
<1> USE StateDBAssumption
<1> USE DEF StoreInv, TypeOK, DBTypeOK, References, Active, Terminal, RunStatuses,
            TaskStatuses, DedupStates, Finish, FinishRun, Coalesce
<1> DEFINE t == runTask[r]
<1>a. /\ runStatus[r] \in Active /\ t \in Tasks /\ taskStatus[t] \in Active
      /\ \A q \in Runs : runStatus[q] \in Active /\ runTask[q] = t => q = r
  BY DEF OwedIffActive, TaskMirrorsActiveRun, OneActiveRunPerTask
<1>b. /\ owed[r] \in Keys /\ dedupRun[owed[r]] = r
      /\ \A k \in Keys : dedupRun[k] = r => k = owed[r]
  BY <1>a DEF OwedIffActive, EachRunClaimedOnce
<1>c. \A k \in Keys \ {owed[r]} : dedupRun[k] # r /\ dedupState'[k] = dedupState[k]
  BY <1>b
<1>d. dedupRun' = dedupRun
  BY <1>b
<1>1. TypeOK'
  BY <1>a, <1>b, <1>c, <1>d
<1>2. References'
  BY <1>a, <1>b, <1>c, <1>d
<1>3. OneActiveRunPerTask'
  BY <1>a, <1>b, <1>c, <1>d DEF OneActiveRunPerTask
<1>4. TaskMirrorsActiveRun'
  BY <1>a, <1>b, <1>c, <1>d DEF TaskMirrorsActiveRun, ActiveRunsOf
<1>5. EventOpenIffRunActive'
  BY <1>a, <1>b, <1>c, <1>d DEF EventOpenIffRunActive
<1>6. EachRunClaimedOnce'
  BY <1>a, <1>b, <1>c, <1>d DEF EachRunClaimedOnce
<1>7. ActiveRunOnTaskThread'
  BY <1>a, <1>b, <1>c, <1>d DEF ActiveRunOnTaskThread
<1>8. ActiveRunsAreOfEnabledUsers'
  BY <1>a, <1>b, <1>c, <1>d DEF ActiveRunsAreOfEnabledUsers
<1>9. OwedIffActive'
  BY <1>a, <1>b, <1>c, <1>d DEF OwedIffActive
<1> QED
  BY <1>1, <1>2, <1>3, <1>4, <1>5, <1>6, <1>7, <1>8, <1>9

\* Root cards touch nothing the invariant reads.
LEMMA RecordRootKeeps ==
  ASSUME NEW t \in Tasks, NEW c \in Cards,
         StoreInv, RecordRoot(t, c)
  PROVE  StoreInv'
<1> USE StateDBAssumption
<1> USE DEF StoreInv, TypeOK, DBTypeOK, References, Active, Terminal, RunStatuses,
            TaskStatuses, DedupStates, RecordRoot, SetTaskRootMessageID, runVars, dedupVars
<1>1. TypeOK'
  OBVIOUS
<1>2. References'
  OBVIOUS
<1>3. OneActiveRunPerTask'
  BY DEF OneActiveRunPerTask
<1>4. TaskMirrorsActiveRun'
  BY DEF TaskMirrorsActiveRun, ActiveRunsOf
<1>5. EventOpenIffRunActive'
  BY DEF EventOpenIffRunActive
<1>6. EachRunClaimedOnce'
  BY DEF EachRunClaimedOnce
<1>7. ActiveRunOnTaskThread'
  BY DEF ActiveRunOnTaskThread
<1>8. ActiveRunsAreOfEnabledUsers'
  BY DEF ActiveRunsAreOfEnabledUsers
<1>9. OwedIffActive'
  BY DEF OwedIffActive
<1> QED
  BY <1>1, <1>2, <1>3, <1>4, <1>5, <1>6, <1>7, <1>8, <1>9

\* Routes touch nothing the invariant reads.
LEMMA RecordRouteKeeps ==
  ASSUME NEW c \in Cards, NEW t \in Tasks,
         StoreInv, RecordRoute(c, t)
  PROVE  StoreInv'
<1> USE StateDBAssumption
<1> USE DEF StoreInv, TypeOK, DBTypeOK, References, Active, Terminal, RunStatuses,
            TaskStatuses, DedupStates, RecordRoute, InsertMessageRoute, taskVars, runVars, dedupVars
<1>1. TypeOK'
  OBVIOUS
<1>2. References'
  OBVIOUS
<1>3. OneActiveRunPerTask'
  BY DEF OneActiveRunPerTask
<1>4. TaskMirrorsActiveRun'
  BY DEF TaskMirrorsActiveRun, ActiveRunsOf
<1>5. EventOpenIffRunActive'
  BY DEF EventOpenIffRunActive
<1>6. EachRunClaimedOnce'
  BY DEF EachRunClaimedOnce
<1>7. ActiveRunOnTaskThread'
  BY DEF ActiveRunOnTaskThread
<1>8. ActiveRunsAreOfEnabledUsers'
  BY DEF ActiveRunsAreOfEnabledUsers
<1>9. OwedIffActive'
  BY DEF OwedIffActive
<1> QED
  BY <1>1, <1>2, <1>3, <1>4, <1>5, <1>6, <1>7, <1>8, <1>9

\* The allowlist changes only while nothing is served.
LEMMA StartupUsersKeeps ==
  ASSUME NEW allowed \in SUBSET Users,
         StoreInv, StartupUsers(allowed)
  PROVE  StoreInv'
<1> USE StateDBAssumption
<1> USE DEF StoreInv, TypeOK, DBTypeOK, References, Active, Terminal, RunStatuses,
            TaskStatuses, DedupStates, StartupUsers, RefreshUsers, taskVars, runVars, dedupVars
<1>1. TypeOK'
  OBVIOUS
<1>2. References'
  OBVIOUS
<1>3. OneActiveRunPerTask'
  BY DEF OneActiveRunPerTask
<1>4. TaskMirrorsActiveRun'
  BY DEF TaskMirrorsActiveRun, ActiveRunsOf
<1>5. EventOpenIffRunActive'
  BY DEF EventOpenIffRunActive
<1>6. EachRunClaimedOnce'
  BY DEF EachRunClaimedOnce
<1>7. ActiveRunOnTaskThread'
  BY DEF ActiveRunOnTaskThread
<1>8. ActiveRunsAreOfEnabledUsers'
  BY DEF ActiveRunsAreOfEnabledUsers
<1>9. OwedIffActive'
  BY DEF OwedIffActive
<1> QED
  BY <1>1, <1>2, <1>3, <1>4, <1>5, <1>6, <1>7, <1>8, <1>9

\* Recovery fails every active row of the three tables.
LEMMA StartupRecoverKeeps ==
  ASSUME StoreInv, StartupRecover
  PROVE  StoreInv'
<1> USE StateDBAssumption
<1> USE DEF StoreInv, TypeOK, DBTypeOK, References, Active, Terminal, RunStatuses,
            TaskStatuses, DedupStates, StartupRecover, RecoverRunning
<1>1. TypeOK'
  OBVIOUS
<1>2. References'
  OBVIOUS
<1>3. OneActiveRunPerTask'
  BY DEF OneActiveRunPerTask
<1>4. TaskMirrorsActiveRun'
  BY DEF TaskMirrorsActiveRun, ActiveRunsOf
<1>5. EventOpenIffRunActive'
  BY DEF EventOpenIffRunActive
<1>6. EachRunClaimedOnce'
  BY DEF EachRunClaimedOnce
<1>7. ActiveRunOnTaskThread'
  BY DEF ActiveRunOnTaskThread
<1>8. ActiveRunsAreOfEnabledUsers'
  BY DEF ActiveRunsAreOfEnabledUsers
<1>9. OwedIffActive'
  BY DEF OwedIffActive
<1> QED
  BY <1>1, <1>2, <1>3, <1>4, <1>5, <1>6, <1>7, <1>8, <1>9

\* A process that exits keeps the tables and owes nothing.
LEMMA ExitKeeps ==
  ASSUME StoreInv, Exit
  PROVE  StoreInv'
<1> USE StateDBAssumption
<1> USE DEF StoreInv, TypeOK, DBTypeOK, References, Active, Terminal, RunStatuses,
            TaskStatuses, DedupStates, Exit, dbVars
<1>1. TypeOK'
  OBVIOUS
<1>2. References'
  OBVIOUS
<1>3. OneActiveRunPerTask'
  BY DEF OneActiveRunPerTask
<1>4. TaskMirrorsActiveRun'
  BY DEF TaskMirrorsActiveRun, ActiveRunsOf
<1>5. EventOpenIffRunActive'
  BY DEF EventOpenIffRunActive
<1>6. EachRunClaimedOnce'
  BY DEF EachRunClaimedOnce
<1>7. ActiveRunOnTaskThread'
  BY DEF ActiveRunOnTaskThread
<1>8. ActiveRunsAreOfEnabledUsers'
  BY DEF ActiveRunsAreOfEnabledUsers
<1>9. OwedIffActive'
  BY DEF OwedIffActive
<1> QED
  BY <1>1, <1>2, <1>3, <1>4, <1>5, <1>6, <1>7, <1>8, <1>9

-----------------------------------------------------------------------------
\* StoreInv is inductive: every step of the callers keeps it.
LEMMA StepKeeps == StoreInv /\ [Next]_vars => StoreInv'
<1> SUFFICES ASSUME StoreInv, [Next]_vars PROVE StoreInv'
  OBVIOUS
<1>1. CASE UNCHANGED vars
  BY <1>1 DEF vars, dbVars, StoreInv, TypeOK, DBTypeOK, References, OneActiveRunPerTask,
    TaskMirrorsActiveRun, ActiveRunsOf, EventOpenIffRunActive, EachRunClaimedOnce,
    ActiveRunOnTaskThread, ActiveRunsAreOfEnabledUsers, OwedIffActive
<1>2. CASE Next
  BY <1>2, NewTaskKeeps, ResumeRunKeeps, RefuseResumeKeeps, AttachKeeps, RestartKeeps,
    MarkStartedKeeps, FinishKeeps, RecordRootKeeps, RecordRouteKeeps, StartupUsersKeeps,
    StartupRecoverKeeps, ExitKeeps DEF Next
<1> QED
  BY <1>1, <1>2

\* The inductive invariant of the state database holds in every behaviour of
\* the callers, crashes and restarts included.
THEOREM StoreInvariant == Spec => []StoreInv
<1>1. Init => StoreInv
  BY InitEstablishes
<1>2. StoreInv /\ [Next]_vars => StoreInv'
  BY StepKeeps
<1> QED
  BY <1>1, <1>2, PTL DEF Spec

\* Every row has the columns the schema's constraints allow.
THEOREM StoreTypeCorrect == Spec => []TypeOK
<1>1. StoreInv => TypeOK
  BY DEF StoreInv
<1> QED
  BY <1>1, StoreInvariant, PTL

\* No task ever has two active runs.
THEOREM OneActiveRun == Spec => []OneActiveRunPerTask
<1>1. StoreInv => OneActiveRunPerTask
  BY DEF StoreInv
<1> QED
  BY <1>1, StoreInvariant, PTL

\* tasks.status and runs.status never disagree about what is active.
THEOREM TaskMirrorsRun == Spec => []TaskMirrorsActiveRun
<1>1. StoreInv => TaskMirrorsActiveRun
  BY DEF StoreInv
<1> QED
  BY <1>1, StoreInvariant, PTL

\* An event is open exactly while the run it admitted is active.
THEOREM EventsOpenWithTheirRun == Spec => []EventOpenIffRunActive
<1>1. StoreInv => EventOpenIffRunActive
  BY DEF StoreInv
<1> QED
  BY <1>1, StoreInvariant, PTL

\* Each run was admitted by one event, and no event admits two runs.
THEOREM EventsClaimOnce == Spec => []EachRunClaimedOnce
<1>1. StoreInv => EachRunClaimedOnce
  BY DEF StoreInv
<1> QED
  BY <1>1, StoreInvariant, PTL

\* The process owes a FinishRun for exactly the active runs, so a run is never
\* left behind by the process that admitted it and never finished twice.
THEOREM FinishesAreOwed == Spec => []OwedIffActive
<1>1. StoreInv => OwedIffActive
  BY DEF StoreInv
<1> QED
  BY <1>1, StoreInvariant, PTL

\* An active run and its task are on the same Codex thread.
THEOREM RunOnTaskThread == Spec => []ActiveRunOnTaskThread
<1>1. StoreInv => ActiveRunOnTaskThread
  BY DEF StoreInv
<1> QED
  BY <1>1, StoreInvariant, PTL

\* A user taken off the allowlist has no active run once the bridge serves.
THEOREM OnlyEnabledUsersRun == Spec => []ActiveRunsAreOfEnabledUsers
<1>1. StoreInv => ActiveRunsAreOfEnabledUsers
  BY DEF StoreInv
<1> QED
  BY <1>1, StoreInvariant, PTL

-----------------------------------------------------------------------------
\* The steps as the runs table sees them: each leaves the terminal runs alone.
LEMMA StepSparesTerminalRuns ==
  ASSUME StoreInv, [Next]_vars, NEW r \in Runs, runStatus[r] \in Terminal
  PROVE  runStatus'[r] = runStatus[r]
<1> USE DEF Terminal, Active
<1>1. runStatus \in [Runs -> RunStatuses]
  BY DEF StoreInv, TypeOK, DBTypeOK
<1>2. CASE UNCHANGED vars
  BY <1>2 DEF vars, dbVars
<1>3. ASSUME NEW k \in Keys, NEW t \in Tasks, NEW q \in Runs, NEW u \in Users,
             NewTask(k, t, q, u) \/ ResumeRun(k, t, q, u)
      PROVE  runStatus'[r] = runStatus[r]
  BY <1>1, <1>3 DEF NewTask, AdmitNewTask, ResumeRun, AdmitResumeRun
<1>4. ASSUME NEW q \in Runs, NEW th \in Threads, NEW tn \in Turns \cup {None}, MarkStarted(q, th, tn)
      PROVE  runStatus'[r] = runStatus[r]
  BY <1>1, <1>4 DEF MarkStarted, StartRun
<1>5. ASSUME NEW q \in Runs, NEW status \in Terminal, NEW th \in Threads \cup {None},
             NEW tn \in Turns \cup {None}, Finish(q, status, th, tn)
      PROVE  runStatus'[r] = runStatus[r]
  <2>1. runStatus[q] \in Active
    BY <1>5 DEF StoreInv, OwedIffActive, Finish
  <2> QED
    BY <1>1, <1>5, <2>1 DEF Finish, FinishRun
<1>6. CASE StartupRecover
  BY <1>1, <1>6 DEF StartupRecover, RecoverRunning
<1>7. ASSUME Exit \/ (\E allowed \in SUBSET Users : StartupUsers(allowed))
             \/ (\E k \in Keys, t \in Tasks, u \in Users : RefuseResume(k, t, u))
             \/ (\E k \in Keys, t \in Tasks, th \in Threads, u \in Users : Attach(k, t, th, u))
             \/ (\E k \in Keys : Restart(k))
             \/ (\E t \in Tasks, c \in Cards : RecordRoot(t, c))
             \/ (\E c \in Cards, t \in Tasks : RecordRoute(c, t))
      PROVE  runStatus'[r] = runStatus[r]
  BY <1>7 DEF Exit, dbVars, StartupUsers, RefreshUsers, RefuseResume, RejectResume, Attach,
    AttachThread, Restart, AdmitRestart, RecordRoot, SetTaskRootMessageID, RecordRoute,
    InsertMessageRoute, runVars
<1> QED
  BY <1>2, <1>3, <1>4, <1>5, <1>6, <1>7 DEF Next

\* Nothing rewrites the outcome of a run: neither a late StartRun of a launch
\* that lost the race, nor a second FinishRun, nor the recovery at startup.
THEOREM TerminalRunsAreFinal == Spec => TerminalRunsFinal
<1>1. StoreInv /\ [Next]_vars =>
        [\A r \in Runs : runStatus[r] \in Terminal => runStatus'[r] = runStatus[r]]_vars
  BY StepSparesTerminalRuns
<1> QED
  BY <1>1, StoreInvariant, PTL DEF Spec, TerminalRunsFinal

\* What a step may do to the thread of a task: set it, never clear it.
LEMMA StepKeepsThread ==
  ASSUME StoreInv, [Next]_vars, NEW t \in Tasks, taskThread[t] # None
  PROVE  taskThread'[t] # None
<1> USE StateDBAssumption
<1>1. taskThread \in [Tasks -> Threads \cup {None}]
  BY DEF StoreInv, TypeOK, DBTypeOK
<1>2. CASE UNCHANGED vars
  BY <1>2 DEF vars, dbVars
<1>3. ASSUME NEW r \in Runs, NEW th \in Threads, NEW tn \in Turns \cup {None}, MarkStarted(r, th, tn)
      PROVE  taskThread'[t] # None
  BY <1>1, <1>3 DEF MarkStarted, StartRun, Coalesce
<1>4. ASSUME NEW r \in Runs, NEW status \in Terminal, NEW th \in Threads \cup {None},
             NEW tn \in Turns \cup {None}, Finish(r, status, th, tn)
      PROVE  taskThread'[t] # None
  BY <1>1, <1>4 DEF Finish, FinishRun, Coalesce
<1>5. ASSUME NEW k \in Keys, NEW q \in Tasks, NEW th \in Threads, NEW u \in Users, Attach(k, q, th, u)
      PROVE  taskThread'[t] # None
  BY <1>1, <1>5 DEF Attach, AttachThread
<1>6. ASSUME Exit \/ StartupRecover
             \/ (\E allowed \in SUBSET Users : StartupUsers(allowed))
             \/ (\E k \in Keys, q \in Tasks, r \in Runs, u \in Users :
                   NewTask(k, q, r, u) \/ ResumeRun(k, q, r, u))
             \/ (\E k \in Keys, q \in Tasks, u \in Users : RefuseResume(k, q, u))
             \/ (\E k \in Keys : Restart(k))
             \/ (\E q \in Tasks, c \in Cards : RecordRoot(q, c))
             \/ (\E c \in Cards, q \in Tasks : RecordRoute(c, q))
      PROVE  taskThread'[t] # None
  BY <1>6 DEF Exit, dbVars, StartupUsers, RefreshUsers, StartupRecover, RecoverRunning, NewTask,
    AdmitNewTask, ResumeRun, AdmitResumeRun, RefuseResume, RejectResume, Restart, AdmitRestart,
    RecordRoot, SetTaskRootMessageID, RecordRoute, InsertMessageRoute, taskVars
<1> QED
  BY <1>2, <1>3, <1>4, <1>5, <1>6 DEF Next

\* A task that has a Codex thread stays resumable for ever.
THEOREM ThreadsAreKept == Spec => ThreadNeverLost
<1>1. StoreInv /\ [Next]_vars => [\A t \in Tasks : taskThread[t] # None => taskThread'[t] # None]_vars
  BY StepKeepsThread
<1> QED
  BY <1>1, StoreInvariant, PTL DEF Spec, ThreadNeverLost

-----------------------------------------------------------------------------
\* Every step of the database is a step, or a stutter, of the life of the runs.
LEMMA StepImplements ==
  ASSUME StoreInv, [Next]_vars
  PROVE  [Lifecycle!Next]_(Lifecycle!lifecycleVars)
<1> USE StateDBAssumption
<1> USE DEF Lifecycle!Next, Lifecycle!lifecycleVars, Lifecycle!Unfinished, Active, Terminal
<1>1. runStatus \in [Runs -> RunStatuses] /\ dedupRun \in [Keys -> Runs \cup {None}]
  BY DEF StoreInv, TypeOK, DBTypeOK
<1>2. CASE UNCHANGED vars
  BY <1>2 DEF vars, dbVars
<1>3. ASSUME NEW k \in Keys, NEW t \in Tasks, NEW r \in Runs, NEW u \in Users, NewTask(k, t, r, u)
      PROVE  Lifecycle!Admit(k, r, t)
  <2>1. \A q \in Runs : runTask[q] = t => runStatus[q] \notin Active
    BY <1>1, <1>3 DEF StoreInv, References, NewTask, AdmitNewTask, RunStatuses
  <2> QED
    BY <1>3, <2>1 DEF Lifecycle!Admit, NewTask, AdmitNewTask, FirstDelivery, StoreInv, References
<1>4. ASSUME NEW k \in Keys, NEW t \in Tasks, NEW r \in Runs, NEW u \in Users, ResumeRun(k, t, r, u)
      PROVE  Lifecycle!Admit(k, r, t)
  BY <1>4 DEF Lifecycle!Admit, ResumeRun, AdmitResumeRun, ResumeRejected, ActiveRunsOf,
    FirstDelivery, StoreInv, References
<1>5. ASSUME NEW r \in Runs, NEW th \in Threads, NEW tn \in Turns \cup {None}, MarkStarted(r, th, tn)
      PROVE  Lifecycle!Start(r) \/ UNCHANGED Lifecycle!lifecycleVars
  BY <1>1, <1>5 DEF Lifecycle!Start, MarkStarted, StartRun, dedupVars
<1>6. ASSUME NEW r \in Runs, NEW status \in Terminal, NEW th \in Threads \cup {None},
             NEW tn \in Turns \cup {None}, Finish(r, status, th, tn)
      PROVE  Lifecycle!Finish(r, status)
  BY <1>1, <1>6 DEF Lifecycle!Finish, Finish, FinishRun, StoreInv, OwedIffActive
<1>7. CASE StartupRecover
  BY <1>7 DEF Lifecycle!Abandon, StartupRecover, RecoverRunning
<1>8. ASSUME Exit \/ (\E allowed \in SUBSET Users : StartupUsers(allowed))
             \/ (\E k \in Keys, t \in Tasks, u \in Users : RefuseResume(k, t, u))
             \/ (\E k \in Keys, t \in Tasks, th \in Threads, u \in Users : Attach(k, t, th, u))
             \/ (\E k \in Keys : Restart(k))
             \/ (\E t \in Tasks, c \in Cards : RecordRoot(t, c))
             \/ (\E c \in Cards, t \in Tasks : RecordRoute(c, t))
      PROVE  UNCHANGED Lifecycle!lifecycleVars
  BY <1>8 DEF Exit, dbVars, StartupUsers, RefreshUsers, RefuseResume, RejectResume, Attach,
    AttachThread, Restart, AdmitRestart, RecordRoot, SetTaskRootMessageID, RecordRoute,
    InsertMessageRoute, runVars, dedupVars
<1> QED
  BY <1>2, <1>3, <1>4, <1>5, <1>6, <1>7, <1>8 DEF Next

\* The state database implements the promise about runs: admitted once by one
\* event onto a free task, started and ended at most once.
THEOREM StoreImplementsLifecycle == Spec => ImplementsLifecycle
<1>1. Init => Lifecycle!Init
  BY DEF Init, EmptyDB, Lifecycle!Init
<1>2. StoreInv /\ [Next]_vars => [Lifecycle!Next]_(Lifecycle!lifecycleVars)
  BY StepImplements
<1> QED
  BY <1>1, <1>2, StoreInvariant, PTL DEF Spec, ImplementsLifecycle, Lifecycle!Spec
=============================================================================
