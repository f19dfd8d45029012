------------------------------- MODULE StateDB -------------------------------
(***************************************************************************)
(* The SQLite state database of the bridge (internal/store): its tables as *)
(* one variable per column the program decides on, and every operation of  *)
(* Store as one action.  An operation is one SQLite transaction, and the   *)
(* pool holds one connection, so each is one atomic step; an operation     *)
(* that returns an error rolls back and leaves the tables alone.           *)
(*                                                                         *)
(* The module has no Init or Next of its own beyond the empty database:    *)
(* BridgeStore adds the callers' discipline, Bridge the callers themselves.*)
(***************************************************************************)
CONSTANTS
  Tasks,    \* task ids (router.newTaskID draws fresh ones)
  Runs,     \* run ids (router.newRunID draws fresh ones)
  Keys,     \* dedup keys of inbound Feishu events
  Users,    \* Feishu open ids
  Threads,  \* Codex thread ids
  Turns,    \* Codex turn ids
  Cards,    \* Feishu message ids of cards
  None      \* the empty string / SQL NULL

ASSUME StateDBAssumption ==
  None \notin Tasks \cup Runs \cup Keys \cup Users \cup Threads \cup Turns \cup Cards

VARIABLES
  taskStatus,  \* tasks.status, "absent" when there is no row
  taskThread,  \* tasks.codex_thread_id
  taskOwner,   \* tasks.created_by
  taskRoot,    \* tasks.root_message_id
  runStatus,   \* runs.status, "absent" when there is no row
  runTask,     \* runs.task_id
  runKind,     \* runs.kind
  runThread,   \* runs.codex_thread_id
  runTurn,     \* runs.codex_turn_id
  dedupState,  \* event_dedup.state, "absent" when there is no row
  dedupRun,    \* event_dedup.run_id
  routeTask,   \* message_routes.task_id by card
  enabled      \* the users rows with enabled = 1

taskVars  == <<taskStatus, taskThread, taskOwner, taskRoot>>
runVars   == <<runStatus, runTask, runKind, runThread, runTurn>>
dedupVars == <<dedupState, dedupRun>>
dbVars    == <<taskStatus, taskThread, taskOwner, taskRoot, runStatus, runTask,
               runKind, runThread, runTurn, dedupState, dedupRun, routeTask, enabled>>

Active       == {"queued", "running"}
Terminal     == {"succeeded", "failed", "canceled"}
RunStatuses  == {"absent"} \cup Active \cup Terminal
TaskStatuses == RunStatuses \cup {"idle"}
DedupStates  == {"absent", "processing", "completed", "failed"}

\* The CHECK, NOT NULL and REFERENCES constraints of the schema.
DBTypeOK ==
  /\ taskStatus \in [Tasks -> TaskStatuses]
  /\ taskThread \in [Tasks -> Threads \cup {None}]
  /\ taskOwner  \in [Tasks -> Users \cup {None}]
  /\ taskRoot   \in [Tasks -> Cards \cup {None}]
  /\ runStatus  \in [Runs -> RunStatuses]
  /\ runTask    \in [Runs -> Tasks \cup {None}]
  /\ runKind    \in [Runs -> {"none", "new", "resume"}]
  /\ runThread  \in [Runs -> Threads \cup {None}]
  /\ runTurn    \in [Runs -> Turns \cup {None}]
  /\ dedupState \in [Keys -> DedupStates]
  /\ dedupRun   \in [Keys -> Runs \cup {None}]
  /\ routeTask  \in [Cards -> Tasks \cup {None}]
  /\ enabled    \in SUBSET Users

EmptyDB ==
  /\ taskStatus = [t \in Tasks |-> "absent"]
  /\ taskThread = [t \in Tasks |-> None]
  /\ taskOwner  = [t \in Tasks |-> None]
  /\ taskRoot   = [t \in Tasks |-> None]
  /\ runStatus  = [r \in Runs |-> "absent"]
  /\ runTask    = [r \in Runs |-> None]
  /\ runKind    = [r \in Runs |-> "none"]
  /\ runThread  = [r \in Runs |-> None]
  /\ runTurn    = [r \in Runs |-> None]
  /\ dedupState = [k \in Keys |-> "absent"]
  /\ dedupRun   = [k \in Keys |-> None]
  /\ routeTask  = [c \in Cards |-> None]
  /\ enabled    = {}

\* SQL COALESCE(NULLIF(new,''), old).
Coalesce(new, old) == IF new = None THEN old ELSE new

\* insertDedup: INSERT OR IGNORE changed a row.
FirstDelivery(k) == dedupState[k] = "absent"

\* taskCanStart.
CanStart(t) == taskStatus[t] \in {"idle"} \cup Terminal

\* The runs the partial unique index runs_one_active_per_task covers.
ActiveRunsOf(t) == {r \in Runs : runTask[r] = t /\ runStatus[r] \in Active}

\* HasActiveTask.
HasActiveTask == \E t \in Tasks : taskStatus[t] \in Active

-----------------------------------------------------------------------------
\* AdmitNewTask on a first delivery; on a replay the operation changes nothing.
AdmitNewTask(k, t, r, u) ==
  /\ FirstDelivery(k)
  /\ taskStatus[t] = "absent" /\ runStatus[r] = "absent"
  /\ taskStatus' = [taskStatus EXCEPT ![t] = "queued"]
  /\ taskOwner'  = [taskOwner  EXCEPT ![t] = u]
  /\ runStatus'  = [runStatus  EXCEPT ![r] = "queued"]
  /\ runTask'    = [runTask    EXCEPT ![r] = t]
  /\ runKind'    = [runKind    EXCEPT ![r] = "new"]
  /\ dedupState' = [dedupState EXCEPT ![k] = "processing"]
  /\ dedupRun'   = [dedupRun   EXCEPT ![k] = r]
  /\ UNCHANGED <<taskThread, taskRoot, runThread, runTurn, routeTask, enabled>>

\* AttachThread on a first delivery: an idle task that already has a thread.
\* Nothing makes codex_thread_id unique, so two tasks may share a thread.
AttachThread(k, t, th, u) ==
  /\ FirstDelivery(k)
  /\ taskStatus[t] = "absent"
  /\ taskStatus' = [taskStatus EXCEPT ![t] = "idle"]
  /\ taskThread' = [taskThread EXCEPT ![t] = th]
  /\ taskOwner'  = [taskOwner  EXCEPT ![t] = u]
  /\ dedupState' = [dedupState EXCEPT ![k] = "completed"]
  /\ UNCHANGED <<taskRoot, runVars, dedupRun, routeTask, enabled>>

\* AdmitRestart on a first delivery.
AdmitRestart(k) ==
  /\ FirstDelivery(k)
  /\ dedupState' = [dedupState EXCEPT ![k] = "completed"]
  /\ UNCHANGED <<taskVars, runVars, dedupRun, routeTask, enabled>>

\* Mutant: neither the status nor the unique index stops a second active run.
ResumeRejectedIgnoringActive(t, u) ==
  taskStatus[t] = "absent" \/ taskOwner[t] # u \/ taskThread[t] = None

\* The reasons AdmitResumeRun rejects a first delivery for: route miss, creator
\* mismatch, missing thread, active run (by status, or by the unique index).
ResumeRejected(t, u) ==
  \/ taskStatus[t] = "absent"
  \/ taskOwner[t] # u
  \/ taskThread[t] = None
  \/ ~CanStart(t)
  \/ ActiveRunsOf(t) # {}

\* AdmitResumeRun, rejected: the delivery is spent as failed.
RejectResume(k, t, u) ==
  /\ FirstDelivery(k)
  /\ ResumeRejected(t, u)
  /\ dedupState' = [dedupState EXCEPT ![k] = "failed"]
  /\ UNCHANGED <<taskVars, runVars, dedupRun, routeTask, enabled>>

\* Mutant: the new run does not inherit the task's thread.
AdmitResumeRunWithoutThread(k, t, r, u) ==
  /\ FirstDelivery(k)
  /\ ~ResumeRejected(t, u)
  /\ runStatus[r] = "absent"
  /\ taskStatus' = [taskStatus EXCEPT ![t] = "queued"]
  /\ runStatus'  = [runStatus  EXCEPT ![r] = "queued"]
  /\ runTask'    = [runTask    EXCEPT ![r] = t]
  /\ runKind'    = [runKind    EXCEPT ![r] = "resume"]
  /\ dedupState' = [dedupState EXCEPT ![k] = "processing"]
  /\ dedupRun'   = [dedupRun   EXCEPT ![k] = r]
  /\ UNCHANGED <<taskThread, taskOwner, taskRoot, runThread, runTurn, routeTask, enabled>>

\* AdmitResumeRun, admitted: a queued run on the task's thread.
AdmitResumeRun(k, t, r, u) ==
  /\ FirstDelivery(k)
  /\ ~ResumeRejected(t, u)
  /\ runStatus[r] = "absent"
  /\ taskStatus' = [taskStatus EXCEPT ![t] = "queued"]
  /\ runStatus'  = [runStatus  EXCEPT ![r] = "queued"]
  /\ runTask'    = [runTask    EXCEPT ![r] = t]
  /\ runKind'    = [runKind    EXCEPT ![r] = "resume"]
  /\ runThread'  = [runThread  EXCEPT ![r] = taskThread[t]]
  /\ dedupState' = [dedupState EXCEPT ![k] = "processing"]
  /\ dedupRun'   = [dedupRun   EXCEPT ![k] = r]
  /\ UNCHANGED <<taskThread, taskOwner, taskRoot, runTurn, routeTask, enabled>>

\* Mutant: the second UPDATE, of the task, is forgotten.
StartRunWithoutTask(r, th, tn) ==
  /\ runStatus[r] \in Active
  /\ runStatus' = [runStatus EXCEPT ![r] = "running"]
  /\ runThread' = [runThread EXCEPT ![r] = Coalesce(th, @)]
  /\ runTurn'   = [runTurn   EXCEPT ![r] = Coalesce(tn, @)]
  /\ UNCHANGED <<taskVars, runTask, runKind, dedupVars, routeTask, enabled>>

\* StartRun: two guarded updates.  It fails with ErrNotFound, and rolls back,
\* unless the run is still queued or running.
StartRun(r, th, tn) ==
  LET t == runTask[r] IN
  /\ runStatus[r] \in Active
  /\ runStatus' = [runStatus EXCEPT ![r] = "running"]
  /\ runThread' = [runThread EXCEPT ![r] = Coalesce(th, @)]
  /\ runTurn'   = [runTurn   EXCEPT ![r] = Coalesce(tn, @)]
  /\ IF taskStatus[t] \in Active
       THEN /\ taskStatus' = [taskStatus EXCEPT ![t] = "running"]
            /\ taskThread' = [taskThread EXCEPT ![t] = Coalesce(th, @)]
       ELSE UNCHANGED <<taskStatus, taskThread>>
  /\ UNCHANGED <<taskOwner, taskRoot, runTask, runKind, dedupVars, routeTask, enabled>>

\* Mutant: the thread is overwritten even when the caller knows none.
FinishRunForgettingThread(k, r, status, th, tn) ==
  LET t == runTask[r] IN
  /\ runStatus[r] # "absent"
  /\ status \in Terminal
  /\ runStatus'  = [runStatus  EXCEPT ![r] = status]
  /\ runThread'  = [runThread  EXCEPT ![r] = th]
  /\ runTurn'    = [runTurn    EXCEPT ![r] = tn]
  /\ taskStatus' = [taskStatus EXCEPT ![t] = status]
  /\ taskThread' = [taskThread EXCEPT ![t] = th]
  /\ dedupState' = [dedupState EXCEPT ![k] = "completed"]
  /\ dedupRun'   = [dedupRun   EXCEPT ![k] = r]
  /\ UNCHANGED <<taskOwner, taskRoot, runTask, runKind, routeTask, enabled>>

\* Mutant: only a running run is finished, a queued one is left behind.
FinishRunIfRunning(k, r, status, th, tn) ==
  /\ runStatus[r] # "absent"
  /\ status \in Terminal
  /\ runStatus'  = [runStatus  EXCEPT ![r] = IF @ = "running" THEN status ELSE @]
  /\ runThread'  = [runThread  EXCEPT ![r] = Coalesce(th, @)]
  /\ runTurn'    = [runTurn    EXCEPT ![r] = Coalesce(tn, @)]
  /\ taskStatus' = [taskStatus EXCEPT ![runTask[r]] = IF @ = "running" THEN status ELSE @]
  /\ taskThread' = [taskThread EXCEPT ![runTask[r]] = Coalesce(th, @)]
  /\ dedupState' = [dedupState EXCEPT ![k] = "completed"]
  /\ dedupRun'   = [dedupRun   EXCEPT ![k] = r]
  /\ UNCHANGED <<taskOwner, taskRoot, runTask, runKind, routeTask, enabled>>

\* FinishRun: three updates without a guard on the current status.  The caller
\* passes the dedup key of the event that admitted the run.
FinishRun(k, r, status, th, tn) ==
  LET t == runTask[r] IN
  /\ runStatus[r] # "absent"
  /\ status \in Terminal
  /\ runStatus'  = [runStatus  EXCEPT ![r] = status]
  /\ runThread'  = [runThread  EXCEPT ![r] = Coalesce(th, @)]
  /\ runTurn'    = [runTurn    EXCEPT ![r] = Coalesce(tn, @)]
  /\ taskStatus' = [taskStatus EXCEPT ![t] = status]
  /\ taskThread' = [taskThread EXCEPT ![t] = Coalesce(th, @)]
  /\ dedupState' = [dedupState EXCEPT ![k] = "completed"]
  /\ dedupRun'   = [dedupRun   EXCEPT ![k] = r]
  /\ UNCHANGED <<taskOwner, taskRoot, runTask, runKind, routeTask, enabled>>

SetTaskRootMessageID(t, c) ==
  /\ taskStatus[t] # "absent"
  /\ taskRoot' = [taskRoot EXCEPT ![t] = c]
  /\ UNCHANGED <<taskStatus, taskThread, taskOwner, runVars, dedupVars, routeTask, enabled>>

\* InsertMessageRoute: the primary key refuses a card that is routed already.
InsertMessageRoute(c, t) ==
  /\ routeTask[c] = None
  /\ taskStatus[t] # "absent"
  /\ routeTask' = [routeTask EXCEPT ![c] = t]
  /\ UNCHANGED <<taskVars, runVars, dedupVars, enabled>>

\* RefreshUsers: the allowlist of the configuration replaces the enabled users.
RefreshUsers(allowed) ==
  /\ enabled' = allowed
  /\ UNCHANGED <<taskVars, runVars, dedupVars, routeTask>>

\* Mutants of RecoverRunning: the rows get another status, only running rows
\* are recovered, or the events stay open.
RecoverTo(status, recovered, events) ==
  /\ runStatus'  = [r \in Runs  |-> IF runStatus[r]  \in recovered THEN status ELSE runStatus[r]]
  /\ taskStatus' = [t \in Tasks |-> IF taskStatus[t] \in recovered THEN status ELSE taskStatus[t]]
  /\ dedupState' = [k \in Keys  |-> IF dedupState[k] = "processing" THEN events ELSE dedupState[k]]
  /\ UNCHANGED <<taskThread, taskOwner, taskRoot, runTask, runKind, runThread, runTurn,
                 dedupRun, routeTask, enabled>>
RecoverAsInterrupted == RecoverTo("interrupted", Active, "failed")
RecoverByRequeue     == RecoverTo("queued", Active, "processing")
RecoverOnlyRunning   == RecoverTo("failed", {"running"}, "failed")
RecoverLeavingEvents == RecoverTo("failed", Active, "processing")

\* RecoverRunning: whatever the previous process left unfinished has failed.
RecoverRunning ==
  /\ runStatus'  = [r \in Runs  |-> IF runStatus[r]  \in Active THEN "failed" ELSE runStatus[r]]
  /\ taskStatus' = [t \in Tasks |-> IF taskStatus[t] \in Active THEN "failed" ELSE taskStatus[t]]
  /\ dedupState' = [k \in Keys  |-> IF dedupState[k] = "processing" THEN "failed" ELSE dedupState[k]]
  /\ UNCHANGED <<taskThread, taskOwner, taskRoot, runTask, runKind, runThread, runTurn,
                 dedupRun, routeTask, enabled>>
=============================================================================
