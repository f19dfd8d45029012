----------------------------- MODULE BridgeStore -----------------------------
(***************************************************************************)
(* The state database as the bridge process uses it.  The callers (router, *)
(* controller, startup) are reduced to one promise, the variable owed: the *)
(* process that admitted a run owes it exactly one FinishRun, with the key *)
(* of the event that admitted it, and a process that dies owes nothing.    *)
(* Module Bridge has the callers in full and is checked to keep the        *)
(* promise, by implementing this module.                                   *)
(***************************************************************************)
EXTENDS StateDB

VARIABLES
  owed,   \* [Runs -> the dedup key this process must finish the run with, or None]
  phase   \* "down", "refreshed" (allowlist loaded), "serving"

vars == <<dbVars, owed, phase>>

Init ==
  /\ EmptyDB
  /\ owed = [r \in Runs |-> None]
  /\ phase = "down"

-----------------------------------------------------------------------------
\* Serve at startup: the allowlist, then the runs the last process left behind.
StartupUsers(allowed) ==
  /\ phase = "down"
  /\ RefreshUsers(allowed)
  /\ phase' = "refreshed"
  /\ UNCHANGED owed

StartupRecover ==
  /\ phase = "refreshed"
  /\ RecoverRunning
  /\ phase' = "serving"
  /\ UNCHANGED owed

\* The process exits or is killed; nothing but the database is left.
Exit ==
  /\ phase' = "down"
  /\ owed' = [r \in Runs |-> None]
  /\ UNCHANGED dbVars

\* The router admits events of enabled users only.
NewTask(k, t, r, u) ==
  /\ phase = "serving" /\ u \in enabled
  /\ AdmitNewTask(k, t, r, u)
  /\ owed' = [owed EXCEPT ![r] = k]
  /\ UNCHANGED phase

ResumeRun(k, t, r, u) ==
  /\ phase = "serving" /\ u \in enabled
  /\ AdmitResumeRun(k, t, r, u)
  /\ owed' = [owed EXCEPT ![r] = k]
  /\ UNCHANGED phase

RefuseResume(k, t, u) ==
  /\ phase = "serving" /\ u \in enabled
  /\ RejectResume(k, t, u)
  /\ UNCHANGED <<owed, phase>>

Attach(k, t, th, u) ==
  /\ phase = "serving" /\ u \in enabled
  /\ AttachThread(k, t, th, u)
  /\ UNCHANGED <<owed, phase>>

Restart(k) ==
  /\ phase = "serving"
  /\ ~HasActiveTask
  /\ AdmitRestart(k)
  /\ UNCHANGED <<owed, phase>>

\* The controller never passes an empty thread id.
MarkStarted(r, th, tn) ==
  /\ phase = "serving"
  /\ StartRun(r, th, tn)
  /\ UNCHANGED <<owed, phase>>

Finish(r, status, th, tn) ==
  /\ phase = "serving" /\ owed[r] # None
  /\ FinishRun(owed[r], r, status, th, tn)
  /\ owed' = [owed EXCEPT ![r] = None]
  /\ UNCHANGED phase

\* The root card of a task and its route, written by the router and, for a
\* result card, by the controller.
RecordRoot(t, c) ==
  /\ phase = "serving"
  /\ SetTaskRootMessageID(t, c)
  /\ UNCHANGED <<owed, phase>>

RecordRoute(c, t) ==
  /\ phase = "serving"
  /\ InsertMessageRoute(c, t)
  /\ UNCHANGED <<owed, phase>>

Next ==
  \/ \E allowed \in SUBSET Users : StartupUsers(allowed)
  \/ StartupRecover
  \/ Exit
  \/ \E k \in Keys, t \in Tasks, r \in Runs, u \in Users : NewTask(k, t, r, u)
  \/ \E k \in Keys, t \in Tasks, r \in Runs, u \in Users : ResumeRun(k, t, r, u)
  \/ \E k \in Keys, t \in Tasks, u \in Users : RefuseResume(k, t, u)
  \/ \E k \in Keys, t \in Tasks, th \in Threads, u \in Users : Attach(k, t, th, u)
  \/ \E k \in Keys : Restart(k)
  \/ \E r \in Runs, th \in Threads, tn \in Turns \cup {None} : MarkStarted(r, th, tn)
  \/ \E r \in Runs, status \in Terminal, th \in Threads \cup {None}, tn \in Turns \cup {None} :
       Finish(r, status, th, tn)
  \/ \E t \in Tasks, c \in Cards : RecordRoot(t, c)
  \/ \E c \in Cards, t \in Tasks : RecordRoute(c, t)

Spec == Init /\ [][Next]_vars

-----------------------------------------------------------------------------
TypeOK ==
  /\ DBTypeOK
  /\ owed \in [Runs -> Keys \cup {None}]
  /\ phase \in {"down", "refreshed", "serving"}

\* A task has at most one queued or running run, so one Codex turn of the task
\* cannot be started over another.
OneActiveRunPerTask ==
  \A r, q \in Runs :
    (runStatus[r] \in Active /\ runStatus[q] \in Active /\ runTask[r] = runTask[q]) => r = q

\* The tasks table and the runs table agree: HasActiveTask, taskCanStart and
\* RecoverRunning read tasks.status, which two separate UPDATEs keep in step
\* with the run.
TaskMirrorsActiveRun ==
  /\ \A r \in Runs : runStatus[r] \in Active =>
       runTask[r] \in Tasks /\ taskStatus[runTask[r]] = runStatus[r]
  /\ \A t \in Tasks : taskStatus[t] \in Active => ActiveRunsOf(t) # {}

\* An inbound event is in processing exactly while the run it admitted is
\* active: no finished run leaves its event open, and no event is closed under
\* a run that is still going.
EventOpenIffRunActive ==
  \A k \in Keys :
    dedupState[k] = "processing" <=> dedupRun[k] # None /\ runStatus[dedupRun[k]] \in Active

\* Every run was admitted by one event and no event was used for two runs: a
\* redelivered message never starts work twice.
EachRunClaimedOnce ==
  \A r \in Runs : runStatus[r] # "absent" =>
    \E k \in Keys : \A j \in Keys : dedupRun[j] = r <=> j = k

\* An active run and its task name the same Codex thread, so a continuation
\* resumes the conversation that the run is part of.
ActiveRunOnTaskThread ==
  \A r \in Runs : runStatus[r] \in Active => taskThread[runTask[r]] = runThread[r]

\* While the bridge serves, only users on the current allowlist have active
\* runs: narrowing the allowlist takes effect on the runs that were in flight.
ActiveRunsAreOfEnabledUsers ==
  phase = "serving" =>
    \A r \in Runs : runStatus[r] \in Active => taskOwner[runTask[r]] \in enabled

\* The process owes a finish for exactly the runs that are active in the
\* database, under the key that the dedup row names; before it serves it owes
\* nothing.
OwedIffActive ==
  /\ phase # "serving" => \A r \in Runs : owed[r] = None
  /\ phase = "serving" =>
       \A r \in Runs : runStatus[r] \in Active => owed[r] # None
  /\ \A r \in Runs : owed[r] # None => runStatus[r] \in Active /\ dedupRun[owed[r]] = r

\* Rows that do not exist are blank, and references point at rows that do.
References ==
  /\ \A r \in Runs : runStatus[r] = "absent" => runThread[r] = None /\ owed[r] = None
  /\ \A r \in Runs : runStatus[r] # "absent" =>
       runTask[r] \in Tasks /\ taskStatus[runTask[r]] # "absent"
  /\ \A t \in Tasks : taskStatus[t] = "absent" => taskThread[t] = None
  /\ \A k \in Keys : dedupState[k] = "absent" => dedupRun[k] = None
  /\ \A k \in Keys : dedupRun[k] # None => runStatus[dedupRun[k]] # "absent"

\* The inductive invariant: what the properties above need of each other.
StoreInv ==
  /\ TypeOK
  /\ References
  /\ OneActiveRunPerTask
  /\ TaskMirrorsActiveRun
  /\ EventOpenIffRunActive
  /\ EachRunClaimedOnce
  /\ ActiveRunOnTaskThread
  /\ ActiveRunsAreOfEnabledUsers
  /\ OwedIffActive

\* A terminal run is final: no late StartRun, FinishRun or recovery rewrites it.
TerminalRunsFinal ==
  [][\A r \in Runs : runStatus[r] \in Terminal => runStatus'[r] = runStatus[r]]_vars

\* A task never loses its Codex thread once it has one: it stays resumable.
ThreadNeverLost ==
  [][\A t \in Tasks : taskThread[t] # None => taskThread'[t] # None]_vars

\* The database implements the promise about runs.
Lifecycle == INSTANCE RunLifecycle WITH
  status <- runStatus, task <- runTask, claim <- dedupRun

ImplementsLifecycle == Lifecycle!Spec
=============================================================================
