---------------------------- MODULE RunLifecycle -----------------------------
(***************************************************************************)
(* What the bridge promises about its runs, whatever the process, the      *)
(* network and the app-server do: a run is admitted once, by one inbound   *)
(* event, onto a task with no other active run; it starts at most once and *)
(* ends at most once; and what a dead process left active is failed.       *)
(***************************************************************************)
CONSTANTS Runs, Tasks, Keys, None

VARIABLES
  status,  \* [Runs -> "absent" or a run status]
  task,    \* [Runs -> the task the run works on, or None]
  claim    \* [Keys -> the run the event admitted, or None]

lifecycleVars == <<status, task, claim>>

Unfinished(r) == status[r] \in {"queued", "running"}

Init ==
  /\ status = [r \in Runs |-> "absent"]
  /\ task   = [r \in Runs |-> None]
  /\ claim  = [k \in Keys |-> None]

\* An event is accepted: it claims a fresh run on a task that is free.
Admit(k, r, t) ==
  /\ claim[k] = None
  /\ status[r] = "absent"
  /\ \A q \in Runs : task[q] = t => ~Unfinished(q)
  /\ status' = [status EXCEPT ![r] = "queued"]
  /\ task'   = [task   EXCEPT ![r] = t]
  /\ claim'  = [claim  EXCEPT ![k] = r]

Start(r) ==
  /\ status[r] = "queued"
  /\ status' = [status EXCEPT ![r] = "running"]
  /\ UNCHANGED <<task, claim>>

Finish(r, outcome) ==
  /\ Unfinished(r)
  /\ status' = [status EXCEPT ![r] = outcome]
  /\ UNCHANGED <<task, claim>>

\* A new process gives up what the old one left unfinished.
Abandon ==
  /\ status' = [r \in Runs |-> IF Unfinished(r) THEN "failed" ELSE status[r]]
  /\ UNCHANGED <<task, claim>>

Next ==
  \/ \E k \in Keys, r \in Runs, t \in Tasks : Admit(k, r, t)
  \/ \E r \in Runs : Start(r)
  \/ \E r \in Runs, outcome \in {"succeeded", "failed", "canceled"} : Finish(r, outcome)
  \/ Abandon

Spec == Init /\ [][Next]_lifecycleVars
=============================================================================
