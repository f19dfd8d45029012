--------------------------- MODULE TaskCardProofs ---------------------------
(***************************************************************************)
(* Proofs about the card of a task, for any number of runs, observers,     *)
(* states, failures and attempts: the result of a run is not overwritten   *)
(* by its progress but for patches that were given up before, and a        *)
(* delivery that is done has shown it.                                     *)
(***************************************************************************)
EXTENDS TaskCard, TLAPS

ReportSet   == [pc : {"idle", "snapshot", "queue"}, run : Runs \cup {0}, shows : 0..MaxState]
ProgressSet == [dirty : BOOLEAN, pending : 0..MaxState, last : 0..MaxState, worker : BOOLEAN]
WorkerSet   == [pc : {"off", "next", "lock", "call"}, shows : 0..MaxState, applied : BOOLEAN]
ResultSet   == [pc : {"none", "persist", "first", "retry", "callFirst", "callRetry", "fallback", "done", "lost", "unsaved"},
                tries : 0..Attempts, applied : BOOLEAN]
PatchSet    == [run : Runs, shows : 0..MaxState, kind : {"progress", "result"}]
CardSet     == [run : Runs \cup {0}, shows : 0..MaxState, kind : {"start", "progress", "result"}]

\* TypeOK, with the runs that are reported on, attempts that are left as long
\* as the result may be retried, and no delivery before the run is terminal.
Types ==
  /\ TypeOK
  /\ registered <= started
  /\ \A g \in Reporters : reporter[g].pc # "idle" => reporter[g].run \in Runs
  /\ \A r \in Runs : result[r].pc \in {"none", "persist", "first", "callFirst", "retry", "callRetry"} =>
                       result[r].tries < Attempts
  /\ \A r \in Runs : result[r].pc = "none" <=> r \notin terminal

LEMMA Bounds ==
  /\ NumRuns \in Nat /\ MaxFaults \in Nat
  /\ 0 \in 0..MaxState /\ 1 \in 0..MaxState /\ MaxState \in Nat /\ Attempts \in Nat /\ 0 < Attempts
  /\ Runs \subseteq Nat \ {0}
  /\ None # "worker" /\ None # "result"
BY TaskCardAssumption DEF Runs

\* Every step, one disjunct for each action.
LEMMA Steps ==
  ASSUME [Next]_vars
  PROVE  \/ \E g \in Reporters : Enqueue(g) \/ Snapshot(g) \/ Queue(g) \/ \E changed \in BOOLEAN : Report(g, changed)
         \/ \E r \in Runs, w \in Slots : WorkerLeaves(r, w) \/ WorkerTakes(r, w) \/ WorkerCalls(r, w)
         \/ \E r \in Runs, w \in Slots : WorkerPatches(r, w)
         \/ \E r \in Runs, w \in Slots : \E outcome \in {"ok", "canceled", "transient", "permanent"} :
              WorkerReturns(r, w, outcome)
         \/ \E r \in Runs : BeginFinish(r) \/ Finalize(r)
         \/ \E p \in late : PatchLate(p)
         \/ Close \/ UNCHANGED vars
BY DEF Next, Send, Worker

-----------------------------------------------------------------------------
(* Types *)

LEMMA InitTypes == Init => Types
<1> SUFFICES ASSUME Init PROVE Types
  OBVIOUS
<1> USE Bounds
<1>1. reporter \in [Reporters -> ReportSet] /\ \A g \in Reporters : reporter[g].pc = "idle"
  BY DEF Init, NoReport, ReportSet
<1>2. progress \in [Runs -> ProgressSet] /\ worker \in [Runs -> [Slots -> WorkerSet]]
  BY DEF Init, NoWorker, ProgressSet, WorkerSet
<1>3. result \in [Runs -> ResultSet] /\ \A r \in Runs : result[r].tries = 0 /\ result[r].pc = "none"
  BY DEF Init, NoResult, ResultSet
<1>4. card \in CardSet
  BY DEF Init, CardSet
<1>5. /\ registered \in Runs \cup {0} /\ closed \in BOOLEAN
      /\ terminal = {} /\ cancelled \subseteq Runs /\ own \subseteq Runs
  BY DEF Init
<1>6. /\ late \subseteq PatchSet /\ state \in [Runs -> 0..MaxState] /\ refused \in [Runs -> 0..MaxState]
      /\ mutex \in [Runs -> {None, "worker", "result"}]
  BY DEF Init
<1>7. started \in 0..NumRuns /\ faults \in 0..MaxFaults /\ registered <= started
  BY DEF Init
<1> QED
  BY <1>1, <1>2, <1>3, <1>4, <1>5, <1>6, <1>7 DEF Types, TypeOK, ReportSet, ProgressSet, WorkerSet, ResultSet, CardSet, PatchSet

\* A worker that is at another place is still a worker.
LEMMA WorkerMoves ==
  ASSUME worker \in [Runs -> [Slots -> WorkerSet]], NEW r \in Runs, NEW w \in Slots
  PROVE  /\ \A e \in WorkerSet : [worker EXCEPT ![r][w] = e] \in [Runs -> [Slots -> WorkerSet]]
         /\ \A p \in {"off", "next", "lock", "call"} :
              [worker EXCEPT ![r][w].pc = p] \in [Runs -> [Slots -> WorkerSet]]
         /\ [worker EXCEPT ![r][w].applied = TRUE] \in [Runs -> [Slots -> WorkerSet]]
<1>1. worker[r] \in [Slots -> WorkerSet] /\ worker[r][w] \in WorkerSet
  OBVIOUS
<1>2. ASSUME NEW e \in WorkerSet PROVE [worker EXCEPT ![r][w] = e] \in [Runs -> [Slots -> WorkerSet]]
  <2>1. [worker[r] EXCEPT ![w] = e] \in [Slots -> WorkerSet]
    BY <1>1
  <2> QED
    BY <2>1
<1>3. ASSUME NEW p \in {"off", "next", "lock", "call"}
      PROVE  [worker EXCEPT ![r][w].pc = p] \in [Runs -> [Slots -> WorkerSet]]
  <2>1. [worker[r][w] EXCEPT !.pc = p] \in WorkerSet
    BY <1>1 DEF WorkerSet
  <2> QED
    BY <1>2, <2>1
<1>4. [worker[r][w] EXCEPT !.applied = TRUE] \in WorkerSet
  BY <1>1 DEF WorkerSet
<1>5. [worker EXCEPT ![r][w].applied = TRUE] \in [Runs -> [Slots -> WorkerSet]]
  BY <1>2, <1>4
<1> QED
  BY <1>2, <1>3, <1>5

LEMMA ReportTypes ==
  ASSUME Types, NEW g \in Reporters,
         Enqueue(g) \/ Snapshot(g) \/ Queue(g) \/ \E changed \in BOOLEAN : Report(g, changed)
  PROVE  Types'
<1> USE Bounds
<1>1. CASE Enqueue(g)
  <2>1. started + 1 \in Runs /\ started' = started + 1 /\ registered' = started + 1 /\ started' \in 0..NumRuns
    BY <1>1 DEF Enqueue, Types, TypeOK, Runs
  <2>2. state' \in [Runs -> 0..MaxState]
    BY <1>1 DEF Enqueue, Types, TypeOK
  <2>3. reporter' \in [Reporters -> ReportSet] /\ \A h \in Reporters : reporter'[h].pc # "idle" => reporter'[h].run \in Runs
    BY <1>1, <2>1 DEF Enqueue, Types, TypeOK, ReportSet
  <2> QED
    BY <1>1, <2>1, <2>2, <2>3 DEF Enqueue, Types, TypeOK, ReportSet
<1>2. CASE \E changed \in BOOLEAN : Report(g, changed)
  <2>1. state' \in [Runs -> 0..MaxState] /\ registered \in Runs
    BY <1>2 DEF Report, Types, TypeOK
  <2>2. reporter' \in [Reporters -> ReportSet] /\ \A h \in Reporters : reporter'[h].pc # "idle" => reporter'[h].run \in Runs
    BY <1>2, <2>1 DEF Report, Types, TypeOK, ReportSet
  <2> QED
    BY <1>2, <2>1, <2>2 DEF Report, Types, TypeOK, ReportSet
<1>3. CASE Snapshot(g)
  <2> DEFINE e == [reporter[g] EXCEPT !.pc = "queue", !.shows = state[reporter[g].run]]
  <2>1. /\ reporter[g].run \in Runs /\ state[reporter[g].run] \in 0..MaxState /\ reporter[g] \in ReportSet
        /\ reporter \in [Reporters -> ReportSet] /\ \A h \in Reporters : reporter[h].pc # "idle" => reporter[h].run \in Runs
    BY <1>3 DEF Snapshot, Types, TypeOK, ReportSet
  <2>2. e \in ReportSet /\ e.run = reporter[g].run
    BY <2>1 DEF ReportSet
  <2>3. reporter' = [reporter EXCEPT ![g] = e]
    BY <1>3, <2>1 DEF Snapshot
  <2> HIDE DEF e
  <2>4. reporter' \in [Reporters -> ReportSet] /\ \A h \in Reporters : reporter'[h].pc # "idle" => reporter'[h].run \in Runs
    BY <2>1, <2>2, <2>3
  <2> QED
    BY <1>3, <2>4 DEF Snapshot, Types, TypeOK, ReportSet
<1>4. CASE Queue(g)
  <2>1. reporter' \in [Reporters -> ReportSet] /\ \A h \in Reporters : reporter'[h].pc # "idle" => reporter'[h].run \in Runs
    BY <1>4 DEF Queue, NoReport, Types, TypeOK, ReportSet
  <2>2. reporter[g].run \in Runs /\ reporter[g].shows \in 0..MaxState
    BY <1>4 DEF Queue, Types, TypeOK
  <2>3. progress' = progress \/ \E p \in ProgressSet : progress' = [progress EXCEPT ![reporter[g].run] = p]
    <3> DEFINE p == [progress[reporter[g].run] EXCEPT !.dirty = TRUE, !.pending = reporter[g].shows,
                       !.worker = IF NeedsWorker(reporter[g].run) THEN ~closed ELSE progress[reporter[g].run].worker]
    <3>1. progress[reporter[g].run] \in ProgressSet /\ closed \in BOOLEAN
      BY <2>2 DEF Types, TypeOK, ProgressSet
    <3>2. p \in ProgressSet
      BY <2>2, <3>1 DEF ProgressSet, NeedsWorker
    <3>3. progress' = progress \/ progress' = [progress EXCEPT ![reporter[g].run] = p]
      <4>1. CASE NothingNew(reporter[g].run, reporter[g].shows)
        BY <1>4, <4>1, Zenon DEF Queue
      <4>2. CASE ~NothingNew(reporter[g].run, reporter[g].shows)
        BY <1>4, <4>2, Zenon DEF Queue
      <4> QED
        BY <4>1, <4>2
    <3> HIDE DEF p
    <3> QED
      BY <3>2, <3>3
  <2>4. progress' \in [Runs -> ProgressSet]
    BY <2>2, <2>3 DEF Types, TypeOK, ProgressSet
  <2>5. worker' = worker \/ \E w \in Slots : worker' = [worker EXCEPT ![reporter[g].run][w].pc = "next"]
    BY <1>4 DEF Queue
  <2>6. worker' \in [Runs -> [Slots -> WorkerSet]]
    <3>1. worker \in [Runs -> [Slots -> WorkerSet]] /\ "next" \in {"off", "next", "lock", "call"}
      BY DEF Types, TypeOK, WorkerSet
    <3>2. ASSUME NEW w \in Slots
          PROVE  [worker EXCEPT ![reporter[g].run][w].pc = "next"] \in [Runs -> [Slots -> WorkerSet]]
      BY <2>2, <3>1, WorkerMoves
    <3> QED
      BY <2>5, <3>1, <3>2
  <2> QED
    BY <1>4, <2>1, <2>4, <2>6 DEF Queue, Types, TypeOK, ReportSet, ProgressSet, WorkerSet
<1> QED
  BY <1>1, <1>2, <1>3, <1>4

LEMMA WorkerTypes ==
  ASSUME Types, NEW r \in Runs, NEW w \in Slots,
         \/ WorkerLeaves(r, w) \/ WorkerTakes(r, w) \/ WorkerCalls(r, w) \/ WorkerPatches(r, w)
         \/ \E outcome \in {"ok", "canceled", "transient", "permanent"} : WorkerReturns(r, w, outcome)
  PROVE  Types'
<1> USE Bounds
<1>0. /\ worker \in [Runs -> [Slots -> WorkerSet]] /\ worker[r][w] \in WorkerSet
      /\ progress \in [Runs -> ProgressSet] /\ progress[r] \in ProgressSet
  BY DEF Types, TypeOK, WorkerSet, ProgressSet
<1>1. CASE WorkerLeaves(r, w)
  <2>1. [progress[r] EXCEPT !.worker = FALSE] \in ProgressSet /\ NoWorker \in WorkerSet
    BY <1>0 DEF NoWorker, ProgressSet, WorkerSet
  <2>2. progress' \in [Runs -> ProgressSet] /\ worker' \in [Runs -> [Slots -> WorkerSet]]
    BY <1>0, <1>1, <2>1, WorkerMoves DEF WorkerLeaves
  <2> QED
    BY <1>1, <2>2 DEF WorkerLeaves, WorkerFrame, Types, TypeOK, ProgressSet, WorkerSet
<1>2. CASE WorkerTakes(r, w)
  <2>1. /\ [progress[r] EXCEPT !.dirty = FALSE, !.last = progress[r].pending] \in ProgressSet
        /\ [pc |-> "lock", shows |-> progress[r].pending, applied |-> FALSE] \in WorkerSet
    BY <1>0 DEF ProgressSet, WorkerSet
  <2>2. progress' = [progress EXCEPT ![r] = [progress[r] EXCEPT !.dirty = FALSE, !.last = progress[r].pending]]
    BY <1>0, <1>2 DEF WorkerTakes
  <2>3. progress' \in [Runs -> ProgressSet]
    BY <1>0, <2>1, <2>2
  <2>4. worker' \in [Runs -> [Slots -> WorkerSet]]
    BY <1>0, <1>2, <2>1, WorkerMoves DEF WorkerTakes
  <2> QED
    BY <1>2, <2>3, <2>4 DEF WorkerTakes, WorkerFrame, Types, TypeOK, ProgressSet, WorkerSet
<1>3. CASE WorkerCalls(r, w)
  <2>1. worker' \in [Runs -> [Slots -> WorkerSet]]
    <3>1. \E p \in {"off", "next", "lock", "call"} : worker' = [worker EXCEPT ![r][w].pc = p]
      BY <1>3, Zenon DEF WorkerCalls
    <3>2. PICK p \in {"off", "next", "lock", "call"} : worker' = [worker EXCEPT ![r][w].pc = p]
      BY <3>1
    <3>3. [worker EXCEPT ![r][w].pc = p] \in [Runs -> [Slots -> WorkerSet]]
      BY <1>0, WorkerMoves
    <3> QED
      BY <3>2, <3>3
  <2>2. mutex' \in [Runs -> {None, "worker", "result"}]
    <3>1. mutex \in [Runs -> {None, "worker", "result"}] /\ (mutex' = mutex \/ mutex' = [mutex EXCEPT ![r] = "worker"])
      BY <1>3, Zenon DEF WorkerCalls, Types, TypeOK
    <3> QED
      BY <3>1
  <2> QED
    BY <1>3, <2>1, <2>2 DEF WorkerCalls, WorkerFrame, Types, TypeOK, WorkerSet
<1>4. CASE WorkerPatches(r, w)
  <2>1. worker' \in [Runs -> [Slots -> WorkerSet]]
    BY <1>0, <1>4, WorkerMoves DEF WorkerPatches
  <2>2. card' \in CardSet
    BY <1>0, <1>4 DEF WorkerPatches, CardSet, WorkerSet
  <2> QED
    BY <1>4, <2>1, <2>2 DEF WorkerPatches, WorkerFrame, Types, TypeOK, WorkerSet, CardSet
<1>5. ASSUME NEW outcome \in {"ok", "canceled", "transient", "permanent"}, WorkerReturns(r, w, outcome)
      PROVE  Types'
  <2>1. [NoWorker EXCEPT !.pc = "next"] \in WorkerSet
    BY DEF NoWorker, WorkerSet
  <2>2. worker' \in [Runs -> [Slots -> WorkerSet]]
    BY <1>0, <1>5, <2>1, WorkerMoves DEF WorkerReturns
  <2>3. Retry(r, worker[r][w].shows) \in ProgressSet
    BY <1>0 DEF Retry, ProgressSet, WorkerSet
  <2>4. progress' \in [Runs -> ProgressSet]
    BY <1>0, <1>5, <2>3 DEF WorkerReturns
  <2>5. refused' \in [Runs -> 0..MaxState]
    BY <1>0, <1>5 DEF WorkerReturns, WorkerSet, Types, TypeOK
  <2>6. faults' \in 0..MaxFaults
    BY <1>5 DEF WorkerReturns, Types, TypeOK
  <2>7. mutex' \in [Runs -> {None, "worker", "result"}]
    BY <1>5 DEF WorkerReturns, Types, TypeOK
  <2>8. UNCHANGED <<registered, started, closed, state, reporter, terminal, cancelled, result, own, card>>
    BY <1>5 DEF WorkerReturns, WorkerFrame
  <2>9. late' \subseteq PatchSet
    <3>1. late \subseteq PatchSet /\ [run |-> r, shows |-> worker[r][w].shows, kind |-> "progress"] \in PatchSet
      BY <1>0 DEF Types, TypeOK, PatchSet, WorkerSet
    <3>2. late' \in {late, late \cup {[run |-> r, shows |-> worker[r][w].shows, kind |-> "progress"]}}
      BY <1>5, Zenon DEF WorkerReturns
    <3> QED
      BY <3>1, <3>2
  <2> QED
    BY <2>2, <2>4, <2>5, <2>6, <2>7, <2>8, <2>9 DEF Types, TypeOK, ProgressSet, WorkerSet, PatchSet
<1> QED
  BY <1>1, <1>2, <1>3, <1>4, <1>5

\* The delivery of a result at another place, with attempts left if it may need them.
LEMMA ResultMoves ==
  ASSUME Types, NEW r \in Runs,
         NEW pc \in {"none", "persist", "first", "retry", "callFirst", "callRetry", "fallback", "done", "lost", "unsaved"},
         ResultTo(r, pc),
         \/ pc \in {"fallback", "done", "lost", "unsaved"}
         \/ result[r].pc \in {"none", "persist", "first", "callFirst", "retry", "callRetry"}
  PROVE  /\ result' \in [Runs -> ResultSet]
         /\ \A q \in Runs : result'[q].pc \in {"none", "persist", "first", "callFirst", "retry", "callRetry"} =>
                              result'[q].tries < Attempts
         /\ result'[r].pc = pc /\ \A q \in Runs \ {r} : result'[q] = result[q]
<1> DEFINE e == [result[r] EXCEPT !.pc = pc, !.applied = FALSE]
<1>1. result \in [Runs -> ResultSet] /\ result[r] \in ResultSet
  BY DEF Types, TypeOK, ResultSet
<1>2. e \in ResultSet /\ e.tries = result[r].tries /\ e.pc = pc
  BY <1>1 DEF ResultSet
<1>3. result' = [result EXCEPT ![r] = e]
  BY <1>1 DEF ResultTo
<1>4. /\ \A q \in Runs : result[q].pc \in {"none", "persist", "first", "callFirst", "retry", "callRetry"} =>
                           result[q].tries < Attempts
  BY DEF Types
<1> HIDE DEF e
<1>5. result' \in [Runs -> ResultSet] /\ result'[r] = e /\ \A q \in Runs \ {r} : result'[q] = result[q]
  BY <1>1, <1>2, <1>3
<1> QED
  BY <1>2, <1>4, <1>5

LEMMA ResultTypes ==
  ASSUME Types, NEW r \in Runs,
         BeginFinish(r) \/ Finalize(r)
  PROVE  Types'
<1> USE Bounds
<1> DEFINE Trying == {"none", "persist", "first", "callFirst", "retry", "callRetry"}
           Delivery == /\ result' \in [Runs -> ResultSet]
                       /\ \A q \in Runs : result'[q].pc \in Trying => result'[q].tries < Attempts
                       /\ \A q \in Runs : result'[q].pc = "none" <=> q \notin terminal'
           Rest == /\ registered' \in {registered, 0} /\ terminal' \subseteq Runs /\ cancelled' \subseteq Runs
                   /\ own' \subseteq Runs /\ mutex' \in [Runs -> {None, "worker", "result"}] /\ card' \in CardSet
                   /\ late' \subseteq PatchSet
                   /\ faults' \in 0..MaxFaults
                   /\ UNCHANGED <<started, closed, state, reporter, progress, worker, refused>>
<1>0. ASSUME Delivery, Rest PROVE Types'
  <2>1. registered' \in Runs \cup {0} /\ registered' <= started'
    BY <1>0 DEF Types, TypeOK
  <2> QED
    BY <1>0, <2>1 DEF Types, TypeOK, ResultSet, CardSet, PatchSet
<1>1. /\ result \in [Runs -> ResultSet] /\ result[r] \in ResultSet /\ card \in CardSet
      /\ mutex \in [Runs -> {None, "worker", "result"}] /\ state[r] \in 0..MaxState /\ faults \in 0..MaxFaults
      /\ \A q \in Runs : result[q].pc \in Trying => result[q].tries < Attempts
      /\ \A q \in Runs : result[q].pc = "none" <=> q \notin terminal
      /\ terminal \subseteq Runs /\ cancelled \subseteq Runs /\ own \subseteq Runs
      /\ late \subseteq PatchSet /\ Shows(r) \in PatchSet /\ Shows(r) \in CardSet
  BY DEF Types, TypeOK, ResultSet, CardSet, PatchSet, Shows
<1>2. CASE BeginFinish(r)
  <2>1. ResultTo(r, "persist") /\ terminal' = terminal \cup {r} /\ result[r].pc = "none"
    BY <1>1, <1>2 DEF BeginFinish
  <2>2. Delivery
    BY <1>1, <2>1, ResultMoves
  <2>3. Rest
    BY <1>1, <1>2 DEF BeginFinish, ResultFrame
  <2> QED
    BY <1>0, <2>2, <2>3
<1>3. CASE Unregister(r)
  <2>1. ResultTo(r, "first") /\ terminal' = terminal /\ result[r].pc = "persist"
    BY <1>3 DEF Unregister
  <2>2. Delivery
    BY <1>1, <2>1, ResultMoves
  <2>3. Rest
    BY <1>1, <1>3 DEF Unregister, ResultFrame
  <2> QED
    BY <1>0, <2>2, <2>3
<1>4. CASE ResultCalls(r)
  <2>1. /\ terminal' = terminal /\ result[r].pc \in {"first", "retry"}
        /\ ResultTo(r, "callFirst") \/ ResultTo(r, "callRetry")
    BY <1>4 DEF ResultCalls
  <2>2. Delivery
    <3>1. CASE ResultTo(r, "callFirst")
      BY <1>1, <2>1, <3>1, ResultMoves
    <3>2. CASE ResultTo(r, "callRetry")
      BY <1>1, <2>1, <3>2, ResultMoves
    <3> QED
      BY <2>1, <3>1, <3>2
  <2>3. Rest
    BY <1>1, <1>4 DEF ResultCalls, ResultFrame
  <2> QED
    BY <1>0, <2>2, <2>3
<1>5. CASE RetryStops(r)
  <2>1. ResultTo(r, "lost") /\ terminal' = terminal /\ result[r].pc = "retry"
    BY <1>5 DEF RetryStops
  <2>2. Delivery
    BY <1>1, <2>1, ResultMoves
  <2>3. Rest
    BY <1>1, <1>5 DEF RetryStops, ResultFrame
  <2> QED
    BY <1>0, <2>2, <2>3
<1>6. CASE ResultPatches(r)
  <2>1. [result[r] EXCEPT !.applied = TRUE] \in ResultSet
    BY <1>1 DEF ResultSet
  <2>2. /\ result' = [result EXCEPT ![r] = [result[r] EXCEPT !.applied = TRUE]] /\ terminal' = terminal
        /\ card' = Shows(r)
    BY <1>1, <1>6 DEF ResultPatches
  <2>3. /\ result' \in [Runs -> ResultSet]
        /\ \A q \in Runs : result'[q].pc = result[q].pc /\ result'[q].tries = result[q].tries
    BY <1>1, <2>1, <2>2 DEF ResultSet
  <2>4. card' \in CardSet
    BY <1>1, <2>2
  <2>5. Rest
    BY <1>1, <1>6, <2>4 DEF ResultPatches, ResultFrame
  <2> QED
    BY <1>0, <1>1, <2>2, <2>3, <2>5
<1>7. ASSUME NEW sent \in BOOLEAN, Fallback(r, sent)
      PROVE  Types'
  <2>1. /\ ResultTo(r, "done") \/ ResultTo(r, "lost")
        /\ own' \subseteq Runs /\ faults' \in 0..MaxFaults
    <3>1. CASE sent
      BY <1>1, <1>7, <3>1 DEF Fallback
    <3>2. CASE ~sent
      <4>1. ResultTo(r, "lost") /\ own' \in {own, own \cup {r}} /\ faults < MaxFaults /\ faults' = faults + 1
        BY <1>7, <3>2, Zenon DEF Fallback
      <4> QED
        BY <1>1, <4>1
    <3> QED
      BY <3>1, <3>2
  <2>2. terminal' = terminal /\ result[r].pc = "fallback"
    BY <1>7 DEF Fallback
  <2>3. Delivery
    <3>1. CASE ResultTo(r, "done")
      BY <1>1, <2>2, <3>1, ResultMoves
    <3>2. CASE ResultTo(r, "lost")
      BY <1>1, <2>2, <3>2, ResultMoves
    <3> QED
      BY <2>1, <3>1, <3>2
  <2>4. Rest
    BY <1>1, <1>7, <2>1 DEF Fallback, ResultFrame
  <2> QED
    BY <1>0, <2>3, <2>4
<1>8. ASSUME NEW outcome \in {"ok", "transient", "permanent"}, ResultReturns(r, outcome)
      PROVE  Types'
  <2> DEFINE e == [pc |-> CASE outcome = "ok"        -> "done"
                            [] outcome = "permanent" -> "fallback"
                            [] outcome = "transient" -> AfterTransient(r),
                   tries |-> IF result[r].pc = "callRetry" THEN result[r].tries + 1 ELSE result[r].tries,
                   applied |-> FALSE]
  <2>1. /\ result[r].pc \in {"callFirst", "callRetry"} /\ result' = [result EXCEPT ![r] = e]
        /\ terminal' = terminal /\ faults' \in 0..MaxFaults
    BY <1>1, <1>8 DEF ResultReturns
  <2>2. result[r].tries < Attempts /\ result[r].tries \in Nat
    BY <1>1, <2>1 DEF ResultSet
  <2>3. /\ AfterTransient(r) \in {"lost", "retry", "fallback"}
        /\ AfterTransient(r) = "retry" => result[r].pc = "callFirst" \/ result[r].tries + 1 < Attempts
    BY <2>1 DEF AfterTransient
  <2>4. e.tries \in 0..Attempts /\ e.pc \in {"done", "fallback", "lost", "retry"} /\ e.applied = FALSE
    BY <2>2, <2>3
  <2>5. e.pc = "retry" => e.tries < Attempts
    BY <2>1, <2>2, <2>3
  <2>6. e \in ResultSet
    BY <2>4 DEF ResultSet
  <2> HIDE DEF e
  <2>7. Delivery
    BY <1>1, <2>1, <2>4, <2>5, <2>6
  <2>8. late' \subseteq PatchSet
    BY <1>1, <1>8 DEF ResultReturns
  <2>9. Rest
    BY <1>1, <1>8, <2>1, <2>8 DEF ResultReturns, ResultFrame
  <2> QED
    BY <1>0, <2>7, <2>9
<1>9. CASE PersistGivesUp(r)
  <2>1. ResultTo(r, "unsaved") /\ terminal' = terminal /\ result[r].pc = "persist"
    BY <1>9 DEF PersistGivesUp
  <2>2. Delivery
    BY <1>1, <2>1, ResultMoves
  <2>3. Rest
    BY <1>1, <1>9 DEF PersistGivesUp, ResultFrame
  <2> QED
    BY <1>0, <2>2, <2>3
<1>10. CASE AttemptTimesOut(r)
  <2>1. Delivery
    BY <1>1, <1>10 DEF AttemptTimesOut
  <2>2. Rest
    BY <1>1, <1>10 DEF AttemptTimesOut, ResultFrame
  <2> QED
    BY <1>0, <2>1, <2>2
<1> QED
  BY <1>2, <1>3, <1>4, <1>5, <1>6, <1>7, <1>8, <1>9, <1>10 DEF Finalize

LEMMA StepTypes == Types /\ [Next]_vars => Types'
<1> SUFFICES ASSUME Types, [Next]_vars PROVE Types'
  OBVIOUS
<1>1. CASE Close
  BY <1>1 DEF Close, Types, TypeOK
<1>2. CASE UNCHANGED vars
  BY <1>2 DEF vars, Types, TypeOK
<1>3. ASSUME NEW p \in late, PatchLate(p)
      PROVE  Types'
  <2>1. card' \in CardSet
    BY <1>3 DEF PatchLate, Types, TypeOK, CardSet
  <2> QED
    BY <1>3, <2>1 DEF PatchLate, Types, TypeOK, CardSet
<1> QED
  BY <1>1, <1>2, <1>3, Steps, ReportTypes, WorkerTypes, ResultTypes

\* The state of the runs, the observers, the workers, the deliveries and the
\* card has its type, for any number of each; no retry counter passes Attempts.
THEOREM CardTypeCorrect == Spec => []TypeOK
<1>1. Spec => []Types
  BY InitTypes, StepTypes, PTL DEF Spec
<1>2. Types => TypeOK
  BY DEF Types
<1> QED
  BY <1>1, <1>2, PTL

-----------------------------------------------------------------------------
(* The card is written under cardMu *)

Calling(r) == result[r].pc \in {"callFirst", "callRetry"}

\* The result has been sent to Feishu at least once.
Sent(r) == result[r].pc \notin {"none", "persist", "unsaved", "first"}

\* Who calls Feishu holds cardMu; no worker is in a call once the result of its
\* run has been sent, and only results that were are on the card, or late.
WorkerHolds == \A r \in Runs, w \in Slots : worker[r][w].pc = "call" => mutex[r] = "worker"
OneCaller   == \A r \in Runs, w \in Slots, v \in Slots :
                 worker[r][w].pc = "call" /\ worker[r][v].pc = "call" => w = v
ResultHolds == \A r \in Runs : Calling(r) => mutex[r] = "result"
ResultAlone ==
  /\ \A r \in Runs, w \in Slots : worker[r][w].pc = "call" => ~Sent(r)
  /\ card.kind = "result" => card.run \in Runs /\ Sent(card.run)
  /\ \A p \in late : p.kind = "result" => p.run \in Runs /\ Sent(p.run)

Locked == WorkerHolds /\ OneCaller /\ ResultHolds /\ ResultAlone

\* A queued presentation starts a worker, which is not in a call, of a run that
\* is reported on.
LEMMA QueueStarts ==
  ASSUME Types, NEW g \in Reporters, Queue(g)
  PROVE  \A r \in Runs, w \in Slots :
           worker'[r][w] = worker[r][w] \/ (worker'[r][w].pc = "next" /\ r = reporter[g].run)
<1>1. worker \in [Runs -> [Slots -> WorkerSet]] /\ reporter[g].run \in Runs
  BY DEF Queue, Types, TypeOK, WorkerSet
<1>2. worker' = worker \/ \E w \in Slots : worker' = [worker EXCEPT ![reporter[g].run][w].pc = "next"]
  BY DEF Queue
<1>3. ASSUME NEW w \in Slots, worker' = [worker EXCEPT ![reporter[g].run][w].pc = "next"]
      PROVE  \A r \in Runs, v \in Slots :
               worker'[r][v] = worker[r][v] \/ (worker'[r][v].pc = "next" /\ r = reporter[g].run)
  <2> DEFINE e == [worker[reporter[g].run][w] EXCEPT !.pc = "next"]
  <2>1. worker' = [worker EXCEPT ![reporter[g].run][w] = e] /\ e.pc = "next"
    BY <1>1, <1>3 DEF WorkerSet
  <2> HIDE DEF e
  <2> QED
    BY <1>1, <2>1
<1> QED
  BY <1>2, <1>3

\* What a step of a worker does to the others, to cardMu and to the card.
LEMMA WorkerEffect ==
  ASSUME Types, NEW r \in Runs, NEW w \in Slots,
         \/ WorkerLeaves(r, w) \/ WorkerTakes(r, w) \/ WorkerCalls(r, w) \/ WorkerPatches(r, w)
         \/ \E outcome \in {"ok", "canceled", "transient", "permanent"} : WorkerReturns(r, w, outcome)
  PROVE  /\ UNCHANGED <<registered, started, state, reporter, terminal, result, own>>
         /\ \A q \in Runs, v \in Slots : q # r \/ v # w => worker'[q][v] = worker[q][v]
         /\ worker[r][w].pc # "off"
         /\ \/ worker[r][w].pc # "call" /\ worker'[r][w].pc # "call" /\ mutex' = mutex /\ card' = card
            \/ /\ worker'[r][w].pc = "call" /\ r \notin terminal /\ card' = card
               /\ mutex[r] = None /\ mutex' = [mutex EXCEPT ![r] = "worker"]
            \/ /\ worker[r][w].pc = "call" /\ worker'[r][w].pc = "call" /\ mutex' = mutex
               /\ card'.run = r /\ card'.kind = "progress"
            \/ /\ worker[r][w].pc = "call" /\ worker'[r][w].pc # "call" /\ card' = card
               /\ mutex' = [mutex EXCEPT ![r] = None]
         /\ late \subseteq late'
         /\ \A p \in late' \ late : worker[r][w].pc = "call" /\ p.run = r /\ p.kind = "progress"
<1>1. worker \in [Runs -> [Slots -> WorkerSet]] /\ worker[r] \in [Slots -> WorkerSet] /\ worker[r][w] \in WorkerSet
  BY DEF Types, TypeOK, WorkerSet
<1>2. ASSUME NEW e, worker' = [worker EXCEPT ![r][w] = e]
      PROVE  worker'[r][w] = e /\ \A q \in Runs, v \in Slots : q # r \/ v # w => worker'[q][v] = worker[q][v]
  BY <1>1, <1>2
<1>3. CASE WorkerLeaves(r, w)
  <2>1. worker[r][w].pc = "next" /\ worker' = [worker EXCEPT ![r][w] = NoWorker]
    BY <1>3 DEF WorkerLeaves
  <2> QED
    BY <1>2, <1>3, <2>1 DEF WorkerLeaves, WorkerFrame, NoWorker
<1>4. CASE WorkerTakes(r, w)
  <2> DEFINE e == [pc |-> "lock", shows |-> progress[r].pending, applied |-> FALSE]
  <2>1. worker[r][w].pc = "next" /\ worker' = [worker EXCEPT ![r][w] = e] /\ e.pc = "lock"
    BY <1>4 DEF WorkerTakes
  <2> HIDE DEF e
  <2> QED
    BY <1>2, <1>4, <2>1 DEF WorkerTakes, WorkerFrame
<1>5. CASE WorkerCalls(r, w)
  <2>1. CASE r \in terminal
    <3> DEFINE e == [worker[r][w] EXCEPT !.pc = "next"]
    <3>1. worker[r][w].pc = "lock" /\ worker' = [worker EXCEPT ![r][w] = e] /\ e.pc = "next" /\ mutex' = mutex
      BY <1>1, <1>5, <2>1 DEF WorkerCalls, WorkerSet
    <3> HIDE DEF e
    <3> QED
      BY <1>2, <1>5, <3>1 DEF WorkerCalls, WorkerFrame
  <2>2. CASE r \notin terminal
    <3> DEFINE e == [worker[r][w] EXCEPT !.pc = "call"]
    <3>1. /\ worker[r][w].pc = "lock" /\ worker' = [worker EXCEPT ![r][w] = e] /\ e.pc = "call"
          /\ mutex[r] = None /\ mutex' = [mutex EXCEPT ![r] = "worker"]
      BY <1>1, <1>5, <2>2 DEF WorkerCalls, WorkerSet
    <3> HIDE DEF e
    <3> QED
      BY <1>2, <1>5, <2>2, <3>1 DEF WorkerCalls, WorkerFrame
  <2> QED
    BY <2>1, <2>2
<1>6. CASE WorkerPatches(r, w)
  <2> DEFINE e == [worker[r][w] EXCEPT !.applied = TRUE]
  <2>1. worker[r][w].pc = "call" /\ worker' = [worker EXCEPT ![r][w] = e] /\ e.pc = "call"
    BY <1>1, <1>6 DEF WorkerPatches, WorkerSet
  <2> HIDE DEF e
  <2> QED
    BY <1>2, <1>6, <2>1 DEF WorkerPatches, WorkerFrame
<1>7. ASSUME NEW outcome \in {"ok", "canceled", "transient", "permanent"}, WorkerReturns(r, w, outcome)
      PROVE  /\ UNCHANGED <<registered, started, state, reporter, terminal, result, own>>
             /\ \A q \in Runs, v \in Slots : q # r \/ v # w => worker'[q][v] = worker[q][v]
             /\ worker[r][w].pc = "call" /\ worker'[r][w].pc # "call" /\ card' = card
             /\ mutex' = [mutex EXCEPT ![r] = None] /\ late \subseteq late'
             /\ \A p \in late' \ late : p.run = r /\ p.kind = "progress"
  <2> DEFINE e == [NoWorker EXCEPT !.pc = "next"]
  <2>1. worker[r][w].pc = "call" /\ worker' = [worker EXCEPT ![r][w] = e] /\ e.pc = "next"
    BY <1>7 DEF WorkerReturns, NoWorker
  <2> HIDE DEF e
  <2>2. late' \in {late, late \cup {[run |-> r, shows |-> worker[r][w].shows, kind |-> "progress"]}}
    BY <1>7, Zenon DEF WorkerReturns
  <2>3. late \subseteq late' /\ \A p \in late' \ late : p.run = r /\ p.kind = "progress"
    BY <2>2
  <2> QED
    BY <1>2, <1>7, <2>1, <2>3 DEF WorkerReturns, WorkerFrame
<1> QED
  BY <1>3, <1>4, <1>5, <1>6, <1>7

\* What a step of a delivery does.
Begins(r) ==
  /\ r = registered /\ r \notin terminal /\ terminal' = terminal \cup {r}
  /\ result[r].pc = "none" /\ result'[r].pc = "persist" /\ result'[r].applied = FALSE
  /\ UNCHANGED <<registered, mutex, card, late, own>>

GivesUp(r) ==
  /\ result[r].pc = "persist" /\ result'[r].pc = "unsaved" /\ result'[r].applied = FALSE
  /\ UNCHANGED <<registered, terminal, mutex, card, late, own>>

Unregisters(r) ==
  /\ result[r].pc = "persist" /\ result'[r].pc = "first" /\ result'[r].applied = FALSE
  /\ registered' = 0 /\ UNCHANGED <<terminal, mutex, card, late, own>>

Calls(r) ==
  /\ result[r].pc \in {"first", "retry"} /\ result'[r].pc \in {"callFirst", "callRetry"} /\ result'[r].applied = FALSE
  /\ mutex[r] = None /\ mutex' = [mutex EXCEPT ![r] = "result"]
  /\ UNCHANGED <<registered, terminal, card, late, own>>

Patches(r) ==
  /\ Calling(r) /\ result'[r].pc = result[r].pc /\ result'[r].applied = TRUE
  /\ card' = Shows(r)
  /\ UNCHANGED <<registered, terminal, mutex, late, own>>

TimesOut(r) ==
  /\ Calling(r) /\ result' = result /\ late' = late \cup {Shows(r)}
  /\ UNCHANGED <<registered, terminal, mutex, card, own>>

Returns(r) ==
  /\ Calling(r) /\ result'[r].pc \in {"done", "fallback", "lost", "retry"} /\ result'[r].applied = FALSE
  /\ result'[r].pc = "done" => result[r].applied
  /\ mutex' = [mutex EXCEPT ![r] = None] /\ late' \in {late, late \cup {Shows(r)}}
  /\ UNCHANGED <<registered, terminal, card, own>>

Ends(r) ==
  /\ result[r].pc \in {"retry", "fallback"} /\ result'[r].pc \in {"done", "lost"} /\ result'[r].applied = FALSE
  /\ result'[r].pc = "done" => r \in own'
  /\ own' \in {own, own \cup {r}}
  /\ UNCHANGED <<registered, terminal, mutex, card, late>>

LEMMA ResultEffect ==
  ASSUME Types, NEW r \in Runs,
         BeginFinish(r) \/ Finalize(r)
  PROVE  /\ UNCHANGED <<started, state, reporter, worker>>
         /\ \A q \in Runs \ {r} : result'[q] = result[q]
         /\ \/ Begins(r) \/ GivesUp(r) \/ Unregisters(r) \/ Calls(r)
            \/ Patches(r) \/ TimesOut(r) \/ Returns(r) \/ Ends(r)
<1>1. result \in [Runs -> ResultSet] /\ result[r] \in ResultSet /\ (result[r].pc = "none" <=> r \notin terminal)
  BY DEF Types, TypeOK, ResultSet
<1>2. ASSUME NEW e, result' = [result EXCEPT ![r] = e]
      PROVE  result'[r] = e /\ \A q \in Runs \ {r} : result'[q] = result[q]
  BY <1>1, <1>2
<1>3. ASSUME NEW pc, ResultTo(r, pc)
      PROVE  result'[r].pc = pc /\ result'[r].applied = FALSE /\ \A q \in Runs \ {r} : result'[q] = result[q]
  <2> DEFINE e == [result[r] EXCEPT !.pc = pc, !.applied = FALSE]
  <2>1. result' = [result EXCEPT ![r] = e] /\ e.pc = pc /\ e.applied = FALSE
    BY <1>1, <1>3 DEF ResultTo, ResultSet
  <2> HIDE DEF e
  <2> QED
    BY <1>2, <2>1
<1>4. CASE BeginFinish(r)
  BY <1>1, <1>3, <1>4 DEF BeginFinish, ResultFrame, Begins
<1>5. CASE Unregister(r)
  BY <1>3, <1>5 DEF Unregister, ResultFrame, Unregisters
<1>6. CASE ResultCalls(r)
  <2>1. PICK pc \in {"callFirst", "callRetry"} : ResultTo(r, pc)
    BY <1>6 DEF ResultCalls
  <2> QED
    BY <1>3, <1>6, <2>1 DEF ResultCalls, ResultFrame, Calls
<1>7. CASE ResultPatches(r)
  <2> DEFINE e == [result[r] EXCEPT !.applied = TRUE]
  <2>1. result' = [result EXCEPT ![r] = e] /\ e.pc = result[r].pc /\ e.applied = TRUE
    BY <1>1, <1>7 DEF ResultPatches, ResultSet
  <2> HIDE DEF e
  <2> QED
    BY <1>2, <1>7, <2>1 DEF ResultPatches, ResultFrame, Patches, Calling
<1>8. CASE RetryStops(r)
  <2>1. /\ ResultTo(r, "lost") /\ result[r].pc = "retry" /\ UNCHANGED <<registered, terminal, mutex, card, late, own>>
        /\ UNCHANGED <<started, state, reporter, worker>>
    BY <1>8 DEF RetryStops, ResultFrame
  <2>2. result'[r].pc = "lost" /\ result'[r].applied = FALSE /\ \A q \in Runs \ {r} : result'[q] = result[q]
    BY <1>3, <2>1
  <2> QED
    BY <2>1, <2>2 DEF Ends
<1>9. ASSUME NEW outcome \in {"ok", "transient", "permanent"}, ResultReturns(r, outcome)
      PROVE  UNCHANGED <<started, state, reporter, worker>> /\ (\A q \in Runs \ {r} : result'[q] = result[q]) /\ Returns(r)
  <2> DEFINE e == [pc |-> CASE outcome = "ok"        -> "done"
                            [] outcome = "permanent" -> "fallback"
                            [] outcome = "transient" -> AfterTransient(r),
                   tries |-> IF result[r].pc = "callRetry" THEN result[r].tries + 1 ELSE result[r].tries,
                   applied |-> FALSE]
  <2>1. /\ Calling(r) /\ result' = [result EXCEPT ![r] = e] /\ (outcome = "ok" => result[r].applied)
        /\ mutex' = [mutex EXCEPT ![r] = None] /\ UNCHANGED <<registered, terminal, card, own>>
        /\ UNCHANGED <<started, state, reporter, worker>>
    BY <1>1, <1>9 DEF ResultReturns, ResultFrame, Calling
  <2>5. late' \in {late, late \cup {Shows(r)}}
    BY <1>9 DEF ResultReturns
  <2>2. AfterTransient(r) \in {"lost", "retry", "fallback"}
    BY <2>1 DEF AfterTransient, Calling
  <2>3. e.pc \in {"done", "fallback", "lost", "retry"} /\ e.applied = FALSE /\ (e.pc = "done" => outcome = "ok")
    BY <2>2
  <2> HIDE DEF e
  <2>4. result'[r] = e /\ \A q \in Runs \ {r} : result'[q] = result[q]
    BY <1>2, <2>1
  <2> QED
    BY <2>1, <2>3, <2>4, <2>5 DEF Returns
<1>10. ASSUME NEW sent \in BOOLEAN, Fallback(r, sent)
       PROVE  UNCHANGED <<started, state, reporter, worker>> /\ (\A q \in Runs \ {r} : result'[q] = result[q]) /\ Ends(r)
  <2>1. /\ \/ ResultTo(r, "done") /\ own' = own \cup {r}
           \/ ResultTo(r, "lost") /\ own' \in {own, own \cup {r}}
        /\ result[r].pc = "fallback" /\ UNCHANGED <<registered, terminal, mutex, card, late>>
        /\ UNCHANGED <<started, state, reporter, worker>>
    BY <1>10, Zenon DEF Fallback, ResultFrame
  <2> QED
    <3>1. CASE ResultTo(r, "done") /\ own' = own \cup {r}
      <4>1. result'[r].pc = "done" /\ result'[r].applied = FALSE /\ \A q \in Runs \ {r} : result'[q] = result[q]
        BY <1>3, <3>1
      <4> QED
        BY <2>1, <3>1, <4>1 DEF Ends
    <3>2. CASE ResultTo(r, "lost") /\ own' \in {own, own \cup {r}}
      <4>1. result'[r].pc = "lost" /\ result'[r].applied = FALSE /\ \A q \in Runs \ {r} : result'[q] = result[q]
        BY <1>3, <3>2
      <4> QED
        BY <2>1, <3>2, <4>1 DEF Ends
    <3> QED
      BY <2>1, <3>1, <3>2
<1>11. CASE PersistGivesUp(r)
  BY <1>3, <1>11 DEF PersistGivesUp, ResultFrame, GivesUp
<1>12. CASE AttemptTimesOut(r)
  BY <1>12 DEF AttemptTimesOut, ResultFrame, TimesOut, Calling
<1> QED
  BY <1>4, <1>5, <1>6, <1>7, <1>8, <1>9, <1>10, <1>11, <1>12 DEF Finalize

\* Once sent, a result stays sent.
LEMMA StaysSent ==
  ASSUME Types, NEW r \in Runs, BeginFinish(r) \/ Finalize(r)
  PROVE  \A q \in Runs : Sent(q) => Sent(q)'
<1>1. /\ \A q \in Runs \ {r} : result'[q] = result[q]
      /\ \/ Begins(r) \/ GivesUp(r) \/ Unregisters(r) \/ Calls(r)
         \/ Patches(r) \/ TimesOut(r) \/ Returns(r) \/ Ends(r)
  BY ResultEffect
<1>2. Sent(r) => Sent(r)'
  BY <1>1 DEF Sent, Begins, GivesUp, Unregisters, Calls, Patches, TimesOut, Returns, Ends, Calling
<1> QED
  BY <1>1, <1>2 DEF Sent

LEMMA StepLocked == Types /\ Locked /\ [Next]_vars => Locked'
<1> SUFFICES ASSUME Types, Locked, [Next]_vars PROVE Locked'
  OBVIOUS
<1> USE Bounds
<1>1. mutex \in [Runs -> {None, "worker", "result"}] /\ terminal \subseteq Runs
  BY DEF Types, TypeOK
<1>2. ASSUME UNCHANGED <<worker, mutex, result, card, late, terminal>> PROVE Locked'
  BY <1>2 DEF Locked, WorkerHolds, OneCaller, ResultHolds, ResultAlone, Sent, Calling
<1>3. ASSUME NEW g \in Reporters, Enqueue(g) \/ Snapshot(g) \/ Queue(g) \/ \E changed \in BOOLEAN : Report(g, changed)
      PROVE  Locked'
  <2>1. UNCHANGED <<mutex, result, card, late, terminal>>
    BY <1>3 DEF Enqueue, Snapshot, Queue, Report
  <2>2. \A r \in Runs, w \in Slots : worker'[r][w].pc = "call" => worker[r][w].pc = "call"
    BY <1>3, QueueStarts DEF Enqueue, Snapshot, Report
  <2> QED
    BY <1>1, <2>1, <2>2 DEF Locked, WorkerHolds, OneCaller, ResultHolds, ResultAlone, Sent, Calling
<1>4. ASSUME NEW r \in Runs, NEW w \in Slots,
             \/ WorkerLeaves(r, w) \/ WorkerTakes(r, w) \/ WorkerCalls(r, w) \/ WorkerPatches(r, w)
             \/ \E outcome \in {"ok", "canceled", "transient", "permanent"} : WorkerReturns(r, w, outcome)
      PROVE  Locked'
  <2>1. /\ UNCHANGED <<terminal, result>>
        /\ \A q \in Runs, v \in Slots : q # r \/ v # w => worker'[q][v] = worker[q][v]
        /\ \A p \in late' \ late : p.kind = "progress"
    BY <1>4, WorkerEffect
  <2>6. \A p \in late' : p.kind = "result" => p.run \in Runs /\ Sent(p.run)'
    BY <2>1 DEF Locked, ResultAlone, Sent
  <2>2. CASE worker[r][w].pc # "call" /\ worker'[r][w].pc # "call" /\ mutex' = mutex /\ card' = card
    <3>1. \A q \in Runs, v \in Slots : worker'[q][v].pc = "call" => worker[q][v].pc = "call"
      BY <2>1, <2>2
    <3>2. WorkerHolds' /\ OneCaller'
      BY <2>2, <3>1 DEF Locked, WorkerHolds, OneCaller
    <3>3. ResultHolds' /\ ResultAlone'
      BY <1>1, <2>1, <2>2, <2>6, <3>1 DEF Locked, ResultHolds, ResultAlone, Sent, Calling
    <3> QED
      BY <3>2, <3>3 DEF Locked
  <2>3. CASE /\ worker'[r][w].pc = "call" /\ r \notin terminal /\ card' = card
             /\ mutex[r] = None /\ mutex' = [mutex EXCEPT ![r] = "worker"]
    <3>1. \A v \in Slots : worker[r][v].pc # "call"
      BY <2>3 DEF Locked, WorkerHolds, OneCaller, ResultHolds, ResultAlone
    <3>2. ~Calling(r)
      BY <2>3 DEF Locked, WorkerHolds, OneCaller, ResultHolds, ResultAlone
    <3>3. mutex'[r] = "worker" /\ \A q \in Runs \ {r} : mutex'[q] = mutex[q]
      BY <1>1, <2>3
    <3>4. \A v \in Slots \ {w} : worker'[r][v].pc # "call"
      BY <2>1, <3>1
    <3>5. WorkerHolds' /\ OneCaller'
      BY <2>1, <2>3, <3>3, <3>4 DEF Locked, WorkerHolds, OneCaller
    <3>6. ResultHolds'
      BY <2>1, <3>2, <3>3 DEF Locked, ResultHolds, Calling
    <3>7. ResultAlone'
      <4>1. ~Sent(r)
        BY <2>3 DEF Types, Sent
      <4> QED
        BY <1>1, <2>1, <2>3, <2>6, <4>1 DEF Locked, ResultAlone, Sent
    <3> QED
      BY <3>5, <3>6, <3>7 DEF Locked
  <2>4. CASE /\ worker[r][w].pc = "call" /\ worker'[r][w].pc = "call" /\ mutex' = mutex
             /\ card'.run = r /\ card'.kind = "progress"
    <3>1. \A q \in Runs, v \in Slots : worker'[q][v].pc = "call" => worker[q][v].pc = "call"
      BY <2>1, <2>4
    <3>2. WorkerHolds' /\ OneCaller' /\ ResultHolds'
      BY <2>1, <2>4, <3>1 DEF Locked, WorkerHolds, OneCaller, ResultHolds, Calling
    <3>3. ResultAlone'
      BY <2>1, <2>4, <2>6, <3>1 DEF Locked, ResultAlone, Sent
    <3> QED
      BY <3>2, <3>3 DEF Locked
  <2>5. CASE /\ worker[r][w].pc = "call" /\ worker'[r][w].pc # "call" /\ card' = card
             /\ mutex' = [mutex EXCEPT ![r] = None]
    <3>1. \A v \in Slots : worker'[r][v].pc # "call"
      <4>1. ASSUME NEW v \in Slots, worker'[r][v].pc = "call" PROVE FALSE
        <5>1. v # w
          BY <2>5, <4>1
        <5>2. worker[r][v].pc = "call"
          BY <2>1, <4>1, <5>1
        <5> QED
          BY <2>5, <5>1, <5>2 DEF Locked, OneCaller
      <4> QED
        BY <4>1
    <3>2. ~Calling(r)
      BY <2>5 DEF Locked, WorkerHolds, OneCaller, ResultHolds, ResultAlone
    <3>3. \A q \in Runs \ {r} : mutex'[q] = mutex[q]
      BY <1>1, <2>5
    <3>4. \A q \in Runs, v \in Slots : worker'[q][v].pc = "call" => q # r /\ worker[q][v].pc = "call"
      BY <2>1, <3>1
    <3>5. WorkerHolds' /\ OneCaller'
      BY <3>3, <3>4 DEF Locked, WorkerHolds, OneCaller
    <3>6. ResultHolds'
      BY <2>1, <3>2, <3>3 DEF Locked, ResultHolds, Calling
    <3>7. ResultAlone'
      BY <1>1, <2>1, <2>5, <2>6, <3>4 DEF Locked, ResultAlone, Sent
    <3> QED
      BY <3>5, <3>6, <3>7 DEF Locked
  <2> QED
    BY <1>4, <2>2, <2>3, <2>4, <2>5, WorkerEffect
<1>5. ASSUME NEW r \in Runs,
             BeginFinish(r) \/ Finalize(r)
      PROVE  Locked'
  <2>1. /\ worker' = worker /\ \A q \in Runs \ {r} : result'[q] = result[q]
        /\ \/ Begins(r) \/ GivesUp(r) \/ Unregisters(r) \/ Calls(r)
           \/ Patches(r) \/ TimesOut(r) \/ Returns(r) \/ Ends(r)
    BY <1>5, ResultEffect
  <2>2. \A q \in Runs : Sent(q) => Sent(q)'
    BY <1>5, StaysSent
  <2>3. CASE Begins(r) \/ GivesUp(r) \/ Unregisters(r) \/ Ends(r)
    <3>1. \A q \in Runs : Calling(q)' => Calling(q)
      BY <2>1, <2>3 DEF Begins, GivesUp, Unregisters, Ends, Calling
    <3>2. mutex' = mutex /\ card' = card /\ late' = late
      BY <2>3 DEF Begins, GivesUp, Unregisters, Ends
    <3>3. \A w \in Slots : worker[r][w].pc = "call" => ~Sent(r)'
      BY <2>3 DEF Begins, GivesUp, Unregisters, Ends, Locked, ResultAlone, Sent
    <3>4. ResultAlone'
      BY <2>1, <2>2, <3>2, <3>3 DEF Locked, ResultAlone, Sent
    <3> QED
      BY <2>1, <3>1, <3>2, <3>4 DEF Locked, WorkerHolds, OneCaller, ResultHolds
  <2>4. CASE Calls(r)
    <3>1. mutex'[r] = "result" /\ (\A q \in Runs \ {r} : mutex'[q] = mutex[q]) /\ card' = card /\ late' = late
      BY <1>1, <2>4 DEF Calls
    <3>2. \A w \in Slots : worker[r][w].pc # "call"
      BY <2>4 DEF Calls, Locked, WorkerHolds
    <3>3. \A q \in Runs \ {r} : Calling(q)' => Calling(q)
      BY <2>1 DEF Calling
    <3>4. ResultAlone'
      BY <2>1, <2>2, <3>1, <3>2 DEF Locked, ResultAlone, Sent
    <3> QED
      BY <1>1, <2>1, <3>1, <3>2, <3>3, <3>4 DEF Locked, WorkerHolds, OneCaller, ResultHolds
  <2>5. CASE Patches(r) \/ TimesOut(r)
    <3>1. /\ mutex' = mutex /\ Sent(r)' /\ Shows(r).run = r
          /\ card' \in {card, Shows(r)} /\ late' \in {late, late \cup {Shows(r)}}
      BY <2>5 DEF Patches, TimesOut, Calling, Sent, Shows
    <3>2. \A w \in Slots : worker[r][w].pc # "call"
      BY <2>5 DEF Patches, TimesOut, Locked, WorkerHolds, ResultHolds
    <3>3. \A q \in Runs : Calling(q)' => Calling(q)
      BY <2>1, <2>5 DEF Calling, Patches, TimesOut
    <3>4. ResultAlone'
      BY <2>1, <2>2, <3>1, <3>2 DEF Locked, ResultAlone, Sent
    <3> QED
      BY <2>1, <3>1, <3>3, <3>4 DEF Locked, WorkerHolds, OneCaller, ResultHolds
  <2>6. CASE Returns(r)
    <3>1. /\ \A q \in Runs \ {r} : mutex'[q] = mutex[q]
          /\ card' = card /\ ~Calling(r)' /\ Sent(r)' /\ Shows(r).run = r
          /\ late' \in {late, late \cup {Shows(r)}}
      BY <1>1, <2>6 DEF Returns, Calling, Sent, Shows
    <3>2. \A w \in Slots : worker[r][w].pc # "call"
      BY <2>6 DEF Returns, Locked, WorkerHolds, ResultHolds
    <3>3. \A q \in Runs \ {r} : Calling(q)' => Calling(q)
      BY <2>1 DEF Calling
    <3>4. ResultAlone'
      BY <2>1, <2>2, <3>1, <3>2 DEF Locked, ResultAlone, Sent
    <3> QED
      BY <1>1, <2>1, <3>1, <3>2, <3>3, <3>4 DEF Locked, WorkerHolds, OneCaller, ResultHolds
  <2> QED
    BY <2>1, <2>3, <2>4, <2>5, <2>6
<1>6. CASE Close
  BY <1>2, <1>6 DEF Close
<1>7. CASE UNCHANGED vars
  BY <1>2, <1>7 DEF vars
<1>8. ASSUME NEW p \in late, PatchLate(p)
      PROVE  Locked'
  BY <1>8 DEF PatchLate, Locked, WorkerHolds, OneCaller, ResultHolds, ResultAlone, Sent, Calling
<1> QED
  BY <1>3, <1>4, <1>5, <1>6, <1>7, <1>8, Steps

\* The card and the result of a run, once it is there, against what the run's
\* workers still have queued, in a call or retried: only a patch that was given
\* up can replace the result, and it was before the result was sent.
THEOREM ResultIsKept == Spec => ResultStays
<1> DEFINE Kept == /\ card.kind = "result" /\ card'.run = card.run => card'.kind = "result" \/ card' \in late
                   /\ \A p \in late' \ late :
                        p.kind = "progress" => result[p.run].pc \in {"none", "persist", "unsaved", "first"}
<1>1. Init => Locked
  BY Bounds DEF Init, Locked, WorkerHolds, OneCaller, ResultHolds, ResultAlone, Sent, Calling, NoWorker, NoResult
<1>2. Types /\ Locked /\ [Next]_vars => [Kept]_vars
  <2> SUFFICES ASSUME Types, Locked, [Next]_vars
               PROVE  Kept
    OBVIOUS
  <2>1. ASSUME card' = card, late' = late
        PROVE  Kept
    BY <2>1
  <2>2. ASSUME NEW r \in Runs, NEW w \in Slots,
               \/ WorkerLeaves(r, w) \/ WorkerTakes(r, w) \/ WorkerCalls(r, w) \/ WorkerPatches(r, w)
               \/ \E outcome \in {"ok", "canceled", "transient", "permanent"} : WorkerReturns(r, w, outcome)
        PROVE  Kept
    <3>1. /\ card' = card \/ (worker[r][w].pc = "call" /\ card'.run = r)
          /\ \A p \in late' \ late : worker[r][w].pc = "call" /\ p.run = r
      BY <2>2, WorkerEffect
    <3>2. worker[r][w].pc = "call" => ~Sent(r) /\ ~(card.kind = "result" /\ card.run = r)
      BY DEF Locked, ResultAlone
    <3> QED
      BY <3>1, <3>2 DEF Sent
  <2>3. ASSUME NEW r \in Runs, BeginFinish(r) \/ Finalize(r)
        PROVE  Kept
    <3>1. \/ Begins(r) \/ GivesUp(r) \/ Unregisters(r) \/ Calls(r)
          \/ Patches(r) \/ TimesOut(r) \/ Returns(r) \/ Ends(r)
      BY <2>3, ResultEffect
    <3>2. card' \in {card, Shows(r)} /\ late' \in {late, late \cup {Shows(r)}}
      BY <3>1 DEF Begins, GivesUp, Unregisters, Calls, Patches, TimesOut, Returns, Ends
    <3>3. Shows(r).kind = "result"
      BY DEF Shows
    <3> QED
      BY <3>2, <3>3
  <2>4. ASSUME NEW g \in Reporters, Enqueue(g) \/ Snapshot(g) \/ Queue(g) \/ \E changed \in BOOLEAN : Report(g, changed)
        PROVE  card' = card /\ late' = late
    BY <2>4 DEF Enqueue, Snapshot, Queue, Report
  <2>5. Close \/ UNCHANGED vars => card' = card /\ late' = late
    BY DEF Close, vars
  <2>6. ASSUME NEW p \in late, PatchLate(p)
        PROVE  Kept
    BY <2>6 DEF PatchLate
  <2> HIDE DEF Kept
  <2> QED
    BY <2>1, <2>2, <2>3, <2>4, <2>5, <2>6, Steps
<1> QED
  BY <1>1, <1>2, InitTypes, StepTypes, StepLocked, PTL DEF Spec, ResultStays

-----------------------------------------------------------------------------
(* A delivery that is done has shown the result *)

\* Runs follow one another: one is registered until its outcome is durable,
\* those before it are terminal, and nothing is done for those to come.
InOrder ==
  /\ registered \in {0, started}
  /\ \A r \in terminal : r <= started
  /\ \A r \in Runs : r <= started => r = registered \/ r \in terminal
  /\ \A r \in Runs : result[r].pc = "persist" => registered = r
  /\ \A r \in Runs : result[r].pc \notin {"none", "persist", "unsaved"} => registered # r

WorkStarted ==
  /\ \A g \in Reporters : reporter[g].pc # "idle" => reporter[g].run <= started
  /\ \A r \in Runs, w \in Slots : worker[r][w].pc # "off" => r <= started

\* The result that is applied, or reported as sent, is the one on the card,
\* unless a patch was late.
Shown ==
  /\ \A r \in Runs : result[r].applied => Calling(r)
  /\ \A r \in Runs :
       /\ result[r].applied \/ (result[r].pc = "done" /\ r \notin own)
       /\ started = r /\ terminal = {r}
       => card = Shows(r) \/ card \in late

LEMMA StepInOrder == Types /\ InOrder /\ [Next]_vars => InOrder'
<1> SUFFICES ASSUME Types, InOrder, [Next]_vars PROVE InOrder'
  OBVIOUS
<1> USE Bounds
<1>1. started \in Nat /\ terminal \subseteq Runs /\ \A r \in Runs : result[r].pc = "none" <=> r \notin terminal
  BY DEF Types, TypeOK
<1>2. ASSUME UNCHANGED <<registered, started, terminal, result>> PROVE InOrder'
  BY <1>2 DEF InOrder
<1>3. ASSUME NEW g \in Reporters, Enqueue(g) \/ Snapshot(g) \/ Queue(g) \/ \E changed \in BOOLEAN : Report(g, changed)
      PROVE  InOrder'
  <2>1. CASE Enqueue(g)
    <3>1. registered = 0 /\ started' = started + 1 /\ registered' = started' /\ terminal' = terminal /\ result' = result
      BY <2>1 DEF Enqueue
    <3>2. \A r \in Runs : r <= started' => r <= started \/ r = started'
      BY <1>1, <3>1
    <3>3. \A r \in terminal : r <= started' /\ r # started'
      BY <1>1, <3>1 DEF InOrder
    <3>4. \A r \in Runs : r <= started => r \in terminal
      BY <3>1 DEF InOrder
    <3>5. \A r \in Runs : result[r].pc # "persist"
      BY <3>1 DEF InOrder
    <3>6. \A r \in Runs : result'[r].pc # "none" => registered' # r
      BY <1>1, <3>1, <3>3
    <3> QED
      BY <3>1, <3>2, <3>3, <3>4, <3>5, <3>6 DEF InOrder
  <2>2. CASE Snapshot(g) \/ Queue(g) \/ \E changed \in BOOLEAN : Report(g, changed)
    BY <1>2, <2>2 DEF Snapshot, Queue, Report
  <2> QED
    BY <1>3, <2>1, <2>2
<1>4. ASSUME NEW r \in Runs,
             BeginFinish(r) \/ Finalize(r)
      PROVE  InOrder'
  <2>1. /\ started' = started /\ \A q \in Runs \ {r} : result'[q] = result[q]
        /\ \/ Begins(r) \/ GivesUp(r) \/ Unregisters(r) \/ Calls(r)
           \/ Patches(r) \/ TimesOut(r) \/ Returns(r) \/ Ends(r)
    BY <1>4, ResultEffect
  <2>2. CASE Begins(r)
    <3>1. registered' = r /\ registered = r /\ terminal' = terminal \cup {r} /\ result'[r].pc = "persist"
      BY <2>2 DEF Begins
    <3>2. r = started /\ r <= started
      BY <1>1, <3>1 DEF InOrder
    <3> QED
      BY <2>1, <3>1, <3>2 DEF InOrder
  <2>3. CASE Unregisters(r)
    <3>1. registered' = 0 /\ registered = r /\ terminal' = terminal /\ r \in terminal /\ result'[r].pc = "first"
      BY <1>1, <2>3 DEF Unregisters, InOrder
    <3>2. \A q \in Runs : result'[q].pc # "persist"
      BY <2>1, <3>1 DEF InOrder
    <3> QED
      BY <2>1, <3>1, <3>2 DEF InOrder
  <2>4. CASE Calls(r) \/ Patches(r) \/ TimesOut(r) \/ Returns(r) \/ Ends(r)
    <3>1. /\ registered' = registered /\ terminal' = terminal
          /\ result[r].pc \notin {"none", "persist", "unsaved"} /\ result'[r].pc \notin {"none", "persist", "unsaved"}
      BY <2>4 DEF Calls, Patches, TimesOut, Returns, Ends, Calling
    <3> QED
      BY <2>1, <3>1 DEF InOrder
  <2>5. CASE GivesUp(r)
    BY <2>1, <2>5 DEF GivesUp, InOrder
  <2> QED
    BY <2>1, <2>2, <2>3, <2>4, <2>5
<1>5. ASSUME NEW r \in Runs, NEW w \in Slots,
             \/ WorkerLeaves(r, w) \/ WorkerTakes(r, w) \/ WorkerCalls(r, w) \/ WorkerPatches(r, w)
             \/ \E outcome \in {"ok", "canceled", "transient", "permanent"} : WorkerReturns(r, w, outcome)
      PROVE  InOrder'
  BY <1>2, <1>5, WorkerEffect
<1>6. Close \/ UNCHANGED vars => InOrder'
  BY <1>2 DEF Close, vars
<1>7. (\E p \in late : PatchLate(p)) => InOrder'
  BY <1>2 DEF PatchLate
<1> QED
  BY <1>3, <1>4, <1>5, <1>6, <1>7, Steps

LEMMA StepWorkStarted == Types /\ InOrder /\ WorkStarted /\ [Next]_vars => WorkStarted'
<1> SUFFICES ASSUME Types, InOrder, WorkStarted, [Next]_vars PROVE WorkStarted'
  OBVIOUS
<1> USE Bounds
<1>1. /\ started \in Nat /\ registered \in Nat /\ registered <= started
      /\ reporter \in [Reporters -> ReportSet] /\ \A g \in Reporters : reporter[g].run \in Nat
  <2>1. started \in Nat /\ registered \in Nat /\ registered <= started
    BY DEF Types, TypeOK
  <2>2. reporter \in [Reporters -> ReportSet]
    BY DEF Types, TypeOK, ReportSet
  <2>3. \A g \in Reporters : reporter[g].run \in Runs \cup {0}
    BY <2>2 DEF ReportSet
  <2>4. Runs \cup {0} \subseteq Nat
    BY DEF Runs
  <2>5. \A g \in Reporters : reporter[g].run \in Nat
    BY <2>3, <2>4, Zenon
  <2> QED
    BY <2>1, <2>2, <2>5
<1>2. ASSUME UNCHANGED <<started, reporter, worker>> PROVE WorkStarted'
  BY <1>2 DEF WorkStarted
<1>3. ASSUME NEW g \in Reporters, Enqueue(g) \/ Snapshot(g) \/ Queue(g) \/ \E changed \in BOOLEAN : Report(g, changed)
      PROVE  WorkStarted'
  <2>1. started' \in Nat /\ started <= started'
    BY <1>1, <1>3 DEF Enqueue, Snapshot, Queue, Report
  <2>2. \A h \in Reporters : reporter'[h].pc # "idle" => reporter'[h].run <= started'
    <3>1. CASE Enqueue(g)
      <4>1. /\ reporter' = [reporter EXCEPT ![g] = [pc |-> "snapshot", run |-> started + 1, shows |-> 0]]
            /\ started' = started + 1
        BY <3>1 DEF Enqueue
      <4>2. reporter'[g].run <= started' /\ \A h \in Reporters \ {g} : reporter'[h] = reporter[h]
        BY <1>1, <4>1
      <4> QED
        BY <1>1, <4>1, <4>2 DEF WorkStarted
    <3>2. CASE \E changed \in BOOLEAN : Report(g, changed)
      <4>1. /\ reporter' = [reporter EXCEPT ![g] = [pc |-> "snapshot", run |-> registered, shows |-> 0]]
            /\ started' = started
        BY <3>2 DEF Report
      <4>2. reporter'[g].run <= started' /\ \A h \in Reporters \ {g} : reporter'[h] = reporter[h]
        BY <1>1, <4>1
      <4> QED
        BY <4>1, <4>2 DEF WorkStarted
    <3>3. CASE Snapshot(g)
      <4>1. /\ started' = started /\ reporter[g].pc # "idle"
            /\ reporter'[g].run = reporter[g].run /\ \A h \in Reporters \ {g} : reporter'[h] = reporter[h]
        BY <1>1, <3>3 DEF Snapshot, ReportSet
      <4> QED
        BY <4>1 DEF WorkStarted
    <3>4. CASE Queue(g)
      <4>1. started' = started /\ \A h \in Reporters : reporter'[h].pc # "idle" => reporter'[h] = reporter[h]
        BY <1>1, <3>4 DEF Queue, NoReport
      <4> QED
        BY <4>1 DEF WorkStarted
    <3> QED
      BY <1>3, <3>1, <3>2, <3>3, <3>4
  <2>3. \A r \in Runs, w \in Slots : worker'[r][w].pc # "off" => r <= started
    <3>1. CASE Queue(g)
      <4>1. reporter[g].run <= started
        BY <3>1 DEF Queue, WorkStarted
      <4> QED
        BY <3>1, <4>1, QueueStarts DEF WorkStarted
    <3>2. CASE ~Queue(g)
      BY <1>3, <3>2 DEF Enqueue, Snapshot, Report, WorkStarted
    <3> QED
      BY <3>1, <3>2
  <2>4. \A r \in Runs : r <= started => r <= started'
    BY <1>1, <2>1
  <2> QED
    BY <2>2, <2>3, <2>4 DEF WorkStarted
<1>4. ASSUME NEW r \in Runs, NEW w \in Slots,
             \/ WorkerLeaves(r, w) \/ WorkerTakes(r, w) \/ WorkerCalls(r, w) \/ WorkerPatches(r, w)
             \/ \E outcome \in {"ok", "canceled", "transient", "permanent"} : WorkerReturns(r, w, outcome)
      PROVE  WorkStarted'
  <2>1. UNCHANGED <<started, reporter>> /\ worker[r][w].pc # "off"
    BY <1>4, WorkerEffect
  <2>2. \A q \in Runs, v \in Slots : q # r \/ v # w => worker'[q][v] = worker[q][v]
    BY <1>4, WorkerEffect
  <2> QED
    BY <2>1, <2>2 DEF WorkStarted
<1>5. ASSUME NEW r \in Runs,
             BeginFinish(r) \/ Finalize(r)
      PROVE  WorkStarted'
  BY <1>2, <1>5, ResultEffect
<1>6. Close \/ UNCHANGED vars => WorkStarted'
  BY <1>2 DEF Close, vars
<1>7. (\E p \in late : PatchLate(p)) => WorkStarted'
  BY <1>2 DEF PatchLate
<1> QED
  BY <1>3, <1>4, <1>5, <1>6, <1>7, Steps

LEMMA StepShown ==
  Types /\ Locked /\ InOrder /\ WorkStarted /\ Shown /\ [Next]_vars => Shown'
<1> SUFFICES ASSUME Types, Locked, InOrder, WorkStarted, Shown, [Next]_vars PROVE Shown'
  OBVIOUS
<1> USE Bounds
<1>1. /\ started \in Nat /\ terminal \subseteq Runs /\ \A r \in Runs : result[r].pc = "none" <=> r \notin terminal
      /\ state \in [Runs -> 0..MaxState]
  BY DEF Types, TypeOK
<1>2. ASSUME UNCHANGED <<started, terminal, result, own, state, card, late>> PROVE Shown'
  BY <1>2 DEF Shown, Calling, Shows
<1>3. ASSUME NEW r \in Runs, result[r].applied \/ result[r].pc = "done"
      PROVE  registered # r
  BY <1>3 DEF Shown, InOrder, Calling
<1>4. ASSUME NEW g \in Reporters, Enqueue(g) \/ Snapshot(g) \/ Queue(g) \/ \E changed \in BOOLEAN : Report(g, changed)
      PROVE  Shown'
  <2>1. CASE Enqueue(g)
    <3>1. started' = started + 1 /\ UNCHANGED <<terminal, result, own, card, late>>
      BY <2>1 DEF Enqueue
    <3>2. \A r \in Runs : ~(started' = r /\ terminal' = {r})
      BY <1>1, <3>1 DEF InOrder
    <3> QED
      BY <3>1, <3>2 DEF Shown, Calling, Shows
  <2>2. CASE \E changed \in BOOLEAN : Report(g, changed)
    <3>1. /\ UNCHANGED <<started, terminal, result, own, card, late>> /\ registered # 0
          /\ state' = [state EXCEPT ![registered] = @ + 1] \/ state' = state
      BY <2>2 DEF Report
    <3>2. \A r \in Runs : r # registered => state'[r] = state[r]
      BY <1>1, <3>1
    <3> QED
      BY <1>3, <3>1, <3>2 DEF Shown, Calling, Shows
  <2>3. CASE Snapshot(g) \/ Queue(g)
    BY <1>2, <2>3 DEF Snapshot, Queue
  <2> QED
    BY <1>4, <2>1, <2>2, <2>3
<1>5. ASSUME NEW r \in Runs, NEW w \in Slots,
             \/ WorkerLeaves(r, w) \/ WorkerTakes(r, w) \/ WorkerCalls(r, w) \/ WorkerPatches(r, w)
             \/ \E outcome \in {"ok", "canceled", "transient", "permanent"} : WorkerReturns(r, w, outcome)
      PROVE  Shown'
  <2>1. UNCHANGED <<registered, started, state, terminal, result, own>> /\ worker[r][w].pc # "off"
    BY <1>5, WorkerEffect
  <2>2. (card' = card \/ worker[r][w].pc = "call") /\ late \subseteq late'
    BY <1>5, WorkerEffect
  <2>3. CASE card' = card
    BY <2>1, <2>2, <2>3 DEF Shown, Calling, Shows
  <2>4. CASE worker[r][w].pc = "call"
    <3>1. ASSUME NEW q \in Runs, result[q].applied \/ (result[q].pc = "done" /\ q \notin own),
                 started = q, terminal = {q}
          PROVE  FALSE
      <4>1. Sent(q)
        BY <3>1 DEF Shown, Calling, Sent
      <4>2. q # r
        BY <2>4, <4>1 DEF Locked, ResultAlone
      <4>3. r <= started /\ registered # q
        BY <1>3, <2>1, <3>1 DEF WorkStarted
      <4>4. registered = 0
        BY <3>1, <4>3 DEF InOrder
      <4>5. r \in terminal
        BY <4>3, <4>4 DEF InOrder
      <4> QED
        BY <3>1, <4>2, <4>5
    <3> QED
      BY <2>1, <3>1 DEF Shown, Calling
  <2> QED
    BY <2>2, <2>3, <2>4
<1>6. ASSUME NEW r \in Runs,
             BeginFinish(r) \/ Finalize(r)
      PROVE  Shown'
  <2>1. /\ UNCHANGED <<started, state>> /\ \A q \in Runs \ {r} : result'[q] = result[q]
        /\ \/ Begins(r) \/ GivesUp(r) \/ Unregisters(r) \/ Calls(r)
           \/ Patches(r) \/ TimesOut(r) \/ Returns(r) \/ Ends(r)
    BY <1>6, ResultEffect
  <2>2. \A q \in Runs : result'[q].applied => Calling(q)'
    BY <2>1 DEF Shown, Calling, Begins, GivesUp, Unregisters, Calls, Patches, TimesOut, Returns, Ends
  <2>3. CASE Begins(r)
    <3>1. /\ terminal' = terminal \cup {r} /\ result'[r].pc = "persist" /\ result'[r].applied = FALSE
          /\ UNCHANGED <<card, late, own>>
      BY <2>3 DEF Begins
    <3> QED
      BY <1>1, <2>1, <2>2, <3>1 DEF Shown, Shows
  <2>4. CASE GivesUp(r) \/ Unregisters(r) \/ Calls(r)
    <3>1. /\ UNCHANGED <<terminal, own, card, late>> /\ result'[r].applied = FALSE /\ result'[r].pc # "done"
      BY <2>4 DEF GivesUp, Unregisters, Calls
    <3> QED
      BY <2>1, <2>2, <3>1 DEF Shown, Shows
  <2>5. CASE Patches(r)
    <3>1. /\ UNCHANGED <<terminal, own>> /\ r \in terminal
          /\ card' = Shows(r)'
      BY <1>1, <2>1, <2>5 DEF Patches, Calling, Shows
    <3> QED
      BY <2>2, <3>1 DEF Shown
  <2>6. CASE Returns(r)
    <3>1. /\ UNCHANGED <<terminal, own, card>> /\ result'[r].applied = FALSE /\ late \subseteq late'
          /\ result'[r].pc = "done" => result[r].applied
      BY <2>6 DEF Returns
    <3> QED
      BY <2>1, <2>2, <3>1 DEF Shown, Shows
  <2>7. CASE Ends(r)
    <3>1. /\ UNCHANGED <<terminal, card, late>> /\ result'[r].applied = FALSE
          /\ (result'[r].pc = "done" => r \in own') /\ own \subseteq own'
      BY <2>7 DEF Ends
    <3> QED
      BY <2>1, <2>2, <3>1 DEF Shown, Shows
  <2>8. CASE TimesOut(r)
    <3>1. UNCHANGED <<terminal, result, own, card>> /\ late \subseteq late'
      BY <2>8 DEF TimesOut
    <3> QED
      BY <2>1, <3>1 DEF Shown, Shows, Calling
  <2> QED
    BY <2>1, <2>3, <2>4, <2>5, <2>6, <2>7, <2>8
<1>7. Close \/ UNCHANGED vars => Shown'
  BY <1>2 DEF Close, vars
<1>8. (\E p \in late : PatchLate(p)) => Shown'
  BY DEF PatchLate, Shown, Calling, Shows
<1> QED
  BY <1>4, <1>5, <1>6, <1>7, <1>8, Steps

\* The delivery of a run's result against its own workers, the observers that
\* still report, Close, and the retries: what finalize reports as sent is what
\* the user sees, in the state the run ended in, unless a patch was late.
THEOREM DoneIsShown == Spec => []DoneMeansShown
<1>1. Init => Locked /\ InOrder /\ WorkStarted /\ Shown
  BY Bounds DEF Init, Locked, WorkerHolds, OneCaller, ResultHolds, ResultAlone, Sent, InOrder, WorkStarted, Shown, Calling,
    NoWorker, NoResult, NoReport
<1>2. Spec => [](Types /\ Locked /\ InOrder /\ WorkStarted /\ Shown)
  BY <1>1, InitTypes, StepTypes, StepLocked, StepInOrder, StepWorkStarted, StepShown, PTL DEF Spec
<1>3. Shown => DoneMeansShown
  BY DEF Shown, DoneMeansShown
<1> QED
  BY <1>2, <1>3, PTL
=============================================================================
