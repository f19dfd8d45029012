---------------------------- MODULE BridgeProofs ----------------------------
(***************************************************************************)
(* Proofs about Bridge, for every set of tasks, runs, events, users,       *)
(* threads, turns and cards, every number of starts and every choice of    *)
(* faults.                                                                 *)
(***************************************************************************)
EXTENDS Bridge, TLAPS

-----------------------------------------------------------------------------
(* The shape of the state *)

Exists(tn) == turn[tn].state # "none"

RtArgs == Cards \cup Runs \cup (Runs \X Turns) \cup {None}
RtRec  == [pc : RouterPCs, key : Keys \cup {None}, task : Tasks \cup {None}, run : Runs \cup {None},
           arg : RtArgs]
MemRec == [key : Keys \cup {None}, thread : Threads \cup {None},
           taskThread : Threads \cup {None}, turn : Turns \cup {None},
           terminal : BOOLEAN, cancelled : BOOLEAN, stopRequested : BOOLEAN, stopHandled : BOOLEAN]
LaunchRec == [pc : LaunchPCs, thread : Threads \cup {None}, turn : Turns \cup {None}]
FinRec   == [pc : FinPCs, status : Terminal \cup {"none"}, body : Bodies, event : Turns \cup {None}]
TurnRec  == [state : {"none", "running", "killed"} \cup Ended, thread : Threads \cup {None}, by : Runs \cup {None}]
EventRec == [type : {"started", "completed"}, turn : Turns]

ServeTypes ==
  /\ proc \in {"down", "refreshed", "serving", "failing", "closing"}
  /\ starts \in 0..MaxStarts
  /\ failing \subseteq Runs
  /\ failCur \in Runs \cup {None}
  /\ proc # "down" => enabled = Users

\* What the handler in progress holds at each of its steps.
RouterTypes ==
  /\ rt \in RtRec
  /\ rt.pc = "idle" => rt = Idle
  /\ rt.pc \in {"card", "root", "route", "enqueue", "failRun"} =>
       rt.run \in Runs /\ rt.key \in Keys /\ rt.task \in Tasks
  /\ rt.pc \in {"attachCard", "attachRoot", "attachRoute"} => rt.run = None /\ rt.task \in Tasks
  /\ rt.pc \in {"root", "route", "attachRoot", "attachRoute"} => rt.arg \in Cards
  /\ rt.pc \in {"restarting", "stop", "steer"} => rt.run = None
  /\ rt.pc = "stop" => rt.arg \in Runs
  /\ rt.pc = "steer" => rt.arg \in Runs \X Turns
  /\ leaked \in [Runs -> Keys \cup {None}]

FlagTypes == unavailable \in BOOLEAN /\ closed \in BOOLEAN /\ loopOn \in BOOLEAN /\ up \in BOOLEAN

IndexTypes ==
  /\ reg \subseteq Runs
  /\ byThread \in [Threads -> Runs \cup {None}]
  /\ byTurn \in [Turns -> Runs \cup {None}]

MemTypes == mem \in [Runs -> MemRec]

\* launch has a thread from startRun on, and a turn from awaitTurn on.
LaunchTypes ==
  /\ launch \in [Runs -> LaunchRec]
  /\ \A r \in Runs :
       /\ launch[r].pc \in {"startRun", "callTurn", "awaitTurn", "startRunTurn", "interrupt"} =>
            launch[r].thread \in Threads
       /\ launch[r].pc \in {"awaitTurn", "startRunTurn", "interrupt"} => launch[r].turn \in Turns

StopTypes ==
  /\ cancelStop \subseteq Runs /\ awaitStop \subseteq Runs
  /\ intStop \in [Runs -> Turns \cup {None}]
  /\ interrupts \in [Runs -> Nat]

FinTypes == fin \in [Runs -> FinRec]

\* A turn that was started has a thread and a run that asked for it.
TurnTypes ==
  /\ turn \in [Turns -> TurnRec]
  /\ \A tn \in Turns : Exists(tn) => turn[tn].thread \in Threads /\ turn[tn].by \in Runs

\* A turn/completed is sent, and held by the event loop, for a turn that ended.
StreamTypes ==
  /\ events \in Seq(EventRec)
  /\ \A i \in DOMAIN events :
       /\ Exists(events[i].turn)
       /\ events[i].type = "completed" => turn[events[i].turn].state \in Ended
  /\ held \in [run : Runs \cup {None}, turn : Turns \cup {None}]
  /\ held # NoEvent => held.run \in Runs /\ held.turn \in Turns /\ turn[held.turn].state \in Ended

\* A run row names its task, and a resumed run the thread it resumes.
RowsLinked ==
  \A r \in Runs : /\ runStatus[r] # "absent" => runTask[r] \in Tasks
                  /\ runKind[r] = "resume" => runThread[r] # None

TypeInv ==
  /\ DBTypeOK
  /\ ServeTypes /\ RouterTypes /\ FlagTypes /\ IndexTypes
  /\ MemTypes /\ LaunchTypes /\ StopTypes /\ FinTypes
  /\ TurnTypes /\ StreamTypes
  /\ RowsLinked

-----------------------------------------------------------------------------
(* Who keeps a run *)

\* The runs the controller has taken over.
Live == {r \in Runs : mem[r].key # None}

\* Nothing in the process refers to a run the controller has not taken over,
\* except the handler that is about to hand it over.
OnlyLiveRuns ==
  /\ reg \subseteq Live /\ cancelStop \subseteq Live /\ awaitStop \subseteq Live /\ failing \subseteq Live
  /\ \A r \in Runs \ Live :
       launch[r].pc = "off" /\ fin[r].pc = "none" /\ intStop[r] = None /\ interrupts[r] = 0
  /\ \A th \in Threads : byThread[th] \in Live \cup {None}
  /\ \A tn \in Turns : byTurn[tn] \in Live \cup {None}
  /\ held.run \in Live \cup {None}
  /\ rt.pc = "stop" => rt.arg \in Live
  /\ rt.pc = "steer" => rt.arg[1] \in Live

\* A run is with the handler, or leaked, or with the controller, never with two
\* of them; a row that does not exist and a process that does not run have none.
OneKeeper ==
  /\ \A r \in Live : rt.run # r /\ leaked[r] = None
  /\ rt.run \in Runs => leaked[rt.run] = None
  /\ \A r \in Runs : runStatus[r] = "absent" => r \notin Live /\ rt.run # r /\ leaked[r] = None
  /\ ~Running => Live = {} /\ rt = Idle /\ \A r \in Runs : leaked[r] = None

\* Who made the run terminal runs finalize, and the run stays in the indexes
\* until finalize has made its outcome durable.
FinalizedOnce ==
  /\ \A r \in Runs : mem[r].terminal <=> fin[r].pc # "none"
  /\ \A r \in Live : r \in reg <=> fin[r].pc \notin {"card", "done"}

\* launch of a resumed run has a thread to resume.
ResumedHasThread == \A r \in Live : runKind[r] = "resume" => ThreadOf(r) # None

Custody == OnlyLiveRuns /\ OneKeeper /\ FinalizedOnce /\ ResumedHasThread

-----------------------------------------------------------------------------
(* What the helpers of the controller do *)

\* A goroutine finished run r: who made it terminal also starts finalize, with
\* turn tn when a turn/completed is the reason.
Finished(r, tn) ==
  /\ MemTypes' /\ FinTypes'
  /\ \A q \in Runs \ {r} : mem'[q] = mem[q] /\ fin'[q] = fin[q]
  /\ mem'[r].terminal
  /\ mem'[r].key = mem[r].key /\ mem'[r].turn = mem[r].turn
  /\ ThreadOf(r) # None => ThreadOf(r)' # None
  /\ mem[r].stopHandled => mem'[r].stopHandled
  /\ IF mem[r].terminal THEN fin' = fin
                        ELSE fin'[r].pc = "persist" /\ fin'[r].event = tn

FinishedOrNot(r) ==
  /\ MemTypes' /\ FinTypes'
  /\ Finished(r, None) \/ UNCHANGED <<mem, fin>>

\* FinishAs on any record that keeps the run's key, turn and thread.
LEMMA FinishAsEffect ==
  ASSUME TypeInv, NEW r \in Runs, NEW m \in MemRec,
         NEW s \in Terminal, NEW b \in Bodies, NEW tn \in Turns \cup {None},
         m.terminal = mem[r].terminal, m.key = mem[r].key, m.turn = mem[r].turn,
         m.thread = mem[r].thread, ThreadOf(r) # None => m.thread # None \/ m.taskThread # None,
         mem[r].stopHandled => m.stopHandled,
         FinishAs(r, m, s, b, tn)
  PROVE  Finished(r, tn)
<1> DEFINE e == [m EXCEPT !.terminal = TRUE, !.cancelled = TRUE]
           f == [pc |-> "persist", status |-> s, body |-> b, event |-> tn]
<1>1. e \in MemRec /\ e.terminal /\ e.key = m.key /\ e.thread = m.thread /\ e.taskThread = m.taskThread
      /\ e.turn = m.turn /\ e.stopHandled = m.stopHandled
  BY DEF MemRec
<1>2. f \in FinRec /\ f.pc = "persist" /\ f.event = tn
  BY DEF FinRec, FinPCs
<1>3. CASE m.terminal
  BY <1>3 DEF FinishAs, Finished, ThreadOf, TypeInv, MemTypes, FinTypes
<1>4. CASE ~m.terminal
  <2>1. mem' = [mem EXCEPT ![r] = e] /\ fin' = [fin EXCEPT ![r] = f]
    BY <1>4 DEF FinishAs
  <2> HIDE DEF e, f
  <2> QED
    BY <2>1, <1>1, <1>2, <1>4 DEF Finished, ThreadOf, TypeInv, MemTypes, FinTypes
<1>5. m.terminal \in BOOLEAN
  BY DEF MemRec
<1> QED
  BY <1>3, <1>4

LEMMA BeginFinishEffect ==
  ASSUME TypeInv, NEW r \in Runs, NEW s \in Terminal, NEW b \in Bodies, NEW tn \in Turns \cup {None},
         BeginFinish(r, s, b, tn)
  PROVE  Finished(r, tn)
<1>1. mem[r] \in MemRec
  BY DEF TypeInv, MemTypes
<1>2. ThreadOf(r) # None => mem[r].thread # None \/ mem[r].taskThread # None
  BY DEF ThreadOf
<1> QED
  BY <1>1, <1>2, FinishAsEffect DEF BeginFinish

\* SetTurn gives the run its turn unless it is terminal, and leaves its other fields.
TurnSet(r, tn) ==
  /\ MemTypes'
  /\ \A q \in Runs \ {r} : mem'[q] = mem[q]
  /\ mem'[r].key = mem[r].key /\ mem'[r].terminal = mem[r].terminal
  /\ mem'[r].thread = mem[r].thread /\ mem'[r].taskThread = mem[r].taskThread
  /\ mem'[r].stopHandled = mem[r].stopHandled
  /\ mem'[r].turn = IF mem[r].terminal THEN mem[r].turn ELSE tn
  /\ byTurn' \in [Turns -> Runs \cup {None}]
  /\ \A un \in Turns : byTurn'[un] \in {byTurn[un], r}

LEMMA SetTurnEffect ==
  ASSUME TypeInv, NEW r \in Runs, NEW tn \in Turns, SetTurn(r, tn)
  PROVE  TurnSet(r, tn)
<1> DEFINE e == [mem[r] EXCEPT !.turn = tn]
<1>1. mem[r] \in MemRec
  BY DEF TypeInv, MemTypes
<1>2. e \in MemRec /\ e.terminal = mem[r].terminal /\ e.key = mem[r].key /\ e.thread = mem[r].thread
      /\ e.taskThread = mem[r].taskThread /\ e.turn = tn /\ e.stopHandled = mem[r].stopHandled
  BY <1>1 DEF MemRec
<1>3. CASE mem[r].terminal
  BY <1>3 DEF SetTurn, TurnSet, TypeInv, MemTypes, IndexTypes
<1>4. CASE ~mem[r].terminal
  <2>1. mem' = [mem EXCEPT ![r] = e] 
    BY <1>4 DEF SetTurn
  <2>2. byTurn' \in [Turns -> Runs \cup {None}] /\ \A un \in Turns : byTurn'[un] \in {byTurn[un], r}
    BY <1>4 DEF SetTurn, TypeInv, IndexTypes
  <2> HIDE DEF e
  <2> QED
    BY <2>1, <2>2, <1>2, <1>4 DEF TurnSet, TypeInv, MemTypes
<1> QED
  BY <1>3, <1>4

-----------------------------------------------------------------------------
(* What a step may do to the turns and to the event stream *)

\* A turn keeps its thread and who asked for it, and an end is final.
TurnsKept ==
  /\ TurnTypes'
  /\ \A tn \in Turns : Exists(tn) => /\ turn'[tn].state # "none"
                                     /\ turn'[tn].by = turn[tn].by /\ turn'[tn].thread = turn[tn].thread
  /\ \A tn \in Turns : turn[tn].state \in Ended => turn'[tn].state = turn[tn].state

LEMMA TurnsUnchanged ==
  ASSUME TypeInv, UNCHANGED turn
  PROVE  TurnsKept
BY DEF TypeInv, TurnsKept, TurnTypes, Exists

\* A stream that only lost its head, or nothing, is still about turns that exist.
LEMMA StreamKept ==
  ASSUME TypeInv, TurnsKept, UNCHANGED held, events' = events \/ (events # <<>> /\ events' = Tail(events))
  PROVE  StreamTypes'
<1>0. \A i \in DOMAIN events : events[i] \in EventRec
  BY DEF TypeInv, StreamTypes
<1>1. \A i \in DOMAIN events : events[i].turn \in Turns
  BY <1>0 DEF EventRec
<1>2. events' \in Seq(EventRec)
  BY DEF TypeInv, StreamTypes
<1>3. \A i \in DOMAIN events' : \E j \in DOMAIN events : events'[i] = events[j]
  <2>1. CASE events' = events
    BY <2>1
  <2>2. CASE events # <<>> /\ events' = Tail(events)
    <3>1. \A i \in DOMAIN events' : i + 1 \in DOMAIN events /\ events'[i] = events[i + 1]
      BY <2>2 DEF TypeInv, StreamTypes
    <3> QED
      BY <3>1
  <2> QED
    BY <2>1, <2>2
<1>4. \A j \in DOMAIN events : /\ turn'[events[j].turn].state # "none"
                               /\ events[j].type = "completed" => turn'[events[j].turn].state \in Ended
  BY <1>1 DEF TypeInv, StreamTypes, TurnsKept, Exists
<1>5. \A i \in DOMAIN events' : /\ Exists(events[i].turn)'
                                /\ (events[i].type = "completed" => turn[events[i].turn].state \in Ended)'
  BY <1>3, <1>4 DEF Exists
<1> QED
  BY <1>2, <1>5 DEF TypeInv, StreamTypes, TurnsKept

\* A notification about a turn that exists, and has ended if it says so, is appended.
LEMMA StreamAppended ==
  ASSUME TypeInv, TurnsKept, UNCHANGED held, NEW e \in EventRec,
         turn'[e.turn].state # "none", e.type = "completed" => turn'[e.turn].state \in Ended,
         events' = Append(events, e)
  PROVE  StreamTypes'
<1>1. events' \in Seq(EventRec) /\ DOMAIN events' = 1..(Len(events) + 1)
      /\ \A i \in DOMAIN events' : events'[i] = e \/ (i \in DOMAIN events /\ events'[i] = events[i])
  BY DEF TypeInv, StreamTypes
<1>2. \A i \in DOMAIN events : events[i] \in EventRec
  BY DEF TypeInv, StreamTypes
<1> QED
  BY <1>1, <1>2 DEF TypeInv, StreamTypes, TurnTypes, TurnsKept, Exists, Ended, NoEvent, EventRec

\* A running turn ends.
LEMMA TurnEnded ==
  ASSUME TypeInv, UNCHANGED held, NEW tn \in Turns, NEW outcome \in Ended, turn[tn].state = "running",
         turn' = [turn EXCEPT ![tn].state = outcome],
         events' = Append(events, [type |-> "completed", turn |-> tn])
  PROVE  TurnsKept /\ StreamTypes'
<1> DEFINE e == [type |-> "completed", turn |-> tn]
           u == [turn[tn] EXCEPT !.state = outcome]
<1>1. e \in EventRec /\ e.turn = tn
  BY DEF EventRec
<1>2. u \in TurnRec /\ u.state = outcome /\ u.by = turn[tn].by /\ u.thread = turn[tn].thread
  BY DEF TypeInv, TurnTypes, TurnRec
<1>3. turn' = [turn EXCEPT ![tn] = u]
  OBVIOUS
<1>4. outcome # "none" /\ "running" \notin Ended
  BY DEF Ended
<1> HIDE DEF u, e
<1>5. TurnsKept
  BY <1>2, <1>3, <1>4 DEF TurnsKept, TypeInv, TurnTypes, Exists
<1>6. turn'[tn].state = outcome
  BY <1>2, <1>3 DEF TypeInv, TurnTypes
<1>7. StreamTypes'
  BY <1>1, <1>4, <1>5, <1>6, StreamAppended DEF e
<1> QED
  BY <1>5, <1>7

\* The app-server goes away: its running turns are killed.
LEMMA KillTurnsEffect ==
  ASSUME TypeInv, KillTurns
  PROVE  TurnsKept
<1> DEFINE u(tn) == IF turn[tn].state = "running" THEN [turn[tn] EXCEPT !.state = "killed"] ELSE turn[tn]
<1>1. \A tn \in Turns : /\ u(tn) \in TurnRec /\ u(tn).by = turn[tn].by /\ u(tn).thread = turn[tn].thread
                        /\ u(tn).state # "none" => turn[tn].state # "none"
                        /\ turn[tn].state # "none" => u(tn).state # "none"
                        /\ turn[tn].state \in Ended => u(tn).state = turn[tn].state
  BY DEF TypeInv, TurnTypes, TurnRec, Ended
<1>2. turn' = [tn \in Turns |-> u(tn)]
  BY DEF KillTurns
<1> HIDE DEF u
<1> QED
  BY <1>1, <1>2 DEF TurnsKept, TypeInv, TurnTypes, Exists

\* The call of Interrupt counts once; it finishes the run or leaves that to the answer.
LEMMA InterruptEffect ==
  ASSUME TypeInv, UNCHANGED held, NEW r \in Runs, NEW tn \in Turns, Interrupt(r, tn)
  PROVE  /\ FinishedOrNot(r) /\ TurnsKept /\ StreamTypes'
         /\ interrupts' = [interrupts EXCEPT ![r] = @ + 1]
         /\ awaitStop' \in {awaitStop, awaitStop \cup {r}}
         /\ UNCHANGED up
<1>1. interrupts' = [interrupts EXCEPT ![r] = @ + 1] /\ UNCHANGED up
      /\ awaitStop' \in {awaitStop, awaitStop \cup {r}}
  BY DEF Interrupt
<1>2. (\E s \in Terminal, b \in Bodies : BeginFinish(r, s, b, None)) \/ UNCHANGED <<mem, fin>>
  BY DEF Interrupt, Terminal, Bodies
<1>3. FinishedOrNot(r)
  BY <1>2, BeginFinishEffect DEF FinishedOrNot, Finished, TypeInv, MemTypes, FinTypes
<1>4. \/ UNCHANGED <<turn, events>>
      \/ /\ turn[tn].state = "running"
         /\ turn' = [turn EXCEPT ![tn].state = "canceled"]
         /\ events' = Append(events, [type |-> "completed", turn |-> tn])
  BY DEF Interrupt
<1>5. TurnsKept /\ StreamTypes'
  BY <1>4, TurnsUnchanged, StreamKept, TurnEnded DEF Ended
<1> QED
  BY <1>1, <1>3, <1>5

-----------------------------------------------------------------------------
(* A step of a goroutine, or of the handler, on a run of the controller *)

\* The step is about the run r alone, refers to no other run anew, leaves r with
\* the controller, and makes it terminal only by starting its finalize.
RunStep(r) ==
  /\ r \in Live
  /\ \A q \in Runs \ {r} : /\ mem'[q] = mem[q] /\ fin'[q] = fin[q] /\ launch'[q] = launch[q]
                           /\ intStop'[q] = intStop[q] /\ interrupts'[q] = interrupts[q]
  /\ mem'[r].key = mem[r].key
  /\ ThreadOf(r) # None => ThreadOf(r)' # None
  /\ \/ (mem'[r].terminal <=> mem[r].terminal) /\ fin'[r] = fin[r]
     \/ ~mem[r].terminal /\ mem'[r].terminal /\ fin'[r].pc = "persist"
  /\ UNCHANGED <<reg, leaked, proc, runKind>>
  /\ \A q \in Runs : runStatus'[q] = "absent" <=> runStatus[q] = "absent"
  /\ cancelStop' \subseteq cancelStop \cup {r} /\ failing' \subseteq failing
  /\ awaitStop' \subseteq awaitStop \cup {r}
  /\ \A th \in Threads : byThread'[th] \in {byThread[th], r}
  /\ \A tn \in Turns : byTurn'[tn] \in {byTurn[tn], r}
  /\ held'.run \in {held.run, None, r}
  /\ \/ UNCHANGED rt
     \/ /\ rt.run = None /\ rt'.run = None
        /\ rt'.pc = "stop" => rt'.arg = r
        /\ rt'.pc = "steer" => rt'.arg[1] = r

LEMMA RunStepCustody ==
  ASSUME TypeInv, Custody, NEW r \in Runs, RunStep(r)
  PROVE  Custody'
<1>1. Live' = Live
  BY DEF Live, RunStep
<1>2. Running /\ Running'
  BY DEF RunStep, Custody, OneKeeper, Running
<1>3. OnlyLiveRuns'
  BY <1>1 DEF RunStep, Custody, OnlyLiveRuns
<1>4. OneKeeper'
  BY <1>1, <1>2, StateDBAssumption DEF RunStep, Custody, OneKeeper
<1>5. FinalizedOnce'
  <2>1. \A q \in Runs : (mem[q].terminal <=> fin[q].pc # "none")'
    BY DEF RunStep, Custody, FinalizedOnce
  <2>2. \A q \in Live : (q \in reg <=> fin[q].pc \notin {"card", "done"})'
    BY DEF RunStep, Custody, FinalizedOnce, Live
  <2> QED
    BY <1>1, <2>1, <2>2 DEF FinalizedOnce
<1>6. ResumedHasThread'
  BY <1>1 DEF RunStep, Custody, ResumedHasThread, ThreadOf, Live
<1> QED
  BY <1>3, <1>4, <1>5, <1>6 DEF Custody

\* Owed without the CASE, whose alternatives exclude each other.
Keeps(q) ==
  IF rt.run = q THEN rt.key
  ELSE IF leaked[q] # None THEN leaked[q]
  ELSE IF q \in reg /\ fin[q].pc \in {"none", "persist", "gaveUp"} THEN mem[q].key
  ELSE None

LEMMA OwedIs ==
  ASSUME TypeInv, Custody
  PROVE  Owed = [q \in Runs |-> Keeps(q)]
<1>1. \A q \in Runs : /\ rt.run = q => leaked[q] = None /\ q \notin reg
                      /\ leaked[q] # None => q \notin reg
  BY DEF Custody, OneKeeper, OnlyLiveRuns, Live
<1> QED
  BY <1>1 DEF Owed, Keeps

LEMMA OwedWillBe ==
  ASSUME TypeInv', Custody'
  PROVE  Owed' = [q \in Runs |-> Keeps(q)']
<1>1. \A q \in Runs : /\ rt'.run = q => leaked'[q] = None /\ q \notin reg'
                      /\ leaked'[q] # None => q \notin reg'
  BY DEF Custody, OneKeeper, OnlyLiveRuns, Live
<1> QED
  BY <1>1 DEF Owed, Keeps

Phase == IF proc \in {"down", "refreshed"} THEN proc ELSE "serving"

LEMMA RunStepOwes ==
  ASSUME TypeInv, Custody, NEW r \in Runs, RunStep(r)
  PROVE  UNCHANGED <<Owed, Phase>>
<1>1. \A q \in Runs : /\ rt'.run = q <=> rt.run = q
                      /\ rt.run = q => rt'.key = rt.key
  BY StateDBAssumption DEF RunStep
<1>2. \A q \in Runs : /\ mem'[q].key = mem[q].key
                      /\ fin'[q].pc \in {"none", "persist", "gaveUp"} <=> fin[q].pc \in {"none", "persist", "gaveUp"}
  BY DEF RunStep, Custody, FinalizedOnce
<1>3. UNCHANGED <<reg, leaked>>
  BY DEF RunStep
<1>4. UNCHANGED Owed
  BY <1>1, <1>2, <1>3 DEF Owed
<1> QED
  BY <1>4 DEF Phase, RunStep

-----------------------------------------------------------------------------
(* Every step of a goroutine on a run is a RunStep and keeps the types *)

\* The types of what a step on a run leaves alone.
LEMMA TypesKept ==
  ASSUME TypeInv, UNCHANGED <<dbVars, starts, leaked, flagVars, reg, enabled>>,
         proc' = proc,
         failing' \subseteq failing, failCur' \in Runs \cup {None}, RouterTypes',
         byThread' \in [Threads -> Runs \cup {None}], byTurn' \in [Turns -> Runs \cup {None}],
         MemTypes', LaunchTypes', StopTypes', FinTypes', TurnTypes', StreamTypes',
         loopOn' = loopOn, up' = up
  PROVE  TypeInv'
<1>1. DBTypeOK' /\ RowsLinked'
  BY DEF TypeInv, DBTypeOK, RowsLinked, dbVars
<1>2. ServeTypes' /\ FlagTypes' /\ IndexTypes'
  BY DEF TypeInv, ServeTypes, FlagTypes, IndexTypes, flagVars
<1> QED
  BY <1>1, <1>2 DEF TypeInv

LEMMA LaunchToEffect ==
  ASSUME TypeInv, NEW r \in Runs, NEW pc \in LaunchPCs, LaunchTo(r, pc),
         pc \in {"startRun", "callTurn", "awaitTurn", "startRunTurn", "interrupt"} => launch[r].thread \in Threads,
         pc \in {"awaitTurn", "startRunTurn", "interrupt"} => launch[r].turn \in Turns
  PROVE  /\ LaunchTypes'
         /\ \A q \in Runs \ {r} : launch'[q] = launch[q]
         /\ launch'[r].pc = pc
         /\ pc # "done" => launch'[r].thread = launch[r].thread /\ launch'[r].turn = launch[r].turn
<1> DEFINE e == IF pc = "done" THEN [NoLaunch EXCEPT !.pc = pc] ELSE [launch[r] EXCEPT !.pc = pc]
<1>1. e \in LaunchRec /\ e.pc = pc /\ (pc # "done" => e.thread = launch[r].thread /\ e.turn = launch[r].turn)
  BY DEF NoLaunch, LaunchRec, TypeInv, LaunchTypes
<1>2. launch' = [launch EXCEPT ![r] = e]
  BY DEF LaunchTo
<1> HIDE DEF e
<1> QED
  BY <1>1, <1>2 DEF TypeInv, LaunchTypes

LEMMA FailNextStep ==
  ASSUME TypeInv, Custody, NEW r \in Runs, FailNext(r)
  PROVE  TypeInv' /\ RunStep(r)
<1> USE DEF FailNext, rtVars, idxVars, flagVars, stopVars, loopVars, codexVars
<1>1. r \in Live /\ Finished(r, None)
  BY BeginFinishEffect DEF Custody, OnlyLiveRuns, Terminal, Bodies
<1>2. StreamTypes' /\ TurnTypes'
  BY StreamKept, TurnsUnchanged DEF TurnsKept
<1>3. TypeInv'
  BY <1>1, <1>2, TypesKept DEF Finished, TypeInv, ServeTypes, RouterTypes, IndexTypes, LaunchTypes, StopTypes, dbVars
<1>4. RunStep(r)
  BY <1>1 DEF RunStep, Finished, dbVars
<1> QED
  BY <1>3, <1>4

LEMMA StopRequestStep ==
  ASSUME TypeInv, Custody, NEW r \in Runs, StopRequest(r)
  PROVE  TypeInv' /\ RunStep(r)
<1> USE DEF StopRequest, RouterStep, serveVars, idxVars, flagVars, stopVars, loopVars, codexVars
<1>1. r \in Live /\ rt = Idle
  BY DEF Stoppable, Accepting, TypeInv, RouterTypes, Custody, OnlyLiveRuns
<1> DEFINE e == [mem[r] EXCEPT !.stopRequested = TRUE]
<1>2. e \in MemRec /\ e.key = mem[r].key /\ e.thread = mem[r].thread /\ e.taskThread = mem[r].taskThread
      /\ e.terminal = mem[r].terminal
  BY DEF TypeInv, MemTypes, MemRec
<1>3. mem' = [mem EXCEPT ![r] = e]
  OBVIOUS
<1> HIDE DEF e
<1>4. StreamTypes' /\ TurnTypes'
  BY StreamKept, TurnsUnchanged DEF TurnsKept
<1>5. RouterTypes'
  BY <1>1 DEF TypeInv, RouterTypes, RtRec, RtArgs, Idle, RouterPCs
<1>6. MemTypes'
  BY <1>2, <1>3 DEF TypeInv, MemTypes
<1>7. TypeInv'
  BY <1>4, <1>5, <1>6, TypesKept DEF TypeInv, ServeTypes, IndexTypes, LaunchTypes, StopTypes, FinTypes, dbVars
<1>8. RunStep(r)
  BY <1>1, <1>2, <1>3 DEF RunStep, ThreadOf, TypeInv, MemTypes, Idle, dbVars
<1> QED
  BY <1>7, <1>8

LEMMA StopActStep ==
  ASSUME TypeInv, Custody, NEW r, r = rt.arg, StopAct
  PROVE  r \in Runs /\ TypeInv' /\ RunStep(r)
<1> USE DEF StopAct, serveVars, idxVars, flagVars, loopVars, codexVars
<1>1. r \in Runs /\ r \in Live /\ rt.run = None /\ mem[r] \in MemRec
  BY DEF TypeInv, RouterTypes, Custody, OnlyLiveRuns, MemTypes
<1>2. \E e \in MemRec : /\ mem' = [mem EXCEPT ![r] = e]
                        /\ e.key = mem[r].key /\ e.thread = mem[r].thread /\ e.taskThread = mem[r].taskThread
                        /\ e.terminal = mem[r].terminal
  <2>1. CASE mem' = [mem EXCEPT ![r].cancelled = TRUE]
    <3> DEFINE e == [mem[r] EXCEPT !.cancelled = TRUE]
    <3>1. e \in MemRec /\ e.key = mem[r].key /\ e.thread = mem[r].thread /\ e.taskThread = mem[r].taskThread
          /\ e.terminal = mem[r].terminal /\ mem' = [mem EXCEPT ![r] = e]
      BY <1>1, <2>1 DEF MemRec
    <3> QED
      BY <3>1
  <2>2. CASE mem' = mem
    BY <1>1, <2>2 DEF TypeInv, MemTypes
  <2>3. CASE mem' = [mem EXCEPT ![r].stopHandled = TRUE]
    <3> DEFINE e == [mem[r] EXCEPT !.stopHandled = TRUE]
    <3>1. e \in MemRec /\ e.key = mem[r].key /\ e.thread = mem[r].thread /\ e.taskThread = mem[r].taskThread
          /\ e.terminal = mem[r].terminal /\ mem' = [mem EXCEPT ![r] = e]
      BY <1>1, <2>3 DEF MemRec
    <3> QED
      BY <3>1
  <2> QED
    BY <2>1, <2>2, <2>3
<1>3. MemTypes' /\ (\A q \in Runs \ {r} : mem'[q] = mem[q]) /\ mem'[r].key = mem[r].key
      /\ (ThreadOf(r) # None => ThreadOf(r)' # None) /\ mem'[r].terminal = mem[r].terminal
  <2>1. PICK e \in MemRec : /\ mem' = [mem EXCEPT ![r] = e]
                            /\ e.key = mem[r].key /\ e.thread = mem[r].thread /\ e.taskThread = mem[r].taskThread
                            /\ e.terminal = mem[r].terminal
    BY <1>2
  <2>2. mem'[r] = e /\ MemTypes' /\ \A q \in Runs \ {r} : mem'[q] = mem[q]
    BY <1>1, <2>1 DEF TypeInv, MemTypes
  <2>3. ThreadOf(r)' = ThreadOf(r)
    BY <2>1, <2>2 DEF ThreadOf
  <2> QED
    BY <2>1, <2>2, <2>3
<1>4. cancelStop' \subseteq cancelStop \cup {r} /\ intStop' \in [Runs -> Turns \cup {None}]
      /\ \A q \in Runs \ {r} : intStop'[q] = intStop[q]
  BY <1>1 DEF TypeInv, StopTypes, MemRec
<1>5. StreamTypes' /\ TurnTypes'
  BY StreamKept, TurnsUnchanged DEF TurnsKept
<1>6. RouterTypes'
  BY DEF TypeInv, RouterTypes, RtRec, RtArgs, Idle, RouterPCs
<1>7. StopTypes'
  BY <1>1, <1>4 DEF TypeInv, StopTypes
<1>8. TypeInv'
  BY <1>3, <1>5, <1>6, <1>7, TypesKept DEF TypeInv, ServeTypes, IndexTypes, LaunchTypes, FinTypes, dbVars
<1>9. RunStep(r)
  BY <1>1, <1>3, <1>4 DEF RunStep, Idle, dbVars
<1> QED
  BY <1>1, <1>8, <1>9

LEMMA StopCancelsStep ==
  ASSUME TypeInv, Custody, NEW r \in Runs, StopCancels(r)
  PROVE  TypeInv' /\ RunStep(r)
<1> USE DEF StopCancels, serveVars, rtVars, idxVars, flagVars, loopVars, codexVars
<1>1. r \in Live /\ Finished(r, None)
  BY BeginFinishEffect DEF Custody, OnlyLiveRuns, Terminal, Bodies
<1>2. StreamTypes' /\ TurnTypes'
  BY StreamKept, TurnsUnchanged DEF TurnsKept
<1>3. TypeInv'
  BY <1>1, <1>2, TypesKept DEF Finished, TypeInv, ServeTypes, RouterTypes, IndexTypes, LaunchTypes, StopTypes, dbVars
<1>4. RunStep(r)
  BY <1>1 DEF RunStep, Finished, dbVars
<1> QED
  BY <1>3, <1>4

LEMMA StopInterruptsStep ==
  ASSUME TypeInv, Custody, NEW r \in Runs, StopInterrupts(r)
  PROVE  TypeInv' /\ RunStep(r) /\ TurnsKept
<1> USE DEF StopInterrupts, serveVars, rtVars, idxVars, flagVars, loopVars, codexVars
<1>1. r \in Live /\ intStop[r] \in Turns
  BY DEF Custody, OnlyLiveRuns, TypeInv, StopTypes
<1>2. /\ FinishedOrNot(r) /\ TurnsKept /\ StreamTypes'
      /\ interrupts' = [interrupts EXCEPT ![r] = @ + 1]
      /\ awaitStop' \in {awaitStop, awaitStop \cup {r}}
      /\ UNCHANGED up
  BY <1>1, InterruptEffect
<1>3. StopTypes'
  BY <1>2 DEF TypeInv, StopTypes
<1>4. TypeInv'
  BY <1>2, <1>3, TypesKept DEF FinishedOrNot, TurnsKept, TypeInv, ServeTypes, RouterTypes, IndexTypes, LaunchTypes, dbVars
<1>5. RunStep(r)
  BY <1>1, <1>2 DEF RunStep, FinishedOrNot, Finished, ThreadOf, dbVars, TypeInv, StopTypes
<1> QED
  BY <1>2, <1>4, <1>5

LEMMA InterruptReturnsStep ==
  ASSUME TypeInv, Custody, NEW r \in Runs, InterruptReturns(r)
  PROVE  TypeInv' /\ RunStep(r)
<1> USE DEF InterruptReturns, serveVars, rtVars, idxVars, flagVars, loopVars, codexVars
<1>1. r \in Live /\ Finished(r, None)
  BY BeginFinishEffect DEF Custody, OnlyLiveRuns, Terminal, Bodies
<1>2. StreamTypes' /\ TurnTypes'
  BY StreamKept, TurnsUnchanged DEF TurnsKept
<1>3. TypeInv'
  BY <1>1, <1>2, TypesKept DEF Finished, TypeInv, ServeTypes, RouterTypes, IndexTypes, LaunchTypes, StopTypes, dbVars
<1>4. RunStep(r)
  BY <1>1 DEF RunStep, Finished, dbVars
<1> QED
  BY <1>3, <1>4

LEMMA SteerCallStep ==
  ASSUME TypeInv, Custody, NEW r \in Runs, SteerCall(r)
  PROVE  TypeInv' /\ RunStep(r)
<1> USE DEF SteerCall, RouterOnly, RouterStep, serveVars, idxVars, flagVars, stopVars, loopVars, codexVars
<1>1. r \in Live /\ rt = Idle /\ mem[r].turn \in Turns
  BY DEF Stoppable, Accepting, TypeInv, RouterTypes, Custody, OnlyLiveRuns, MemTypes, MemRec
<1>2. StreamTypes' /\ TurnTypes'
  BY StreamKept, TurnsUnchanged DEF TurnsKept
<1>3. RouterTypes'
  BY <1>1 DEF TypeInv, RouterTypes, RtRec, RtArgs, Idle, RouterPCs
<1>4. TypeInv'
  BY <1>2, <1>3, TypesKept DEF TypeInv, ServeTypes, IndexTypes, MemTypes, LaunchTypes, StopTypes, FinTypes, dbVars
<1>5. RunStep(r)
  BY <1>1 DEF RunStep, ThreadOf, Idle, dbVars
<1> QED
  BY <1>4, <1>5

LEMMA SteerReturnsStep ==
  ASSUME TypeInv, Custody, NEW r, r = rt.arg[1], NEW ok \in BOOLEAN, SteerReturns(ok)
  PROVE  r \in Runs /\ TypeInv' /\ RunStep(r)
<1> USE DEF SteerReturns, RouterStep, serveVars, flagVars, stopVars, loopVars, codexVars
<1>1. r \in Runs /\ r \in Live /\ rt.run = None /\ rt.arg[2] \in Turns
  BY DEF TypeInv, RouterTypes, Custody, OnlyLiveRuns
<1>2. (\E tn \in Turns : TurnSet(r, tn)) \/ UNCHANGED <<mem, byTurn>>
  BY <1>1, SetTurnEffect
<1>3. MemTypes' /\ byTurn' \in [Turns -> Runs \cup {None}]
  BY <1>2 DEF TypeInv, MemTypes, IndexTypes, TurnSet
<1>4. StreamTypes' /\ TurnTypes'
  BY StreamKept, TurnsUnchanged DEF TurnsKept
<1>5. RouterTypes'
  BY DEF TypeInv, RouterTypes, RtRec, RtArgs, Idle, RouterPCs
<1>6. TypeInv'
  BY <1>3, <1>4, <1>5, TypesKept DEF TypeInv, ServeTypes, IndexTypes, LaunchTypes, StopTypes, FinTypes, dbVars
<1>7. /\ \A q \in Runs \ {r} : mem'[q] = mem[q]
      /\ mem'[r].key = mem[r].key /\ mem'[r].terminal = mem[r].terminal
      /\ mem'[r].thread = mem[r].thread /\ mem'[r].taskThread = mem[r].taskThread
      /\ \A un \in Turns : byTurn'[un] \in {byTurn[un], r}
  BY <1>2 DEF TurnSet
<1>8. RunStep(r)
  BY <1>1, <1>7 DEF RunStep, ThreadOf, Idle, dbVars
<1> QED
  BY <1>1, <1>6, <1>8

LEMMA LaunchThreadStep ==
  ASSUME TypeInv, Custody, NEW r \in Runs, LaunchThread(r)
  PROVE  TypeInv' /\ RunStep(r)
<1> USE DEF LaunchThread, LaunchFrame, serveVars, rtVars, flagVars, loopVars, codexVars
<1>1. r \in Live /\ mem[r] \in MemRec
  BY DEF Custody, OnlyLiveRuns, TypeInv, MemTypes
<1>2. AnsweredThreads(r) \subseteq Threads
  <2>1. CASE runKind[r] = "resume"
    BY <1>1, <2>1 DEF AnsweredThreads, Custody, ResumedHasThread, ThreadOf, MemRec
  <2>2. CASE runKind[r] # "resume"
    BY <2>2 DEF AnsweredThreads
  <2> QED
    BY <2>1, <2>2
<1>3. PICK th \in AnsweredThreads(r) :
        IF mem[r].terminal
          THEN LaunchTo(r, "done") /\ UNCHANGED <<mem, byThread>>
          ELSE /\ launch' = [launch EXCEPT ![r].pc = "startRun", ![r].thread = th]
               /\ mem' = [mem EXCEPT ![r].thread = th]
               /\ byThread' = [byThread EXCEPT ![th] = r]
  OBVIOUS
<1>4. th \in Threads
  BY <1>2, <1>3
<1> DEFINE e == [mem[r] EXCEPT !.thread = th]
           l == [launch[r] EXCEPT !.pc = "startRun", !.thread = th]
<1>5. e \in MemRec /\ e.key = mem[r].key /\ e.thread = th /\ e.terminal = mem[r].terminal
  BY <1>1, <1>4 DEF MemRec
<1>6. l \in LaunchRec /\ l.pc = "startRun" /\ l.thread = th
  BY <1>4 DEF TypeInv, LaunchTypes, LaunchRec, LaunchPCs
<1>7. /\ LaunchTypes' /\ MemTypes' /\ byThread' \in [Threads -> Runs \cup {None}]
      /\ \A q \in Runs \ {r} : launch'[q] = launch[q] /\ mem'[q] = mem[q]
      /\ mem'[r].key = mem[r].key /\ mem'[r].terminal = mem[r].terminal
      /\ ThreadOf(r) # None => ThreadOf(r)' # None
      /\ \A uh \in Threads : byThread'[uh] \in {byThread[uh], r}
  <2>1. CASE mem[r].terminal
    <3>1. LaunchTo(r, "done") /\ UNCHANGED <<mem, byThread>>
      BY <1>3, <2>1
    <3>2. LaunchTypes' /\ \A q \in Runs \ {r} : launch'[q] = launch[q]
      BY <3>1, LaunchToEffect DEF LaunchPCs
    <3> QED
      BY <3>1, <3>2 DEF ThreadOf, TypeInv, MemTypes, IndexTypes
  <2>2. CASE ~mem[r].terminal
    <3>1. launch' = [launch EXCEPT ![r] = l] /\ mem' = [mem EXCEPT ![r] = e] /\ byThread' = [byThread EXCEPT ![th] = r]
      BY <1>3, <2>2
    <3> HIDE DEF e, l
    <3>2. mem'[r] = e /\ launch'[r] = l
      BY <3>1 DEF TypeInv, MemTypes, LaunchTypes
    <3>3. MemTypes' /\ byThread' \in [Threads -> Runs \cup {None}]
      BY <3>1, <1>5 DEF TypeInv, MemTypes, IndexTypes
    <3>4. LaunchTypes'
      BY <3>1, <1>6, <1>4 DEF TypeInv, LaunchTypes
    <3>5. ThreadOf(r)' # None
      BY <3>2, <1>4, <1>5, StateDBAssumption DEF ThreadOf
    <3> QED
      BY <3>1, <3>2, <3>3, <3>4, <3>5, <1>5 DEF TypeInv, IndexTypes
  <2> QED
    BY <2>1, <2>2
<1>8. StreamTypes' /\ TurnTypes'
  BY StreamKept, TurnsUnchanged DEF TurnsKept
<1>9. TypeInv'
  BY <1>7, <1>8, TypesKept DEF TypeInv, ServeTypes, RouterTypes, IndexTypes, StopTypes, FinTypes, dbVars
<1>10. RunStep(r)
  BY <1>1, <1>7 DEF RunStep, dbVars
<1> QED
  BY <1>9, <1>10

\* What launch writes to the run after StartRun.
LEMMA AfterStartRunEffect ==
  ASSUME TypeInv, NEW r \in Runs, launch[r].thread \in Threads
  PROVE  LET e == AfterStartRun(r) IN
         /\ e \in MemRec /\ e.key = mem[r].key /\ e.thread = mem[r].thread /\ e.turn = mem[r].turn
         /\ e.taskThread = launch[r].thread /\ e.terminal = mem[r].terminal
         /\ e.stopHandled = (mem[r].stopHandled \/ StopToTake(r))
<1>1. mem[r] \in MemRec
  BY DEF TypeInv, MemTypes
<1>2. (mem[r].stopHandled \/ StopToTake(r)) \in BOOLEAN
  BY <1>1 DEF MemRec, StopToTake
<1> QED
  BY <1>1, <1>2 DEF AfterStartRun, MemRec

\* StartRun keeps the rows typed and linked.
LEMMA StartRunRows ==
  ASSUME TypeInv, NEW r \in Runs, NEW th \in Threads, NEW tn \in Turns \cup {None}, StartRun(r, th, tn)
  PROVE  /\ DBTypeOK' /\ RowsLinked'
         /\ UNCHANGED <<enabled, runKind, runTask>>
         /\ \A q \in Runs : runStatus'[q] = "absent" <=> runStatus[q] = "absent"
<1> USE DEF TypeInv, StartRun, dedupVars, Active, Coalesce
<1>1. DBTypeOK'
  BY StateDBAssumption DEF DBTypeOK, RunStatuses, TaskStatuses, Terminal, DedupStates
<1>2. RowsLinked'
  BY StateDBAssumption DEF DBTypeOK, RowsLinked
<1>3. UNCHANGED <<enabled, runKind, runTask>>
  OBVIOUS
<1>4. \A q \in Runs : runStatus'[q] = "absent" <=> runStatus[q] = "absent"
  BY DEF DBTypeOK
<1> QED
  BY <1>1, <1>2, <1>3, <1>4

\* The types after a step that also starts a run in the database.
LEMMA TypesKeptByStart ==
  ASSUME TypeInv, DBTypeOK', RowsLinked', UNCHANGED enabled,
         UNCHANGED <<proc, starts, failing, failCur, rt, leaked, flagVars, idxVars, stopVars, loopVars, codexVars>>,
         MemTypes', LaunchTypes', FinTypes'
  PROVE  TypeInv'
<1> USE DEF flagVars, idxVars, stopVars, loopVars, codexVars
<1>1. StreamTypes' /\ TurnTypes'
  BY StreamKept, TurnsUnchanged DEF TurnsKept
<1>2. ServeTypes' /\ RouterTypes' /\ FlagTypes' /\ IndexTypes' /\ StopTypes'
  BY DEF TypeInv, ServeTypes, RouterTypes, FlagTypes, IndexTypes, StopTypes
<1> QED
  BY <1>1, <1>2 DEF TypeInv

LEMMA LaunchStartRunStep ==
  ASSUME TypeInv, Custody, NEW r \in Runs, LaunchStartRun(r)
  PROVE  TypeInv' /\ RunStep(r)
<1> USE DEF LaunchStartRun, LaunchFrame, serveVars, rtVars, idxVars, flagVars, loopVars, codexVars
<1>1. r \in Live /\ mem[r] \in MemRec /\ launch[r].thread \in Threads
  BY DEF Custody, OnlyLiveRuns, TypeInv, MemTypes, LaunchTypes
<1>2. /\ DBTypeOK' /\ RowsLinked' /\ UNCHANGED <<enabled, runKind, runTask>>
      /\ \A q \in Runs : runStatus'[q] = "absent" <=> runStatus[q] = "absent"
  BY <1>1, StartRunRows
<1> DEFINE e == AfterStartRun(r)
<1>3. /\ e \in MemRec /\ e.key = mem[r].key /\ e.thread = mem[r].thread /\ e.turn = mem[r].turn
      /\ e.taskThread = launch[r].thread /\ e.terminal = mem[r].terminal
      /\ e.stopHandled = (mem[r].stopHandled \/ StopToTake(r))
  BY <1>1, AfterStartRunEffect
<1>4. e.thread # None \/ e.taskThread # None
  BY <1>1, <1>3, StateDBAssumption
<1> HIDE DEF e
<1>5. CASE FinishAs(r, e, "canceled", "stopped", None) /\ LaunchTo(r, "done")
  <2>1. Finished(r, None)
    BY <1>3, <1>4, <1>5, FinishAsEffect DEF Terminal, Bodies
  <2>2. LaunchTypes' /\ \A q \in Runs \ {r} : launch'[q] = launch[q]
    BY <1>5, LaunchToEffect DEF LaunchPCs
  <2>3. TypeInv'
    BY <1>2, <2>1, <2>2, TypesKeptByStart DEF Finished, stopVars
  <2>4. RunStep(r)
    BY <1>1, <1>2, <2>1, <2>2 DEF RunStep, Finished
  <2> QED
    BY <2>3, <2>4
<1>6. CASE mem' = [mem EXCEPT ![r] = e] /\ LaunchTo(r, "callTurn") /\ UNCHANGED fin
  <2>1. MemTypes' /\ mem'[r] = e /\ \A q \in Runs \ {r} : mem'[q] = mem[q]
    BY <1>3, <1>6 DEF TypeInv, MemTypes
  <2>2. LaunchTypes' /\ \A q \in Runs \ {r} : launch'[q] = launch[q]
    BY <1>1, <1>6, LaunchToEffect DEF LaunchPCs
  <2>3. TypeInv'
    BY <1>2, <1>6, <2>1, <2>2, TypesKeptByStart DEF stopVars, TypeInv, FinTypes
  <2>4. ThreadOf(r)' # None
    BY <1>3, <1>4, <2>1 DEF ThreadOf
  <2>5. RunStep(r)
    BY <1>1, <1>2, <1>3, <1>6, <2>1, <2>2, <2>4 DEF RunStep
  <2> QED
    BY <2>3, <2>5
<1> QED
  BY <1>5, <1>6 DEF e

LEMMA LaunchStartRunTurnStep ==
  ASSUME TypeInv, Custody, NEW r \in Runs, LaunchStartRunTurn(r)
  PROVE  TypeInv' /\ RunStep(r)
<1> USE DEF LaunchStartRunTurn, LaunchFrame, serveVars, rtVars, idxVars, flagVars, loopVars, codexVars
<1>1. r \in Live /\ mem[r] \in MemRec /\ launch[r].thread \in Threads /\ launch[r].turn \in Turns
  BY DEF Custody, OnlyLiveRuns, TypeInv, MemTypes, LaunchTypes
<1>2. /\ DBTypeOK' /\ RowsLinked' /\ UNCHANGED <<enabled, runKind, runTask>>
      /\ \A q \in Runs : runStatus'[q] = "absent" <=> runStatus[q] = "absent"
  BY <1>1, StartRunRows
<1> DEFINE e == AfterStartRun(r)
<1>3. /\ e \in MemRec /\ e.key = mem[r].key /\ e.thread = mem[r].thread /\ e.turn = mem[r].turn
      /\ e.taskThread = launch[r].thread /\ e.terminal = mem[r].terminal
  BY <1>1, AfterStartRunEffect
<1>4. mem' = [mem EXCEPT ![r] = e]
  OBVIOUS
<1> HIDE DEF e
<1>5. MemTypes' /\ mem'[r] = e /\ \A q \in Runs \ {r} : mem'[q] = mem[q]
  BY <1>3, <1>4 DEF TypeInv, MemTypes
<1>6. LaunchTypes' /\ \A q \in Runs \ {r} : launch'[q] = launch[q]
  <2>1. LaunchTo(r, "interrupt") \/ LaunchTo(r, "done")
    OBVIOUS
  <2> QED
    BY <1>1, <2>1, LaunchToEffect DEF LaunchPCs
<1>7. TypeInv'
  BY <1>2, <1>5, <1>6, TypesKeptByStart DEF stopVars, TypeInv, FinTypes
<1>8. ThreadOf(r)' # None
  BY <1>1, <1>3, <1>5, StateDBAssumption DEF ThreadOf
<1>9. RunStep(r)
  BY <1>1, <1>2, <1>3, <1>5, <1>6, <1>8 DEF RunStep
<1> QED
  BY <1>7, <1>9

LEMMA LaunchFailsStep ==
  ASSUME TypeInv, Custody, NEW r \in Runs, LaunchStartRunFails(r) \/ LaunchCallFails(r)
  PROVE  TypeInv' /\ RunStep(r)
<1> USE DEF LaunchFrame, serveVars, rtVars, idxVars, flagVars, loopVars, codexVars
<1>1. /\ launch[r].pc # "off" /\ LaunchTo(r, "done")
      /\ UNCHANGED <<dbVars, idxVars, awaitStop, interrupts, codexVars>> /\ LaunchFrame
  BY DEF LaunchStartRunFails, LaunchCallFails
<1>2. \E s \in Terminal, b \in Bodies : BeginFinish(r, s, b, None)
  BY DEF LaunchStartRunFails, LaunchCallFails, FinishFromError, CallErrors, Terminal, Bodies
<1>3. r \in Live
  BY <1>1 DEF Custody, OnlyLiveRuns
<1>4. Finished(r, None)
  BY <1>2, BeginFinishEffect
<1>5. LaunchTypes' /\ \A q \in Runs \ {r} : launch'[q] = launch[q]
  BY <1>1, LaunchToEffect DEF LaunchPCs
<1>6. StreamTypes' /\ TurnTypes'
  BY <1>1, StreamKept, TurnsUnchanged DEF TurnsKept
<1>7. TypeInv'
  BY <1>1, <1>4, <1>5, <1>6, TypesKept DEF Finished, TypeInv, ServeTypes, RouterTypes, IndexTypes, StopTypes, dbVars
<1>8. RunStep(r)
  BY <1>1, <1>3, <1>4, <1>5 DEF RunStep, Finished, dbVars
<1> QED
  BY <1>7, <1>8

LEMMA LaunchCallTurnStep ==
  ASSUME TypeInv, Custody, NEW r \in Runs, LaunchCallTurn(r)
  PROVE  TypeInv' /\ RunStep(r) /\ TurnsKept
<1> USE DEF LaunchCallTurn, LaunchFrame, serveVars, rtVars, idxVars, flagVars, loopVars
<1>1. r \in Live /\ launch[r].thread \in Threads
  BY DEF Custody, OnlyLiveRuns, TypeInv, LaunchTypes
<1>2. PICK tn \in Turns :
        /\ turn[tn].state = "none"
        /\ turn' = [turn EXCEPT ![tn] = [state |-> "running", thread |-> launch[r].thread, by |-> r]]
        /\ events' = Append(events, [type |-> "started", turn |-> tn])
        /\ launch' = [launch EXCEPT ![r].pc = "awaitTurn", ![r].turn = tn]
  OBVIOUS
<1> DEFINE u == [state |-> "running", thread |-> launch[r].thread, by |-> r]
           e == [type |-> "started", turn |-> tn]
           l == [launch[r] EXCEPT !.pc = "awaitTurn", !.turn = tn]
<1>3. u \in TurnRec /\ u.state = "running" /\ u.thread \in Threads /\ u.by \in Runs
  BY <1>1 DEF TurnRec
<1>4. e \in EventRec /\ e.turn = tn /\ e.type = "started"
  BY DEF EventRec
<1>5. l \in LaunchRec /\ l.pc = "awaitTurn" /\ l.turn = tn /\ l.thread = launch[r].thread
  BY DEF TypeInv, LaunchTypes, LaunchRec, LaunchPCs
<1>6. turn' = [turn EXCEPT ![tn] = u] /\ events' = Append(events, e) /\ launch' = [launch EXCEPT ![r] = l]
  BY <1>2
<1> HIDE DEF u, e, l
<1>7. TurnsKept /\ turn'[tn].state # "none"
  BY <1>2, <1>3, <1>6 DEF TurnsKept, TypeInv, TurnTypes, Exists, Ended
<1>8. StreamTypes'
  BY <1>4, <1>6, <1>7, StreamAppended
<1>9. LaunchTypes' /\ \A q \in Runs \ {r} : launch'[q] = launch[q]
  BY <1>1, <1>5, <1>6 DEF TypeInv, LaunchTypes
<1>10. TypeInv'
  BY <1>7, <1>8, <1>9, TypesKept DEF TurnsKept, TypeInv, ServeTypes, RouterTypes, IndexTypes, MemTypes, StopTypes, FinTypes, dbVars
<1>11. RunStep(r)
  BY <1>1, <1>9 DEF RunStep, ThreadOf, dbVars
<1> QED
  BY <1>7, <1>10, <1>11

LEMMA LaunchTurnStep ==
  ASSUME TypeInv, Custody, NEW r \in Runs, LaunchTurn(r)
  PROVE  TypeInv' /\ RunStep(r)
<1> USE DEF LaunchTurn, LaunchFrame, serveVars, rtVars, flagVars, loopVars, codexVars
<1>1. r \in Live /\ launch[r].thread \in Threads /\ launch[r].turn \in Turns
  BY DEF Custody, OnlyLiveRuns, TypeInv, LaunchTypes
<1>2. TurnSet(r, launch[r].turn)
  BY <1>1, SetTurnEffect
<1>3. LaunchTypes' /\ \A q \in Runs \ {r} : launch'[q] = launch[q]
  <2>1. LaunchTo(r, "done") \/ LaunchTo(r, "startRunTurn")
    OBVIOUS
  <2> QED
    BY <1>1, <2>1, LaunchToEffect DEF LaunchPCs
<1>4. StreamTypes' /\ TurnTypes'
  BY StreamKept, TurnsUnchanged DEF TurnsKept
<1>5. TypeInv'
  BY <1>2, <1>3, <1>4, TypesKept DEF TurnSet, TypeInv, ServeTypes, RouterTypes, IndexTypes, StopTypes, FinTypes, dbVars
<1>6. RunStep(r)
  BY <1>1, <1>2, <1>3 DEF TurnSet, RunStep, ThreadOf, dbVars
<1> QED
  BY <1>5, <1>6

LEMMA LaunchInterruptsStep ==
  ASSUME TypeInv, Custody, NEW r \in Runs, LaunchInterrupts(r)
  PROVE  TypeInv' /\ RunStep(r) /\ TurnsKept
<1> USE DEF LaunchInterrupts, LaunchFrame, serveVars, rtVars, idxVars, flagVars, loopVars
<1>1. r \in Live /\ launch[r].turn \in Turns
  BY DEF Custody, OnlyLiveRuns, TypeInv, LaunchTypes
<1>2. /\ FinishedOrNot(r) /\ TurnsKept /\ StreamTypes'
      /\ interrupts' = [interrupts EXCEPT ![r] = @ + 1]
      /\ awaitStop' \in {awaitStop, awaitStop \cup {r}}
      /\ UNCHANGED up
  BY <1>1, InterruptEffect
<1>3. LaunchTypes' /\ \A q \in Runs \ {r} : launch'[q] = launch[q]
  BY LaunchToEffect DEF LaunchPCs
<1>4. StopTypes'
  BY <1>2 DEF TypeInv, StopTypes
<1>5. TypeInv'
  BY <1>2, <1>3, <1>4, TypesKept DEF FinishedOrNot, TurnsKept, TypeInv, ServeTypes, RouterTypes, IndexTypes, dbVars
<1>6. RunStep(r)
  BY <1>1, <1>2, <1>3 DEF RunStep, FinishedOrNot, Finished, ThreadOf, dbVars, TypeInv, StopTypes
<1> QED
  BY <1>2, <1>5, <1>6

\* The run an event is for, when there is one, is with the controller.
LEMMA ActiveForIsLive ==
  ASSUME TypeInv, Custody, events # <<>>
  PROVE  /\ Head(events) \in EventRec /\ Head(events).turn \in Turns
         /\ Exists(Head(events).turn)
         /\ Head(events).type = "completed" => turn[Head(events).turn].state \in Ended
         /\ ActiveFor(Head(events).turn) # None => ActiveFor(Head(events).turn) \in Live
<1>1. Head(events) \in EventRec /\ 1 \in DOMAIN events /\ Head(events) = events[1]
  BY DEF TypeInv, StreamTypes
<1>2. Head(events).turn \in Turns
  BY <1>1 DEF EventRec
<1>3. /\ Exists(Head(events).turn)
      /\ Head(events).type = "completed" => turn[Head(events).turn].state \in Ended
  BY <1>1 DEF TypeInv, StreamTypes
<1> QED
  BY <1>1, <1>2, <1>3 DEF ActiveFor, Custody, OnlyLiveRuns, TypeInv, TurnTypes

LEMMA EventTurnStep ==
  ASSUME TypeInv, Custody, NEW r, r = ActiveFor(Head(events).turn), r # None,
         EventTurnStarted \/ EventTurnCompleted
  PROVE  r \in Runs /\ TypeInv' /\ RunStep(r)
<1> USE DEF LoopTakes, LoopFrame, serveVars, rtVars, flagVars, stopVars, loopVars
<1> DEFINE tn == Head(events).turn
<1>1. /\ events # <<>> /\ events' = Tail(events) /\ SetTurn(r, tn)
      /\ UNCHANGED <<fin, loopOn, turn>> /\ LoopFrame
      /\ held' = held \/ (held' = [run |-> r, turn |-> tn] /\ Head(events).type = "completed")
  BY DEF EventTurnStarted, EventTurnCompleted
<1>2. r \in Live /\ r \in Runs /\ tn \in Turns /\ (Head(events).type = "completed" => turn[tn].state \in Ended)
  BY <1>1, ActiveForIsLive DEF Live
<1>3. TurnSet(r, tn)
  BY <1>1, <1>2, SetTurnEffect
<1>4. TurnsKept
  BY <1>1, TurnsUnchanged
<1>5. StreamTypes'
  <2>1. CASE held' = held
    BY <1>1, <1>4, <2>1, StreamKept
  <2>2. CASE held' = [run |-> r, turn |-> tn] /\ Head(events).type = "completed"
    <3>1. held' \in [run : Runs \cup {None}, turn : Turns \cup {None}] /\ held'.run = r /\ held'.turn = tn
      BY <1>2, <2>2
    <3>2. events' \in Seq(EventRec) /\ \A i \in DOMAIN events' : i + 1 \in DOMAIN events /\ events'[i] = events[i + 1]
      BY <1>1 DEF TypeInv, StreamTypes
    <3>3. \A i \in DOMAIN events' : /\ turn[events'[i].turn].state # "none"
                                    /\ events'[i].type = "completed" => turn[events'[i].turn].state \in Ended
      BY <3>2 DEF TypeInv, StreamTypes, Exists
    <3> QED
      BY <1>1, <1>2, <2>2, <3>1, <3>2, <3>3 DEF StreamTypes, Exists
  <2> QED
    BY <1>1, <2>1, <2>2
<1>6. TypeInv'
  BY <1>1, <1>3, <1>4, <1>5, TypesKept DEF TurnSet, TurnsKept, TypeInv, ServeTypes, RouterTypes, IndexTypes, LaunchTypes, StopTypes, FinTypes, dbVars
<1>7. held'.run \in {held.run, None, r}
  BY <1>1
<1>8. RunStep(r)
  BY <1>1, <1>2, <1>3, <1>7 DEF TurnSet, RunStep, ThreadOf, dbVars
<1> QED
  BY <1>2, <1>6, <1>8

LEMMA EventFinishStep ==
  ASSUME TypeInv, Custody, NEW r, r = held.run, EventFinish
  PROVE  r \in Runs /\ TypeInv' /\ RunStep(r) /\ Finished(r, held.turn)
<1> USE DEF EventFinish, LoopFrame, serveVars, rtVars, flagVars, stopVars
<1>1. r \in Runs /\ held.turn \in Turns /\ turn[held.turn].state \in Terminal
  BY DEF TypeInv, StreamTypes, Ended, Terminal
<1>2. Finished(r, held.turn)
  BY <1>1, BeginFinishEffect DEF Bodies
<1>3. r \in Live
  BY <1>1, StateDBAssumption DEF Custody, OnlyLiveRuns
<1>4. StreamTypes' /\ TurnTypes'
  BY DEF TypeInv, StreamTypes, TurnTypes, Exists, NoEvent
<1>5. TypeInv'
  BY <1>2, <1>4, TypesKept DEF Finished, TypeInv, ServeTypes, RouterTypes, IndexTypes, LaunchTypes, StopTypes, dbVars
<1>6. RunStep(r)
  BY <1>2, <1>3 DEF Finished, RunStep, NoEvent, dbVars
<1> QED
  BY <1>1, <1>2, <1>5, <1>6

-----------------------------------------------------------------------------
(* Steps that hand no run over *)

\* The step refers to no run anew and leaves the keepers of the runs alone.
IdleStep ==
  /\ \A q \in Runs : /\ mem'[q].key = mem[q].key /\ mem'[q].terminal = mem[q].terminal
                     /\ mem'[q].thread = mem[q].thread /\ mem'[q].taskThread = mem[q].taskThread
                     /\ runStatus'[q] = "absent" <=> runStatus[q] = "absent"
  /\ UNCHANGED <<fin, launch, stopVars, reg, byThread, byTurn, leaked, held, runKind>>
  /\ failing' \subseteq failing \cup reg
  /\ ~Running' => ~Running
  /\ \/ UNCHANGED rt
     \/ /\ Running /\ rt'.run = rt.run /\ rt'.pc \notin {"stop", "steer"}
        /\ rt.run # None => rt'.key = rt.key

LEMMA IdleStepCustody ==
  ASSUME TypeInv, Custody, IdleStep
  PROVE  Custody' /\ UNCHANGED Owed
<1>1. Live' = Live
  BY DEF Live, IdleStep
<1>2. OnlyLiveRuns'
  BY <1>1 DEF IdleStep, Custody, OnlyLiveRuns, stopVars
<1>3. OneKeeper'
  BY <1>1, StateDBAssumption DEF IdleStep, Custody, OneKeeper
<1>4. FinalizedOnce'
  BY <1>1 DEF IdleStep, Custody, FinalizedOnce
<1>5. ResumedHasThread'
  BY <1>1 DEF IdleStep, Custody, ResumedHasThread, ThreadOf, Live
<1>6. \A q \in Runs : /\ rt'.run = q <=> rt.run = q
                      /\ rt.run = q => rt'.key = rt.key
  BY StateDBAssumption DEF IdleStep
<1>7. UNCHANGED Owed
  BY <1>6 DEF Owed, IdleStep
<1> QED
  BY <1>2, <1>3, <1>4, <1>5, <1>7 DEF Custody

\* An event about a turn no run is registered for is dropped.
LEMMA EventDroppedStep ==
  ASSUME TypeInv, Custody, ActiveFor(Head(events).turn) = None, EventTurnStarted \/ EventTurnCompleted
  PROVE  TypeInv' /\ IdleStep
<1> USE DEF LoopTakes, LoopFrame, serveVars, rtVars, flagVars, stopVars, loopVars
<1>1. /\ events # <<>> /\ events' = Tail(events)
      /\ UNCHANGED <<fin, loopOn, turn, held, mem, byTurn>> /\ LoopFrame
  BY DEF EventTurnStarted, EventTurnCompleted
<1>2. StreamTypes' /\ TurnTypes'
  BY <1>1, StreamKept, TurnsUnchanged DEF TurnsKept
<1>3. TypeInv'
  BY <1>1, <1>2, TypesKept DEF TypeInv, ServeTypes, RouterTypes, IndexTypes, MemTypes, LaunchTypes, StopTypes, FinTypes, dbVars
<1>4. IdleStep
  BY <1>1 DEF IdleStep, Running, dbVars
<1> QED
  BY <1>3, <1>4

\* The main goroutine outside the startup, the loss reports and the turns.
LEMMA ServeStep ==
  ASSUME TypeInv, Custody,
         TakeLoss \/ FailReturns \/ FailDone \/ Shutdown \/ ReportLoss \/ LoopStops
  PROVE  TypeInv' /\ IdleStep /\ UNCHANGED <<dbVars, Phase>>
<1> USE DEF TakeLoss, FailReturns, FailDone, Shutdown, ReportLoss, LoopStops, LoopFrame,
            serveVars, rtVars, idxVars, flagVars, stopVars, loopVars, codexVars
<1>1. UNCHANGED <<dbVars, starts, rtVars, idxVars, closed, mem, launch, stopVars, fin, held, codexVars>>
  OBVIOUS
<1>2. (~Running' => ~Running) /\ UNCHANGED Phase
  BY DEF Running, Phase
<1>3. StreamTypes' /\ TurnTypes'
  BY <1>1, StreamKept, TurnsUnchanged DEF TurnsKept
<1>4. ServeTypes' /\ FlagTypes'
  BY DEF TypeInv, ServeTypes, FlagTypes, IndexTypes, dbVars
<1>5. TypeInv'
  BY <1>1, <1>3, <1>4 DEF TypeInv, DBTypeOK, RowsLinked, RouterTypes, IndexTypes, MemTypes, LaunchTypes, StopTypes, FinTypes, dbVars
<1>6. IdleStep
  BY <1>1, <1>2 DEF IdleStep, dbVars
<1> QED
  BY <1>1, <1>2, <1>5, <1>6

\* The app-server goes away, or one of its turns ends.
LEMMA CodexStep ==
  ASSUME TypeInv, Custody,
         AppServerLost \/ \E tn \in Turns, outcome \in Ended : TurnEnds(tn, outcome)
  PROVE  TypeInv' /\ IdleStep /\ UNCHANGED <<dbVars, Phase>> /\ TurnsKept
<1> USE DEF AppServerLost, TurnEnds, serveVars, rtVars, idxVars, flagVars, stopVars, loopVars
<1>1. /\ UNCHANGED <<dbVars, serveVars, rtVars, idxVars, flagVars, mem, launch, stopVars, fin, loopVars>>
      /\ up' \in {up, FALSE}
  OBVIOUS
<1>2. TurnsKept /\ StreamTypes'
  <2>1. CASE AppServerLost
    <3>1. TurnsKept
      BY <2>1, KillTurnsEffect
    <3> QED
      BY <2>1, <3>1, StreamKept
  <2>2. CASE \E tn \in Turns, outcome \in Ended : TurnEnds(tn, outcome)
    BY <2>2, TurnEnded
  <2> QED
    BY <2>1, <2>2
<1>3. DBTypeOK' /\ RowsLinked' /\ ServeTypes' /\ RouterTypes'
  BY <1>1 DEF TypeInv, DBTypeOK, RowsLinked, ServeTypes, RouterTypes, dbVars
<1>4. FlagTypes' /\ IndexTypes' /\ MemTypes' /\ LaunchTypes' /\ StopTypes' /\ FinTypes'
  BY <1>1 DEF TypeInv, FlagTypes, IndexTypes, MemTypes, LaunchTypes, StopTypes, FinTypes
<1>5. TypeInv'
  BY <1>2, <1>3, <1>4 DEF TypeInv, TurnsKept
<1>6. IdleStep /\ UNCHANGED Phase
  BY <1>1 DEF IdleStep, Running, Phase, dbVars
<1> QED
  BY <1>1, <1>2, <1>5, <1>6

LEMMA StartUsersStep ==
  ASSUME TypeInv, Custody, StartUsers
  PROVE  TypeInv' /\ IdleStep
<1> USE DEF StartUsers, RefreshUsers, rtVars, idxVars, flagVars, stopVars, loopVars, codexVars, taskVars, runVars, dedupVars
<1>1. DBTypeOK' /\ RowsLinked'
  BY DEF TypeInv, DBTypeOK, RowsLinked
<1>2. ServeTypes'
  BY BridgeAssumption DEF TypeInv, ServeTypes
<1>3. StreamTypes' /\ TurnTypes'
  BY StreamKept, TurnsUnchanged DEF TurnsKept
<1>4. TypeInv'
  BY <1>1, <1>2, <1>3 DEF TypeInv, RouterTypes, FlagTypes, IndexTypes, MemTypes, LaunchTypes, StopTypes, FinTypes
<1>5. IdleStep
  BY DEF IdleStep, Running
<1> QED
  BY <1>4, <1>5

LEMMA StartRecoverStep ==
  ASSUME TypeInv, Custody, StartRecover
  PROVE  TypeInv' /\ IdleStep
<1> USE DEF StartRecover, RecoverRunning, rtVars, idxVars, flagVars, stopVars, loopVars, codexVars
<1>1. DBTypeOK' /\ RowsLinked'
  BY DEF TypeInv, DBTypeOK, RowsLinked, RunStatuses, TaskStatuses, Active, Terminal, DedupStates
<1>2. ServeTypes' /\ FlagTypes'
  BY DEF TypeInv, ServeTypes, FlagTypes
<1>3. StreamTypes' /\ TurnTypes'
  BY StreamKept, TurnsUnchanged DEF TurnsKept
<1>4. TypeInv'
  BY <1>1, <1>2, <1>3 DEF TypeInv, RouterTypes, IndexTypes, MemTypes, LaunchTypes, StopTypes, FinTypes
<1>5. \A q \in Runs : runStatus'[q] = "absent" <=> runStatus[q] = "absent"
  BY DEF TypeInv, DBTypeOK, Active
<1>6. IdleStep
  BY <1>5 DEF IdleStep, Running
<1> QED
  BY <1>4, <1>6

LEMMA CloseControllerStep ==
  ASSUME TypeInv, Custody, CloseController
  PROVE  TypeInv' /\ IdleStep /\ UNCHANGED <<dbVars, Phase>>
<1> USE DEF CloseController, serveVars, rtVars, idxVars, flagVars, stopVars, loopVars, codexVars
<1> DEFINE e(r) == IF r \in reg THEN [mem[r] EXCEPT !.cancelled = TRUE] ELSE mem[r]
<1>1. \A r \in Runs : /\ e(r) \in MemRec /\ e(r).key = mem[r].key /\ e(r).terminal = mem[r].terminal
                      /\ e(r).thread = mem[r].thread /\ e(r).taskThread = mem[r].taskThread
  BY DEF TypeInv, MemTypes, MemRec
<1>2. mem' = [r \in Runs |-> e(r)]
  OBVIOUS
<1> HIDE DEF e
<1>3. StreamTypes' /\ TurnTypes'
  BY StreamKept, TurnsUnchanged DEF TurnsKept
<1>4. MemTypes'
  BY <1>1, <1>2 DEF MemTypes
<1>5. FlagTypes'
  BY DEF TypeInv, FlagTypes
<1>6. TypeInv'
  BY <1>3, <1>4, <1>5 DEF TypeInv, DBTypeOK, RowsLinked, ServeTypes, RouterTypes, IndexTypes, LaunchTypes, StopTypes, FinTypes, dbVars
<1>7. IdleStep /\ UNCHANGED Phase
  BY <1>1, <1>2 DEF IdleStep, Running, Phase, dbVars
<1> QED
  BY <1>6, <1>7

\* The types after a step of the router that changes its handler and the database only.
LEMMA RouterTypesKept ==
  ASSUME TypeInv, RouterOnly, DBTypeOK', RowsLinked', RouterTypes', UNCHANGED enabled
  PROVE  TypeInv'
<1> USE DEF RouterOnly, RouterStep, serveVars, idxVars, flagVars, stopVars, loopVars, codexVars
<1>1. StreamTypes' /\ TurnTypes'
  BY StreamKept, TurnsUnchanged DEF TurnsKept
<1>2. ServeTypes' /\ FlagTypes' /\ IndexTypes' /\ MemTypes' /\ LaunchTypes' /\ StopTypes' /\ FinTypes'
  BY DEF TypeInv, ServeTypes, FlagTypes, IndexTypes, MemTypes, LaunchTypes, StopTypes, FinTypes
<1> QED
  BY <1>1, <1>2 DEF TypeInv

LEMMA RouterIdleStep ==
  ASSUME TypeInv, Custody, RouterOnly, Running,
         rt'.run = rt.run, rt'.pc \notin {"stop", "steer"}, rt.run # None => rt'.key = rt.key,
         UNCHANGED runKind,
         \A q \in Runs : runStatus'[q] = "absent" <=> runStatus[q] = "absent"
  PROVE  IdleStep /\ UNCHANGED Phase
BY DEF IdleStep, Phase, Running, RouterOnly, RouterStep, serveVars, idxVars, flagVars, stopVars, loopVars, codexVars

\* A handler in progress means that the process serves.
LEMMA HandlerRuns ==
  ASSUME TypeInv, Custody, rt.pc # "idle" \/ Accepting
  PROVE  Running
BY DEF Custody, OneKeeper, Idle, Accepting, Running

Handler(pc, k, t, r, a) == [pc |-> pc, key |-> k, task |-> t, run |-> r, arg |-> a]

LEMMA RouterArgs == None \in RtArgs /\ Cards \subseteq RtArgs
BY DEF RtArgs

\* Events that admit no run: refused, a desktop thread, a restart.
LEMMA HandleOtherStep ==
  ASSUME TypeInv, Custody,
         \/ \E k \in Keys, t \in Tasks, u \in Users : HandleRefusedContinue(k, t, u)
         \/ \E k \in Keys, t \in Tasks, th \in Threads, u \in Users : HandleAttach(k, t, th, u)
         \/ \E k \in Keys : HandleRestart(k)
  PROVE  TypeInv' /\ IdleStep /\ Running /\ UNCHANGED Phase
<1> USE DEF HandleRefusedContinue, HandleAttach, HandleRestart, RejectResume, AttachThread, AdmitRestart,
            taskVars, runVars
<1>1. RouterOnly /\ Accepting /\ UNCHANGED <<runVars, enabled>>
  OBVIOUS
<1>2. rt = Idle /\ Running
  BY <1>1, HandlerRuns DEF TypeInv, RouterTypes, Accepting
<1>3. DBTypeOK'
  <2>1. CASE \E k \in Keys, t \in Tasks, u \in Users : HandleRefusedContinue(k, t, u)
    BY <2>1 DEF TypeInv, DBTypeOK, DedupStates
  <2>2. ASSUME NEW k \in Keys, NEW t \in Tasks, NEW th \in Threads, NEW u \in Users, HandleAttach(k, t, th, u)
        PROVE  DBTypeOK'
    BY <2>2 DEF TypeInv, DBTypeOK, TaskStatuses, DedupStates
  <2>3. CASE \E k \in Keys : HandleRestart(k)
    BY <2>3 DEF TypeInv, DBTypeOK, DedupStates
  <2> QED
    BY <2>1, <2>2, <2>3
<1>4. RowsLinked' /\ UNCHANGED leaked
  BY <1>1 DEF TypeInv, RowsLinked, RouterOnly
<1>5. RouterTypes' /\ rt'.run = None /\ rt'.pc \notin {"stop", "steer"}
  <2>1. \/ rt' = Idle
        \/ \E pc \in {"attachCard", "restarting"}, t \in Tasks \cup {None} :
             rt' = Handler(pc, None, t, None, None) /\ (pc = "attachCard" => t \in Tasks)
    BY <1>2 DEF Idle, Handler
  <2>2. CASE rt' = Idle
    BY <1>2, <1>4, <2>2 DEF TypeInv, RouterTypes, Idle
  <2>3. ASSUME NEW pc \in {"attachCard", "restarting"}, NEW t \in Tasks \cup {None},
               rt' = Handler(pc, None, t, None, None), pc = "attachCard" => t \in Tasks
        PROVE  RouterTypes' /\ rt'.run = None /\ rt'.pc \notin {"stop", "steer"}
    <3>1. rt' \in RtRec /\ rt'.pc = pc /\ rt'.task = t /\ rt'.run = None
      <4>1. pc \in RouterPCs /\ None \in RtArgs
        BY RouterArgs DEF RouterPCs
      <4>2. /\ Handler(pc, None, t, None, None) \in RtRec
            /\ Handler(pc, None, t, None, None).pc = pc /\ Handler(pc, None, t, None, None).task = t
            /\ Handler(pc, None, t, None, None).run = None
        BY <4>1 DEF Handler, RtRec
      <4> QED
        BY <2>3, <4>2
    <3> QED
      BY <1>4, <2>3, <3>1 DEF TypeInv, RouterTypes
  <2> QED
    BY <2>1, <2>2, <2>3
<1>6. TypeInv'
  BY <1>1, <1>3, <1>4, <1>5, RouterTypesKept
<1>7. IdleStep /\ UNCHANGED Phase
  BY <1>1, <1>2, <1>5, RouterIdleStep DEF Idle
<1> QED
  BY <1>2, <1>6, <1>7

LEMMA RouterRestartStep ==
  ASSUME TypeInv, Custody, NEW sent \in BOOLEAN, RouterRestart(sent)
  PROVE  TypeInv' /\ IdleStep /\ UNCHANGED <<dbVars, Phase>>
<1> USE DEF RouterRestart, serveVars, idxVars, flagVars, stopVars, loopVars, codexVars
<1>1. Running /\ Running' /\ rt.run = None
  BY HandlerRuns DEF Running, TypeInv, RouterTypes
<1>2. StreamTypes' /\ TurnTypes'
  BY StreamKept, TurnsUnchanged DEF TurnsKept
<1>3. RouterTypes'
  BY DEF TypeInv, RouterTypes, RtRec, RtArgs, Idle, RouterPCs
<1>4. ServeTypes'
  BY <1>1 DEF TypeInv, ServeTypes, dbVars
<1>5. TypeInv'
  BY <1>2, <1>3, <1>4 DEF TypeInv, DBTypeOK, RowsLinked, FlagTypes, IndexTypes, MemTypes, LaunchTypes, StopTypes, FinTypes, dbVars
<1>6. IdleStep
  BY <1>1 DEF IdleStep, Idle, dbVars
<1>7. UNCHANGED Phase
  BY <1>1 DEF Phase, Running
<1> QED
  BY <1>5, <1>6, <1>7

\* The root card of the handler: sent, recorded, routed, or one of them failed.
LEMMA RouterCardStep ==
  ASSUME TypeInv, Custody,
         (\E c \in Cards : RouterCard(c)) \/ RouterRoot \/ RouterRoute \/ RouterCallFails \/ RouterEnqueueRefused
  PROVE  TypeInv' /\ IdleStep /\ Running /\ UNCHANGED Phase
<1> USE DEF RouterCard, RouterRoot, RouterRoute, RouterCallFails, RouterEnqueueRefused,
            SetTaskRootMessageID, InsertMessageRoute, dbVars, taskVars, runVars, dedupVars
<1>1. RouterOnly /\ rt.pc # "idle" /\ rt.pc \notin {"stop", "steer"} /\ UNCHANGED <<runVars, enabled>>
  OBVIOUS
<1>2. Running
  BY <1>1, HandlerRuns
<1>3. DBTypeOK'
  BY DEF TypeInv, DBTypeOK, RouterTypes
<1>4. RowsLinked'
  BY <1>1 DEF TypeInv, RowsLinked
<1>5. UNCHANGED leaked
  BY <1>1 DEF RouterOnly
<1>6. rt \in RtRec /\ rt = Handler(rt.pc, rt.key, rt.task, rt.run, rt.arg)
  BY DEF TypeInv, RouterTypes, RtRec, Handler
<1> DEFINE h(pc, arg) == Handler(pc, rt.key, rt.task, rt.run, arg)
           Next1(pc, arg) ==
             /\ rt' = h(pc, arg)
             /\ pc \in {"root", "attachRoot", "route", "attachRoute"} => arg \in Cards
             /\ pc \in {"root", "route", "enqueue", "failRun"} => rt.run \in Runs /\ rt.key \in Keys /\ rt.task \in Tasks
             /\ pc \in {"attachRoot", "attachRoute"} => rt.run = None /\ rt.task \in Tasks
<1>7. \/ rt' = Idle /\ rt.run = None
      \/ \E pc \in {"root", "attachRoot", "route", "attachRoute", "enqueue", "failRun"}, arg \in Cards \cup {rt.arg} :
           Next1(pc, arg)
  <2> USE DEF TypeInv, RouterTypes, RtRec, Handler
  <2>1. ASSUME NEW c \in Cards, RouterCard(c)
        PROVE  \E pc \in {"root", "attachRoot"}, arg \in Cards : Next1(pc, arg)
    <3>1. rt' = h(IF rt.pc = "card" THEN "root" ELSE "attachRoot", c)
      BY <2>1
    <3> QED
      BY <2>1, <3>1
  <2>2. CASE RouterRoot
    <3>1. rt' = h(IF rt.pc = "root" THEN "route" ELSE "attachRoute", rt.arg)
      BY <2>2
    <3> QED
      BY <2>2, <3>1
  <2>3. CASE RouterRoute
    <3>1. rt.pc = "route" => rt' = h("enqueue", rt.arg)
      BY <2>3
    <3>2. rt.pc # "route" => rt' = Idle /\ rt.run = None
      BY <2>3
    <3> QED
      BY <2>3, <3>1, <3>2
  <2>4. CASE RouterCallFails
    <3>1. /\ rt.run # None => rt' = h("failRun", rt.arg)
          /\ rt.run = None => rt' = Idle
      BY <2>4
    <3>2. rt.run # None => rt.run \in Runs /\ rt.key \in Keys /\ rt.task \in Tasks
      BY <2>4, StateDBAssumption
    <3> QED
      BY <3>1, <3>2
  <2>5. CASE RouterEnqueueRefused
    <3>1. rt' = h("failRun", rt.arg)
      BY <2>5
    <3> QED
      BY <2>5, <3>1
  <2> QED
    BY <2>1, <2>2, <2>3, <2>4, <2>5
<1>8. RouterTypes' /\ rt'.run = rt.run /\ rt'.pc \notin {"stop", "steer"} /\ (rt.run # None => rt'.key = rt.key)
  <2>1. CASE rt' = Idle /\ rt.run = None
    <3>1. Idle \in RtRec /\ Idle.run = None /\ Idle.pc = "idle"
      BY RouterArgs DEF Idle, RtRec, RouterPCs
    <3> QED
      BY <1>5, <2>1, <3>1 DEF TypeInv, RouterTypes
  <2>2. ASSUME NEW pc \in {"root", "attachRoot", "route", "attachRoute", "enqueue", "failRun"},
               NEW arg \in Cards \cup {rt.arg}, Next1(pc, arg)
        PROVE  RouterTypes' /\ rt'.run = rt.run /\ rt'.pc \notin {"stop", "steer"} /\ rt'.key = rt.key
    <3>1. pc \in RouterPCs /\ rt.key \in Keys \cup {None} /\ rt.task \in Tasks \cup {None}
          /\ rt.run \in Runs \cup {None} /\ arg \in RtArgs
      BY <1>6, RouterArgs DEF RouterPCs, RtRec
    <3>2. rt' \in RtRec /\ rt'.pc = pc /\ rt'.key = rt.key /\ rt'.task = rt.task /\ rt'.run = rt.run /\ rt'.arg = arg
      <4>1. /\ h(pc, arg) \in RtRec
            /\ h(pc, arg).pc = pc /\ h(pc, arg).key = rt.key /\ h(pc, arg).task = rt.task
            /\ h(pc, arg).run = rt.run /\ h(pc, arg).arg = arg
        BY <3>1 DEF Handler, RtRec
      <4> QED
        BY <2>2, <4>1
    <3> QED
      BY <1>5, <2>2, <3>2 DEF TypeInv, RouterTypes
  <2> QED
    BY <1>7, <2>1, <2>2
<1>9. TypeInv'
  BY <1>1, <1>3, <1>4, <1>8, RouterTypesKept
<1>10. IdleStep /\ UNCHANGED Phase
  BY <1>1, <1>2, <1>8, RouterIdleStep
<1> QED
  BY <1>2, <1>9, <1>10

-----------------------------------------------------------------------------
(* Steps that hand a run over: admission, Enqueue, failQueuedRun, finalize *)

LEMMA AdmitRows ==
  ASSUME TypeInv, NEW k \in Keys, NEW t \in Tasks, NEW r \in Runs, NEW u \in Users,
         AdmitNewTask(k, t, r, u) \/ AdmitResumeRun(k, t, r, u)
  PROVE  /\ DBTypeOK' /\ RowsLinked' /\ UNCHANGED enabled
         /\ runStatus[r] = "absent" /\ runStatus' = [runStatus EXCEPT ![r] = "queued"]
         /\ \A q \in Runs \ {r} : runKind'[q] = runKind[q]
<1> USE DEF TypeInv, DBTypeOK, RowsLinked, RunStatuses, TaskStatuses, Active, DedupStates
<1>1. CASE AdmitNewTask(k, t, r, u)
  BY <1>1 DEF AdmitNewTask
<1>2. CASE AdmitResumeRun(k, t, r, u)
  BY <1>2 DEF AdmitResumeRun, ResumeRejected
<1> QED
  BY <1>1, <1>2

\* The handler takes a run that nobody has.
LEMMA HandleAdmitStep ==
  ASSUME TypeInv, Custody, NEW k \in Keys, NEW t \in Tasks, NEW r \in Runs, NEW u \in Users,
         HandleNewTask(k, t, r, u) \/ HandleContinue(k, t, r, u)
  PROVE  TypeInv' /\ Custody' /\ Running /\ UNCHANGED Phase /\ Owed' = [Owed EXCEPT ![r] = k]
<1>1. /\ Accepting /\ RouterOnly
      /\ AdmitNewTask(k, t, r, u) \/ AdmitResumeRun(k, t, r, u)
      /\ \E pc \in {"card", "enqueue", "failRun"} : rt' = Handler(pc, k, t, r, None)
  BY DEF HandleNewTask, HandleContinue, Handler
<1>2. /\ DBTypeOK' /\ RowsLinked' /\ UNCHANGED enabled
      /\ runStatus[r] = "absent" /\ runStatus' = [runStatus EXCEPT ![r] = "queued"]
      /\ \A q \in Runs \ {r} : runKind'[q] = runKind[q]
  BY <1>1, AdmitRows
<1>3. Running /\ rt = Idle /\ UNCHANGED Phase
  BY <1>1, HandlerRuns DEF TypeInv, RouterTypes, Accepting, Phase, RouterOnly, RouterStep, serveVars
<1>4. /\ rt' \in RtRec /\ rt'.run = r /\ rt'.key = k /\ rt'.task = t /\ rt'.pc \in {"card", "enqueue", "failRun"}
  <2>1. PICK pc \in {"card", "enqueue", "failRun"} : rt' = Handler(pc, k, t, r, None)
    BY <1>1
  <2>2. pc \in RouterPCs /\ None \in RtArgs
    BY RouterArgs DEF RouterPCs
  <2> QED
    BY <2>1, <2>2 DEF Handler, RtRec
<1>5. RouterTypes'
  BY <1>1, <1>4 DEF TypeInv, RouterTypes, RouterOnly
<1>6. TypeInv'
  BY <1>1, <1>2, <1>5, RouterTypesKept
<1>7. /\ UNCHANGED <<mem, fin, launch, stopVars, reg, byThread, byTurn, leaked, held, failing, proc>>
      /\ Live' = Live /\ Running'
  BY <1>1, <1>3 DEF RouterOnly, RouterStep, serveVars, idxVars, stopVars, loopVars, Live, Running
<1>8. OnlyLiveRuns'
  BY <1>4, <1>7 DEF Custody, OnlyLiveRuns, stopVars
<1>9. r \notin Live /\ leaked[r] = None
  BY <1>2 DEF Custody, OneKeeper
<1>10. OneKeeper'
  BY <1>2, <1>4, <1>7, <1>9 DEF Custody, OneKeeper, TypeInv, DBTypeOK
<1>11. FinalizedOnce' /\ ResumedHasThread'
  BY <1>2, <1>7, <1>9 DEF Custody, FinalizedOnce, ResumedHasThread, ThreadOf, Live
<1>12. Owed' = [Owed EXCEPT ![r] = k]
  <2>1. \A q \in Runs : rt.run # q
    BY <1>3, StateDBAssumption DEF Idle
  <2>2. Custody'
    BY <1>8, <1>10, <1>11 DEF Custody
  <2> QED
    BY <1>4, <1>6, <1>7, <2>1, <2>2, OwedIs, OwedWillBe DEF Keeps
<1> QED
  BY <1>3, <1>6, <1>8, <1>10, <1>11, <1>12 DEF Custody

\* Enqueue: the controller takes the run from the handler.
LEMMA RouterEnqueueStep ==
  ASSUME TypeInv, Custody, RouterEnqueue
  PROVE  TypeInv' /\ Custody' /\ UNCHANGED <<dbVars, Phase, Owed>>
<1> USE DEF RouterEnqueue, RouterStep, serveVars, flagVars, stopVars, loopVars, codexVars
<1>1. PICK r \in Runs : r = rt.run
  BY DEF TypeInv, RouterTypes
<1> DEFINE e == [NoMem EXCEPT !.key = rt.key, !.taskThread = runThread[r]]
           l == [launch[r] EXCEPT !.pc = "thread"]
<1>2. /\ e \in MemRec /\ e.key = rt.key /\ e.thread = None /\ e.taskThread = runThread[r]
      /\ ~e.terminal /\ rt.key \in Keys
  BY <1>1 DEF TypeInv, RouterTypes, DBTypeOK, MemRec, NoMem
<1>3. l \in LaunchRec /\ l.pc = "thread"
  BY DEF TypeInv, LaunchTypes, LaunchRec, LaunchPCs
<1>4. mem' = [mem EXCEPT ![r] = e] /\ launch' = [launch EXCEPT ![r] = l]
  BY <1>1
<1> HIDE DEF e, l
<1>5. /\ r \notin Live /\ leaked[r] = None /\ runStatus[r] # "absent" /\ Running
      /\ fin[r].pc = "none" /\ intStop[r] = None /\ interrupts[r] = 0
  <2>1. r \notin Live /\ leaked[r] = None /\ runStatus[r] # "absent"
    BY <1>1 DEF Custody, OneKeeper
  <2>2. Running
    BY HandlerRuns
  <2> QED
    BY <2>1, <2>2 DEF Custody, OnlyLiveRuns
<1>6. MemTypes' /\ mem'[r] = e /\ \A q \in Runs \ {r} : mem'[q] = mem[q]
  BY <1>2, <1>4 DEF TypeInv, MemTypes
<1>7. LaunchTypes' /\ \A q \in Runs \ {r} : launch'[q] = launch[q]
  BY <1>3, <1>4 DEF TypeInv, LaunchTypes
<1>8. RouterTypes'
  BY RouterArgs DEF TypeInv, RouterTypes, RtRec, Idle, RouterPCs
<1>9. IndexTypes'
  BY <1>1 DEF TypeInv, IndexTypes
<1>10. StreamTypes' /\ TurnTypes'
  BY StreamKept, TurnsUnchanged DEF TurnsKept
<1>11. TypeInv'
  BY <1>6, <1>7, <1>8, <1>9, <1>10 DEF TypeInv, DBTypeOK, RowsLinked, ServeTypes, FlagTypes, StopTypes, FinTypes, dbVars
<1>12. Live' = Live \cup {r}
  BY <1>2, <1>6, StateDBAssumption DEF Live
<1>13. OnlyLiveRuns'
  BY <1>1, <1>5, <1>7, <1>12 DEF Custody, OnlyLiveRuns, Idle
<1>14. OneKeeper'
  <2>1. rt' = Idle /\ rt'.run = None /\ UNCHANGED <<leaked, runStatus>> /\ Running'
    BY <1>5 DEF Idle, dbVars, Running
  <2>2. \A q \in Runs : q # None
    BY StateDBAssumption
  <2>3. \A q \in Live' : leaked[q] = None /\ runStatus[q] # "absent"
    BY <1>5, <1>12 DEF Custody, OneKeeper, Live
  <2> QED
    BY <1>12, <2>1, <2>2, <2>3 DEF Custody, OneKeeper, Live
<1>15. FinalizedOnce'
  <2>1. \A q \in Runs : mem'[q].terminal <=> fin'[q].pc # "none"
    BY <1>2, <1>5, <1>6 DEF Custody, FinalizedOnce
  <2>2. \A q \in Live' : q \in reg' <=> fin'[q].pc \notin {"card", "done"}
    BY <1>1, <1>5, <1>12 DEF Custody, FinalizedOnce
  <2> QED
    BY <2>1, <2>2 DEF FinalizedOnce
<1>16. ResumedHasThread'
  <2>1. runKind[r] = "resume" => ThreadOf(r)' # None
    BY <1>2, <1>6 DEF TypeInv, RowsLinked, ThreadOf
  <2>2. \A q \in Live : q # r /\ mem'[q] = mem[q]
    BY <1>5, <1>6 DEF Live
  <2> QED
    BY <1>12, <2>1, <2>2 DEF Custody, ResumedHasThread, ThreadOf, dbVars
<1>17. UNCHANGED Owed
  <2>1. \A q \in Runs : rt'.run # q /\ leaked' = leaked
    BY StateDBAssumption DEF Idle
  <2>2. \A q \in Runs \ {r} : mem'[q] = mem[q] /\ (q \in reg' <=> q \in reg) /\ rt.run # q
    BY <1>1, <1>6
  <2>3. mem'[r].key = rt.key /\ r \in reg' /\ fin'[r].pc = "none" /\ rt.run = r
    BY <1>1, <1>2, <1>5, <1>6
  <2>4. \A q \in Runs : fin'[q] = fin[q]
    OBVIOUS
  <2>5. Custody'
    BY <1>13, <1>14, <1>15, <1>16 DEF Custody
  <2> QED
    BY <1>5, <1>11, <2>1, <2>2, <2>3, <2>4, <2>5, OwedIs, OwedWillBe DEF Keeps
<1>18. UNCHANGED <<dbVars, Phase>>
  BY DEF Phase
<1> QED
  BY <1>11, <1>13, <1>14, <1>15, <1>16, <1>17, <1>18 DEF Custody

\* FinishRun keeps the rows typed and linked, whatever thread and turn are known.
LEMMA FinishRunRows ==
  ASSUME TypeInv, NEW k \in Keys, NEW r \in Runs, NEW s \in Terminal,
         NEW th \in Threads \cup {None}, NEW tn \in Turns \cup {None}, runTask[r] \in Tasks,
         FinishRun(k, r, s, th, tn)
  PROVE  /\ DBTypeOK' /\ RowsLinked'
         /\ UNCHANGED <<enabled, runKind, runTask>>
         /\ runStatus' = [runStatus EXCEPT ![r] = s]
         /\ \A q \in Runs : runStatus'[q] = "absent" <=> runStatus[q] = "absent"
<1> USE DEF TypeInv, FinishRun, Coalesce
<1>1. DBTypeOK'
  BY DEF DBTypeOK, RunStatuses, TaskStatuses, DedupStates
<1>2. RowsLinked'
  BY StateDBAssumption DEF DBTypeOK, RowsLinked
<1>3. UNCHANGED <<enabled, runKind, runTask>> /\ runStatus' = [runStatus EXCEPT ![r] = s]
  OBVIOUS
<1>4. \A q \in Runs : runStatus'[q] = "absent" <=> runStatus[q] = "absent"
  BY DEF DBTypeOK, Terminal
<1> QED
  BY <1>1, <1>2, <1>3, <1>4

\* failQueuedRun: the handler finishes the run itself, or leaks it.
LEMMA RouterFailRunStep ==
  ASSUME TypeInv, Custody, NEW r, r = rt.run, RouterFailRun
  PROVE  /\ r \in Runs /\ rt.key \in Keys /\ Running /\ Owed[r] = rt.key
         /\ TypeInv' /\ Custody' /\ UNCHANGED Phase /\ Owed' = [Owed EXCEPT ![r] = None]
<1> USE DEF RouterFailRun
<1>1. r \in Runs /\ rt.key \in Keys /\ runThread[r] \in Threads \cup {None} /\ rt' = Idle /\ RouterOnly
  BY DEF TypeInv, RouterTypes, DBTypeOK
<1>2. Running
  BY HandlerRuns
<1>3. r \notin Live /\ leaked[r] = None /\ runStatus[r] # "absent" /\ r \notin reg
  BY <1>1 DEF Custody, OneKeeper, OnlyLiveRuns
<1>4. /\ DBTypeOK' /\ RowsLinked' /\ UNCHANGED <<enabled, runKind, runTask>>
      /\ \A q \in Runs : runStatus'[q] = "absent" <=> runStatus[q] = "absent"
  BY <1>1, <1>3, FinishRunRows DEF Terminal, TypeInv, RowsLinked
<1>5. RouterTypes'
  BY <1>1, RouterArgs DEF TypeInv, RouterTypes, RtRec, Idle, RouterPCs, RouterOnly
<1>6. TypeInv'
  BY <1>1, <1>4, <1>5, RouterTypesKept
<1>7. /\ UNCHANGED <<mem, fin, launch, stopVars, reg, byThread, byTurn, leaked, held, failing, proc>>
      /\ Live' = Live /\ Running' /\ rt'.run = None /\ rt'.pc = "idle"
  BY <1>1, <1>2 DEF RouterOnly, RouterStep, serveVars, idxVars, stopVars, loopVars, Live, Running, Idle
<1>8. OnlyLiveRuns'
  BY <1>7 DEF Custody, OnlyLiveRuns, stopVars
<1>9. OneKeeper'
  BY <1>4, <1>7, StateDBAssumption DEF Custody, OneKeeper, Live
<1>10. FinalizedOnce' /\ ResumedHasThread'
  BY <1>4, <1>7 DEF Custody, FinalizedOnce, ResumedHasThread, ThreadOf, Live
<1>11. UNCHANGED Phase
  BY <1>7 DEF Phase
<1>12. Owed[r] = rt.key
  BY <1>1, OwedIs DEF Keeps
<1>13. Owed' = [Owed EXCEPT ![r] = None]
  <2>1. \A q \in Runs : rt'.run # q /\ (rt.run = q <=> q = r)
    BY <1>7, StateDBAssumption
  <2>2. Custody'
    BY <1>8, <1>9, <1>10 DEF Custody
  <2> QED
    BY <1>1, <1>3, <1>6, <1>7, <2>1, <2>2, OwedIs, OwedWillBe DEF Keeps
<1> QED
  BY <1>1, <1>2, <1>6, <1>8, <1>9, <1>10, <1>11, <1>12, <1>13 DEF Custody

LEMMA RouterFailRunFailsStep ==
  ASSUME TypeInv, Custody, RouterFailRunFails
  PROVE  TypeInv' /\ Custody' /\ UNCHANGED <<dbVars, Phase, Owed>>
<1> USE DEF RouterFailRunFails, RouterStep, serveVars, idxVars, flagVars, stopVars, loopVars, codexVars
<1>1. PICK r \in Runs : r = rt.run
  BY DEF TypeInv, RouterTypes
<1>2. rt.key \in Keys /\ leaked' = [leaked EXCEPT ![r] = rt.key] /\ rt' = Idle
  BY <1>1 DEF TypeInv, RouterTypes
<1>3. Running
  BY HandlerRuns
<1>4. r \notin Live /\ leaked[r] = None /\ runStatus[r] # "absent"
  BY <1>1 DEF Custody, OneKeeper
<1>5. RouterTypes'
  BY <1>2, RouterArgs DEF TypeInv, RouterTypes, RtRec, Idle, RouterPCs
<1>6. StreamTypes' /\ TurnTypes'
  BY StreamKept, TurnsUnchanged DEF TurnsKept
<1>7. TypeInv'
  BY <1>5, <1>6 DEF TypeInv, DBTypeOK, RowsLinked, ServeTypes, FlagTypes, IndexTypes, MemTypes, LaunchTypes, StopTypes, FinTypes, dbVars
<1>8. Live' = Live /\ Running' /\ rt'.run = None /\ rt'.pc = "idle" /\ UNCHANGED <<runStatus, Phase>>
  BY <1>2, <1>3 DEF Live, Running, Idle, dbVars, Phase
<1>9. \A q \in Runs : leaked'[q] = IF q = r THEN rt.key ELSE leaked[q]
  BY <1>2 DEF TypeInv, RouterTypes
<1>10. OnlyLiveRuns'
  BY <1>8 DEF Custody, OnlyLiveRuns
<1>11. OneKeeper'
  BY <1>4, <1>8, <1>9, StateDBAssumption DEF Custody, OneKeeper, Live
<1>12. FinalizedOnce' /\ ResumedHasThread'
  BY <1>8 DEF Custody, FinalizedOnce, ResumedHasThread, ThreadOf, Live, dbVars
<1>13. UNCHANGED Owed
  <2>1. \A q \in Runs : rt'.run # q /\ (rt.run = q <=> q = r) /\ rt.key # None
    BY <1>1, <1>2, <1>8, StateDBAssumption
  <2>2. Custody'
    BY <1>10, <1>11, <1>12 DEF Custody
  <2> QED
    BY <1>4, <1>7, <1>9, <2>1, <2>2, OwedIs, OwedWillBe DEF Keeps
<1> QED
  BY <1>7, <1>8, <1>10, <1>11, <1>12, <1>13 DEF Custody

\* A step of finalize advances its program counter; only its end forgets the rest.
LEMMA FinAdvances ==
  ASSUME TypeInv, NEW r \in Runs, NEW pc \in FinPCs,
         fin' = [fin EXCEPT ![r].pc = pc] \/ fin' = [fin EXCEPT ![r] = [NoFin EXCEPT !.pc = pc]]
  PROVE  /\ FinTypes' /\ fin'[r].pc = pc
         /\ \A q \in Runs \ {r} : fin'[q] = fin[q]
<1> DEFINE f == [fin[r] EXCEPT !.pc = pc]
           g == [NoFin EXCEPT !.pc = pc]
<1>1. f \in FinRec /\ f.pc = pc /\ g \in FinRec /\ g.pc = pc
  BY DEF TypeInv, FinTypes, FinRec, NoFin, Bodies
<1>2. fin' = [fin EXCEPT ![r] = f] \/ fin' = [fin EXCEPT ![r] = g]
  OBVIOUS
<1> HIDE DEF f, g
<1> QED
  BY <1>1, <1>2 DEF TypeInv, FinTypes

\* A step of finalize that leaves the database and the indexes alone or removes
\* the run from them.
FinFacts(r, pc) ==
  /\ r \in Live /\ fin[r].pc # "none" /\ pc # "none"
  /\ FinTypes' /\ fin'[r].pc = pc
  /\ \A q \in Runs \ {r} : fin'[q] = fin[q]
  /\ \A q \in Runs \ {r} : q \in reg' <=> q \in reg
  /\ r \in reg' <=> pc \notin {"card", "done"}
  /\ reg' \subseteq reg
  /\ \A th \in Threads : byThread'[th] \in {byThread[th], None}
  /\ \A tn \in Turns : byTurn'[tn] \in {byTurn[tn], None}
  /\ \A q \in Runs : runStatus'[q] = "absent" <=> runStatus[q] = "absent"
  /\ UNCHANGED runKind
  /\ FinFrame

LEMMA FinCustody ==
  ASSUME TypeInv, Custody, NEW r \in Runs, NEW pc, FinFacts(r, pc)
  PROVE  Custody' /\ UNCHANGED Phase
<1> USE DEF FinFacts, FinFrame, serveVars, rtVars, flagVars, stopVars, loopVars, codexVars
<1>1. Live' = Live /\ (Running' <=> Running)
  BY DEF Live, Running
<1>2. OnlyLiveRuns'
  BY <1>1 DEF Custody, OnlyLiveRuns
<1>3. OneKeeper'
  BY <1>1 DEF Custody, OneKeeper
<1>4. FinalizedOnce'
  <2>1. \A q \in Runs : mem'[q].terminal <=> fin'[q].pc # "none"
    BY DEF Custody, FinalizedOnce
  <2>2. \A q \in Live : q \in reg' <=> fin'[q].pc \notin {"card", "done"}
    BY DEF Custody, FinalizedOnce, Live
  <2> QED
    BY <1>1, <2>1, <2>2 DEF FinalizedOnce
<1>5. ResumedHasThread'
  BY <1>1 DEF Custody, ResumedHasThread, ThreadOf
<1> QED
  BY <1>2, <1>3, <1>4, <1>5 DEF Custody, Phase

\* The types after a step of finalize.
LEMMA FinTypesKept ==
  ASSUME TypeInv, FinFrame, FinTypes', DBTypeOK', RowsLinked', UNCHANGED enabled, IndexTypes'
  PROVE  TypeInv'
<1> USE DEF FinFrame, serveVars, rtVars, flagVars, stopVars, loopVars, codexVars
<1>1. StreamTypes' /\ TurnTypes'
  BY StreamKept, TurnsUnchanged DEF TurnsKept
<1>2. ServeTypes' /\ RouterTypes' /\ FlagTypes' /\ MemTypes' /\ LaunchTypes' /\ StopTypes'
  BY DEF TypeInv, ServeTypes, RouterTypes, FlagTypes, MemTypes, LaunchTypes, StopTypes
<1> QED
  BY <1>1, <1>2 DEF TypeInv

\* What a run has whose finalize is in progress.
LEMMA FinalizingRun ==
  ASSUME TypeInv, Custody, NEW r \in Runs, fin[r].pc # "none"
  PROVE  /\ r \in Live /\ mem[r] \in MemRec /\ mem[r].key \in Keys /\ Running
         /\ runStatus[r] # "absent" /\ runTask[r] \in Tasks
         /\ r \in reg <=> fin[r].pc \notin {"card", "done"}
         /\ rt.run # r /\ leaked[r] = None
<1>1. r \in Live /\ mem[r] \in MemRec
  BY DEF Custody, OnlyLiveRuns, TypeInv, MemTypes
<1>2. mem[r].key \in Keys
  BY <1>1 DEF Live, MemRec
<1>3. Running /\ runStatus[r] # "absent" /\ rt.run # r /\ leaked[r] = None
  BY <1>1 DEF Custody, OneKeeper
<1> QED
  BY <1>1, <1>2, <1>3 DEF Custody, FinalizedOnce, TypeInv, RowsLinked

LEMMA FinPersistStep ==
  ASSUME TypeInv, Custody, NEW r \in Runs, FinPersist(r)
  PROVE  /\ Running /\ Owed[r] = mem[r].key /\ mem[r].key \in Keys
         /\ fin[r].status \in Terminal /\ ThreadOf(r) \in Threads \cup {None} /\ mem[r].turn \in Turns \cup {None}
         /\ runStatus' = [runStatus EXCEPT ![r] = fin[r].status]
         /\ TypeInv' /\ Custody' /\ UNCHANGED Phase /\ Owed' = [Owed EXCEPT ![r] = None]
<1>1. /\ fin[r].pc = "persist" /\ FinFrame /\ UNCHANGED idxVars
      /\ FinishRun(mem[r].key, r, fin[r].status, ThreadOf(r), mem[r].turn)
      /\ fin' = [fin EXCEPT ![r].pc = "unregister"]
  BY DEF FinPersist
<1>2. /\ r \in Live /\ mem[r] \in MemRec /\ mem[r].key \in Keys /\ Running /\ runTask[r] \in Tasks
      /\ r \in reg /\ rt.run # r /\ leaked[r] = None
  BY <1>1, FinalizingRun
<1>3. fin[r].status \in Terminal /\ ThreadOf(r) \in Threads \cup {None} /\ mem[r].turn \in Turns \cup {None}
  BY <1>1, <1>2 DEF FinishRun, ThreadOf, MemRec
<1>4. /\ DBTypeOK' /\ RowsLinked' /\ UNCHANGED <<enabled, runKind, runTask>>
      /\ runStatus' = [runStatus EXCEPT ![r] = fin[r].status]
      /\ \A q \in Runs : runStatus'[q] = "absent" <=> runStatus[q] = "absent"
  BY <1>1, <1>2, <1>3, FinishRunRows
<1>5. FinTypes' /\ fin'[r].pc = "unregister" /\ \A q \in Runs \ {r} : fin'[q] = fin[q]
  BY <1>1, FinAdvances DEF FinPCs
<1>6. TypeInv'
  BY <1>1, <1>4, <1>5, FinTypesKept DEF TypeInv, IndexTypes, idxVars
<1>7. FinFacts(r, "unregister")
  BY <1>1, <1>2, <1>4, <1>5 DEF FinFacts, idxVars
<1>8. Custody' /\ UNCHANGED Phase
  BY <1>7, FinCustody
<1>9. Owed[r] = mem[r].key
  BY <1>1, <1>2, OwedIs DEF Keeps
<1>10. Owed' = [Owed EXCEPT ![r] = None]
  <2>1. UNCHANGED <<rt, leaked, mem, reg>>
    BY <1>1 DEF FinFrame, rtVars, idxVars
  <2> QED
    BY <1>2, <1>5, <1>6, <1>8, <2>1, OwedIs, OwedWillBe DEF Keeps
<1> QED
  BY <1>2, <1>3, <1>4, <1>6, <1>8, <1>9, <1>10

LEMMA FinGivesUpStep ==
  ASSUME TypeInv, Custody, NEW r \in Runs, FinGivesUp(r)
  PROVE  TypeInv' /\ Custody' /\ UNCHANGED <<dbVars, Phase, Owed>>
<1>1. /\ fin[r].pc = "persist" /\ FinFrame /\ UNCHANGED <<dbVars, idxVars>>
      /\ fin' = [fin EXCEPT ![r].pc = "gaveUp"]
  BY DEF FinGivesUp
<1>2. r \in Live /\ r \in reg
  BY <1>1, FinalizingRun
<1>3. FinTypes' /\ fin'[r].pc = "gaveUp" /\ \A q \in Runs \ {r} : fin'[q] = fin[q]
  BY <1>1, FinAdvances DEF FinPCs
<1>4. DBTypeOK' /\ RowsLinked' /\ UNCHANGED <<enabled, runKind, runStatus>>
  BY <1>1 DEF TypeInv, DBTypeOK, RowsLinked, dbVars
<1>5. TypeInv'
  BY <1>1, <1>3, <1>4, FinTypesKept DEF TypeInv, IndexTypes, idxVars
<1>6. FinFacts(r, "gaveUp")
  BY <1>1, <1>2, <1>3, <1>4 DEF FinFacts, idxVars
<1>7. Custody' /\ UNCHANGED Phase
  BY <1>6, FinCustody
<1>8. UNCHANGED Owed
  <2>1. UNCHANGED <<rt, leaked, mem, reg>>
    BY <1>1 DEF FinFrame, rtVars, idxVars
  <2> QED
    BY <1>1, <1>3, <1>5, <1>7, <2>1, OwedIs, OwedWillBe DEF Keeps
<1> QED
  BY <1>1, <1>5, <1>7, <1>8

LEMMA FinUnregisterStep ==
  ASSUME TypeInv, Custody, NEW r \in Runs, FinUnregister(r)
  PROVE  TypeInv' /\ Custody' /\ UNCHANGED <<dbVars, Phase, Owed>>
<1>1. /\ fin[r].pc = "unregister" /\ FinFrame /\ UNCHANGED dbVars
      /\ fin' = [fin EXCEPT ![r].pc = "card"] /\ reg' = reg \ {r}
      /\ byThread' \in {byThread, [byThread EXCEPT ![ThreadOf(r)] = None]}
      /\ byTurn' \in {byTurn, [byTurn EXCEPT ![mem[r].turn] = None]}
  BY DEF FinUnregister
<1>2. r \in Live /\ r \in reg /\ rt.run # r /\ leaked[r] = None
  BY <1>1, FinalizingRun
<1>3. FinTypes' /\ fin'[r].pc = "card" /\ \A q \in Runs \ {r} : fin'[q] = fin[q]
  BY <1>1, FinAdvances DEF FinPCs
<1>4. DBTypeOK' /\ RowsLinked' /\ UNCHANGED <<enabled, runKind, runStatus>>
  BY <1>1 DEF TypeInv, DBTypeOK, RowsLinked, dbVars
<1>5. /\ IndexTypes'
      /\ \A th \in Threads : byThread'[th] \in {byThread[th], None}
      /\ \A tn \in Turns : byTurn'[tn] \in {byTurn[tn], None}
  BY <1>1 DEF TypeInv, IndexTypes
<1>6. TypeInv'
  BY <1>1, <1>3, <1>4, <1>5, FinTypesKept
<1>7. FinFacts(r, "card")
  BY <1>1, <1>2, <1>3, <1>4, <1>5 DEF FinFacts
<1>8. Custody' /\ UNCHANGED Phase
  BY <1>7, FinCustody
<1>9. UNCHANGED Owed
  <2>1. UNCHANGED <<rt, leaked, mem>>
    BY <1>1 DEF FinFrame, rtVars
  <2> QED
    BY <1>1, <1>2, <1>3, <1>6, <1>8, <2>1, OwedIs, OwedWillBe DEF Keeps
<1> QED
  BY <1>1, <1>6, <1>8, <1>9

LEMMA FinCardStep ==
  ASSUME TypeInv, Custody, NEW r \in Runs, FinCard(r)
  PROVE  /\ TypeInv' /\ Custody' /\ UNCHANGED <<Phase, Owed>> /\ Running /\ runTask[r] \in Tasks
         /\ UNCHANGED dbVars \/ \E c \in Cards : InsertMessageRoute(c, runTask[r])
<1>1. /\ fin[r].pc = "card" /\ FinFrame /\ UNCHANGED idxVars
      /\ fin' = [fin EXCEPT ![r] = [NoFin EXCEPT !.pc = "done"]]
      /\ UNCHANGED dbVars \/ \E c \in Cards : InsertMessageRoute(c, runTask[r])
  BY DEF FinCard
<1>2. r \in Live /\ r \notin reg /\ rt.run # r /\ leaked[r] = None /\ Running /\ runTask[r] \in Tasks
  BY <1>1, FinalizingRun
<1>3. FinTypes' /\ fin'[r].pc = "done" /\ \A q \in Runs \ {r} : fin'[q] = fin[q]
  BY <1>1, FinAdvances DEF FinPCs
<1>4. DBTypeOK' /\ RowsLinked' /\ UNCHANGED <<enabled, runKind, runStatus>>
  <2>1. CASE UNCHANGED dbVars
    BY <2>1 DEF TypeInv, DBTypeOK, RowsLinked, dbVars
  <2>2. CASE \E c \in Cards : InsertMessageRoute(c, runTask[r])
    BY <1>2, <2>2 DEF TypeInv, DBTypeOK, RowsLinked, InsertMessageRoute, taskVars, runVars, dedupVars
  <2> QED
    BY <1>1, <2>1, <2>2
<1>5. TypeInv'
  BY <1>1, <1>3, <1>4, FinTypesKept DEF TypeInv, IndexTypes, idxVars
<1>6. FinFacts(r, "done")
  BY <1>1, <1>2, <1>3, <1>4 DEF FinFacts, idxVars
<1>7. Custody' /\ UNCHANGED Phase
  BY <1>6, FinCustody
<1>8. UNCHANGED Owed
  <2>1. UNCHANGED <<rt, leaked, mem, reg>>
    BY <1>1 DEF FinFrame, rtVars, idxVars
  <2> QED
    BY <1>1, <1>3, <1>5, <1>7, <2>1, OwedIs, OwedWillBe DEF Keeps
<1> QED
  BY <1>1, <1>2, <1>5, <1>7, <1>8

-----------------------------------------------------------------------------
(* The ends of a process, and the initial state *)

\* No process is there.
NoProcess ==
  /\ rt = Idle /\ leaked = [r \in Runs |-> None] /\ reg = {} /\ failing = {}
  /\ held = NoEvent /\ byThread = [th \in Threads |-> None] /\ byTurn = [tn \in Turns |-> None]
  /\ mem = [r \in Runs |-> NoMem] /\ launch = [r \in Runs |-> NoLaunch]
  /\ cancelStop = {} /\ awaitStop = {} /\ intStop = [r \in Runs |-> None] /\ interrupts = [r \in Runs |-> 0]
  /\ fin = [r \in Runs |-> NoFin] /\ proc = "down"

NothingKept ==
  /\ RouterTypes /\ IndexTypes /\ MemTypes /\ LaunchTypes /\ StopTypes /\ FinTypes
  /\ Custody /\ Owed = [r \in Runs |-> None]

\* A process that is not there refers to nothing.
LEMMA EmptyMemory == NoProcess => NothingKept
<1> SUFFICES ASSUME NoProcess PROVE NothingKept
  OBVIOUS
<1> USE DEF NoProcess
<1>1. RouterTypes
  BY RouterArgs DEF RouterTypes, RtRec, Idle, RouterPCs
<1>2. IndexTypes /\ StopTypes
  BY DEF IndexTypes, StopTypes
<1>3. MemTypes
  BY DEF MemTypes, MemRec, NoMem
<1>4. LaunchTypes
  BY DEF LaunchTypes, LaunchRec, NoLaunch, LaunchPCs
<1>5. FinTypes
  BY DEF FinTypes, FinRec, NoFin, FinPCs, Bodies
<1>6. Live = {}
  BY DEF Live, NoMem
<1>7. OnlyLiveRuns
  BY <1>6 DEF OnlyLiveRuns, NoLaunch, NoFin, NoEvent, Idle
<1>8. OneKeeper
  BY <1>6, StateDBAssumption DEF OneKeeper, Idle
<1>9. FinalizedOnce /\ ResumedHasThread
  BY <1>6 DEF FinalizedOnce, ResumedHasThread, NoMem, NoFin
<1>10. Owed = [r \in Runs |-> None]
  BY StateDBAssumption DEF Owed, Idle
<1> QED
  BY <1>1, <1>2, <1>3, <1>4, <1>5, <1>7, <1>8, <1>9, <1>10 DEF Custody, NothingKept

LEMMA StoppedStep ==
  ASSUME TypeInv, Custody, Stopped
  PROVE  TypeInv' /\ Custody' /\ UNCHANGED dbVars /\ Phase' = "down" /\ Owed' = [r \in Runs |-> None]
<1>1. NoProcess' /\ UNCHANGED <<dbVars, starts>> /\ KillTurns
      /\ failCur' = None /\ unavailable' = FALSE /\ closed' = FALSE /\ loopOn' = FALSE /\ up' = FALSE /\ events' = <<>>
  BY DEF Stopped, FreshMemory, NoProcess
<1>2. NothingKept'
  BY <1>1, EmptyMemory, PTL
<1>3. TurnTypes'
  BY <1>1, KillTurnsEffect DEF TurnsKept
<1>4. StreamTypes'
  BY <1>1 DEF StreamTypes, NoProcess, NoEvent
<1>5. DBTypeOK' /\ RowsLinked'
  BY <1>1 DEF TypeInv, DBTypeOK, RowsLinked, dbVars
<1>6. ServeTypes' /\ FlagTypes'
  BY <1>1 DEF TypeInv, ServeTypes, FlagTypes, NoProcess
<1>7. Phase' = "down"
  BY <1>1 DEF Phase, NoProcess
<1> QED
  BY <1>1, <1>2, <1>3, <1>4, <1>5, <1>6, <1>7 DEF TypeInv, NothingKept

LEMMA InitHolds == Init => TypeInv /\ Custody /\ Owed = [r \in Runs |-> None] /\ Phase = "down"
<1> SUFFICES ASSUME Init PROVE TypeInv /\ Custody /\ Owed = [r \in Runs |-> None] /\ Phase = "down"
  OBVIOUS
<1>1. NothingKept
  BY EmptyMemory DEF Init, NoProcess
<1>2. DBTypeOK /\ RowsLinked
  BY DEF Init, EmptyDB, DBTypeOK, RowsLinked, RunStatuses, TaskStatuses, DedupStates
<1>3. ServeTypes /\ FlagTypes
  <2>1. /\ proc = "down" /\ starts = 0 /\ failing = {} /\ failCur = None
        /\ unavailable = FALSE /\ closed = FALSE /\ loopOn = FALSE /\ up = FALSE
    BY DEF Init
  <2>2. 0 \in 0..MaxStarts
    BY BridgeAssumption
  <2>3. ServeTypes
    BY <2>1, <2>2 DEF ServeTypes
  <2>4. FlagTypes
    BY <2>1, Zenon DEF FlagTypes
  <2> QED
    BY <2>3, <2>4
<1>4. TurnTypes
  BY DEF Init, TurnTypes, TurnRec, NoTurn, Exists
<1>5. StreamTypes
  BY DEF Init, StreamTypes, NoEvent
<1> QED
  BY <1>1, <1>2, <1>3, <1>4, <1>5 DEF TypeInv, NothingKept, Init, Phase

-----------------------------------------------------------------------------
(* What every step does to the database *)

StoreStep == Store!Next \/ UNCHANGED Store!vars

LEMMA StoreStutters ==
  ASSUME UNCHANGED <<dbVars, Owed, Phase>>
  PROVE  StoreStep
BY DEF StoreStep, Store!vars, Store!dbVars, dbVars, Phase

LEMMA PhaseServes ==
  ASSUME Running, UNCHANGED Phase
  PROVE  Phase = "serving" /\ Phase' = "serving"
BY DEF Running, Phase

LEMMA AdmitStores ==
  ASSUME TypeInv, Running, UNCHANGED Phase,
         NEW k \in Keys, NEW t \in Tasks, NEW r \in Runs, NEW u \in Users,
         Owed' = [Owed EXCEPT ![r] = k],
         AdmitNewTask(k, t, r, u) \/ AdmitResumeRun(k, t, r, u)
  PROVE  StoreStep
<1>1. u \in enabled
  BY DEF TypeInv, ServeTypes, Running
<1>2. Phase = "serving" /\ Phase' = "serving"
  BY PhaseServes
<1>3. CASE AdmitNewTask(k, t, r, u)
  <2>1. Store!NewTask(k, t, r, u)
    BY <1>1, <1>2, <1>3 DEF Store!NewTask, Store!AdmitNewTask, Store!FirstDelivery, AdmitNewTask, FirstDelivery, Phase
  <2> QED
    BY <2>1 DEF StoreStep, Store!Next
<1>4. CASE AdmitResumeRun(k, t, r, u)
  <2>1. Store!ResumeRun(k, t, r, u)
    BY <1>1, <1>2, <1>4
       DEF Store!ResumeRun, Store!AdmitResumeRun, Store!FirstDelivery, Store!ResumeRejected, Store!CanStart, Store!ActiveRunsOf,
           Store!Active, Store!Terminal, AdmitResumeRun, FirstDelivery, ResumeRejected, CanStart, ActiveRunsOf,
           Active, Terminal, Phase
  <2> QED
    BY <2>1 DEF StoreStep, Store!Next
<1> QED
  BY <1>3, <1>4

LEMMA HandleOtherStores ==
  ASSUME TypeInv, Running, UNCHANGED <<Phase, Owed>>,
         \/ \E k \in Keys, t \in Tasks, u \in Users : HandleRefusedContinue(k, t, u)
         \/ \E k \in Keys, t \in Tasks, th \in Threads, u \in Users : HandleAttach(k, t, th, u)
         \/ \E k \in Keys : HandleRestart(k)
  PROVE  StoreStep
<1>1. enabled = Users /\ Phase = "serving" /\ Phase' = "serving"
  BY PhaseServes DEF TypeInv, ServeTypes, Running
<1>2. ASSUME NEW k \in Keys, NEW t \in Tasks, NEW u \in Users, HandleRefusedContinue(k, t, u)
      PROVE  StoreStep
  <2>1. Store!RefuseResume(k, t, u)
    BY <1>1, <1>2
       DEF HandleRefusedContinue, RejectResume, FirstDelivery, ResumeRejected, CanStart, ActiveRunsOf, Active, Terminal,
           taskVars, runVars, Store!RefuseResume, Store!RejectResume, Store!FirstDelivery, Store!ResumeRejected,
           Store!CanStart, Store!ActiveRunsOf, Store!Active, Store!Terminal, Store!taskVars, Store!runVars, Phase
  <2> QED
    BY <2>1 DEF StoreStep, Store!Next
<1>3. ASSUME NEW k \in Keys, NEW t \in Tasks, NEW th \in Threads, NEW u \in Users, HandleAttach(k, t, th, u)
      PROVE  StoreStep
  <2>1. Store!Attach(k, t, th, u)
    BY <1>1, <1>3
       DEF HandleAttach, AttachThread, FirstDelivery, runVars, Store!Attach, Store!AttachThread, Store!FirstDelivery,
           Store!runVars, Phase
  <2> QED
    BY <2>1 DEF StoreStep, Store!Next
<1>4. ASSUME NEW k \in Keys, HandleRestart(k)
      PROVE  StoreStep
  <2>1. Store!Restart(k)
    BY <1>1, <1>4
       DEF HandleRestart, AdmitRestart, FirstDelivery, HasActiveTask, Active, taskVars, runVars,
           Store!Restart, Store!AdmitRestart, Store!FirstDelivery, Store!HasActiveTask, Store!Active, Store!taskVars,
           Store!runVars, Phase
  <2> QED
    BY <2>1 DEF StoreStep, Store!Next
<1> QED
  BY <1>2, <1>3, <1>4

LEMMA CardStores ==
  ASSUME TypeInv, Running, UNCHANGED <<Phase, Owed>>,
         (\E c \in Cards : RouterCard(c)) \/ RouterRoot \/ RouterRoute \/ RouterCallFails \/ RouterEnqueueRefused
  PROVE  StoreStep
<1>1. Phase = "serving" /\ Phase' = "serving"
  BY PhaseServes
<1>2. CASE RouterRoot
  <2>1. rt.task \in Tasks /\ rt.arg \in Cards
    BY <1>2 DEF RouterRoot, TypeInv, RouterTypes
  <2>2. Store!RecordRoot(rt.task, rt.arg)
    BY <1>1, <1>2
       DEF RouterRoot, SetTaskRootMessageID, runVars, dedupVars, Store!RecordRoot, Store!SetTaskRootMessageID,
           Store!runVars, Store!dedupVars, Phase
  <2> QED
    BY <2>1, <2>2 DEF StoreStep, Store!Next
<1>3. CASE RouterRoute
  <2>1. rt.task \in Tasks /\ rt.arg \in Cards
    BY <1>3 DEF RouterRoute, TypeInv, RouterTypes
  <2>2. Store!RecordRoute(rt.arg, rt.task)
    BY <1>1, <1>3
       DEF RouterRoute, InsertMessageRoute, taskVars, runVars, dedupVars, Store!RecordRoute, Store!InsertMessageRoute,
           Store!taskVars, Store!runVars, Store!dedupVars, Phase
  <2> QED
    BY <2>1, <2>2 DEF StoreStep, Store!Next
<1>4. CASE (\E c \in Cards : RouterCard(c)) \/ RouterCallFails \/ RouterEnqueueRefused
  BY <1>4, StoreStutters DEF RouterCard, RouterCallFails, RouterEnqueueRefused
<1> QED
  BY <1>2, <1>3, <1>4

LEMMA RouteStores ==
  ASSUME Running, UNCHANGED <<Phase, Owed>>, NEW c \in Cards, NEW t \in Tasks, InsertMessageRoute(c, t)
  PROVE  StoreStep
<1>1. Phase = "serving" /\ Phase' = "serving"
  BY PhaseServes
<1>2. Store!RecordRoute(c, t)
  BY <1>1
     DEF InsertMessageRoute, taskVars, runVars, dedupVars, Store!RecordRoute, Store!InsertMessageRoute,
         Store!taskVars, Store!runVars, Store!dedupVars, Phase
<1> QED
  BY <1>2 DEF StoreStep, Store!Next

LEMMA StartRunStores ==
  ASSUME Running, UNCHANGED <<Phase, Owed>>,
         NEW r \in Runs, NEW th \in Threads, NEW tn \in Turns \cup {None}, StartRun(r, th, tn)
  PROVE  StoreStep
<1>1. Phase = "serving" /\ Phase' = "serving"
  BY PhaseServes
<1>2. Store!MarkStarted(r, th, tn)
  BY <1>1
     DEF StartRun, Coalesce, Active, dedupVars, Store!MarkStarted, Store!StartRun, Store!Coalesce, Store!Active,
         Store!dedupVars, Phase
<1> QED
  BY <1>2 DEF StoreStep, Store!Next

LEMMA FinishStores ==
  ASSUME Running, UNCHANGED Phase, NEW r \in Runs, NEW k \in Keys, NEW s \in Terminal,
         NEW th \in Threads \cup {None}, NEW tn \in Turns \cup {None},
         Owed[r] = k, Owed' = [Owed EXCEPT ![r] = None], FinishRun(k, r, s, th, tn)
  PROVE  StoreStep
<1>1. Phase = "serving" /\ Phase' = "serving" /\ k # None
  BY PhaseServes, StateDBAssumption
<1>2. Store!Finish(r, s, th, tn)
  BY <1>1
     DEF FinishRun, Coalesce, Terminal, Store!Finish, Store!FinishRun, Store!Coalesce, Store!Terminal, Phase
<1> QED
  BY <1>2 DEF StoreStep, Store!Next, Store!Terminal, Terminal

LEMMA StartupStores ==
  ASSUME TypeInv, UNCHANGED Owed, StartUsers \/ StartRecover
  PROVE  StoreStep
<1>1. CASE StartUsers
  <2>1. Store!StartupUsers(Users)
    BY <1>1 DEF StartUsers, RefreshUsers, taskVars, runVars, dedupVars, Store!StartupUsers, Store!RefreshUsers,
                Store!taskVars, Store!runVars, Store!dedupVars
  <2> QED
    BY <2>1 DEF StoreStep, Store!Next
<1>2. CASE StartRecover
  <2>1. Store!StartupRecover
    BY <1>2 DEF StartRecover, RecoverRunning, Active, Store!StartupRecover, Store!RecoverRunning, Store!Active
  <2> QED
    BY <2>1 DEF StoreStep, Store!Next
<1> QED
  BY <1>1, <1>2

LEMMA StoppedStores ==
  ASSUME UNCHANGED dbVars, Phase' = "down", Owed' = [r \in Runs |-> None]
  PROVE  StoreStep
<1>1. Store!Exit
  BY DEF Store!Exit, Store!dbVars, dbVars, Phase
<1> QED
  BY <1>1 DEF StoreStep, Store!Next

-----------------------------------------------------------------------------
(* The steps of the process, by what they touch *)

\* A goroutine, or a handler of Stop or Steer, works on one run.
RunAction ==
  \/ \E r \in Runs : \/ FailNext(r) \/ StopRequest(r) \/ SteerCall(r) \/ StopCancels(r) \/ StopInterrupts(r)
                     \/ InterruptReturns(r) \/ LaunchThread(r) \/ LaunchStartRunFails(r) \/ LaunchCallFails(r)
                     \/ LaunchCallTurn(r) \/ LaunchTurn(r) \/ LaunchInterrupts(r)
  \/ StopAct \/ (\E ok \in BOOLEAN : SteerReturns(ok))
  \/ (EventTurnStarted \/ EventTurnCompleted) /\ ActiveFor(Head(events).turn) # None
  \/ EventFinish

\* No run changes hands and no row changes.
IdleAction ==
  \/ TakeLoss \/ FailReturns \/ FailDone \/ Shutdown \/ ReportLoss \/ LoopStops \/ CloseController
  \/ AppServer \/ (\E sent \in BOOLEAN : RouterRestart(sent))
  \/ (EventTurnStarted \/ EventTurnCompleted) /\ ActiveFor(Head(events).turn) = None

StartRunAction == \E r \in Runs : LaunchStartRun(r) \/ LaunchStartRunTurn(r)

AdmitAction ==
  \E k \in Keys, t \in Tasks, r \in Runs, u \in Users : HandleNewTask(k, t, r, u) \/ HandleContinue(k, t, r, u)

RefuseAction ==
  \/ \E k \in Keys, t \in Tasks, u \in Users : HandleRefusedContinue(k, t, u)
  \/ \E k \in Keys, t \in Tasks, th \in Threads, u \in Users : HandleAttach(k, t, th, u)
  \/ \E k \in Keys : HandleRestart(k)

CardAction ==
  (\E c \in Cards : RouterCard(c)) \/ RouterRoot \/ RouterRoute \/ RouterCallFails \/ RouterEnqueueRefused

\* Every action of Next is in one of the groups.
LEMMA Steps ==
  ASSUME Next
  PROVE  \/ RunAction \/ IdleAction \/ StartRunAction \/ AdmitAction \/ RefuseAction \/ CardAction
         \/ StartUsers \/ StartRecover \/ Exit \/ Crash
         \/ RouterEnqueue \/ RouterFailRun \/ RouterFailRunFails
         \/ \E r \in Runs : FinPersist(r) \/ FinGivesUp(r) \/ FinUnregister(r) \/ FinCard(r)
<1>1. CASE Serve
  BY <1>1 DEF Serve, RunAction, IdleAction
<1>2. CASE HandleEvent
  BY <1>2 DEF HandleEvent, RunAction, AdmitAction, RefuseAction
<1>3. CASE RouterSteps
  BY <1>3 DEF RouterSteps, RunAction, IdleAction, CardAction
<1>4. CASE \E r \in Runs : Launch(r) \/ Stopper(r) \/ Finalize(r)
  BY <1>4 DEF Launch, Stopper, Finalize, RunAction, StartRunAction
<1>5. CASE EventLoop
  BY <1>5 DEF EventLoop, RunAction, IdleAction
<1>6. CASE Shutdown \/ Crash \/ ReportLoss \/ AppServer
  BY <1>6 DEF IdleAction
<1> QED
  BY <1>1, <1>2, <1>3, <1>4, <1>5, <1>6 DEF Next

LEMMA RunActionStep ==
  ASSUME TypeInv, Custody, RunAction
  PROVE  TypeInv' /\ UNCHANGED dbVars /\ \E r \in Runs : RunStep(r)
<1>1. ASSUME NEW r \in Runs, FailNext(r) \/ StopRequest(r) \/ SteerCall(r) \/ StopCancels(r) \/ StopInterrupts(r)
                             \/ InterruptReturns(r)
      PROVE  TypeInv' /\ UNCHANGED dbVars /\ RunStep(r)
  <2>1. UNCHANGED dbVars
    BY <1>1 DEF FailNext, StopRequest, SteerCall, StopCancels, StopInterrupts, InterruptReturns
  <2> QED
    BY <1>1, <2>1, FailNextStep, StopRequestStep, SteerCallStep, StopCancelsStep, StopInterruptsStep, InterruptReturnsStep
<1>2. ASSUME NEW r \in Runs,
             \/ LaunchThread(r) \/ LaunchStartRunFails(r) \/ LaunchCallFails(r)
             \/ LaunchCallTurn(r) \/ LaunchTurn(r) \/ LaunchInterrupts(r)
      PROVE  TypeInv' /\ UNCHANGED dbVars /\ RunStep(r)
  <2>1. UNCHANGED dbVars
    BY <1>2 DEF LaunchThread, LaunchStartRunFails, LaunchCallFails, LaunchCallTurn, LaunchTurn, LaunchInterrupts
  <2> QED
    BY <1>2, <2>1, LaunchThreadStep, LaunchFailsStep, LaunchCallTurnStep, LaunchTurnStep, LaunchInterruptsStep
<1>3. CASE StopAct
  BY <1>3, StopActStep DEF StopAct
<1>4. ASSUME NEW ok \in BOOLEAN, SteerReturns(ok)
      PROVE  TypeInv' /\ UNCHANGED dbVars /\ \E r \in Runs : RunStep(r)
  BY <1>4, SteerReturnsStep DEF SteerReturns
<1>5. CASE (EventTurnStarted \/ EventTurnCompleted) /\ ActiveFor(Head(events).turn) # None
  BY <1>5, EventTurnStep DEF EventTurnStarted, EventTurnCompleted, LoopFrame
<1>6. CASE EventFinish
  BY <1>6, EventFinishStep DEF EventFinish, LoopFrame
<1> QED
  BY <1>1, <1>2, <1>3, <1>4, <1>5, <1>6 DEF RunAction

LEMMA IdleActionStep ==
  ASSUME TypeInv, Custody, IdleAction
  PROVE  TypeInv' /\ IdleStep /\ UNCHANGED <<dbVars, Phase>>
<1>1. CASE (EventTurnStarted \/ EventTurnCompleted) /\ ActiveFor(Head(events).turn) = None
  <2>1. UNCHANGED <<dbVars, proc>>
    BY <1>1 DEF EventTurnStarted, EventTurnCompleted, LoopFrame, serveVars
  <2> QED
    BY <1>1, <2>1, EventDroppedStep DEF Phase
<1>2. CASE TakeLoss \/ FailReturns \/ FailDone \/ Shutdown \/ ReportLoss \/ LoopStops
  BY <1>2, ServeStep
<1>3. CASE CloseController
  BY <1>3, CloseControllerStep
<1>4. CASE AppServer
  BY <1>4, CodexStep DEF AppServer
<1>5. CASE \E sent \in BOOLEAN : RouterRestart(sent)
  BY <1>5, RouterRestartStep
<1> QED
  BY <1>1, <1>2, <1>3, <1>4, <1>5 DEF IdleAction

LEMMA Stuttering ==
  ASSUME TypeInv, UNCHANGED vars
  PROVE  TypeInv' /\ IdleStep /\ UNCHANGED <<dbVars, Phase>>
<1> USE DEF vars, serveVars, rtVars, idxVars, flagVars, stopVars, loopVars, codexVars
<1>1. DBTypeOK' /\ RowsLinked'
  BY DEF TypeInv, DBTypeOK, RowsLinked, dbVars
<1>2. ServeTypes' /\ UNCHANGED Phase
  BY DEF TypeInv, ServeTypes, dbVars, Phase
<1>3. RouterTypes'
  BY DEF TypeInv, RouterTypes
<1>4. FlagTypes' /\ IndexTypes' /\ MemTypes' /\ StopTypes' /\ FinTypes'
  BY DEF TypeInv, FlagTypes, IndexTypes, MemTypes, StopTypes, FinTypes
<1>5. LaunchTypes'
  BY DEF TypeInv, LaunchTypes
<1>6. TurnTypes' /\ StreamTypes'
  BY DEF TypeInv, TurnTypes, StreamTypes, Exists
<1>7. IdleStep
  BY DEF IdleStep, dbVars, Running
<1> QED
  BY <1>1, <1>2, <1>3, <1>4, <1>5, <1>6, <1>7 DEF TypeInv

\* No step breaks the invariant, and every step is one of BridgeStore's or
\* leaves what BridgeStore sees alone.
LEMMA StepKeeps ==
  ASSUME TypeInv, Custody, [Next]_vars
  PROVE  TypeInv' /\ Custody' /\ StoreStep
<1>1. CASE RunAction
  BY <1>1, RunActionStep, RunStepCustody, RunStepOwes, StoreStutters
<1>2. CASE IdleAction
  BY <1>2, IdleActionStep, IdleStepCustody, StoreStutters
<1>3. ASSUME NEW r \in Runs, LaunchStartRun(r) \/ LaunchStartRunTurn(r)
      PROVE  TypeInv' /\ Custody' /\ StoreStep
  <2>1. TypeInv' /\ RunStep(r)
    BY <1>3, LaunchStartRunStep, LaunchStartRunTurnStep
  <2>2. \E th \in Threads, tn \in Turns \cup {None} : StartRun(r, th, tn)
    <3>1. launch[r].thread \in Threads /\ (LaunchStartRunTurn(r) => launch[r].turn \in Turns)
      BY <1>3 DEF LaunchStartRun, LaunchStartRunTurn, TypeInv, LaunchTypes
    <3> QED
      BY <1>3, <3>1 DEF LaunchStartRun, LaunchStartRunTurn
  <2>3. Running
    BY <2>1 DEF RunStep, Custody, OneKeeper
  <2> QED
    BY <2>1, <2>2, <2>3, RunStepCustody, RunStepOwes, StartRunStores
<1>4. ASSUME NEW k \in Keys, NEW t \in Tasks, NEW r \in Runs, NEW u \in Users,
             HandleNewTask(k, t, r, u) \/ HandleContinue(k, t, r, u)
      PROVE  TypeInv' /\ Custody' /\ StoreStep
  <2>1. AdmitNewTask(k, t, r, u) \/ AdmitResumeRun(k, t, r, u)
    BY <1>4 DEF HandleNewTask, HandleContinue
  <2> QED
    BY <1>4, <2>1, HandleAdmitStep, AdmitStores
<1>5. CASE RefuseAction
  BY <1>5, HandleOtherStep, IdleStepCustody, HandleOtherStores DEF RefuseAction
<1>6. CASE CardAction
  BY <1>6, RouterCardStep, IdleStepCustody, CardStores DEF CardAction
<1>7. CASE StartUsers \/ StartRecover
  BY <1>7, StartUsersStep, StartRecoverStep, IdleStepCustody, StartupStores
<1>8. CASE Exit \/ Crash
  BY <1>8, StoppedStep, StoppedStores DEF Exit, Crash
<1>9. CASE RouterEnqueue \/ RouterFailRunFails
  BY <1>9, RouterEnqueueStep, RouterFailRunFailsStep, StoreStutters
<1>10. CASE RouterFailRun
  <2>1. PICK r : r = rt.run
    OBVIOUS
  <2>2. /\ r \in Runs /\ rt.key \in Keys /\ Running /\ Owed[r] = rt.key
        /\ TypeInv' /\ Custody' /\ UNCHANGED Phase /\ Owed' = [Owed EXCEPT ![r] = None]
    BY <1>10, <2>1, RouterFailRunStep
  <2>3. FinishRun(rt.key, r, "failed", runThread[r], None) /\ "failed" \in Terminal
    BY <1>10, <2>1 DEF RouterFailRun, Terminal
  <2>4. runThread[r] \in Threads \cup {None}
    BY <2>2 DEF TypeInv, DBTypeOK
  <2> QED
    BY <2>2, <2>3, <2>4, FinishStores
<1>11. ASSUME NEW r \in Runs, FinPersist(r)
       PROVE  TypeInv' /\ Custody' /\ StoreStep
  <2>1. FinishRun(mem[r].key, r, fin[r].status, ThreadOf(r), mem[r].turn)
    BY <1>11 DEF FinPersist
  <2> QED
    BY <1>11, <2>1, FinPersistStep, FinishStores
<1>12. ASSUME NEW r \in Runs, FinGivesUp(r) \/ FinUnregister(r)
       PROVE  TypeInv' /\ Custody' /\ StoreStep
  BY <1>12, FinGivesUpStep, FinUnregisterStep, StoreStutters
<1>13. ASSUME NEW r \in Runs, FinCard(r)
       PROVE  TypeInv' /\ Custody' /\ StoreStep
  BY <1>13, FinCardStep, StoreStutters, RouteStores
<1>14. CASE UNCHANGED vars
  <2>1. TypeInv' /\ IdleStep /\ UNCHANGED <<dbVars, Phase>>
    BY <1>14, Stuttering
  <2> QED
    BY <2>1, IdleStepCustody, StoreStutters
<1> QED
  BY <1>1, <1>2, <1>3, <1>4, <1>5, <1>6, <1>7, <1>8, <1>9, <1>10, <1>11, <1>12, <1>13, <1>14, Steps
     DEF StartRunAction, AdmitAction
-----------------------------------------------------------------------------
(* The theorems *)

\* In every state the process can reach, the state has its shape and every run
\* has one keeper: the handler that admitted it, the list of those whose failure
\* could not be stored, or the controller, until its outcome is durable.
THEOREM Invariant == Spec => [](TypeInv /\ Custody)
<1>1. Init => TypeInv /\ Custody
  BY InitHolds
<1>2. TypeInv /\ Custody /\ [Next]_vars => TypeInv' /\ Custody'
  BY StepKeeps
<1> QED
  BY <1>1, <1>2, PTL DEF Spec

\* The variables have their types.
THEOREM TypeCorrect == Spec => []TypeOK
<1>1. TypeInv => TypeOK
  <2> SUFFICES ASSUME TypeInv PROVE TypeOK
    OBVIOUS
  <2>1. /\ rt.pc \in RouterPCs /\ rt.key \in Keys \cup {None} /\ rt.task \in Tasks \cup {None}
        /\ rt.run \in Runs \cup {None} /\ leaked \in [Runs -> Keys \cup {None}]
    BY DEF TypeInv, RouterTypes, RtRec
  <2>2. held.run \in Runs \cup {None} /\ held.turn \in Turns \cup {None} /\ events \in Seq(EventRec)
    BY DEF TypeInv, StreamTypes
  <2>3. {unavailable, closed, loopOn, up} \subseteq BOOLEAN
    BY DEF TypeInv, FlagTypes
  <2>4. turn \in [Turns -> TurnRec] /\ mem \in [Runs -> MemRec] /\ launch \in [Runs -> LaunchRec]
        /\ fin \in [Runs -> FinRec]
    BY DEF TypeInv, TurnTypes, MemTypes, LaunchTypes, FinTypes
  <2> QED
    BY <2>1, <2>2, <2>3, <2>4
       DEF TypeInv, TypeOK, ServeTypes, IndexTypes, StopTypes, TurnRec, MemRec, LaunchRec, FinRec, EventRec
<1> QED
  BY <1>1, Invariant, PTL

\* The goroutines of the process together use the database as BridgeStore says.
THEOREM StoreRefinement == Spec => ImplementsStore
<1>1. Init => Store!Init
  BY InitHolds DEF Init, Store!Init, EmptyDB, Store!EmptyDB, Phase
<1>2. TypeInv /\ Custody /\ [Next]_vars => [Store!Next]_(Store!vars)
  BY StepKeeps DEF StoreStep
<1> QED
  BY <1>1, <1>2, Invariant, PTL DEF Spec, ImplementsStore, Store!Spec
-----------------------------------------------------------------------------
(* What BridgeStore proves of the rows, for the process *)

Rows == INSTANCE BridgeStoreProofs WITH
  owed <- Owed, phase <- IF proc \in {"down", "refreshed"} THEN proc ELSE "serving"

\* Store and Rows are one specification under two names.
LEMMA SameStore == Store!Spec <=> Rows!Spec
<1>1. Store!Init <=> Rows!Init
  BY DEF Store!Init, Rows!Init, Store!EmptyDB, Rows!EmptyDB
<1>2. [Store!Next]_(Store!vars) <=> [Rows!Next]_(Rows!vars)
  <2>1. ASSUME NEW allowed PROVE Store!StartupUsers(allowed) <=> Rows!StartupUsers(allowed)
    BY DEF Store!StartupUsers, Rows!StartupUsers, Store!RefreshUsers, Rows!RefreshUsers, Store!taskVars,
           Rows!taskVars, Store!runVars, Rows!runVars, Store!dedupVars, Rows!dedupVars
  <2>2. Store!StartupRecover <=> Rows!StartupRecover
    BY DEF Store!StartupRecover, Rows!StartupRecover, Store!RecoverRunning, Rows!RecoverRunning,
           Store!RecoverTo, Rows!RecoverTo, Store!Active, Rows!Active
  <2>3. Store!Exit <=> Rows!Exit
    BY DEF Store!Exit, Rows!Exit, Store!dbVars, Rows!dbVars
  <2>4. ASSUME NEW k, NEW t, NEW r, NEW u PROVE Store!NewTask(k, t, r, u) <=> Rows!NewTask(k, t, r, u)
    BY DEF Store!NewTask, Rows!NewTask, Store!AdmitNewTask, Rows!AdmitNewTask, Store!FirstDelivery,
           Rows!FirstDelivery
  <2>5. ASSUME NEW k, NEW t, NEW r, NEW u PROVE Store!ResumeRun(k, t, r, u) <=> Rows!ResumeRun(k, t, r, u)
    BY DEF Store!ResumeRun, Rows!ResumeRun, Store!AdmitResumeRun, Rows!AdmitResumeRun,
           Store!FirstDelivery, Rows!FirstDelivery, Store!ResumeRejected, Rows!ResumeRejected,
           Store!CanStart, Rows!CanStart, Store!ActiveRunsOf, Rows!ActiveRunsOf, Store!Active,
           Rows!Active, Store!Terminal, Rows!Terminal
  <2>6. ASSUME NEW k, NEW t, NEW u PROVE Store!RefuseResume(k, t, u) <=> Rows!RefuseResume(k, t, u)
    BY DEF Store!RefuseResume, Rows!RefuseResume, Store!RejectResume, Rows!RejectResume,
           Store!FirstDelivery, Rows!FirstDelivery, Store!ResumeRejected, Rows!ResumeRejected,
           Store!CanStart, Rows!CanStart, Store!ActiveRunsOf, Rows!ActiveRunsOf, Store!Active,
           Rows!Active, Store!Terminal, Rows!Terminal, Store!taskVars, Rows!taskVars, Store!runVars,
           Rows!runVars
  <2>7. ASSUME NEW k, NEW t, NEW th, NEW u PROVE Store!Attach(k, t, th, u) <=> Rows!Attach(k, t, th, u)
    BY DEF Store!Attach, Rows!Attach, Store!AttachThread, Rows!AttachThread, Store!FirstDelivery,
           Rows!FirstDelivery, Store!runVars, Rows!runVars
  <2>8. ASSUME NEW k PROVE Store!Restart(k) <=> Rows!Restart(k)
    BY DEF Store!Restart, Rows!Restart, Store!AdmitRestart, Rows!AdmitRestart, Store!FirstDelivery,
           Rows!FirstDelivery, Store!HasActiveTask, Rows!HasActiveTask, Store!Active, Rows!Active,
           Store!taskVars, Rows!taskVars, Store!runVars, Rows!runVars
  <2>9. ASSUME NEW r, NEW th, NEW tn PROVE Store!MarkStarted(r, th, tn) <=> Rows!MarkStarted(r, th, tn)
    BY DEF Store!MarkStarted, Rows!MarkStarted, Store!StartRun, Rows!StartRun, Store!Coalesce,
           Rows!Coalesce, Store!Active, Rows!Active, Store!dedupVars, Rows!dedupVars
  <2>10. ASSUME NEW r, NEW s, NEW th, NEW tn PROVE Store!Finish(r, s, th, tn) <=> Rows!Finish(r, s, th, tn)
    BY DEF Store!Finish, Rows!Finish, Store!FinishRun, Rows!FinishRun, Store!Coalesce, Rows!Coalesce,
           Store!Terminal, Rows!Terminal
  <2>11. ASSUME NEW t, NEW c PROVE Store!RecordRoot(t, c) <=> Rows!RecordRoot(t, c)
    BY DEF Store!RecordRoot, Rows!RecordRoot, Store!SetTaskRootMessageID, Rows!SetTaskRootMessageID,
           Store!runVars, Rows!runVars, Store!dedupVars, Rows!dedupVars
  <2>12. ASSUME NEW c, NEW t PROVE Store!RecordRoute(c, t) <=> Rows!RecordRoute(c, t)
    BY DEF Store!RecordRoute, Rows!RecordRoute, Store!InsertMessageRoute, Rows!InsertMessageRoute,
           Store!taskVars, Rows!taskVars, Store!runVars, Rows!runVars, Store!dedupVars, Rows!dedupVars
  <2> QED
    BY <2>1, <2>2, <2>3, <2>4, <2>5, <2>6, <2>7, <2>8, <2>9, <2>10, <2>11, <2>12
       DEF Store!Next, Rows!Next, Store!vars, Rows!vars, Store!dbVars, Rows!dbVars, Store!Terminal, Rows!Terminal
<1> QED
  BY <1>1, <1>2, PTL DEF Store!Spec, Rows!Spec

\* With the router, the controller and their crashes in full, the rows keep the
\* invariants of BridgeStore: one active run per task, the task and the event in
\* step with the run, every active run owed its finish by who keeps it.
THEOREM RowsKeepInvariants == Spec => []Rows!StoreInv
<1>1. Rows!Spec => []Rows!StoreInv
  BY Rows!StoreInvariant, StateDBAssumption
<1> QED
  BY <1>1, SameStore, StoreRefinement, PTL DEF ImplementsStore
=============================================================================
