----------------------------- MODULE CardStream ------------------------------
(***************************************************************************)
(* Sender.Send for the card of one task: the start card, progress as       *)
(* native CardKit streaming with plain patches as the fallback, and the    *)
(* result.  The runs of the task follow one another on the card, and the   *)
(* result of a run may be sent while its continuation reports progress.    *)
(* TaskCard decides when Send is called; this module is what a call does.  *)
(*                                                                         *)
(* A presentation is a number, and may be sent after one with a higher     *)
(* number or more than once; its key, which is everything but the          *)
(* processing detail, changes at the numbers in Structural.  A CardKit     *)
(* request may be processed after its call has ended, which is what its    *)
(* sequence is for; so may a patch that was given up without an answer,    *)
(* and that has no sequence.                                               *)
(***************************************************************************)
EXTENDS StreamSequence, FiniteSets

CONSTANTS
  NumRuns,     \* runs of the task, in order
  MaxVersion,  \* bound on the presentations of a run
  Structural,  \* presentations that differ from the one before in more than the processing detail
  MaxFaults,   \* bound on the failures of a behaviour; cancelled calls do not count
  Faults,      \* failures explored: subset of {"transient", "permanent", "crash"}
  None

ASSUME CardStreamAssumption ==
  /\ {NumRuns, MaxVersion, MaxFaults} \subseteq Nat
  /\ Structural \subseteq 1..MaxVersion
  /\ None \notin Streams

Runs == 1..NumRuns

VARIABLES
  current,   \* Sender.streams[card]: the stream object of the card, or None
  stream,    \* [Streams -> the fields of taskCardStream besides its sequence]
  holder,    \* [Streams -> the run whose Send holds taskCardStream.mu, or 0]
  begun,     \* runs so far
  ended,     \* runs that are over: their context is cancelled
  done,      \* runs whose result needs no further Send on this card
  pc,        \* [Runs -> where the Send in progress is, or "none"]
  kind,      \* [Runs -> what it sends]
  using,     \* [Runs -> its stream object, or None]
  then,      \* [Runs -> what follows its patch]
  seq,       \* [Runs -> the number of its CardKit operation, 0 before it has one]
  reply,     \* [Runs -> what Feishu answered to its operation or patch]
  reported,  \* [Runs -> the presentation of the last progress Send]
  since,     \* [Runs -> presentations sent since the last success, that one included; history]
  requests,  \* CardKit requests that Feishu has not processed
  late,      \* patches given up without an answer: each may still reach the card
  card,      \* the card at Feishu; late says that such a patch was the last to reach it
  faults

runsVars   == <<begun, ended, done, reported>>
feishuVars == <<requests, late, card>>
sendVars   == <<pc, kind, using, then, seq, reply>>
vars == <<seqVars, current, stream, holder, sendVars, since, faults, runsVars, feishuVars>>

NoStream == [resolved |-> FALSE, key |-> <<0, 0>>, detail |-> 0, active |-> FALSE, unavailable |-> FALSE]
Ops      == {"enable", "pause", "content", "disable", "close"}

\* taskStreamKey: the run and its presentation without the processing detail.
Key(r, v) == <<r, Cardinality({w \in Structural : w <= v})>>

\* The first run has its start card.
Init ==
  /\ SeqInit
  /\ current = None
  /\ stream = [s \in Streams |-> NoStream]
  /\ holder = [s \in Streams |-> 0]
  /\ begun = 0 /\ ended = {} /\ done = {}
  /\ pc = [r \in Runs |-> "none"] /\ kind = [r \in Runs |-> "none"] /\ using = [r \in Runs |-> None]
  /\ then = [r \in Runs |-> "none"] /\ seq = [r \in Runs |-> 0] /\ reply = [r \in Runs |-> "none"]
  /\ reported = [r \in Runs |-> 0] /\ since = [r \in Runs |-> {0}]
  /\ requests = {} /\ late = {}
  /\ card = [kind |-> "start", key |-> Key(1, 0), detail |-> <<1, 0>>, seq |-> 0, late |-> FALSE]
  /\ faults = 0

-----------------------------------------------------------------------------
(* The runs, and the beginnings of Send *)

Fault(failure) == failure \in Faults /\ faults < MaxFaults /\ faults' = faults + 1

\* Objects nobody refers to: the next new object can be one of them.
Unused == {s \in Streams : s # current /\ \A r \in Runs : using[r] # s}

\* taskStream: the object of the card, created if there is none.
TaskStream(s) ==
  IF current # None
    THEN s = current /\ UNCHANGED <<current, stream, seqVars>>
    ELSE /\ s \in Unused
         /\ current' = s
         /\ stream' = [stream EXCEPT ![s] = NoStream]
         /\ Forget({s})

\* The Send of r goes on at p, with no operation in progress.
At(r, p) ==
  /\ pc' = [pc EXCEPT ![r] = p]
  /\ seq' = [seq EXCEPT ![r] = 0]
  /\ reply' = [reply EXCEPT ![r] = "none"]

GoTo(r, p, after) == At(r, p) /\ then' = [then EXCEPT ![r] = after] /\ UNCHANGED <<kind, using>>

Call(r, what, s, p) ==
  /\ At(r, p)
  /\ kind' = [kind EXCEPT ![r] = what]
  /\ using' = [using EXCEPT ![r] = s]
  /\ then' = [then EXCEPT ![r] = "none"]

NoCall(r) == Call(r, "none", None, "none")

\* A run begins when the one before is over.  The first one has just sent the
\* start card and sets up its stream; a continuation finds the card as it is.
BeginRun ==
  /\ begun < NumRuns /\ 1..begun \subseteq ended
  /\ begun' = begun + 1
  /\ IF begun = 0
       THEN \E s \in Streams : TaskStream(s) /\ Call(1, "start", s, "lock")
       ELSE UNCHANGED <<current, stream, seqVars, sendVars>>
  /\ UNCHANGED <<ended, done, reported, holder, since, faults, feishuVars>>

\* The worker sends a presentation: mostly a newer one or one that failed, but
\* the controller also hands over presentations in the wrong order.
Progress(r, v) ==
  /\ r = begun /\ r \notin ended /\ pc[r] = "none"
  /\ reported' = [reported EXCEPT ![r] = v]
  /\ since' = [since EXCEPT ![r] = @ \cup {v}]
  /\ \E s \in Streams : TaskStream(s) /\ Call(r, "progress", s, "lock")
  /\ UNCHANGED <<begun, ended, done, holder, faults, feishuVars>>

EndRun(r) ==
  /\ r = begun /\ r \notin ended /\ kind[r] # "start"
  /\ ended' = ended \cup {r}
  /\ since' = [since EXCEPT ![r] = {}]
  /\ UNCHANGED <<seqVars, current, stream, holder, begun, done, reported, sendVars, faults, feishuVars>>

\* The result, once and after each failure of the moment; cardMu keeps it behind
\* the run's own progress.  removeTaskStream.
Result(r) ==
  /\ r \in ended \ done /\ pc[r] = "none"
  /\ current' = None
  /\ Call(r, "result", current, IF current = None THEN "patch" ELSE "lock")
  /\ reported' = [reported EXCEPT ![r] = 0]
  /\ UNCHANGED <<seqVars, stream, holder, begun, ended, done, since, faults, feishuVars>>

\* What the patch of r makes of the card.
Patch(r) ==
  IF kind[r] = "result"
    THEN [kind |-> "result", key |-> <<r, 0>>, detail |-> <<r, 0>>]
    ELSE [kind |-> "progress", key |-> Key(r, reported[r]), detail |-> <<r, reported[r]>>]

\* The patches on their way.
Unanswered(r) == IF pc[r] = "patch" /\ reply[r] = "none" THEN {Patch(r)} ELSE {}

\* The process dies; the next one recovers its run as failed and sends nothing.
Crash ==
  /\ Fault("crash")
  /\ current' = None
  /\ stream' = [s \in Streams |-> NoStream]
  /\ Forget(Streams)
  /\ holder' = [s \in Streams |-> 0]
  /\ pc' = [r \in Runs |-> "none"] /\ kind' = [r \in Runs |-> "none"] /\ using' = [r \in Runs |-> None]
  /\ then' = [r \in Runs |-> "none"] /\ seq' = [r \in Runs |-> 0] /\ reply' = [r \in Runs |-> "none"]
  /\ ended' = 1..begun /\ done' = 1..begun
  /\ late' = late \cup UNION {Unanswered(r) : r \in Runs}
  /\ since' = [r \in Runs |-> IF r <= begun THEN {} ELSE since[r]]
  /\ UNCHANGED <<begun, reported, requests, card>>

-----------------------------------------------------------------------------
(* The lock, and what Send does under it *)

Release(r) == holder' = IF using[r] = None THEN holder ELSE [holder EXCEPT ![using[r]] = 0]

\* Send returns.
Finish(r, ok) ==
  /\ NoCall(r)
  /\ Release(r)
  /\ since' = IF ok /\ kind[r] = "progress" /\ r \notin ended THEN [since EXCEPT ![r] = {reported[r]}] ELSE since

\* The context of the Send is cancelled: progress of a run that is over.
Canceled(r) == r \in ended /\ kind[r] = "progress"

Set(r, field, value) == stream' = [stream EXCEPT ![using[r]][field] = value]

\* enableTaskStream begins with the card id.
EnablePC(s) == IF stream[s].resolved THEN "enable" ELSE "resolve"

SendFrame == UNCHANGED <<runsVars, requests, card, current>>

\* stream.mu.Lock and the choice of what to do.
Lock(r) ==
  LET s == using[r]  v == reported[r] IN
  /\ pc[r] = "lock" /\ holder[s] = 0
  /\ \/ /\ kind[r] = "start"
        /\ stream' = [stream EXCEPT ![s].key = Key(r, 0), ![s].detail = 0]
        /\ GoTo(r, EnablePC(s), "none")
        /\ holder' = [holder EXCEPT ![s] = r]
        /\ UNCHANGED since
     \/ /\ kind[r] = "result"
        /\ UNCHANGED <<stream, since>>
        /\ IF stream[s].active THEN GoTo(r, "close", "none") /\ holder' = [holder EXCEPT ![s] = r]
                               ELSE GoTo(r, "patch", "none") /\ UNCHANGED holder
     \/ /\ kind[r] = "progress"
        /\ UNCHANGED stream
        /\ \/ /\ stream[s].unavailable
              /\ GoTo(r, "patch", "return")
           \/ /\ ~stream[s].unavailable /\ ~stream[s].active
              /\ GoTo(r, "patch", "enable")
           \/ /\ ~stream[s].unavailable /\ stream[s].active /\ stream[s].key # Key(r, v)
              /\ GoTo(r, "pause", "none")
           \/ /\ ~stream[s].unavailable /\ stream[s].active /\ stream[s].key = Key(r, v)
              /\ stream[s].detail # v
              /\ GoTo(r, "content", "none")
        /\ holder' = [holder EXCEPT ![s] = r]
        /\ UNCHANGED since
     \/ /\ kind[r] = "progress"  \* the recorded one: nothing to send
        /\ ~stream[s].unavailable /\ stream[s].active /\ stream[s].key = Key(r, v) /\ stream[s].detail = v
        /\ Finish(r, FALSE)
        /\ UNCHANGED stream
  /\ UNCHANGED <<seqVars, late, faults>> /\ SendFrame

-----------------------------------------------------------------------------
(* CardKit operations *)

\* nextTaskStreamSequence and the request.
Issue(r) ==
  /\ pc[r] \in Ops /\ seq[r] = 0 /\ ~Canceled(r)
  /\ \E n \in 1..MaxSequence :
       /\ Take(using[r], n)
       /\ seq' = [seq EXCEPT ![r] = n]
       /\ requests' = requests \cup
            {[op |-> IF pc[r] \in {"pause", "disable", "close"} THEN "off" ELSE pc[r],
              seq |-> n, detail |-> <<r, IF pc[r] = "content" THEN reported[r] ELSE 0>>]}
  /\ UNCHANGED <<current, stream, holder, pc, kind, using, then, reply, runsVars, since, late, card, faults>>

\* Feishu takes a request with a higher sequence than the ones before.
Process(q, refused) ==
  /\ q \in requests
  /\ requests' = requests \ {q}
  /\ IF refused
       THEN Fault("permanent") ELSE UNCHANGED faults
  /\ LET ok == ~refused /\ q.seq > card.seq IN
     /\ card' = IF ~ok THEN card ELSE
          [card EXCEPT !.seq = q.seq,
                       !.detail = IF q.op = "content" /\ card.kind # "result" THEN q.detail ELSE @]
     /\ reply' = [r \in Runs |-> IF seq[r] # q.seq THEN reply[r] ELSE IF ok THEN "ok" ELSE "refused"]
  /\ UNCHANGED <<seqVars, current, stream, holder, pc, kind, using, then, seq, runsVars, since, late>>

\* A cancelled call ends at once; its request may have been sent.
CutOff(r) == Canceled(r) /\ UNCHANGED faults

\* How the operation of r ends: answered; no sequence left, or the database
\* fails; timed out, whatever Feishu does with the request; cut off.
Returns(r, outcome) ==
  \/ outcome \in {"ok", "refused"} /\ seq[r] # 0 /\ reply[r] = outcome /\ UNCHANGED faults
  \/ outcome = "refused" /\ seq[r] = 0 /\ TakeFails(using[r]) /\ UNCHANGED faults
  \/ outcome = "refused" /\ seq[r] = 0 /\ NeedsBlock(using[r]) /\ Fault("permanent")
  \/ outcome = "transient" /\ seq[r] # 0 /\ Fault("transient")
  \/ outcome = "canceled" /\ CutOff(r)

OpFrame == UNCHANGED <<seqVars, late>> /\ SendFrame

\* ResolveCardID.
ResolveReturns(r, outcome) ==
  /\ pc[r] = "resolve"
  /\ \/ /\ outcome = "ok" /\ UNCHANGED <<faults, holder, since>>
        /\ Set(r, "resolved", TRUE)
        /\ GoTo(r, "enable", "none")
     \/ /\ outcome = "transient" /\ Fault("transient")
        /\ Finish(r, FALSE)
        /\ UNCHANGED stream
     \/ /\ \/ outcome = "refused" /\ Fault("permanent")
           \/ outcome = "canceled" /\ CutOff(r)
        /\ Set(r, "unavailable", TRUE)
        /\ Finish(r, TRUE)
  /\ OpFrame

\* The end of enableTaskStream: for the moment not enabled, which fails the
\* Send; never enabled again, which leaves it to patches; or enabled.
EnableReturns(r, outcome) ==
  /\ pc[r] = "enable"
  /\ Returns(r, outcome)
  /\ CASE outcome = "ok"        -> Set(r, "active", TRUE)
       [] outcome = "transient" -> UNCHANGED stream
       [] OTHER                 -> Set(r, "unavailable", TRUE)
  /\ Finish(r, outcome # "transient")
  /\ OpFrame

\* pauseTaskStream before a structural patch.
PauseReturns(r, outcome) ==
  /\ pc[r] = "pause"
  /\ Returns(r, outcome)
  /\ CASE outcome = "ok"        -> /\ Set(r, "active", FALSE)
                                   /\ GoTo(r, "patch", "enable")
                                   /\ UNCHANGED <<holder, since>>
       [] outcome = "transient" -> /\ UNCHANGED stream
                                   /\ Finish(r, FALSE)
       [] OTHER                 -> /\ Set(r, "unavailable", TRUE)
                                   /\ GoTo(r, "disable", "none")
                                   /\ UNCHANGED <<holder, since>>
  /\ OpFrame

\* Mutant: a call that timed out counts as done.
ContentReturnsTooSure(r, outcome) ==
  /\ pc[r] = "content"
  /\ Returns(r, outcome)
  /\ outcome \in {"ok", "transient"}
  /\ Set(r, "detail", reported[r])
  /\ Finish(r, TRUE)
  /\ OpFrame

\* SetCardElementContent.  Without a sequence the Send fails; once refused, the
\* stream is given up and the presentation patched.
ContentReturns(r, outcome) ==
  /\ pc[r] = "content"
  /\ Returns(r, outcome)
  /\ CASE outcome = "ok" -> /\ Set(r, "detail", reported[r])
                            /\ Finish(r, TRUE)
       [] outcome = "transient" \/ seq[r] = 0 -> /\ UNCHANGED stream
                                                     /\ Finish(r, FALSE)
       [] OTHER -> /\ Set(r, "unavailable", TRUE)
                   /\ GoTo(r, "disable", "none")
                   /\ UNCHANGED <<holder, since>>
  /\ OpFrame

\* disableTaskStreamForFallback: one attempt to switch streaming off.
DisableReturns(r, outcome) ==
  /\ pc[r] = "disable"
  /\ Returns(r, outcome)
  /\ IF outcome = "ok" THEN Set(r, "active", FALSE) ELSE UNCHANGED stream
  /\ GoTo(r, "patch", "return")
  /\ UNCHANGED <<holder, since>> /\ OpFrame

\* closeTaskStream: one attempt, and the lock is released before the patch.
CloseReturns(r, outcome) ==
  /\ pc[r] = "close"
  /\ Returns(r, outcome)
  /\ IF outcome = "ok" THEN Set(r, "active", FALSE) ELSE UNCHANGED stream
  /\ Call(r, "result", None, "patch")
  /\ Release(r)
  /\ UNCHANGED since /\ OpFrame

-----------------------------------------------------------------------------
(* patchWithRetry, as one call *)

Shows(p, isLate) ==
  card' = [card EXCEPT !.kind = p.kind, !.key = p.key, !.detail = p.detail, !.late = isLate]

PatchApplies(r) ==
  /\ pc[r] = "patch" /\ reply[r] = "none" /\ ~Canceled(r)
  /\ reply' = [reply EXCEPT ![r] = "ok"]
  /\ Shows(Patch(r), FALSE)
  /\ UNCHANGED <<seqVars, current, stream, holder, pc, kind, using, then, seq, runsVars, since, requests, late, faults>>

\* A patch that was given up reaches the card after all.
PatchLate(p) ==
  /\ p \in late
  /\ Shows(p, TRUE)
  /\ UNCHANGED <<seqVars, current, stream, holder, sendVars, runsVars, since, requests, late, faults>>

\* An attempt times out, and there is another one.
AttemptTimesOut(r) ==
  /\ pc[r] = "patch" /\ reply[r] = "none" /\ Fault("transient")
  /\ late' = late \cup {Patch(r)}
  /\ UNCHANGED <<seqVars, current, stream, holder, sendVars, runsVars, since, requests, card>>

PatchEnds(r, outcome) ==
  /\ pc[r] = "patch"
  /\ \/ outcome = "ok" /\ reply[r] = "ok" /\ UNCHANGED <<late, faults>>
     \/ outcome = "transient" /\ Fault("transient") /\ late' = late \cup Unanswered(r)
     \/ outcome = "refused" /\ reply[r] = "none" /\ Fault("permanent") /\ UNCHANGED late
     \/ outcome = "canceled" /\ CutOff(r) /\ late' = late \cup Unanswered(r)

\* patchTaskProgress, and what follows it.
ProgressPatched(r, outcome) ==
  LET s == using[r] IN
  /\ kind[r] = "progress"
  /\ PatchEnds(r, outcome)
  /\ IF outcome = "ok"
       THEN /\ stream' = [stream EXCEPT ![s].key = Key(r, reported[r]), ![s].detail = reported[r]]
            /\ IF then[r] = "enable"
                 THEN GoTo(r, EnablePC(s), "none") /\ UNCHANGED <<holder, since>>
                 ELSE Finish(r, TRUE)
       ELSE Finish(r, FALSE) /\ UNCHANGED stream
  /\ UNCHANGED seqVars /\ SendFrame

\* After a refusal the result goes to a card of its own.
ResultPatched(r, outcome) ==
  /\ kind[r] = "result"
  /\ PatchEnds(r, outcome)
  /\ done' = IF outcome = "transient" THEN done ELSE done \cup {r}
  /\ NoCall(r)
  /\ UNCHANGED <<seqVars, stream, current, holder, since, begun, ended, reported, requests, card>>

-----------------------------------------------------------------------------
Outcomes == {"ok", "refused", "transient", "canceled"}

Send(r) ==
  \/ Lock(r) \/ Issue(r) \/ PatchApplies(r) \/ AttemptTimesOut(r)
  \/ \E outcome \in Outcomes :
       \/ ResolveReturns(r, outcome) \/ EnableReturns(r, outcome) \/ PauseReturns(r, outcome)
       \/ ContentReturns(r, outcome) \/ DisableReturns(r, outcome) \/ CloseReturns(r, outcome)
       \/ ProgressPatched(r, outcome) \/ ResultPatched(r, outcome)

Next ==
  \/ BeginRun \/ Crash
  \/ \E r \in Runs : EndRun(r) \/ Result(r) \/ Send(r) \/ \E v \in 1..MaxVersion : Progress(r, v)
  \/ \E q \in requests, refused \in BOOLEAN : Process(q, refused)
  \/ \E p \in late : PatchLate(p)

Spec == Init /\ [][Next]_vars

-----------------------------------------------------------------------------
TypeOK ==
  /\ SeqTypeOK
  /\ current \in Streams \cup {None}
  /\ stream \in [Streams -> [resolved : BOOLEAN, key : (Runs \cup {0}) \X (0..MaxVersion),
                             detail : 0..MaxVersion, active : BOOLEAN, unavailable : BOOLEAN]]
  /\ holder \in [Streams -> Runs \cup {0}]
  /\ begun \in 0..NumRuns /\ ended \subseteq Runs /\ done \subseteq ended
  /\ pc \in [Runs -> Ops \cup {"none", "lock", "resolve", "patch"}]
  /\ kind \in [Runs -> {"none", "start", "progress", "result"}]
  /\ using \in [Runs -> Streams \cup {None}]
  /\ then \in [Runs -> {"none", "enable", "return"}]
  /\ seq \in [Runs -> 0..MaxSequence]
  /\ reply \in [Runs -> {"none", "ok", "refused"}]
  /\ reported \in [Runs -> 0..MaxVersion] /\ since \in [Runs -> SUBSET (0..MaxVersion)]
  /\ requests \subseteq [op : {"enable", "off", "content"}, seq : 1..MaxSequence, detail : Runs \X (0..MaxVersion)]
  /\ card.seq \in 0..MaxSequence
  /\ faults \in 0..MaxFaults

\* While native streaming is in use, the card shows the last presentation of the
\* current run that was sent with success, or one sent later, as far as its key
\* goes; and no CardKit request on its way can put another detail there.  The
\* first run also finds its detail.  (A run that lost its stream object to the
\* result of an earlier one may find a late request of that object between its
\* patch and activation.)  The exception is a patch given up without an answer
\* that reaches the card later: nothing in the code keeps it out.  A Send that
\* finds its presentation recorded has no success of its own.
AckedIsShown ==
  \A r \in Runs :
    /\ r = begun /\ r \notin ended /\ 1..(r - 1) \subseteq done
    /\ card.kind # "result"
    /\ current # None /\ stream[current].active /\ ~stream[current].unavailable
    => /\ \A q \in requests : q.op = "content" /\ q.detail[1] = r /\ q.seq > card.seq
                                => q.detail[2] \in since[r]
       /\ card.late
          \/ /\ \E v \in since[r] : card.key = Key(r, v)
             /\ r = 1 => card.detail[1] = r /\ card.detail[2] \in since[r]

\* The comment of CardStreamSequenceAllocator: a range reserved before a stream
\* begins keeps a reused card valid.  An activation is sent with a number above
\* every one used before, by whichever object and process; except that a run
\* that is over may have taken one number more, to close its stream, out of a
\* block reserved after the one the activation uses.
ActivationsValid ==
  [][\A r \in Runs : pc[r] = "enable" /\ seq[r] = 0 /\ seq'[r] # 0 =>
       Cardinality({n \in 1..MaxSequence : uses[n] > 0 /\ n >= seq'[r]}) <= Cardinality(ended)]_vars
=============================================================================
