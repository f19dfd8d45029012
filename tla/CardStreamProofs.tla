-------------------------- MODULE CardStreamProofs ---------------------------
(***************************************************************************)
(* Proofs about the sequence numbers of a card, for every number of stream *)
(* objects and runs, every size of a block and every clock: the allocator  *)
(* keeps SequenceInv, and the sender uses it as StreamSequence says.       *)
(***************************************************************************)
EXTENDS CardStream, TLAPS

\* A card without a row has no number used or set aside.
LEMMA SeqInitEstablishes == SeqInit => SequenceInv
<1>1. SUFFICES ASSUME SeqInit PROVE SequenceInv
  OBVIOUS
<1> USE <1>1, StreamSequenceAssumption DEF SeqInit
<1>2. SeqTypeOK /\ NumbersFresh
  BY DEF SeqTypeOK, NumbersFresh
<1>3. \A s \in Streams : Left(s) = {}
  BY DEF Left
<1> QED
  BY <1>2, <1>3 DEF SequenceInv

\* A block starts above everything reserved before.
LEMMA BlockAboveLast ==
  ASSUME NEW minimum \in Clock, SeqTypeOK, CanReserve(minimum)
  PROVE  /\ Start(minimum) \in 1..MaxSequence
         /\ last < Start(minimum)
         /\ Start(minimum) + BlockSize - 1 \in 1..MaxSequence
BY StreamSequenceAssumption DEF SeqTypeOK, CanReserve, Start

\* A number out of the block of s: unused, and set aside for s alone.
LEMMA TakeNextKeeps ==
  ASSUME NEW s \in Streams, NEW n \in 1..MaxSequence,
         SequenceInv, ~NeedsBlock(s), n = next[s], UNCHANGED <<last, end>>,
         next' = [next EXCEPT ![s] = n + 1], uses' = [uses EXCEPT ![n] = @ + 1]
  PROVE  SequenceInv'
<1> USE StreamSequenceAssumption DEF SequenceInv, SeqTypeOK
<1>1. n \in Left(s) /\ uses[n] = 0 /\ n <= end[s]
  BY DEF NeedsBlock, Left
<1>2. SeqTypeOK'
  OBVIOUS
<1>3. NumbersFresh'
  BY <1>1 DEF NumbersFresh
<1>4. Left(s)' \subseteq Left(s) \ {n}
  BY <1>1 DEF Left
<1>5. \A t \in Streams : t # s => Left(t)' = Left(t) /\ n \notin Left(t)
  BY <1>1 DEF Left
<1>6. \A m \in 1..MaxSequence : uses'[m] > 0 => m <= last'
  BY <1>1
<1>7. \A t \in Streams : \A m \in 1..MaxSequence : m \in Left(t)' => uses'[m] = 0
  BY <1>4, <1>5
<1>8. \A t, u \in Streams : t # u => Left(t)' \cap Left(u)' = {}
  BY <1>4, <1>5
<1> QED
  BY <1>2, <1>3, <1>6, <1>7, <1>8

\* A number out of a new block: the block lies above last, where nothing is
\* used or set aside.
LEMMA TakeBlockKeeps ==
  ASSUME NEW s \in Streams, NEW minimum \in Clock, NEW n \in 1..MaxSequence,
         SequenceInv, CanReserve(minimum), n = Start(minimum),
         last' = n + BlockSize - 1, end' = [end EXCEPT ![s] = n + BlockSize - 1],
         next' = [next EXCEPT ![s] = n + 1], uses' = [uses EXCEPT ![n] = @ + 1]
  PROVE  SequenceInv' /\ \A m \in 1..MaxSequence : uses[m] > 0 => m < last' - BlockSize + 1
<1> USE StreamSequenceAssumption
<1>1. SeqTypeOK
  BY DEF SequenceInv
<1>2. last < n /\ last' \in 1..MaxSequence /\ n + BlockSize - 1 = last'
  BY <1>1, BlockAboveLast
<1>3. n <= last' /\ last < last'
  BY <1>1, <1>2 DEF SeqTypeOK
<1>4. uses[n] = 0
  BY <1>1, <1>2 DEF SequenceInv, SeqTypeOK
<1>5. SeqTypeOK'
  <2>1. last' \in 0..MaxSequence /\ n + 1 \in Nat
    BY <1>1, <1>2
  <2>2. end' = [end EXCEPT ![s] = last']
    OBVIOUS
  <2>3. end' \in [Streams -> 0..MaxSequence] /\ next' \in [Streams -> Nat]
    BY <1>1, <2>1, <2>2 DEF SeqTypeOK
  <2>4. uses' \in [1..MaxSequence -> Nat]
    BY <1>1 DEF SeqTypeOK
  <2> QED
    BY <2>1, <2>3, <2>4 DEF SeqTypeOK
<1>6. NumbersFresh'
  BY <1>1, <1>4 DEF NumbersFresh, SeqTypeOK, SequenceInv
<1>7. \A m \in 1..MaxSequence : uses'[m] > 0 => m <= last'
  BY <1>1, <1>3 DEF SequenceInv, SeqTypeOK
<1>8. \A t \in Streams : end'[t] <= last'
  BY <1>1, <1>2, <1>3 DEF SequenceInv, SeqTypeOK
<1>9. Left(s)' = (n + 1)..last'
  BY <1>1, <1>2 DEF Left, SeqTypeOK
<1>10. \A t \in Streams : t # s => Left(t)' = Left(t)
  BY <1>1 DEF Left, SeqTypeOK
<1>11. \A t \in Streams : \A m \in Left(t) : m \in Nat /\ m <= last
  BY <1>1 DEF Left, SequenceInv, SeqTypeOK
<1>12. \A t \in Streams : \A m \in 1..MaxSequence : m \in Left(t)' => uses'[m] = 0
  <2>1. ASSUME NEW m \in (n + 1)..last', m \in 1..MaxSequence
        PROVE  uses'[m] = 0
    BY <1>1, <1>2, <2>1 DEF SequenceInv, SeqTypeOK
  <2>2. ASSUME NEW t \in Streams, t # s, NEW m \in 1..MaxSequence, m \in Left(t)
        PROVE  uses'[m] = 0
    BY <1>1, <1>2, <1>11, <2>2 DEF SequenceInv, SeqTypeOK
  <2> QED
    BY <1>9, <1>10, <2>1, <2>2
<1>13. \A t, u \in Streams : t # u => Left(t)' \cap Left(u)' = {}
  <2>1. \A t \in Streams : Left(t) \cap ((n + 1)..last') = {}
    BY <1>1, <1>2, <1>11 DEF SeqTypeOK
  <2> QED
    BY <1>9, <1>10, <2>1 DEF SequenceInv
<1>14. \A m \in 1..MaxSequence : uses[m] > 0 => m < last' - BlockSize + 1
  <2>1. last' - BlockSize + 1 = n
    BY <1>1, <1>2 DEF SeqTypeOK
  <2>2. \A m \in 1..MaxSequence : uses[m] > 0 => m <= last
    BY DEF SequenceInv
  <2> QED
    BY <1>1, <1>2, <2>1, <2>2 DEF SeqTypeOK
<1> QED
  BY <1>5, <1>6, <1>7, <1>8, <1>12, <1>13, <1>14 DEF SequenceInv

\* Both ways to take a number.
LEMMA TakeKeeps ==
  ASSUME NEW s \in Streams, NEW n \in 1..MaxSequence, SequenceInv, Take(s, n)
  PROVE  /\ SequenceInv'
         /\ last' # last => \A m \in 1..MaxSequence : uses[m] > 0 => m < last' - BlockSize + 1
<1>1. CASE ~NeedsBlock(s)
  BY <1>1, TakeNextKeeps DEF Take
<1>2. CASE NeedsBlock(s)
  BY <1>2, TakeBlockKeeps DEF Take
<1> QED
  BY <1>1, <1>2

\* Objects that are gone set nothing aside.
LEMMA ForgetKeeps ==
  ASSUME NEW gone \in SUBSET Streams, SequenceInv, Forget(gone)
  PROVE  SequenceInv' /\ last' = last
<1> USE StreamSequenceAssumption DEF SequenceInv, SeqTypeOK, Forget
<1>1. SeqTypeOK' /\ NumbersFresh'
  BY DEF NumbersFresh
<1>2. \A s \in Streams : Left(s)' \subseteq Left(s)
  BY DEF Left
<1>3. \A s \in Streams : end'[s] <= last'
  OBVIOUS
<1> QED
  BY <1>1, <1>2, <1>3

LEMMA SeqStepKeeps ==
  ASSUME SequenceInv, [SeqNext]_seqVars
  PROVE  /\ SequenceInv'
         /\ last' # last => \A n \in 1..MaxSequence : uses[n] > 0 => n < last' - BlockSize + 1
<1>1. CASE UNCHANGED seqVars
  BY <1>1 DEF seqVars, SequenceInv, SeqTypeOK, NumbersFresh, Left
<1>2. ASSUME NEW s \in Streams, NEW n \in 1..MaxSequence, Take(s, n)
      PROVE  /\ SequenceInv'
             /\ last' # last => \A m \in 1..MaxSequence : uses[m] > 0 => m < last' - BlockSize + 1
  BY <1>2, TakeKeeps
<1>3. ASSUME NEW gone \in SUBSET Streams, Forget(gone)
      PROVE  SequenceInv' /\ last' = last
  BY <1>3, ForgetKeeps
<1> QED
  BY <1>1, <1>2, <1>3 DEF SeqNext

THEOREM SequenceInvariant == SeqSpec => []SequenceInv
<1>1. SequenceInv /\ [SeqNext]_seqVars => SequenceInv'
  BY SeqStepKeeps
<1> QED
  BY <1>1, SeqInitEstablishes, PTL DEF SeqSpec

\* No two CardKit operations of a card share a number.
THEOREM NumbersAreFresh == SeqSpec => []NumbersFresh
BY SequenceInvariant, PTL DEF SequenceInv

\* A new block lies above every number used.
THEOREM BlocksAlwaysRise == SeqSpec => BlocksRise
<1>1. SequenceInv /\ [SeqNext]_seqVars
        => [last' # last => \A n \in 1..MaxSequence : uses[n] > 0 => n < last' - BlockSize + 1]_seqVars
  BY SeqStepKeeps
<1> QED
  BY <1>1, SequenceInvariant, PTL DEF SeqSpec, BlocksRise

-----------------------------------------------------------------------------
\* A Send that holds the lock or waits for it has a stream object, and one of
\* progress keeps it to its end.
NeedStream == Ops \cup {"lock", "resolve"}

HasStream ==
  /\ current \in Streams \cup {None}
  /\ pc = [r \in Runs |-> pc[r]]
  /\ using \in [Runs -> Streams \cup {None}]
  /\ kind = [r \in Runs |-> kind[r]]
  /\ \A r \in Runs : pc[r] \in NeedStream \/ kind[r] = "progress" => using[r] \in Streams

\* The Send moves on with the object it has, or returns.
LEMMA GoesOn ==
  ASSUME HasStream, current' = current, NEW r \in Runs, NEW p, NEW after,
         GoTo(r, p, after), p \in NeedStream => using[r] \in Streams
  PROVE  HasStream'
BY DEF GoTo, At, HasStream

LEMMA Calls ==
  ASSUME HasStream, current' \in Streams \cup {None}, NEW r \in Runs, NEW what, NEW p,
         NEW s \in Streams \cup {None}, Call(r, what, s, p),
         p \in NeedStream \/ what = "progress" => s \in Streams
  PROVE  HasStream'
BY DEF Call, At, HasStream

LEMMA Ends ==
  ASSUME HasStream, current' = current, NEW r \in Runs, NoCall(r)
  PROVE  HasStream'
BY Calls DEF NoCall, HasStream, NeedStream, Ops

LEMMA TaskStreamHas ==
  ASSUME HasStream, NEW s \in Streams, TaskStream(s)
  PROVE  current' \in Streams \cup {None} /\ [SeqNext]_seqVars
BY DEF HasStream, TaskStream, SeqNext, seqVars

\* What the steps between the beginning of a Send and its end do to the
\* numbers: Issue takes one for the object of the Send, the others none.
LEMMA SendFollows ==
  ASSUME HasStream, NEW r \in Runs, Send(r)
  PROVE  HasStream' /\ [SeqNext]_seqVars
<1>1. pc[r] \in NeedStream \/ kind[r] = "progress" => using[r] \in Streams
  BY DEF HasStream
<1>2. CASE Lock(r)
  <2>1. current' = current /\ seqVars' = seqVars /\ using[r] \in Streams
    BY <1>1, <1>2 DEF Lock, SendFrame, NeedStream
  <2>2. NoCall(r) \/ \E p, after : GoTo(r, p, after)
    BY <1>2, Zenon DEF Lock, Finish
  <2> QED
    BY <2>1, <2>2, Ends, GoesOn
<1>3. CASE Issue(r)
  BY <1>1, <1>3 DEF Issue, SeqNext, HasStream, NeedStream
<1>4. CASE PatchApplies(r) \/ AttemptTimesOut(r)
  BY <1>4 DEF PatchApplies, AttemptTimesOut, sendVars, HasStream
<1>5. ASSUME NEW outcome \in Outcomes,
             ResolveReturns(r, outcome) \/ EnableReturns(r, outcome) \/ PauseReturns(r, outcome)
               \/ ContentReturns(r, outcome) \/ DisableReturns(r, outcome)
      PROVE  HasStream' /\ UNCHANGED seqVars
  <2>1. pc[r] \in NeedStream /\ current' = current /\ UNCHANGED seqVars
    BY <1>5 DEF ResolveReturns, EnableReturns, PauseReturns, ContentReturns, DisableReturns,
                OpFrame, SendFrame, Ops, NeedStream
  <2>2. NoCall(r) \/ \E p, after : GoTo(r, p, after)
    <3>1. CASE ResolveReturns(r, outcome)
      BY <3>1, Zenon DEF ResolveReturns, Finish
    <3>2. CASE EnableReturns(r, outcome)
      BY <3>2, Zenon DEF EnableReturns, Finish
    <3>3. CASE PauseReturns(r, outcome)
      BY <3>3, Zenon DEF PauseReturns, Finish
    <3>4. CASE ContentReturns(r, outcome)
      BY <3>4, Zenon DEF ContentReturns, Finish
    <3>5. CASE DisableReturns(r, outcome)
      BY <3>5, Zenon DEF DisableReturns
    <3> QED
      BY <1>5, <3>1, <3>2, <3>3, <3>4, <3>5
  <2> QED
    BY <1>1, <2>1, <2>2, Ends, GoesOn
<1>6. ASSUME NEW outcome \in Outcomes, CloseReturns(r, outcome)
      PROVE  HasStream' /\ UNCHANGED seqVars
  BY <1>6, Calls DEF CloseReturns, OpFrame, SendFrame, HasStream, NeedStream, Ops
<1>7. ASSUME NEW outcome \in Outcomes, ProgressPatched(r, outcome)
      PROVE  HasStream' /\ UNCHANGED seqVars
  <2>1. current' = current /\ UNCHANGED seqVars /\ kind[r] = "progress"
    BY <1>7 DEF ProgressPatched, OpFrame, SendFrame
  <2>2. NoCall(r) \/ (then[r] = "enable" /\ GoTo(r, EnablePC(using[r]), "none"))
    BY <1>7 DEF ProgressPatched, Finish
  <2> QED
    BY <1>1, <2>1, <2>2, Ends, GoesOn
<1>8. ASSUME NEW outcome \in Outcomes, ResultPatched(r, outcome)
       PROVE  HasStream' /\ UNCHANGED seqVars
  BY <1>8, Ends DEF ResultPatched
<1> QED
  BY <1>2, <1>3, <1>4, <1>5, <1>6, <1>7, <1>8 DEF Send

LEMMA StepFollows ==
  ASSUME HasStream, [Next]_vars
  PROVE  HasStream' /\ [SeqNext]_seqVars
<1>1. CASE BeginRun
  <2>1. CASE begun = 0
    <3>1. 1 \in Runs
      BY <1>1, <2>1, CardStreamAssumption DEF BeginRun, Runs
    <3> QED
      BY <1>1, <2>1, <3>1, TaskStreamHas, Calls DEF BeginRun
  <2>2. CASE begun # 0
    BY <1>1, <2>2 DEF BeginRun, sendVars, HasStream
  <2> QED
    BY <2>1, <2>2
<1>2. CASE Crash
  BY <1>2 DEF Crash, HasStream, SeqNext, NeedStream, Ops
<1>3. ASSUME NEW r \in Runs, EndRun(r)
      PROVE  HasStream' /\ UNCHANGED seqVars
  BY <1>3 DEF EndRun, sendVars, HasStream
<1>4. ASSUME NEW r \in Runs, Result(r)
      PROVE  HasStream' /\ UNCHANGED seqVars
  BY <1>4, Calls DEF Result, HasStream, NeedStream, Ops
<1>5. ASSUME NEW r \in Runs, NEW v \in 1..MaxVersion, Progress(r, v)
      PROVE  HasStream' /\ [SeqNext]_seqVars
  BY <1>5, TaskStreamHas, Calls DEF Progress
<1>6. ASSUME NEW q \in requests, NEW refused \in BOOLEAN, Process(q, refused)
      PROVE  HasStream' /\ UNCHANGED seqVars
  BY <1>6 DEF Process, HasStream
<1>7. ASSUME NEW p \in late, PatchLate(p)
      PROVE  HasStream' /\ UNCHANGED seqVars
  BY <1>7 DEF PatchLate, sendVars, HasStream
<1>8. CASE UNCHANGED vars
  BY <1>8 DEF vars, sendVars, HasStream
<1> QED
  BY <1>1, <1>2, <1>3, <1>4, <1>5, <1>6, <1>7, <1>8, SendFollows DEF Next

\* CardStream takes its numbers as StreamSequence does, which carries the
\* invariant of the numbers over to it.
LEMMA StreamsFollowSequence == Spec => SeqSpec
<1>1. Init => HasStream /\ SeqInit
  BY DEF Init, HasStream, NeedStream, Ops
<1>2. HasStream /\ [Next]_vars => HasStream' /\ [SeqNext]_seqVars
  BY StepFollows
<1> QED
  BY <1>1, <1>2, PTL DEF Spec, SeqSpec

\* Therefore no two operations it sends on a card share a number.
THEOREM SentNumbersAreFresh == Spec => []NumbersFresh
BY StreamsFollowSequence, NumbersAreFresh, PTL
=============================================================================
