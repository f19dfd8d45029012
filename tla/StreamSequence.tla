--------------------------- MODULE StreamSequence ----------------------------
(***************************************************************************)
(* The sequence numbers of the CardKit operations on one card.  Feishu     *)
(* takes an operation only when its sequence is higher than those before,  *)
(* and its idempotency key is made of it.  A stream object of the sender   *)
(* takes numbers from a block it has reserved in the database              *)
(* (Store.ReserveCardStreamSequence); objects come and go with the runs    *)
(* that share the card and with the process.                               *)
(***************************************************************************)
EXTENDS Naturals

CONSTANTS
  Streams,      \* identities of taskCardStream objects
  MaxSequence,  \* maxCardStreamSequence
  BlockSize,    \* cardStreamSequenceBlockSize
  Clock         \* values of time.Now().Unix(), in any order: a clock may be set back

ASSUME StreamSequenceAssumption ==
  /\ MaxSequence \in Nat
  /\ BlockSize \in Nat \ {0}
  /\ Clock \subseteq Nat

VARIABLES
  last,   \* card_stream_sequences.last_sequence of the card, 0 without a row
  next,   \* [Streams -> nextSequence], 0 in a new object
  end,    \* [Streams -> sequenceEnd]
  uses    \* [1..MaxSequence -> operations that used the number], history

seqVars == <<last, next, end, uses>>

SeqInit ==
  /\ last = 0
  /\ next = [s \in Streams |-> 0]
  /\ end  = [s \in Streams |-> 0]
  /\ uses = [n \in 1..MaxSequence |-> 0]

-----------------------------------------------------------------------------
\* The object has no number left.
NeedsBlock(s) == next[s] = 0 \/ next[s] > end[s]

\* Mutant: the block starts at the time, whatever was reserved before.
StartAtClock(minimum) == minimum

\* Where ReserveCardStreamSequence lets a block start.
Start(minimum) == IF last >= minimum THEN last + 1 ELSE minimum

\* Mutant: only the start of the block is compared with the maximum.
CanReserveStart(minimum) == minimum \in 1..MaxSequence /\ Start(minimum) <= MaxSequence

\* The minimum is in range and the block fits below the maximum.
CanReserve(minimum) ==
  /\ minimum \in 1..MaxSequence
  /\ Start(minimum) + BlockSize - 1 <= MaxSequence

\* Mutant: the row keeps the start of the block instead of its end.
TakeStoringStart(s, n) ==
  /\ \/ /\ ~NeedsBlock(s)
        /\ n = next[s]
        /\ UNCHANGED <<last, end>>
     \/ /\ NeedsBlock(s)
        /\ \E minimum \in Clock :
             /\ CanReserve(minimum)
             /\ n = Start(minimum)
        /\ last' = n
        /\ end' = [end EXCEPT ![s] = n + BlockSize - 1]
  /\ next' = [next EXCEPT ![s] = n + 1]
  /\ uses' = [uses EXCEPT ![n] = @ + 1]

\* nextTaskStreamSequence returns n.
Take(s, n) ==
  /\ \/ /\ ~NeedsBlock(s)
        /\ n = next[s]
        /\ UNCHANGED <<last, end>>
     \/ /\ NeedsBlock(s)
        /\ \E minimum \in Clock :
             /\ CanReserve(minimum)
             /\ n = Start(minimum)
        /\ last' = n + BlockSize - 1
        /\ end' = [end EXCEPT ![s] = n + BlockSize - 1]
  /\ next' = [next EXCEPT ![s] = n + 1]
  /\ uses' = [uses EXCEPT ![n] = @ + 1]

\* nextTaskStreamSequence returns an error: no block can be reserved.
TakeFails(s) ==
  /\ NeedsBlock(s)
  /\ \E minimum \in Clock : ~CanReserve(minimum)

\* The objects are gone: removed from the map and no longer held, or lost with
\* the process.  The rest of their blocks is never used.
Forget(gone) ==
  /\ next' = [s \in Streams |-> IF s \in gone THEN 0 ELSE next[s]]
  /\ end'  = [s \in Streams |-> IF s \in gone THEN 0 ELSE end[s]]
  /\ UNCHANGED <<last, uses>>

SeqNext ==
  \/ \E s \in Streams, n \in 1..MaxSequence : Take(s, n)
  \/ \E gone \in SUBSET Streams : Forget(gone)

SeqSpec == SeqInit /\ [][SeqNext]_seqVars

-----------------------------------------------------------------------------
SeqTypeOK ==
  /\ last \in 0..MaxSequence
  /\ next \in [Streams -> Nat]
  /\ end  \in [Streams -> 0..MaxSequence]
  /\ uses \in [1..MaxSequence -> Nat]

\* No two operations on a card have the same sequence number, whatever stream
\* objects exist beside each other and however often the process restarts.
NumbersFresh == \A n \in 1..MaxSequence : uses[n] <= 1

\* A new block lies above every number used so far, so that the first operation
\* of a new process or a continuation is not refused as an old one.
BlocksRise == [][last' # last => \A n \in 1..MaxSequence : uses[n] > 0 => n < last' - BlockSize + 1]_seqVars

\* The numbers an object can still take.
Left(s) == IF next[s] = 0 THEN {} ELSE next[s]..end[s]

\* What makes NumbersFresh inductive: numbers used or set aside are not above
\* last, those set aside are unused, and no two objects share one.
SequenceInv ==
  /\ SeqTypeOK
  /\ NumbersFresh
  /\ \A n \in 1..MaxSequence : uses[n] > 0 => n <= last
  /\ \A s \in Streams : end[s] <= last
  /\ \A s \in Streams : \A n \in 1..MaxSequence : n \in Left(s) => uses[n] = 0
  /\ \A s, t \in Streams : s # t => Left(s) \cap Left(t) = {}
=============================================================================
