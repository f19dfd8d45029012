------------------------- MODULE EventSourceProofs --------------------------
(***************************************************************************)
(* Proofs about the event source, for any events, numbers of parts, queue  *)
(* capacities, faults and restarts: what Feishu is told is received is     *)
(* kept, acted on once and whole, and a card action waits for one message  *)
(* at most.  Each property has an invariant of its own on top of Types.    *)
(***************************************************************************)
EXTENDS EventSource, FiniteSetTheorems, TLAPS

FrameSet    == [event : Events \cup {None}, sum : Nat, parts : SUBSET Nat, ok : BOOLEAN]
FragmentSet == [sum : Sums \cup {0}, parts : SUBSET Nat, received : Nat]

\* TypeOK, with the sets frame and fragments range over, and who holds an event.
Types ==
  /\ TypeOK
  /\ frame \in FrameSet /\ fragments \in [Split -> FragmentSet]
  /\ reading # "read" => frame.event \in Events
  /\ hand \in Events <=> recv \in {"handle", "hung"}

\* The steps of Start, of the heartbeat and of the watcher.
StartStep == Client \/ ConnectFails \/ PingFails \/ Watch

LEMMA StartStepLeaves == StartStep => StartFrame
BY DEF StartStep, Client, BeginStart, SeesDone, Connects, ConnectFails, Serves, ReadFails, WakesUp,
       PingFails, Watch

\* The steps of users, of Feishu and of the network.
NetStep == \/ \E e \in Events : Emit(e) \/ Resplit(e)
           \/ \E how \in {"silent", "cut"} : Break(how)

LEMMA NetStepLeaves == NetStep => NetFrame
BY DEF NetStep, Emit, Resplit, Break

\* The steps of the receiver that leave the queues alone.
RecvStep == Connect \/ Hang \/ Close \/ CloseReturns(TRUE) \/ CloseReturns(FALSE)

\* The receiver turns to another state without an event.
Turns(to) ==
  /\ recv' = to
  /\ UNCHANGED <<start, closed, queueVars, hand, passed, routerVars, gone, faults>> /\ RecvFrame

\* Every step, by what it can disturb.
LEMMA Steps ==
  ASSUME [Next]_vars
  PROVE  \/ StartStep \/ NetStep \/ RecvStep \/ Cancel
         \/ \E e \in Events : \E p \in Parts(e), expired \in SUBSET Split : Arrive(e, p, expired)
         \/ Answer \/ \E queued \in BOOLEAN : Dispatch(queued)
         \/ recv \in {"poll", "select"} /\ TakeCard
         \/ recv = "select" /\ TakeMessage
         \/ recv = "poll" /\ cards = <<>> /\ Turns("select")
         \/ recv = "select" /\ cancelled /\ Turns("close")
         \/ Handle \/ Drop \/ ProcessEnds
         \/ UNCHANGED vars
BY DEF Next, StartStep, NetStep, RecvStep, Read, Receive, Poll, Select, Delivers, Turns

-----------------------------------------------------------------------------
(* Types *)

\* What Receive leaves of a queue, and what a publication makes of it.
LEMMA Take ==
  ASSUME NEW S, NEW q \in Seq(S), q # <<>>
  PROVE  Head(q) \in S /\ Tail(q) \in Seq(S) /\ Len(Tail(q)) = Len(q) - 1 /\ Len(q) \in Nat
OBVIOUS

LEMMA Put ==
  ASSUME NEW S, NEW q \in Seq(S), NEW x \in S
  PROVE  Append(q, x) \in Seq(S) /\ Len(Append(q, x)) = Len(q) + 1 /\ Len(q) \in Nat
OBVIOUS

LEMMA SumIsNat == ASSUME NEW n \in Sums \cup {0} PROVE n \in Nat
BY EventSourceAssumption

LEMMA Capacities == EventCap \in Nat /\ CardCap \in Nat /\ MaxFaults \in Nat /\ MaxStarts \in Nat \ {0}
BY EventSourceAssumption DEF EventSourceAssumption

LEMMA EmptyHanded == NoFrame \in FrameSet /\ NoFragment \in FragmentSet
BY DEF NoFrame, NoFragment, FrameSet, FragmentSet

LEMMA InitTypes == Init => Types
<1> SUFFICES ASSUME Init PROVE Types
  OBVIOUS
<1> USE Capacities DEF Init, Fresh
<1>1. frame \in FrameSet /\ fragments \in [Split -> FragmentSet]
  BY EmptyHanded
<1>3. \A e \in Split : fragments[e].sum = 0 /\ fragments[e].received = 0
  BY DEF NoFragment
<1>4. /\ events \in Seq(Messages) /\ Len(events) <= EventCap
      /\ cards \in Seq(CardActions) /\ Len(cards) <= CardCap
  OBVIOUS
<1>0. closed = FALSE /\ cancelled = FALSE
  OBVIOUS
<1>5. passed \in Nat /\ starts \in 1..MaxStarts /\ faults \in 0..MaxFaults
  OBVIOUS
<1>6. applied \in [Events -> 0..2] /\ at \in [Events -> {"new", "owed", "answered"}] /\ sums \in [Split -> Sums]
  OBVIOUS
<1>7. /\ start = "off" /\ reading = "read" /\ conn = "none" /\ recv = "connect" /\ hand = None
      /\ recorded = {} /\ gone = {} /\ refused = {} /\ unheard = {}
  OBVIOUS
<1>8. \A e \in Split : fragments[e].sum \in Sums \cup {0} /\ fragments[e].received \in 0..fragments[e].sum
  BY <1>3
<1> QED
  <2> HIDE DEF Init, Fresh
  <2>1. {closed, cancelled} \subseteq BOOLEAN
    BY <1>0, Zenon
  <2>2. /\ start \in {"off", "begin", "connect", "dialed", "serve", "sleep", "done"}
        /\ reading \in {"read", "dispatch", "answer"}
        /\ conn \in {"none", "up", "silent", "cut", "closed"}
        /\ recv \in {"connect", "poll", "select", "handle", "hung", "close", "wait", "done"}
        /\ hand \in Events \cup {None} /\ recorded \subseteq Events /\ gone \subseteq Events
        /\ refused \subseteq CardActions /\ unheard \subseteq Events
    BY <1>7
  <2>3. frame.event \in Events \cup {None} /\ frame.sum \in Nat /\ frame.ok \in BOOLEAN
    BY <1>1 DEF FrameSet
  <2>4. TypeOK
    BY <1>4, <1>5, <1>6, <1>8, <2>1, <2>2, <2>3, Zenon DEF TypeOK
  <2> QED
    BY <1>1, <1>7, <2>4, EventSourceAssumption DEF Types

LEMMA StartStepTypes == ASSUME Types, StartStep PROVE Types'
<1>1. StartFrame
  BY StartStepLeaves
<1>2. /\ start' \in {"off", "begin", "connect", "dialed", "serve", "sleep", "done"}
      /\ conn' \in {"none", "up", "silent", "cut", "closed"}
      /\ faults' \in 0..MaxFaults
  BY EventSourceAssumption DEF Types, TypeOK, StartStep, Client, BeginStart, SeesDone, Connects, ConnectFails,
     Serves, ReadFails, WakesUp, PingFails, Watch, Disconnected, Fault
<1> QED
  BY <1>1, <1>2 DEF Types, TypeOK, StartFrame, queueVars, recvVars, routerVars, feishuVars

LEMMA NetStepTypes == ASSUME Types, NetStep PROVE Types'
<1>1. NetFrame
  BY NetStepLeaves
<1> DEFINE Good == /\ conn' \in {"none", "up", "silent", "cut", "closed"}
                   /\ faults' \in 0..MaxFaults
                   /\ at' \in [Events -> {"new", "owed", "answered"}] /\ sums' \in [Split -> Sums]
<1> USE Capacities DEF Types, TypeOK, Fault
<1>2. ASSUME NEW e \in Events, Emit(e) PROVE Good
  BY <1>2 DEF Emit
<1>3. ASSUME NEW e \in Events, Resplit(e) PROVE Good
  BY <1>3 DEF Resplit
<1>4. ASSUME NEW how \in {"silent", "cut"}, Break(how) PROVE Good
  BY <1>4 DEF Break
<1>5. Good
  BY <1>2, <1>3, <1>4 DEF NetStep
<1> QED
  BY <1>1, <1>5 DEF Types, TypeOK, NetFrame, queueVars, recvVars, routerVars

LEMMA ArriveTypes ==
  ASSUME Types, NEW e \in Events, NEW p \in Parts(e), NEW expired \in SUBSET Split, Arrive(e, p, expired)
  PROVE  Types'
<1> DEFINE kept == [d \in Split |-> IF d \in expired THEN NoFragment ELSE fragments[d]]
           old  == IF kept[e].sum = sums[e] THEN kept[e] ELSE [NoFragment EXCEPT !.sum = sums[e]]
           new  == WithPart(old, p)
<1>1. kept \in [Split -> FragmentSet] /\ \A d \in Split : kept[d].received \in 0..kept[d].sum
  BY EventSourceAssumption DEF Types, TypeOK, FragmentSet, NoFragment
<1>2. CASE e \in Split
  <2>1. p \in Nat
    BY <1>2, EventSourceAssumption DEF Parts, Types, TypeOK
  <2>2. old \in FragmentSet /\ old.sum = sums[e] /\ old.sum \in Sums
    BY <1>1, <1>2 DEF FragmentSet, NoFragment, Types, TypeOK
  <2>3. new \in FragmentSet /\ new.sum = old.sum
    <3>1. CASE p \in old.parts
      BY <2>2, <3>1 DEF WithPart
    <3>2. CASE p \notin old.parts
      <4> DEFINE parts == IF <<old.sum, p>> \in EmptyParts THEN old.parts ELSE old.parts \cup {p}
      <4>1. new = [old EXCEPT !.parts = parts, !.received = old.received + 1]
        BY <3>2 DEF WithPart
      <4>2. parts \in SUBSET Nat /\ old.received + 1 \in Nat
        BY <2>1, <2>2 DEF FragmentSet
      <4> HIDE DEF parts, old, new
      <4> QED
        BY <2>2, <4>1, <4>2 DEF FragmentSet
    <3> QED
      BY <3>1, <3>2
  <2> HIDE DEF kept, old, new
  <2>4. faults' \in 0..MaxFaults
    BY <1>2, EventSourceAssumption DEF Arrive, Types, TypeOK, Fault
  <2>5. CASE new.received < new.sum
    <3>1. fragments' = [kept EXCEPT ![e] = new] /\ UNCHANGED <<reading, frame>>
      BY <1>2, <2>5 DEF Arrive, kept, old, new
    <3>2. fragments' \in [Split -> FragmentSet]
          /\ \A d \in Split : fragments'[d].received \in 0..fragments'[d].sum /\ fragments'[d].sum \in Sums \cup {0}
      <4>1. new.received \in 0..new.sum /\ new.sum \in Sums \cup {0}
        <5>1. new.sum \in Sums /\ new.sum \in Nat
          BY <2>2, <2>3, EventSourceAssumption
        <5>2. new.received \in Nat
          BY <2>3 DEF FragmentSet
        <5> QED
          BY <2>5, <5>1, <5>2
      <4>2. \A d \in Split : fragments'[d] = IF d = e THEN new ELSE kept[d]
        BY <1>1, <1>2, <3>1
      <4> QED
        BY <1>1, <1>2, <2>3, <3>1, <4>1, <4>2 DEF FragmentSet
    <3> QED
      BY <2>4, <3>1, <3>2 DEF Arrive, ReadFrameOnly, Types, TypeOK, queueVars, recvVars, routerVars, feishuVars
  <2>6. CASE ~(new.received < new.sum)
    <3>1. /\ fragments' = [kept EXCEPT ![e] = NoFragment] /\ reading' = "dispatch"
          /\ frame' = [event |-> e, sum |-> new.sum, parts |-> new.parts, ok |-> FALSE]
      BY <1>2, <2>6 DEF Arrive, kept, old, new
    <3>2. fragments' \in [Split -> FragmentSet]
          /\ \A d \in Split : fragments'[d].received \in 0..fragments'[d].sum /\ fragments'[d].sum \in Sums \cup {0}
      BY <1>1, <1>2, <3>1, EventSourceAssumption DEF FragmentSet, NoFragment
    <3>3. frame' \in FrameSet /\ frame'.event \in Events
      BY <2>2, <2>3, <3>1, EventSourceAssumption DEF FrameSet, FragmentSet
    <3>4. frame'.event \in Events \cup {None} /\ frame'.sum \in Nat /\ frame'.ok \in BOOLEAN
      BY <3>3 DEF FrameSet
    <3> QED
      BY <2>4, <3>1, <3>2, <3>3, <3>4 DEF Arrive, ReadFrameOnly, Types, TypeOK, queueVars, recvVars, routerVars,
         feishuVars
  <2> QED
    BY <2>5, <2>6
<1>3. CASE e \notin Split
  <2>1. /\ frame' = [event |-> e, sum |-> 1, parts |-> {0}, ok |-> FALSE] /\ reading' = "dispatch"
        /\ UNCHANGED <<fragments, faults>>
    BY <1>3 DEF Arrive
  <2>2. frame' \in FrameSet /\ frame'.event \in Events /\ frame'.sum \in Nat /\ frame'.ok \in BOOLEAN
    BY <2>1 DEF FrameSet
  <2> QED
    BY <2>1, <2>2 DEF Arrive, ReadFrameOnly, Types, TypeOK, queueVars, recvVars, routerVars, feishuVars
<1> QED
  BY <1>2, <1>3

LEMMA DispatchTypes == ASSUME Types, NEW queued \in BOOLEAN, Dispatch(queued) PROVE Types'
<1>1. /\ frame' = [frame EXCEPT !.ok = frame'.ok] /\ frame'.ok \in BOOLEAN
      /\ frame.event \in Events
  BY DEF Dispatch, Types, TypeOK, AnswerOK, FrameSet
<1>2. frame' \in FrameSet /\ frame'.event \in Events /\ frame'.sum \in Nat
  BY <1>1 DEF Types, FrameSet
<1>3. /\ events' \in Seq(Messages) /\ Len(events') <= EventCap
      /\ cards' \in Seq(CardActions) /\ Len(cards') <= CardCap
  <2>1. CASE UNCHANGED queueVars
    BY <2>1 DEF Types, TypeOK, queueVars
  <2>2. CASE frame.event \in Messages /\ HasRoom(frame.event) /\ events' = Append(events, frame.event) /\ cards' = cards
    BY <2>2, Put, Capacities DEF HasRoom, Types, TypeOK
  <2>3. CASE frame.event \in CardActions /\ frame.event \notin Messages /\ HasRoom(frame.event)
               /\ cards' = Append(cards, frame.event) /\ events' = events
    BY <2>3, Put, Capacities DEF HasRoom, Types, TypeOK
  <2> QED
    BY <1>1, <2>1, <2>2, <2>3, EventSourceAssumption DEF Dispatch, Events
<1>4. refused' \subseteq CardActions
  BY DEF Dispatch, Types, TypeOK
<1> QED
  BY <1>1, <1>2, <1>3, <1>4 DEF Dispatch, ReadFrameOnly, Types, TypeOK, recvVars, routerVars

LEMMA AnswerTypes == ASSUME Types, Answer PROVE Types'
<1>1. frame' \in FrameSet /\ frame'.event \in Events \cup {None} /\ frame'.sum \in Nat /\ frame'.ok \in BOOLEAN
  BY DEF Answer, NoFrame, FrameSet
<1>2. at' \in [Events -> {"new", "owed", "answered"}] /\ unheard' \subseteq Events
  BY DEF Answer, Types, TypeOK
<1> QED
  BY <1>1, <1>2 DEF Answer, ReadFrameOnly, Types, TypeOK, queueVars, recvVars, routerVars

\* A receiver that takes the head of a queue holds an event.
LEMMA TakeTypes == ASSUME Types, TakeCard \/ TakeMessage PROVE Types'
<1>1. hand' \in Events /\ passed' \in Nat /\ recv' = "handle"
      /\ events' \in Seq(Messages) /\ Len(events') <= EventCap
      /\ cards' \in Seq(CardActions) /\ Len(cards') <= CardCap
  <2>1. CASE TakeCard
    <3>1. cards \in Seq(CardActions) /\ cards # <<>> /\ Len(cards) <= CardCap
      BY <2>1 DEF TakeCard, Types, TypeOK
    <3> QED
      BY <2>1, <3>1, Take, Capacities DEF TakeCard, Types, TypeOK, Events
  <2>2. CASE TakeMessage
    <3>1. events \in Seq(Messages) /\ events # <<>> /\ Len(events) <= EventCap
      BY <2>2 DEF TakeMessage, Types, TypeOK
    <3> QED
      BY <2>2, <3>1, Take, Capacities DEF TakeMessage, Types, TypeOK, Events
  <2> QED
    BY <2>1, <2>2
<1> QED
  BY <1>1 DEF TakeCard, TakeMessage, RecvFrame, Types, TypeOK, routerVars, feishuVars

LEMMA StepTypes == ASSUME Types, [Next]_vars PROVE Types'
<1>1. CASE StartStep
  BY <1>1, StartStepTypes
<1>2. CASE NetStep
  BY <1>2, NetStepTypes
<1>3. CASE RecvStep
  <2>1. /\ recv \in {"connect", "handle", "close", "wait"} /\ recv' \in {"poll", "hung", "wait", "done"}
        /\ recv' = "hung" <=> recv = "handle"
    BY <1>3 DEF RecvStep, Connect, Hang, Close, CloseReturns
  <2>2. /\ start' \in {start, "begin"} /\ closed' \in BOOLEAN /\ conn' \in {conn, "closed"}
        /\ UNCHANGED <<reading, frame, fragments, events, cards, hand, passed, cancelled, starts, recorded,
                       applied, gone, at, sums, refused, unheard, faults>>
    BY <1>3 DEF RecvStep, Connect, Hang, Close, CloseReturns, HandFrame, RecvFrame, Types, TypeOK, queueVars,
       routerVars, feishuVars
  <2> QED
    BY <2>1, <2>2 DEF Types, TypeOK
<1>4. CASE Cancel
  BY <1>4 DEF Cancel, Types, TypeOK, clientVars, queueVars, recvVars, routerVars, feishuVars
<1>5. CASE \E e \in Events : \E p \in Parts(e), expired \in SUBSET Split : Arrive(e, p, expired)
  BY <1>5, ArriveTypes
<1>6. CASE Answer
  BY <1>6, AnswerTypes
<1>7. CASE \E queued \in BOOLEAN : Dispatch(queued)
  BY <1>7, DispatchTypes
<1>8. CASE TakeCard \/ TakeMessage
  BY <1>8, TakeTypes
<1>9. CASE recv \in {"poll", "select"} /\ (Turns("select") \/ Turns("close"))
  BY <1>9 DEF Turns, RecvFrame, Types, TypeOK, queueVars, routerVars, feishuVars
<1>10. CASE Handle
  <2>1. applied' \in [Events -> 0..2] /\ recorded' \subseteq Events
    BY <1>10 DEF Handle, Types, TypeOK, Key
  <2> QED
    BY <1>10, <2>1, EventSourceAssumption DEF Handle, HandFrame, RecvFrame, Types, TypeOK, queueVars, feishuVars
<1>11. CASE Drop
  <2>1. recorded' \subseteq Events /\ gone' \subseteq Events /\ faults' \in 0..MaxFaults
    BY <1>11, EventSourceAssumption DEF Drop, Types, TypeOK, Key, Fault
  <2> QED
    BY <1>11, <2>1, EventSourceAssumption DEF Drop, HandFrame, RecvFrame, Types, TypeOK, queueVars, feishuVars
<1>12. CASE ProcessEnds
  <2>1. /\ recorded' \subseteq Events /\ gone' \subseteq Events /\ unheard' \subseteq Events
        /\ starts' \in 1..MaxStarts
        /\ frame' \in FrameSet /\ frame'.event \in Events \cup {None} /\ frame'.sum \in Nat /\ frame'.ok \in BOOLEAN
        /\ fragments' \in [Split -> FragmentSet]
        /\ \A d \in Split : fragments'[d].received \in 0..fragments'[d].sum /\ fragments'[d].sum \in Sums \cup {0}
        /\ events' \in Seq(Messages) /\ Len(events') <= EventCap
        /\ cards' \in Seq(CardActions) /\ Len(cards') <= CardCap
    BY <1>12, EventSourceAssumption DEF ProcessEnds, Restart, Types, TypeOK, Key, NoFrame, NoFragment, FrameSet,
       FragmentSet
  <2> QED
    BY <1>12, <2>1, EventSourceAssumption DEF ProcessEnds, Restart, Types, TypeOK
<1>13. CASE UNCHANGED vars
  BY <1>13 DEF vars, Types, TypeOK, clientVars, queueVars, recvVars, routerVars, feishuVars
<1> QED
  BY Steps, <1>1, <1>2, <1>3, <1>4, <1>5, <1>6, <1>7, <1>8, <1>9, <1>10, <1>11, <1>12, <1>13

\* The state of the connection, the queues and the receiver is well-formed in
\* every reachable state; no queue holds more than its capacity.
THEOREM SourceTypes == Spec => []Types
BY InitTypes, StepTypes, PTL DEF Spec

THEOREM SourceTypeCorrect == Spec => []TypeOK
<1>1. Types => TypeOK
  BY DEF Types
<1> QED
  BY <1>1, SourceTypes, PTL

-----------------------------------------------------------------------------
(* A card action waits for one message at most *)

\* A message is taken while a card action waits only if that action came after
\* the receiver had looked for one; it looks again before the next message.
Waiting == passed <= 1 /\ (passed > 0 => cards # <<>> /\ recv # "select")

LEMMA StepWaiting == ASSUME Types, Waiting, [Next]_vars PROVE Waiting'
<1> USE DEF Waiting
<1>1. CASE UNCHANGED <<cards, recv, passed>>
  BY <1>1
<1>2. CASE StartStep \/ NetStep \/ Cancel \/ Answer \/ UNCHANGED vars
           \/ \E e \in Events : \E p \in Parts(e), expired \in SUBSET Split : Arrive(e, p, expired)
  BY <1>1, <1>2, StartStepLeaves, NetStepLeaves
     DEF StartFrame, NetFrame, Cancel, Answer, Arrive, ReadFrameOnly, recvVars, queueVars, vars
<1>3. CASE RecvStep
  BY <1>3 DEF RecvStep, Connect, Hang, Close, CloseReturns, HandFrame, RecvFrame, queueVars
<1>4. ASSUME NEW queued \in BOOLEAN, Dispatch(queued) PROVE Waiting'
  <2>1. cards' = cards \/ cards' = Append(cards, frame.event)
    BY <1>4 DEF Dispatch, queueVars
  <2>2. cards # <<>> => cards' # <<>>
    BY <2>1, Put, EventSourceAssumption DEF Types, TypeOK
  <2> QED
    BY <1>4, <2>2 DEF Dispatch, ReadFrameOnly, recvVars
<1>5. CASE TakeCard
  BY <1>5 DEF TakeCard, Types, TypeOK
<1>10. CASE recv = "select" /\ TakeMessage
  BY <1>10 DEF TakeMessage, Types, TypeOK
<1>6. CASE recv = "poll" /\ cards = <<>> /\ Turns("select")
  BY <1>6 DEF Turns, queueVars, Types, TypeOK
<1>7. CASE Turns("close")
  BY <1>7 DEF Turns, queueVars
<1>8. CASE Handle \/ Drop
  BY <1>8 DEF Handle, Drop, HandFrame, queueVars
<1>9. CASE ProcessEnds
  BY <1>9 DEF ProcessEnds
<1> HIDE DEF Waiting
<1> QED
  <2>1. CASE \E queued \in BOOLEAN : Dispatch(queued)
    BY <1>4, <2>1
  <2>2. CASE recv \in {"poll", "select"} /\ TakeCard
    BY <1>5, <2>2
  <2>3. CASE recv = "select" /\ cancelled /\ Turns("close")
    BY <1>7, <2>3
  <2> QED
    BY Steps, <1>2, <1>3, <1>6, <1>8, <1>9, <1>10, <2>1, <2>2, <2>3

\* A stop or a steer is overtaken by one message at most, however full the
\* queue of messages is.
THEOREM CardActionsFirst == Spec => []OneMessageAhead
<1>1. Init => Waiting
  BY DEF Init, Fresh, Waiting
<1>2. Types /\ Waiting /\ [Next]_vars => Waiting'
  BY StepWaiting
<1>3. Waiting => OneMessageAhead
  BY DEF Waiting, OneMessageAhead
<1> QED
  BY <1>1, <1>2, <1>3, SourceTypes, PTL DEF Spec

-----------------------------------------------------------------------------
(* An event that is dispatched is what Feishu sent *)

Payload(sum) == {p \in 0..(sum - 1) : <<sum, p>> \notin EmptyParts}

\* The parts that are kept are parts of the event; without empty ones, the
\* count is their number.
Counted(f) ==
  /\ f.parts \subseteq Payload(f.sum)
  /\ ~HasEmptyPart(f.sum) => f.received = Cardinality(f.parts)

Assembly ==
  /\ DispatchedWhole
  /\ \A e \in Split : Counted(fragments[e])

LEMMA PartsFinite ==
  ASSUME NEW n \in Nat, NEW P \in SUBSET (0..(n - 1))
  PROVE  /\ IsFiniteSet(P) /\ Cardinality(P) \in Nat
         /\ Cardinality(P) >= n => P = 0..(n - 1)
<1>1. IsFiniteSet(0..(n - 1)) /\ Cardinality(0..(n - 1)) = n
  BY FS_Interval
<1>2. IsFiniteSet(P) /\ Cardinality(P) <= n /\ (Cardinality(P) = n => P = 0..(n - 1))
  BY <1>1, FS_Subset
<1> QED
  BY <1>2, FS_CardinalityType

LEMMA NothingCounted == ASSUME NEW f, f.parts = {}, f.received = 0 PROVE Counted(f)
BY FS_EmptySet DEF Counted

LEMMA WithPartCounts ==
  ASSUME NEW old \in FragmentSet, NEW p, p \in 0..(old.sum - 1), Counted(old)
  PROVE  Counted(WithPart(old, p))
<1>1. CASE p \in old.parts
  BY <1>1 DEF WithPart
<1>2. CASE p \notin old.parts
  <2> DEFINE parts == IF <<old.sum, p>> \in EmptyParts THEN old.parts ELSE old.parts \cup {p}
             new == WithPart(old, p)
  <2>1. new = [old EXCEPT !.parts = parts, !.received = old.received + 1]
    BY <1>2 DEF WithPart
  <2>2. new.sum = old.sum /\ new.parts = parts /\ new.received = old.received + 1
    BY <2>1 DEF FragmentSet
  <2>3. parts \subseteq Payload(old.sum)
    BY DEF Counted, Payload
  <2>4. ASSUME ~HasEmptyPart(old.sum) PROVE old.received + 1 = Cardinality(parts)
    <3>1. old.sum \in Nat
      <4>1. old.sum \in Sums \cup {0}
        BY DEF FragmentSet
      <4> QED
        BY <4>1, SumIsNat
    <3>2. IsFiniteSet(old.parts)
      <4>1. old.parts \in SUBSET (0..(old.sum - 1))
        BY DEF Counted, Payload
      <4> QED
        BY <3>1, <4>1, PartsFinite
    <3>3. parts = old.parts \cup {p}
      BY <2>4 DEF HasEmptyPart
    <3> QED
      BY <1>2, <2>4, <3>2, <3>3, FS_AddElement DEF Counted
  <2> HIDE DEF parts, new
  <2>5. Counted(new)
    BY <2>2, <2>3, <2>4 DEF Counted
  <2> QED
    BY <2>5 DEF new
<1> QED
  BY <1>1, <1>2

LEMMA ArriveAssembly ==
  ASSUME Types, Assembly,
         NEW e \in Events, NEW p \in Parts(e), NEW expired \in SUBSET Split, Arrive(e, p, expired)
  PROVE  Assembly'
<1> DEFINE kept == [d \in Split |-> IF d \in expired THEN NoFragment ELSE fragments[d]]
           old  == IF kept[e].sum = sums[e] THEN kept[e] ELSE [NoFragment EXCEPT !.sum = sums[e]]
           new  == WithPart(old, p)
<1>1. \A d \in Split : Counted(kept[d]) /\ kept[d] \in FragmentSet
  BY NothingCounted, EmptyHanded DEF Assembly, NoFragment, Types
<1>2. CASE e \in Split
  <2>1. old \in FragmentSet /\ old.sum = sums[e] /\ sums[e] \in Nat /\ Counted(old)
    <3>1. sums[e] \in Sums /\ sums[e] \in Nat
      BY <1>2, EventSourceAssumption DEF Types, TypeOK
    <3>2. CASE kept[e].sum = sums[e]
      BY <1>1, <1>2, <3>1, <3>2
    <3>3. CASE kept[e].sum # sums[e]
      <4>1. old = [NoFragment EXCEPT !.sum = sums[e]]
        BY <3>3
      <4> QED
        BY <3>1, <4>1, NothingCounted DEF NoFragment, FragmentSet
    <3> QED
      BY <3>2, <3>3
  <2>2. Counted(new) /\ new.sum = sums[e]
    <3>1. p \in 0..(old.sum - 1)
      BY <1>2, <2>1 DEF Parts
    <3>2. new.sum = old.sum
      BY <2>1 DEF WithPart, FragmentSet
    <3>3. Counted(new)
      BY <2>1, <3>1, WithPartCounts
    <3> QED
      BY <2>1, <3>2, <3>3
  <2> HIDE DEF kept, old, new
  <2>3. CASE new.received < new.sum
    <3>1. fragments' = [kept EXCEPT ![e] = new] /\ UNCHANGED <<reading, frame>>
      BY <1>2, <2>3 DEF Arrive, kept, old, new
    <3>2. \A d \in Split : fragments'[d] = IF d = e THEN new ELSE kept[d]
      BY <1>2, <3>1 DEF kept
    <3> QED
      BY <1>1, <2>2, <3>1, <3>2 DEF Assembly, DispatchedWhole, Whole, HasEmptyPart, Counted, Payload
  <2>4. CASE ~(new.received < new.sum)
    <3>1. /\ fragments' = [kept EXCEPT ![e] = NoFragment]
          /\ frame' = [event |-> e, sum |-> new.sum, parts |-> new.parts, ok |-> FALSE]
      BY <1>2, <2>4 DEF Arrive, kept, old, new
    <3>2. \A d \in Split : fragments'[d] = IF d = e THEN NoFragment ELSE kept[d]
      BY <1>2, <3>1 DEF kept
    <3>3. \A d \in Split : Counted(fragments'[d])
      BY <1>1, <3>2, NothingCounted DEF NoFragment
    <3>4. ~HasEmptyPart(new.sum) => new.parts = Payload(new.sum)
      <4>1. SUFFICES ASSUME ~HasEmptyPart(new.sum) PROVE new.parts = Payload(new.sum)
        OBVIOUS
      <4>2. new.parts \in SUBSET (0..(new.sum - 1)) /\ Cardinality(new.parts) = new.received /\ new.sum \in Nat
        BY <2>1, <2>2, <4>1 DEF Counted, Payload
      <4>3. new.parts = 0..(new.sum - 1)
        BY <2>4, <4>2, PartsFinite
      <4> QED
        BY <2>2, <4>3 DEF Counted, Payload
    <3>5. frame'.sum = new.sum /\ frame'.parts = new.parts
      BY <3>1
    <3>6. HasEmptyPart(frame'.sum) \/ frame'.parts = Payload(frame'.sum)
      BY <3>4, <3>5
    <3> QED
      BY <3>3, <3>6 DEF Assembly, DispatchedWhole, Whole, HasEmptyPart, Counted, Payload
  <2> QED
    BY <2>3, <2>4
<1>3. CASE e \notin Split
  <2>1. frame' = [event |-> e, sum |-> 1, parts |-> {0}, ok |-> FALSE] /\ UNCHANGED fragments
    BY <1>3 DEF Arrive
  <2>2. frame'.sum = 1 /\ frame'.parts = {0}
    BY <2>1
  <2>3. HasEmptyPart(1) \/ {0} = {q \in 0..(1 - 1) : <<1, q>> \notin EmptyParts}
    BY DEF HasEmptyPart
  <2> QED
    BY <2>1, <2>2, <2>3 DEF Assembly, DispatchedWhole, Whole, HasEmptyPart, Counted, Payload
<1> QED
  BY <1>2, <1>3

LEMMA StepAssembly == ASSUME Types, Assembly, [Next]_vars PROVE Assembly'
<1>1. ASSUME UNCHANGED fragments, reading' # "dispatch" \/ UNCHANGED <<reading, frame>> PROVE Assembly'
  BY <1>1 DEF Assembly, DispatchedWhole, Whole, HasEmptyPart, Counted, Payload
<1>2. CASE StartStep \/ NetStep \/ Cancel \/ UNCHANGED vars
  BY <1>1, <1>2, StartStepLeaves, NetStepLeaves DEF StartFrame, NetFrame, Cancel, clientVars, vars
<1>3. CASE RecvStep
  BY <1>1, <1>3 DEF RecvStep, Connect, Hang, Close, CloseReturns, HandFrame, RecvFrame
<1>4. CASE \E e \in Events : \E p \in Parts(e), expired \in SUBSET Split : Arrive(e, p, expired)
  BY <1>4, ArriveAssembly
<1>5. CASE Answer \/ \E queued \in BOOLEAN : Dispatch(queued)
  BY <1>1, <1>5 DEF Answer, Dispatch
<1>6. CASE TakeCard \/ TakeMessage \/ Turns("select") \/ Turns("close") \/ Handle \/ Drop
  BY <1>1, <1>6 DEF TakeCard, TakeMessage, Turns, Handle, Drop, HandFrame, RecvFrame
<1>7. CASE ProcessEnds
  <2>1. reading' = "read" /\ fragments' = [e \in Split |-> NoFragment]
    BY <1>7 DEF ProcessEnds
  <2>2. \A e \in Split : Counted(fragments'[e])
    BY <2>1, NothingCounted DEF NoFragment
  <2> QED
    BY <2>1, <2>2 DEF Assembly, DispatchedWhole, HasEmptyPart, Counted, Payload
<1> QED
  BY Steps, <1>2, <1>3, <1>4, <1>5, <1>6, <1>7

\* However its parts are lost, doubled, reordered, expired or split again, an
\* event without empty parts is dispatched as Feishu sent it.
THEOREM EventsAreWhole == Spec => []DispatchedWhole
<1>1. Init => Assembly
  <2> SUFFICES ASSUME Init PROVE Assembly
    OBVIOUS
  <2>1. \A e \in Split : Counted(fragments[e])
    BY NothingCounted DEF Init, Fresh, NoFragment
  <2> QED
    BY <2>1 DEF Init, Fresh, Assembly, DispatchedWhole
<1>2. Types /\ Assembly /\ [Next]_vars => Assembly'
  BY StepAssembly
<1>3. Assembly => DispatchedWhole
  BY DEF Assembly
<1> QED
  BY <1>1, <1>2, <1>3, SourceTypes, PTL DEF Spec

-----------------------------------------------------------------------------
(* What a queue holds *)

\* e is in the queue at one place at most.
Once(q, e) == \A i, j \in DOMAIN q : q[i] = e /\ q[j] = e => i = j

LEMMA PutHolds ==
  ASSUME NEW S, NEW q \in Seq(S), NEW x \in S, NEW e
  PROVE  /\ In(Append(q, x), e) <=> In(q, e) \/ e = x
         /\ Once(q, e) /\ (e = x => ~In(q, e)) => Once(Append(q, x), e)
<1> DEFINE r == Append(q, x)
<1> DEFINE n == Len(q)
<1>1. /\ DOMAIN q = 1..n /\ DOMAIN r = 1..(n + 1) /\ n \in Nat
      /\ \A i \in 1..n : r[i] = q[i]
      /\ r[n + 1] = x
  OBVIOUS
<1> HIDE DEF r, n
<1>2. \A i \in 1..(n + 1) : i \in 1..n \/ i = n + 1
  BY <1>1
<1>3. n + 1 \in 1..(n + 1) /\ n + 1 \notin 1..n /\ \A i \in 1..n : i \in 1..(n + 1)
  BY <1>1
<1>4. In(r, e) <=> In(q, e) \/ e = x
  BY <1>1, <1>2, <1>3 DEF In
<1>5. Once(q, e) /\ (e = x => ~In(q, e)) => Once(r, e)
  BY <1>1, <1>2, <1>3 DEF In, Once
<1> QED
  BY <1>4, <1>5 DEF r

LEMMA TakeHolds ==
  ASSUME NEW S, NEW q \in Seq(S), q # <<>>, NEW e
  PROVE  /\ In(q, e) <=> e = Head(q) \/ In(Tail(q), e)
         /\ Once(q, e) => Once(Tail(q), e) /\ ~(e = Head(q) /\ In(Tail(q), e))
<1> DEFINE r == Tail(q)
<1>1. /\ DOMAIN q = 1..Len(q) /\ DOMAIN r = 1..(Len(q) - 1) /\ Len(q) \in Nat \ {0}
      /\ \A i \in 1..(Len(q) - 1) : r[i] = q[i + 1]
      /\ Head(q) = q[1]
  OBVIOUS
<1> HIDE DEF r
<1>2. \A i \in DOMAIN r : i + 1 \in DOMAIN q /\ r[i] = q[i + 1] /\ i + 1 # 1
  BY <1>1
<1>3. 1 \in DOMAIN q /\ \A i \in DOMAIN q : i = 1 \/ \E j \in DOMAIN r : r[j] = q[i] /\ i = j + 1
  <2>1. \A i \in 1..Len(q) : i = 1 \/ (i - 1 \in 1..(Len(q) - 1) /\ i = (i - 1) + 1)
    BY <1>1
  <2>2. \A i \in 1..Len(q) : i = 1 \/ (i - 1 \in 1..(Len(q) - 1) /\ r[i - 1] = q[i])
    BY <1>1, <2>1
  <2> QED
    BY <1>1, <2>1, <2>2
<1>4. In(q, e) <=> e = Head(q) \/ In(r, e)
  BY <1>1, <1>2, <1>3 DEF In
<1>5. ASSUME Once(q, e) PROVE Once(r, e) /\ ~(e = Head(q) /\ In(r, e))
  <2>1. Once(r, e)
    <3> SUFFICES ASSUME NEW i \in DOMAIN r, NEW j \in DOMAIN r, r[i] = e, r[j] = e PROVE i = j
      BY DEF Once
    <3>1. i + 1 = j + 1
      BY <1>2, <1>5 DEF Once
    <3> QED
      BY <1>1, <3>1
  <2>2. ~(e = Head(q) /\ In(r, e))
    BY <1>1, <1>2, <1>3, <1>5 DEF In, Once
  <2> QED
    BY <2>1, <2>2
<1> QED
  BY <1>4, <1>5 DEF r

-----------------------------------------------------------------------------
(* What is answered is kept *)

Kept(e) == Queued(e) \/ hand = e \/ applied[e] > 0 \/ e \in gone \cup refused

\* An answer with 200 is sent for an event that is kept; a key is recorded with
\* the event acted on, or dropped.
Keeping ==
  /\ AnsweredIsKept
  /\ reading = "answer" /\ frame.ok => Kept(frame.event)
  /\ \A e \in recorded : applied[e] > 0 \/ e \in gone

\* The steps of the connection leave the receiver and what it does alone; the
\* read loop's frame is its own.
LEMMA ClientLeaves ==
  ASSUME \/ StartStep \/ NetStep \/ RecvStep \/ Cancel \/ Answer \/ UNCHANGED vars
         \/ \E e \in Events : \E p \in Parts(e), expired \in SUBSET Split : Arrive(e, p, expired)
  PROVE  UNCHANGED <<events, cards, hand, recorded, applied, gone, refused>>
<1>1. CASE StartStep
  BY <1>1, StartStepLeaves DEF StartFrame, queueVars, recvVars, routerVars, feishuVars
<1>2. CASE NetStep
  BY <1>2, NetStepLeaves DEF NetFrame, queueVars, recvVars, routerVars
<1>3. CASE RecvStep
  BY <1>3 DEF RecvStep, Connect, Hang, Close, CloseReturns, HandFrame, RecvFrame, queueVars, routerVars, feishuVars
<1>4. CASE Cancel \/ Answer \/ UNCHANGED vars
  BY <1>4 DEF Cancel, Answer, ReadFrameOnly, queueVars, recvVars, routerVars, feishuVars, vars
<1>5. CASE \E e \in Events : \E p \in Parts(e), expired \in SUBSET Split : Arrive(e, p, expired)
  BY <1>5 DEF Arrive, ReadFrameOnly, queueVars, recvVars, routerVars, feishuVars
<1> QED
  BY <1>1, <1>2, <1>3, <1>4, <1>5

\* Nothing is lost on the way from the queue through the hand of the receiver.
LEMMA StepKept == ASSUME Types, Keeping, [Next]_vars, NEW e \in Events, Kept(e) PROVE Kept(e)'
<1>1. CASE StartStep \/ NetStep \/ RecvStep \/ Cancel \/ Answer \/ UNCHANGED vars
           \/ \E d \in Events : \E p \in Parts(d), expired \in SUBSET Split : Arrive(d, p, expired)
  BY <1>1, ClientLeaves DEF Kept, Queued
<1>2. ASSUME NEW queued \in BOOLEAN, Dispatch(queued) PROVE Kept(e)'
  <2>1. /\ UNCHANGED <<hand, applied, gone>> /\ refused \subseteq refused'
        /\ \/ events' = events /\ cards' = cards
           \/ events' = Append(events, frame.event) /\ cards' = cards /\ frame.event \in Messages
           \/ cards' = Append(cards, frame.event) /\ events' = events /\ frame.event \in CardActions
    BY <1>2 DEF Dispatch, ReadFrameOnly, recvVars, routerVars, queueVars, Types, Events
  <2>2. events \in Seq(Messages) /\ cards \in Seq(CardActions)
    BY DEF Types, TypeOK
  <2>3. Queued(e) => Queued(e)'
    <3>1. CASE events' = Append(events, frame.event) /\ cards' = cards /\ frame.event \in Messages
      BY <2>2, <3>1, PutHolds DEF Queued
    <3>2. CASE cards' = Append(cards, frame.event) /\ events' = events /\ frame.event \in CardActions
      BY <2>2, <3>2, PutHolds DEF Queued
    <3> QED
      BY <2>1, <3>1, <3>2 DEF Queued
  <2> QED
    BY <2>1, <2>3 DEF Kept
<1>3. CASE recv \in {"poll", "select"} /\ (TakeCard \/ TakeMessage)
  <2>1. hand # e /\ UNCHANGED <<applied, gone, refused>>
    BY <1>3 DEF TakeCard, TakeMessage, RecvFrame, Types, routerVars, feishuVars
  <2>2. Queued(e) => Queued(e)' \/ hand' = e
    <3>1. CASE TakeCard
      <4>1. /\ hand' = Head(cards) /\ cards' = Tail(cards) /\ events' = events
            /\ cards # <<>> /\ cards \in Seq(CardActions)
        BY <3>1 DEF TakeCard, Types, TypeOK
      <4> QED
        BY <4>1, TakeHolds DEF Queued
    <3>2. CASE TakeMessage
      <4>1. /\ hand' = Head(events) /\ events' = Tail(events) /\ cards' = cards
            /\ events # <<>> /\ events \in Seq(Messages)
        BY <3>2 DEF TakeMessage, Types, TypeOK
      <4> QED
        BY <4>1, TakeHolds DEF Queued
    <3> QED
      BY <1>3, <3>1, <3>2
  <2> QED
    BY <2>1, <2>2 DEF Kept
<1>4. CASE Turns("select") \/ Turns("close")
  BY <1>4 DEF Turns, RecvFrame, queueVars, routerVars, feishuVars, Kept, Queued
<1>5. CASE Handle
  <2>1. /\ hand \in Events /\ UNCHANGED <<events, cards, gone, refused>>
        /\ applied[e] > 0 => applied'[e] > 0
        /\ hand \in Undeduped \/ hand \notin recorded => applied'[hand] > 0
    BY <1>5 DEF Handle, HandFrame, RecvFrame, queueVars, feishuVars, FirstDelivery, Types, TypeOK
  <2>2. hand = e => applied'[e] > 0 \/ e \in gone
    BY <2>1 DEF Keeping
  <2> QED
    BY <2>1, <2>2 DEF Kept, Queued
<1>6. CASE Drop
  BY <1>6 DEF Drop, HandFrame, RecvFrame, queueVars, feishuVars, Kept, Queued
<1>7. CASE ProcessEnds
  BY <1>7 DEF ProcessEnds, Restart, Kept
<1> QED
  BY Steps, <1>1, <1>2, <1>3, <1>4, <1>5, <1>6, <1>7

LEMMA StepKeeping == ASSUME Types, Keeping, [Next]_vars PROVE Keeping'
<1>1. ASSUME NEW e \in Events, at'[e] = "answered" PROVE Kept(e)'
  <2>1. at[e] = "answered" \/ (Answer /\ frame.ok /\ frame.event = e)
    BY <1>1, Steps, StartStepLeaves
       DEF StartFrame, NetStep, Emit, Resplit, Break, RecvStep, Connect, Hang, Close, CloseReturns, HandFrame,
           RecvFrame, Cancel, Answer, Dispatch, Arrive, TakeCard, TakeMessage, Turns, Handle, Drop, ProcessEnds,
           Restart, feishuVars, vars, Types, TypeOK
  <2>2. Kept(e)
    BY <2>1 DEF Keeping, AnsweredIsKept, Kept, Answer
  <2> QED
    BY <1>1, <2>2, StepKept
<1>2. ASSUME reading' = "answer", frame'.ok PROVE Kept(frame.event)' /\ frame'.event \in Events
  <2>1. CASE \E queued \in BOOLEAN : Dispatch(queued)
    <3>1. PICK queued \in BOOLEAN : Dispatch(queued)
      BY <2>1
    <3>2. frame'.event = frame.event /\ frame.event \in Events
      BY <3>1 DEF Dispatch, Types, FrameSet
    <3>3. CASE queued
      <4>1. \/ events' = Append(events, frame.event) /\ frame.event \in Messages
            \/ cards' = Append(cards, frame.event) /\ frame.event \in CardActions
        BY <1>2, <3>1, <3>2, <3>3 DEF Dispatch, Events, Types, FrameSet
      <4>2. Queued(frame.event)'
        BY <3>2, <4>1, PutHolds DEF Queued, In, Types, TypeOK
      <4> QED
        BY <3>2, <4>2 DEF Kept
    <3>4. CASE ~queued
      <4>1. frame.event \in refused'
        BY <1>2, <3>1, <3>2, <3>4 DEF Dispatch, AnswerOK, Types, FrameSet
      <4> QED
        BY <3>2, <4>1 DEF Kept
    <3> QED
      BY <3>3, <3>4
  <2>2. CASE UNCHANGED <<reading, frame>>
    BY <1>2, <2>2, StepKept DEF Keeping, Types, Kept
  <2>3. UNCHANGED <<reading, frame>> \/ reading' # "answer" \/ \E queued \in BOOLEAN : Dispatch(queued)
    <3>1. CASE StartStep \/ NetStep \/ Cancel \/ UNCHANGED vars
      BY <3>1, StartStepLeaves, NetStepLeaves DEF StartFrame, NetFrame, Cancel, clientVars, vars
    <3>2. CASE RecvStep
      BY <3>2 DEF RecvStep, Connect, Hang, Close, CloseReturns, HandFrame, RecvFrame
    <3>3. CASE Answer \/ ProcessEnds
      BY <3>3 DEF Answer, ProcessEnds
    <3>5. ASSUME NEW e \in Events, NEW p \in Parts(e), NEW expired \in SUBSET Split, Arrive(e, p, expired)
          PROVE  UNCHANGED <<reading, frame>> \/ reading' # "answer"
      BY <3>5, Zenon DEF Arrive
    <3>4. CASE TakeCard \/ TakeMessage \/ Turns("select") \/ Turns("close") \/ Handle \/ Drop
      BY <3>4 DEF TakeCard, TakeMessage, Turns, Handle, Drop, HandFrame, RecvFrame
    <3> QED
      BY Steps, <3>1, <3>2, <3>3, <3>4, <3>5
  <2> QED
    BY <1>2, <2>1, <2>2, <2>3
<1>3. ASSUME NEW e \in recorded' PROVE applied'[e] > 0 \/ e \in gone'
  <2>1. CASE Handle
    BY <1>3, <2>1 DEF Handle, Key, FirstDelivery, Keeping, Types, TypeOK
  <2>2. CASE Drop
    BY <1>3, <2>2 DEF Drop, Key, Keeping
  <2>3. CASE ProcessEnds
    BY <1>3, <2>3 DEF ProcessEnds, Restart, Key, Keeping
  <2>4. CASE UNCHANGED <<recorded, applied, gone>>
    BY <1>3, <2>4 DEF Keeping
  <2>5. Handle \/ Drop \/ ProcessEnds \/ UNCHANGED <<recorded, applied, gone>>
    BY Steps, ClientLeaves DEF Dispatch, ReadFrameOnly, TakeCard, TakeMessage, Turns, routerVars
  <2> QED
    BY <2>1, <2>2, <2>3, <2>4, <2>5
<1>4. AnsweredIsKept'
  BY <1>1 DEF AnsweredIsKept, Kept
<1> QED
  BY <1>2, <1>3, <1>4 DEF Keeping

\* What Feishu is told is received is acted on, or waits for it, unless it was
\* dropped, or refused to its user.
THEOREM AnsweredKept == Spec => []AnsweredIsKept
<1>1. Init => Keeping
  BY DEF Init, Fresh, Keeping, AnsweredIsKept
<1>2. Types /\ Keeping /\ [Next]_vars => Keeping'
  BY StepKeeping
<1>3. Keeping => AnsweredIsKept
  BY DEF Keeping
<1> QED
  BY <1>1, <1>2, <1>3, SourceTypes, PTL DEF Spec

-----------------------------------------------------------------------------
(* An event is acted on once *)

Seen(e) == Queued(e) \/ hand = e \/ applied[e] > 0

\* There is one copy of an event whose answers all arrived, and Feishu has been
\* told of it, or is about to be.
Single(e) ==
  /\ Once(events, e) /\ Once(cards, e)
  /\ Queued(e) => hand # e
  /\ Queued(e) \/ hand = e => applied[e] = 0
  /\ Seen(e) => at[e] = "answered" \/ (reading = "answer" /\ frame.event = e /\ frame.ok)

Copies ==
  /\ ActedOnOnce
  /\ reading = "dispatch" => at[frame.event] = "owed"
  /\ \A e \in Events \ Undeduped : applied[e] > 0 => e \in recorded
  /\ \A e \in Events \ unheard : Single(e)

\* While nothing moves between queue, hand and database, what Feishu is told
\* stays told.
LEMMA SingleStays ==
  ASSUME NEW e \in Events, Single(e), UNCHANGED <<events, cards, hand, applied>>,
         at[e] = "answered" => at'[e] = "answered",
         \/ UNCHANGED <<reading, frame>> \/ reading # "answer" \/ frame.event # e
         \/ at'[e] = "answered"
  PROVE  Single(e)'
BY DEF Single, Seen, Queued, Once

LEMMA DispatchSingle ==
  ASSUME Types, Copies, NEW queued \in BOOLEAN, Dispatch(queued), NEW e \in Events, Single(e)
  PROVE  Single(e)'
<1>1. /\ UNCHANGED <<hand, applied, at>> /\ reading = "dispatch" /\ reading' = "answer"
      /\ frame'.event = frame.event /\ frame.event \in Events /\ at[frame.event] = "owed"
  BY DEF Dispatch, ReadFrameOnly, recvVars, routerVars, Types, FrameSet, Copies
<1>2. CASE UNCHANGED queueVars
  BY <1>1, <1>2, SingleStays DEF queueVars
<1>3. CASE ~UNCHANGED queueVars
  <2>1. /\ frame'.ok
        /\ \/ events' = Append(events, frame.event) /\ cards' = cards /\ frame.event \in Messages
           \/ cards' = Append(cards, frame.event) /\ events' = events /\ frame.event \in CardActions
    BY <1>1, <1>3 DEF Dispatch, queueVars, AnswerOK, Events, Types, FrameSet
  <2>2. events \in Seq(Messages) /\ cards \in Seq(CardActions)
    BY DEF Types, TypeOK
  <2>3. e = frame.event => ~Seen(e)
    BY <1>1 DEF Single
  <2>4. /\ In(events', e) => In(events, e) \/ e = frame.event
        /\ In(cards', e) => In(cards, e) \/ e = frame.event
        /\ Once(events', e) /\ Once(cards', e)
    <3>1. CASE events' = Append(events, frame.event) /\ cards' = cards /\ frame.event \in Messages
      BY <2>2, <2>3, <3>1, PutHolds DEF Single, Seen, Queued
    <3>2. CASE cards' = Append(cards, frame.event) /\ events' = events /\ frame.event \in CardActions
      BY <2>2, <2>3, <3>2, PutHolds DEF Single, Seen, Queued
    <3> QED
      BY <2>1, <3>1, <3>2
  <2>5. CASE e = frame.event
    <3>1. hand' # e /\ applied'[e] = 0
      BY <1>1, <2>3, <2>5 DEF Seen, Types, TypeOK
    <3> QED
      BY <1>1, <2>1, <2>4, <2>5, <3>1 DEF Single, Seen
  <2>6. CASE e # frame.event
    BY <1>1, <2>4, <2>6 DEF Single, Seen, Queued
  <2> QED
    BY <2>5, <2>6
<1> QED
  BY <1>2, <1>3

LEMMA TakeSingle ==
  ASSUME Types, recv \in {"poll", "select"}, TakeCard \/ TakeMessage, NEW e \in Events, Single(e)
  PROVE  Single(e)'
<1>1. hand # e /\ UNCHANGED <<reading, frame, applied, at>>
  BY DEF TakeCard, TakeMessage, RecvFrame, Types, routerVars, feishuVars
<1>2. /\ events \in Seq(Messages) /\ cards \in Seq(CardActions)
      /\ In(cards, e) => e \in CardActions
      /\ In(events, e) => e \in Messages
  <2>1. events \in Seq(Messages) /\ cards \in Seq(CardActions)
    BY DEF Types, TypeOK
  <2> QED
    BY <2>1 DEF In
<1>3. /\ Queued(e) <=> Queued(e)' \/ hand' = e
      /\ ~(Queued(e)' /\ hand' = e)
      /\ Once(events', e) /\ Once(cards', e)
  <2>1. CASE TakeCard
    <3>1. hand' = Head(cards) /\ cards' = Tail(cards) /\ events' = events /\ cards # <<>>
      BY <2>1 DEF TakeCard
    <3>2. /\ In(cards, e) <=> e = hand' \/ In(cards', e)
          /\ Once(cards', e) /\ ~(e = hand' /\ In(cards', e))
      BY <1>2, <3>1, TakeHolds DEF Single
    <3> QED
      BY <1>2, <3>1, <3>2, EventSourceAssumption DEF Queued, Single
  <2>2. CASE TakeMessage
    <3>1. hand' = Head(events) /\ events' = Tail(events) /\ cards' = cards /\ events # <<>>
      BY <2>2 DEF TakeMessage
    <3>2. /\ In(events, e) <=> e = hand' \/ In(events', e)
          /\ Once(events', e) /\ ~(e = hand' /\ In(events', e))
      BY <1>2, <3>1, TakeHolds DEF Single
    <3> QED
      BY <1>2, <3>1, <3>2, EventSourceAssumption DEF Queued, Single
  <2> QED
    BY <2>1, <2>2
<1> QED
  BY <1>1, <1>3 DEF Single, Seen

LEMMA HandleSingle ==
  ASSUME Types, Handle, NEW e \in Events, Single(e) PROVE Single(e)'
<1>1. /\ UNCHANGED <<events, cards, reading, frame, at>> /\ hand' = None /\ hand' # e
      /\ hand # e => applied'[e] = applied[e]
  BY EventSourceAssumption
     DEF Handle, HandFrame, RecvFrame, queueVars, feishuVars, Types, TypeOK
<1>2. applied'[e] > 0 => applied[e] > 0 \/ hand = e
  BY <1>1
<1> QED
  BY <1>1, <1>2 DEF Single, Seen, Queued, Once

LEMMA StepSingle ==
  ASSUME Types, Copies, [Next]_vars, NEW e \in Events \ unheard'
  PROVE  Single(e)'
<1>1. Single(e)
  <2>1. e \notin unheard
    BY Steps, StartStepLeaves, NetStepLeaves
       DEF StartFrame, NetFrame, RecvStep, Connect, Hang, Close, CloseReturns, HandFrame, RecvFrame, Cancel, Answer,
           Dispatch, Arrive, TakeCard, TakeMessage, Turns, Handle, Drop, ProcessEnds, Restart, feishuVars, vars
  <2> QED
    BY <2>1 DEF Copies
<1>2. CASE StartStep
  BY <1>1, <1>2, StartStepLeaves, SingleStays
     DEF StartFrame, queueVars, recvVars, routerVars, feishuVars
<1>3. CASE NetStep
  <2>1. at[e] = "answered" => at'[e] = "answered"
    BY <1>3 DEF NetStep, Emit, Resplit, Break, Types, TypeOK
  <2> QED
    BY <1>1, <1>3, <2>1, NetStepLeaves, SingleStays DEF NetFrame, queueVars, recvVars, routerVars
<1>4. CASE RecvStep
  BY <1>1, <1>4, SingleStays
     DEF RecvStep, Connect, Hang, Close, CloseReturns, HandFrame, RecvFrame, queueVars, routerVars, feishuVars
<1>5. CASE Cancel \/ UNCHANGED vars
  BY <1>1, <1>5, SingleStays DEF Cancel, clientVars, queueVars, recvVars, routerVars, feishuVars, vars
<1>6. CASE Answer
  <2>1. /\ UNCHANGED <<events, cards, hand, applied>>
        /\ at[e] = "answered" => at'[e] = "answered"
        /\ frame.event = e /\ frame.ok => at'[e] = "answered"
    BY <1>6 DEF Answer, ReadFrameOnly, queueVars, recvVars, routerVars, feishuVars, Types, TypeOK
  <2> QED
    BY <1>1, <2>1 DEF Single, Seen, Queued, Once
<1>7. ASSUME NEW d \in Events, NEW p \in Parts(d), NEW expired \in SUBSET Split, Arrive(d, p, expired)
      PROVE  Single(e)'
  BY <1>1, <1>7, SingleStays DEF Arrive, ReadFrameOnly, queueVars, recvVars, routerVars, feishuVars
<1>8. CASE \E queued \in BOOLEAN : Dispatch(queued)
  BY <1>1, <1>8, DispatchSingle
<1>9. CASE recv \in {"poll", "select"} /\ (TakeCard \/ TakeMessage)
  BY <1>1, <1>9, TakeSingle
<1>10. CASE Turns("select") \/ Turns("close")
  BY <1>1, <1>10, SingleStays DEF Turns, RecvFrame, queueVars, routerVars, feishuVars
<1>11. CASE Handle
  BY <1>1, <1>11, HandleSingle
<1>12. CASE Drop
  BY <1>1, <1>12, EventSourceAssumption
     DEF Drop, HandFrame, RecvFrame, queueVars, feishuVars, Single, Seen, Queued, Once
<1>13. CASE ProcessEnds
  <2>1. /\ events' = <<>> /\ cards' = <<>> /\ hand' = None /\ UNCHANGED <<applied, at>> /\ frame.event # e
    BY <1>13 DEF ProcessEnds, Restart
  <2>2. ~Queued(e)' /\ hand' # e /\ Once(events', e) /\ Once(cards', e)
    BY <2>1, EventSourceAssumption DEF Queued, In, Once
  <2> QED
    BY <1>1, <2>1, <2>2 DEF Single, Seen
<1> QED
  BY Steps, <1>2, <1>3, <1>4, <1>5, <1>6, <1>7, <1>8, <1>9, <1>10, <1>11, <1>12, <1>13

LEMMA StepCopies == ASSUME Types, Copies, [Next]_vars PROVE Copies'
<1>1. ASSUME NEW e \in Events, applied'[e] > 1 PROVE e \in Undeduped /\ e \in unheard'
  <2>1. e \in unheard => e \in unheard'
    BY Steps, StartStepLeaves, NetStepLeaves
       DEF StartFrame, NetFrame, RecvStep, Connect, Hang, Close, CloseReturns, HandFrame, RecvFrame, Cancel, Answer,
           Dispatch, Arrive, TakeCard, TakeMessage, Turns, Handle, Drop, ProcessEnds, Restart, feishuVars, vars
  <2>2. CASE applied[e] > 1
    BY <2>1, <2>2 DEF Copies, ActedOnOnce
  <2>3. CASE ~(applied[e] > 1)
    <3>1. Handle /\ hand = e
      BY <1>1, <2>3, Steps, ClientLeaves
         DEF Dispatch, ReadFrameOnly, TakeCard, TakeMessage, Turns, Handle, Drop, ProcessEnds, Restart, routerVars,
             Types, TypeOK
    <3>2. applied[e] > 0 /\ (e \in Undeduped \/ e \notin recorded)
      BY <1>1, <2>3, <3>1 DEF Handle, FirstDelivery, Types, TypeOK
    <3>3. e \in Undeduped /\ e \in unheard
      BY <3>1, <3>2 DEF Copies, Single
    <3> QED
      BY <2>1, <3>3
  <2> QED
    BY <2>2, <2>3
<1>2. ASSUME reading' = "dispatch" PROVE at'[frame'.event] = "owed"
  <2>1. CASE StartStep \/ Cancel \/ UNCHANGED vars
    BY <1>2, <2>1, StartStepLeaves DEF StartFrame, Cancel, clientVars, feishuVars, vars, Copies
  <2>2. CASE NetStep
    <3>1. UNCHANGED <<reading, frame>> /\ frame.event \in Events
      BY <1>2, <2>2, NetStepLeaves DEF NetFrame, Types
    <3>2. at[frame.event] = "owed" => at'[frame.event] = "owed"
      BY <2>2, <3>1 DEF NetStep, Emit, Resplit, Break, Types, TypeOK
    <3> QED
      BY <1>2, <3>1, <3>2 DEF Copies
  <2>3. CASE RecvStep
    BY <1>2, <2>3
       DEF RecvStep, Connect, Hang, Close, CloseReturns, HandFrame, RecvFrame, feishuVars, Copies
  <2>4. CASE TakeCard \/ TakeMessage \/ Turns("select") \/ Turns("close") \/ Handle \/ Drop
    BY <1>2, <2>4
       DEF TakeCard, TakeMessage, Turns, Handle, Drop, HandFrame, RecvFrame, feishuVars, Copies
  <2>5. ASSUME NEW e \in Events, NEW p \in Parts(e), NEW expired \in SUBSET Split, Arrive(e, p, expired)
        PROVE  at'[frame'.event] = "owed"
    <3>1. at' = at /\ reading = "read" /\ at[e] = "owed"
      BY <2>5 DEF Arrive, feishuVars
    <3>2. frame'.event = e
      <4>1. CASE e \notin Split
        BY <2>5, <4>1 DEF Arrive
      <4>2. CASE e \in Split
        BY <1>2, <2>5, <3>1, <4>2 DEF Arrive
      <4> QED
        BY <4>1, <4>2
    <3> QED
      BY <3>1, <3>2
  <2>6. CASE Answer \/ ProcessEnds \/ \E queued \in BOOLEAN : Dispatch(queued)
    BY <1>2, <2>6 DEF Answer, ProcessEnds, Dispatch
  <2> QED
    BY Steps, <2>1, <2>2, <2>3, <2>4, <2>5, <2>6
<1>3. ASSUME NEW e \in Events \ Undeduped, applied'[e] > 0 PROVE e \in recorded'
  <2>1. CASE Handle
    BY <1>3, <2>1 DEF Handle, Key, FirstDelivery, Copies, Types, TypeOK
  <2>2. CASE Drop \/ ProcessEnds
    BY <1>3, <2>2 DEF Drop, ProcessEnds, Restart, Copies
  <2>3. CASE UNCHANGED <<recorded, applied>>
    BY <1>3, <2>3 DEF Copies
  <2>4. Handle \/ Drop \/ ProcessEnds \/ UNCHANGED <<recorded, applied>>
    BY Steps, ClientLeaves DEF Dispatch, ReadFrameOnly, TakeCard, TakeMessage, Turns, routerVars
  <2> QED
    BY <2>1, <2>2, <2>3, <2>4
<1>4. ActedOnOnce'
  BY <1>1 DEF ActedOnOnce
<1>5. \A e \in Events \ unheard' : Single(e)'
  BY StepSingle
<1> QED
  BY <1>2, <1>3, <1>4, <1>5 DEF Copies

\* However often Feishu delivers an event, it is acted on once; one without a
\* dedup key, more often only after an answer to Feishu was lost.
THEOREM ActedOnceOnly == Spec => []ActedOnOnce
<1>1. Init => Copies
  <2> SUFFICES ASSUME Init PROVE Copies
    OBVIOUS
  <2>1. \A e \in Events : ~Seen(e) /\ Once(events, e) /\ Once(cards, e)
    BY EventSourceAssumption DEF Init, Fresh, Seen, Queued, In, Once
  <2> QED
    BY <2>1 DEF Init, Fresh, Copies, ActedOnOnce, Single, Seen
<1>2. Types /\ Copies /\ [Next]_vars => Copies'
  BY StepCopies
<1>3. Copies => ActedOnOnce
  BY DEF Copies
<1> QED
  BY <1>1, <1>2, <1>3, SourceTypes, PTL DEF Spec
=============================================================================
