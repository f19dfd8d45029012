----------------------------- MODULE EventSource -----------------------------
(***************************************************************************)
(* From Feishu to the router: the long connection of the WebSocket client, *)
(* the two bounded queues of SDKEventSource, and the loop of Receiver that *)
(* hands one event after the other to Router.Handle.                       *)
(*                                                                         *)
(* Three goroutines belong to the client: Start with its read loop, the    *)
(* heartbeat and a watcher of the context; the receiver is a fourth.       *)
(* Feishu is external: it delivers an event, whole or in parts, again and  *)
(* again until it is answered with 200.  An event is answered when it is   *)
(* queued, before it is handled.                                           *)
(*                                                                         *)
(* Start ends only with the error of its context, so nothing is ever sent  *)
(* to the failures queue, which is left out, as are texts and control      *)
(* frames; pings matter when they fail.                                    *)
(***************************************************************************)
EXTENDS Naturals, Sequences

CONSTANTS
  Messages, CardActions,  \* inbound events, of two kinds
  Undeduped,   \* events the router applies without FirstDelivery: steer, stop, the list
               \* of threads
  Split,       \* events that Feishu sends in parts
  Sums,        \* the numbers of parts it may choose
  EmptyParts,  \* <<sum, part>> for each part without a payload
  EventCap, CardCap,  \* capacities of the queues
  MaxFaults,   \* bound on broken connections, failed dials and handlers, expiries ...
  MaxStarts,   \* bound on the starts of the process
  None

Events == Messages \cup CardActions

ASSUME EventSourceAssumption ==
  /\ Messages \cap CardActions = {} /\ None \notin Events
  /\ Undeduped \subseteq Events /\ Split \subseteq Events
  /\ Sums \subseteq Nat \ {0, 1} /\ Sums # {}
  /\ {EventCap, CardCap, MaxFaults} \subseteq Nat /\ MaxStarts \in Nat \ {0}

VARIABLES
  \* feishuWSClient
  start,      \* the goroutine of Start; c.active is set while it is "serve"
  reading,    \* its read loop, while it serves: "read", "dispatch", "answer"
  frame,      \* the frame in hand: the event, its number of parts, those present, the answer
  conn,       \* the connection: "none", "up", "silent" (peer gone unnoticed), "cut", "closed"
  closed,     \* c.closed
  fragments,  \* [Split -> the parts that have arrived]
  \* SDKEventSource and Receiver
  events, cards,  \* the queues
  recv,       \* the goroutine of Receive
  hand,       \* the event it handles
  passed,     \* messages taken while the card action now in front was waiting
  \* Serve
  cancelled,  \* its context is done
  starts,     \* starts of the process
  \* the database, reduced to event_dedup, and what was done with the events
  recorded,   \* events FirstDelivery has seen
  applied,    \* [Events -> how often the router acted on it]
  gone,       \* events dropped after they were queued
  \* Feishu
  at,         \* [Events -> "new", "owed", "answered"]
  sums,       \* [Split -> the parts of its deliveries]
  refused,    \* card actions whose user was told to try again
  unheard,    \* events with a lost answer
  faults

clientVars == <<start, reading, frame, conn, closed>>
queueVars  == <<events, cards>>
recvVars   == <<recv, hand, passed>>
routerVars == <<recorded, applied>>
feishuVars == <<at, sums, refused, unheard>>
vars == <<clientVars, fragments, queueVars, recvVars, cancelled, starts, routerVars, gone, feishuVars,
          faults>>

NoFragment == [sum |-> 0, parts |-> {}, received |-> 0]
NoFrame    == [event |-> None, sum |-> 0, parts |-> {}, ok |-> FALSE]

\* A process with nothing in memory, as NewSDKEventSource leaves it.
Fresh ==
  /\ start = "off" /\ reading = "read" /\ frame = NoFrame /\ conn = "none" /\ closed = FALSE
  /\ fragments = [e \in Split |-> NoFragment]
  /\ events = <<>> /\ cards = <<>>
  /\ recv = "connect" /\ hand = None /\ passed = 0
  /\ cancelled = FALSE

Init ==
  /\ Fresh
  /\ starts = 1
  /\ recorded = {} /\ applied = [e \in Events |-> 0] /\ gone = {}
  /\ at = [e \in Events |-> "new"] /\ sums \in [Split -> Sums]
  /\ refused = {} /\ unheard = {} /\ faults = 0

In(q, e) == \E i \in DOMAIN q : q[i] = e
Queued(e) == In(events, e) \/ In(cards, e)
Fault == faults < MaxFaults /\ faults' = faults + 1

\* The context of Start is done: Serve cancelled it, or Close did.
Done == cancelled \/ closed

-----------------------------------------------------------------------------
(* feishuWSClient.Start *)

StartFrame == UNCHANGED <<reading, frame, closed, fragments, queueVars, recvVars, cancelled, starts, routerVars,
                          gone, feishuVars>>

\* Start returns at once when Close was there first.
BeginStart ==
  /\ start = "begin"
  /\ start' = IF closed THEN "done" ELSE "connect"
  /\ UNCHANGED <<conn, faults>> /\ StartFrame

\* The context ends the loop before a connect, during it, and in sleepContext.
SeesDone ==
  /\ start \in {"connect", "sleep"} /\ Done
  /\ start' = "done"
  /\ UNCHANGED <<conn, faults>> /\ StartFrame

\* connect: bootstrap and dial give a connection, even when the context has
\* just ended, or fail.
Connects ==
  /\ start = "connect"
  /\ start' = "dialed" /\ conn' = "up"
  /\ UNCHANGED faults /\ StartFrame

ConnectFails ==
  /\ start = "connect" /\ Fault
  /\ start' = "sleep"
  /\ UNCHANGED conn /\ StartFrame

\* clearActive and conn.Close; then the loop ends with its context or sleeps.
Disconnected ==
  /\ conn' = "none"
  /\ start' = IF Done THEN "done" ELSE "sleep"

\* setActive refuses the connection after Close; serveConnection begins with a
\* ping, which fails on a connection that broke meanwhile.
Serves ==
  /\ start = "dialed"
  /\ IF closed          THEN start' = "done" /\ conn' = "none"
     ELSE IF conn = "cut" THEN Disconnected
     ELSE start' = "serve" /\ UNCHANGED conn
  /\ UNCHANGED faults /\ StartFrame

\* ReadMessage fails on a connection that is cut or closed; the heartbeat and
\* the watcher end with the read loop.
ReadFails ==
  /\ start = "serve" /\ reading = "read" /\ conn \in {"cut", "closed"}
  /\ Disconnected
  /\ UNCHANGED faults /\ StartFrame

\* sleepContext is over.
WakesUp ==
  /\ start = "sleep" /\ start' = "connect"
  /\ UNCHANGED <<conn, faults>> /\ StartFrame

\* Mutant: a ping that fails does not close the connection.
PingFailsQuietly ==
  /\ start = "serve" /\ conn = "cut"
  /\ conn' = "closed"
  /\ UNCHANGED <<start, faults>> /\ StartFrame

\* heartbeatLoop: a ping that cannot be written closes the connection, which
\* is how a peer that went away silently is noticed.
PingFails ==
  /\ start = "serve" /\ conn \in {"silent", "cut"}
  /\ conn' = "closed"
  /\ UNCHANGED <<start, faults>> /\ StartFrame

\* The watcher of serveConnection closes the connection when the context ends.
Watch ==
  /\ start = "serve" /\ Done /\ conn # "closed"
  /\ conn' = "closed"
  /\ UNCHANGED <<start, faults>> /\ StartFrame

Client == BeginStart \/ SeesDone \/ Connects \/ Serves \/ ReadFails \/ WakesUp

-----------------------------------------------------------------------------
(* The read loop of serveConnection: completeFrame, handleDataFrame *)

ReadFrameOnly == UNCHANGED <<start, closed, recvVars, cancelled, starts, routerVars, gone>>

Parts(e) == IF e \in Split THEN 0..(sums[e] - 1) ELSE {0}

\* Mutant: a part that arrives again counts again.
WithPartCounted(old, p) ==
  [old EXCEPT !.parts = IF <<old.sum, p>> \in EmptyParts THEN @ ELSE @ \cup {p},
              !.received = @ + 1]

\* A part is stored once; one without a payload leaves no trace but the count.
WithPart(old, p) ==
  IF p \in old.parts THEN old
  ELSE [old EXCEPT !.parts = IF <<old.sum, p>> \in EmptyParts THEN @ ELSE @ \cup {p},
                   !.received = @ + 1]

\* completeFrame: expired buffers are dropped, one of another number of parts
\* starts again, and the last part completes the frame.
Arrive(e, p, expired) ==
  /\ start = "serve" /\ reading = "read" /\ conn = "up" /\ at[e] = "owed"
  /\ IF e \notin Split
       THEN /\ reading' = "dispatch"
            /\ frame' = [event |-> e, sum |-> 1, parts |-> {0}, ok |-> FALSE]
            /\ expired = {} /\ UNCHANGED <<fragments, faults>>
       ELSE LET kept == [d \in Split |-> IF d \in expired THEN NoFragment ELSE fragments[d]]
                old  == IF kept[e].sum = sums[e] THEN kept[e] ELSE [NoFragment EXCEPT !.sum = sums[e]]
                new  == WithPart(old, p)
            IN /\ \A d \in expired : fragments[d] # NoFragment
               /\ IF expired = {} THEN UNCHANGED faults ELSE Fault
               /\ IF new.received < new.sum
                    THEN /\ fragments' = [kept EXCEPT ![e] = new]
                         /\ UNCHANGED <<reading, frame>>
                    ELSE /\ fragments' = [kept EXCEPT ![e] = NoFragment]
                         /\ reading' = "dispatch"
                         /\ frame' = [event |-> e, sum |-> new.sum, parts |-> new.parts, ok |-> FALSE]
  /\ UNCHANGED <<conn, queueVars, feishuVars>> /\ ReadFrameOnly

HasEmptyPart(sum) == \E p \in 0..(sum - 1) : <<sum, p>> \in EmptyParts

\* The payload is what Feishu sent.
Whole(f) == f.parts = {p \in 0..(f.sum - 1) : <<f.sum, p>> \notin EmptyParts}

\* Mutant: one event too many is queued.
HasRoomForOneMore(e) ==
  IF e \in Messages THEN Len(events) <= EventCap ELSE Len(cards) <= CardCap

HasRoom(e) == IF e \in Messages THEN Len(events) < EventCap ELSE Len(cards) < CardCap

\* Mutant: the read loop waits for room in the queue.
MayRefuseNever(e) == FALSE

\* tryPublishMessage, tryPublishCardAction: a full queue refuses the event, and
\* when the context is done select may refuse it too.
MayRefuse(e) == cancelled \/ ~HasRoom(e)

\* Mutant: a message is answered with 200 although the queue is full.
AnswerOKAlways(e, queued) == TRUE

\* An error of the handler becomes a 500; a refused card action is answered
\* with 200 and a toast.
AnswerOK(e, queued) == queued \/ e \in CardActions

\* dispatcher.Do: a truncated payload cannot be parsed (the SDK, external); the
\* event goes to its queue or is refused.
Dispatch(queued) ==
  LET e == frame.event IN
  /\ start = "serve" /\ reading = "dispatch"
  /\ reading' = "answer"
  /\ CASE ~Whole(frame) -> ~queued /\ frame' = [frame EXCEPT !.ok = FALSE] /\ UNCHANGED <<queueVars, refused>>
       [] Whole(frame) /\ queued ->
            /\ HasRoom(e)
            /\ frame' = [frame EXCEPT !.ok = AnswerOK(e, TRUE)]
            /\ IF e \in Messages THEN events' = Append(events, e) /\ UNCHANGED cards
                                 ELSE cards' = Append(cards, e) /\ UNCHANGED events
            /\ UNCHANGED refused
       [] Whole(frame) /\ ~queued ->
            /\ MayRefuse(e)
            /\ frame' = [frame EXCEPT !.ok = AnswerOK(e, FALSE)]
            /\ refused' = refused \cup ({e} \cap CardActions)
            /\ UNCHANGED queueVars
  /\ UNCHANGED <<fragments, conn, at, sums, unheard, faults>> /\ ReadFrameOnly

\* writeFrame: the answer reaches Feishu while the connection lives; when the
\* write fails the read loop goes on and the event is delivered again.
Answer ==
  /\ start = "serve" /\ reading = "answer"
  /\ reading' = "read" /\ frame' = NoFrame
  /\ IF conn = "up" THEN /\ at' = IF frame.ok THEN [at EXCEPT ![frame.event] = "answered"] ELSE at
                         /\ UNCHANGED unheard
                    ELSE /\ unheard' = unheard \cup {frame.event}
                         /\ UNCHANGED at
  /\ UNCHANGED <<fragments, conn, queueVars, sums, refused, faults>> /\ ReadFrameOnly

Read == Answer \/ \E queued \in BOOLEAN : Dispatch(queued)

-----------------------------------------------------------------------------
(* Receiver.Receive *)

RecvFrame == UNCHANGED <<reading, frame, conn, fragments, cancelled, starts, feishuVars>>

\* Source.Connect.
Connect ==
  /\ recv = "connect"
  /\ recv' = "poll" /\ start' = "begin"
  /\ UNCHANGED <<closed, queueVars, hand, passed, routerVars, gone, faults>> /\ RecvFrame

TakeCard ==
  /\ cards # <<>>
  /\ hand' = Head(cards) /\ cards' = Tail(cards) /\ passed' = 0 /\ recv' = "handle"
  /\ UNCHANGED <<start, closed, events, routerVars, gone, faults>> /\ RecvFrame

TakeMessage ==
  /\ events # <<>>
  /\ hand' = Head(events) /\ events' = Tail(events) /\ recv' = "handle"
  /\ passed' = IF cards = <<>> THEN 0 ELSE passed + 1
  /\ UNCHANGED <<start, closed, cards, routerVars, gone, faults>> /\ RecvFrame

\* Mutant: card actions are not looked at first.
PollNothing ==
  /\ recv = "poll" /\ recv' = "select"
  /\ UNCHANGED <<start, closed, queueVars, hand, passed, routerVars, gone, faults>> /\ RecvFrame

\* SDKEventSource.Receive looks at the card actions first ...
Poll ==
  /\ recv = "poll"
  /\ \/ TakeCard
     \/ /\ cards = <<>> /\ recv' = "select"
        /\ UNCHANGED <<start, closed, queueVars, hand, passed, routerVars, gone, faults>> /\ RecvFrame

\* ... and then waits for the context or either queue.
Select ==
  /\ recv = "select"
  /\ \/ TakeCard \/ TakeMessage
     \/ /\ cancelled /\ recv' = "close"
        /\ UNCHANGED <<start, closed, queueVars, hand, passed, routerVars, gone, faults>> /\ RecvFrame

HandFrame == UNCHANGED <<start, closed, queueVars, passed>> /\ RecvFrame

\* Store.FirstDelivery, inside the transaction that admits the event.
FirstDelivery(e) == e \notin recorded

Key(e) == ({e} \cap Events) \ Undeduped

\* Router.Handle acts on the event, unless its key has been seen.
Handle ==
  /\ recv = "handle"
  /\ IF hand \in Undeduped \/ FirstDelivery(hand)
       THEN applied' = [applied EXCEPT ![hand] = IF @ < 2 THEN @ + 1 ELSE @]
       ELSE UNCHANGED applied
  /\ recorded' = recorded \cup Key(hand)
  /\ recv' = "poll" /\ hand' = None
  /\ UNCHANGED <<gone, faults>> /\ HandFrame

\* The normalizer rejects the event, or the handler fails, before or after the
\* key is recorded, which is logged; with the context of Serve done, its error
\* may end Receive.
Drop ==
  /\ recv = "handle"
  /\ gone' = gone \cup {hand}
  /\ \/ recv' = "poll" /\ Fault
     \/ cancelled /\ recv' = "close" /\ UNCHANGED faults
  /\ hand' = None
  /\ recorded' \in {recorded, recorded \cup Key(hand)}
  /\ UNCHANGED applied /\ HandFrame

\* The handler waits for something that looks at no context: a write to a full
\* pipe of the app-server.
Hang ==
  /\ recv = "handle"
  /\ recv' = "hung"
  /\ UNCHANGED <<hand, routerVars, gone, faults>> /\ HandFrame

\* SDKEventSource.Close: feishuWSClient.Close, then it waits for Start or gives up.
Close ==
  /\ recv = "close"
  /\ recv' = "wait" /\ closed' = TRUE
  /\ conn' = IF start = "serve" THEN "closed" ELSE conn
  /\ UNCHANGED <<start, queueVars, hand, passed, routerVars, gone, faults,
                 reading, frame, fragments, cancelled, starts, feishuVars>>

CloseReturns(inTime) ==
  /\ recv = "wait"
  /\ inTime => start = "done"
  /\ recv' = "done"
  /\ UNCHANGED <<start, closed, queueVars, hand, passed, routerVars, gone, faults>> /\ RecvFrame

Receive == Connect \/ Poll \/ Select \/ Handle \/ Close \/ CloseReturns(TRUE)

-----------------------------------------------------------------------------
(* Serve *)

\* The context of Serve ends: a signal, a restart, a lost app-server.
Cancel ==
  /\ ~cancelled /\ recv # "connect" /\ cancelled' = TRUE
  /\ UNCHANGED <<clientVars, fragments, queueVars, recvVars, starts, routerVars, gone, feishuVars, faults>>

\* Mutant: the process remembers nothing of what it has handled.
RestartForgetting(lost) ==
  /\ gone' = gone \cup lost
  /\ unheard' = unheard \cup ({frame.event} \cap Events)
  /\ recorded' = {} /\ UNCHANGED <<applied, at, sums, refused>>

\* What is queued or in hand is gone, and is not delivered again when it has
\* been answered; an answer that is still to be written is lost.  The key of the
\* event in hand may have been recorded.
Restart(lost) ==
  /\ gone' = gone \cup lost
  /\ unheard' = unheard \cup ({frame.event} \cap Events)
  /\ recorded' \in {recorded, recorded \cup Key(hand)}
  /\ UNCHANGED <<applied, at, sums, refused>>

\* The process ends, after awaitReceiver or by a crash, and a new one starts.
ProcessEnds ==
  /\ starts < MaxStarts /\ starts' = starts + 1
  /\ Restart({e \in Events : Queued(e) \/ hand = e})
  /\ start' = "off" /\ reading' = "read" /\ frame' = NoFrame /\ conn' = "none" /\ closed' = FALSE
  /\ fragments' = [e \in Split |-> NoFragment]
  /\ events' = <<>> /\ cards' = <<>>
  /\ recv' = "connect" /\ hand' = None /\ passed' = 0
  /\ cancelled' = FALSE
  /\ UNCHANGED faults

-----------------------------------------------------------------------------
(* Feishu and the network *)

NetFrame == UNCHANGED <<start, reading, frame, closed, fragments, queueVars, recvVars,
                        cancelled, starts, routerVars, gone, refused, unheard>>

\* A user writes a message or presses a button.
Emit(e) ==
  /\ at[e] = "new" /\ at' = [at EXCEPT ![e] = "owed"]
  /\ UNCHANGED <<conn, sums, faults>> /\ NetFrame

\* The next delivery of the event is split otherwise.
Resplit(e) ==
  /\ e \in Split /\ at[e] = "owed" /\ Fault
  /\ \E n \in Sums \ {sums[e]} : sums' = [sums EXCEPT ![e] = n]
  /\ UNCHANGED <<conn, at>> /\ NetFrame

\* The connection breaks, or its peer is gone without a word.
Break(how) ==
  /\ conn \in {"up", "silent"} /\ Fault
  /\ conn' = how
  /\ UNCHANGED <<at, sums>> /\ NetFrame

-----------------------------------------------------------------------------
Missing(e) == IF e \in Split THEN Parts(e) \ fragments[e].parts ELSE {0}

Delivers(e) == \E p \in Parts(e), expired \in SUBSET Split : Arrive(e, p, expired)
DeliversMissing(e) == \E p \in Missing(e) : Arrive(e, p, {})

Next ==
  \/ Client \/ ConnectFails \/ PingFails \/ Watch
  \/ \E e \in Events : Delivers(e)
  \/ Read
  \/ Receive \/ Drop \/ Hang \/ CloseReturns(FALSE)
  \/ Cancel \/ ProcessEnds
  \/ \E e \in Events : Emit(e) \/ Resplit(e)
  \/ \E how \in {"silent", "cut"} : Break(how)

Spec == Init /\ [][Next]_vars

\* Goroutines run, a dial that does not fail succeeds, pings on a dead
\* connection fail in the end, and Feishu delivers every part of an event
\* again and again.  Handlers may hang; nobody has to write or to stop.
FairSpec ==
  /\ Spec
  /\ WF_vars(Client) /\ WF_vars(PingFails) /\ WF_vars(Watch) /\ WF_vars(Read) /\ WF_vars(Receive)
  /\ \A e \in Events : SF_vars(DeliversMissing(e))

-----------------------------------------------------------------------------
TypeOK ==
  /\ start \in {"off", "begin", "connect", "dialed", "serve", "sleep", "done"}
  /\ reading \in {"read", "dispatch", "answer"}
  /\ frame.event \in Events \cup {None} /\ frame.sum \in Nat /\ frame.ok \in BOOLEAN
  /\ conn \in {"none", "up", "silent", "cut", "closed"}
  /\ {closed, cancelled} \subseteq BOOLEAN
  /\ \A e \in Split : fragments[e].sum \in Sums \cup {0} /\ fragments[e].received \in 0..fragments[e].sum
  /\ events \in Seq(Messages) /\ Len(events) <= EventCap
  /\ cards \in Seq(CardActions) /\ Len(cards) <= CardCap
  /\ recv \in {"connect", "poll", "select", "handle", "hung", "close", "wait", "done"}
  /\ hand \in Events \cup {None} /\ passed \in Nat /\ starts \in 1..MaxStarts /\ faults \in 0..MaxFaults
  /\ recorded \subseteq Events /\ gone \subseteq Events /\ refused \subseteq CardActions
  /\ unheard \subseteq Events /\ applied \in [Events -> 0..2]
  /\ at \in [Events -> {"new", "owed", "answered"}] /\ sums \in [Split -> Sums]

\* An event Feishu has been told is received is waiting, in hand or acted on;
\* or it was dropped by a handler or with its process, or its user was told to
\* try again.  The answer is sent while the queue may already have been emptied.
AnsweredIsKept ==
  \A e \in Events : at[e] = "answered" =>
    Queued(e) \/ hand = e \/ applied[e] > 0 \/ e \in gone \cup refused

\* Whatever is lost, doubled, reordered or split in another way, an event that
\* is dispatched is what Feishu sent, unless its parts had an empty one.
DispatchedWhole ==
  reading = "dispatch" => Whole(frame) \/ HasEmptyPart(frame.sum)

\* A card action, such as a stop, is overtaken by one message at most.
OneMessageAhead == passed <= 1

\* An event is acted on once; one without a dedup key, such as a steer, more
\* than once only if an answer to Feishu was lost.
ActedOnOnce ==
  \A e \in Events : applied[e] > 1 => e \in Undeduped \cap unheard

\* When Serve is done the client lets go of its connection and ends, wherever
\* it was, also when the queues are full and the handler hangs.
SourceStops == cancelled ~> (start = "done" /\ conn = "none") \/ ~cancelled

\* What is written to the bridge is acted on, through broken and silent
\* connections, full queues, redeliveries and restarts; unless it is dropped
\* or refused as above, comes with empty parts, or the process hangs or stops.
EventsHandled ==
  \A e \in Events :
    at[e] = "owed" ~>
      \/ applied[e] > 0 \/ e \in gone \cup refused
      \/ e \in Split /\ HasEmptyPart(sums[e])
      \/ recv = "hung" \/ cancelled
=============================================================================
