--------------------------- MODULE AppServerClient ---------------------------
(***************************************************************************)
(* The JSON-RPC client of the Codex app-server: concurrent calls, the read *)
(* loop that hands answers to them and publishes what the server sends on  *)
(* its own, the controller's loops that consume this, and shutdown, which  *)
(* any of them can cause.  The pipes are bounded; the app-server is the    *)
(* environment.                                                            *)
(***************************************************************************)
EXTENDS Integers, Sequences, FiniteSets

CONSTANTS
  NumCalls,                   \* bound on the calls of Client.Call
  Reader, Responder, Closer,  \* readLoop; Controller.requestLoop; Client.Close
  EventCap, RequestCap,       \* capacities of Client.events and Client.requests
  PipeSize,                   \* messages that fit in a pipe
  MaxSent,                    \* bound on what the app-server sends on its own
  None

ASSUME AppServerClientAssumption ==
  /\ {EventCap, RequestCap, PipeSize} \subseteq Nat \ {0}
  /\ MaxSent \in Nat
  /\ NumCalls \in Nat
  /\ Reader \notin {Responder, Closer} /\ Responder # Closer /\ None \notin {Reader, Responder, Closer}
  /\ {Reader, Responder, Closer, None} \cap Nat = {}

Calls      == 1..NumCalls   \* named in the order in which they take an id
Goroutines == Calls \cup {Reader, Responder, Closer}
Ids        == Calls
Error      == <<"error">>
\* Messages to the client; an answer carries the id and the call it is meant for.
Messages   == ({"answer"} \X Ids \X Calls) \cup ({"event", "request"} \X {0} \X {0})

VARIABLES
  pc,        \* [Goroutines -> where it is]
  nextID,    \* Client.nextID
  id,        \* [Calls -> the id of its request]
  pending,   \* Client.pending: [Ids -> the call that waits for it, or None]
  slot,      \* [Calls -> its response channel, of capacity one]
  outcome,   \* [Calls -> what it returned, or will]
  writeMu,   \* who holds Client.writeMu, or None
  closing,   \* how far shutdown is: "open", "done", "failing", "closed"
  closer,    \* who runs closeOnce, or None
  failing,   \* calls that failPending still has to answer
  carried,   \* the answer in the hand of the read loop and who gets it
  events, requests,   \* lengths of Client.events and Client.requests
  consuming, \* the controller's loops still run
  stdin, stdout,      \* the pipes to and from the app-server
  asked,     \* requests the app-server works on, <<id, call>>
  alive,     \* the app-server runs
  sent       \* how many messages it sent on its own

callVars   == <<nextID, id, pending, slot, outcome>>
closeVars  == <<closing, closer, failing>>
queueVars  == <<carried, events, requests, consuming>>
serverVars == <<stdin, stdout, asked, alive, sent>>
vars == <<pc, callVars, writeMu, closeVars, queueVars, serverVars>>

Init ==
  /\ pc = [g \in Goroutines |-> IF g = Reader THEN "scan" ELSE "idle"]
  /\ nextID = 0 /\ id = [c \in Calls |-> 0]
  /\ pending = [i \in Ids |-> None]
  /\ slot = [c \in Calls |-> <<>>] /\ outcome = [c \in Calls |-> <<"none">>]
  /\ writeMu = None
  /\ closing = "open" /\ closer = None /\ failing = {}
  /\ carried = <<>> /\ events = 0 /\ requests = 0 /\ consuming = TRUE
  /\ stdin = <<>> /\ stdout = <<>> /\ asked = {} /\ alive = TRUE /\ sent = 0

Go(g, place) == pc' = [pc EXCEPT ![g] = place]
EndOfServer == alive' = FALSE /\ stdin' = <<>> /\ asked' = {}   \* its output stays readable
Done   == closing # "open"                     \* Client.done is closed
Broken == closing \in {"failing", "closed"} \/ ~alive   \* writes fail

-----------------------------------------------------------------------------
(* Call *)

Starts(c) == pc[c] = "idle" /\ \A d \in 1..(c - 1) : pc[d] # "idle"

\* Mutant: the id is the number of calls that are waiting.
RegisterByCount(c) ==
  /\ Starts(c)
  /\ IF Done
       THEN /\ Go(c, "returned")
            /\ outcome' = [outcome EXCEPT ![c] = Error]
            /\ UNCHANGED <<nextID, id, pending>>
       ELSE LET i == Cardinality({j \in Ids : pending[j] # None}) + 1 IN
            /\ nextID' = i
            /\ id' = [id EXCEPT ![c] = i]
            /\ pending' = [pending EXCEPT ![i] = c]
            /\ Go(c, "lock")
            /\ UNCHANGED outcome
  /\ UNCHANGED <<slot, writeMu, closeVars, queueVars, serverVars>>

\* Mutant: nobody looks whether the client is closed.
RegisterAlways(c) ==
  /\ Starts(c)
  /\ nextID' = nextID + 1
  /\ id' = [id EXCEPT ![c] = nextID + 1]
  /\ pending' = [pending EXCEPT ![nextID + 1] = c]
  /\ Go(c, "lock")
  /\ UNCHANGED <<outcome, slot, writeMu, closeVars, queueVars, serverVars>>

\* The call takes the next id and, while the client is open, waits for it.
Register(c) ==
  /\ Starts(c)
  /\ nextID' = nextID + 1
  /\ id' = [id EXCEPT ![c] = nextID + 1]
  /\ IF Done
       THEN /\ Go(c, "returned")
            /\ outcome' = [outcome EXCEPT ![c] = Error]
            /\ UNCHANGED pending
       ELSE /\ pending' = [pending EXCEPT ![nextID + 1] = c]
            /\ Go(c, "lock")
            /\ UNCHANGED outcome
  /\ UNCHANGED <<slot, writeMu, closeVars, queueVars, serverVars>>

\* The answer, or the error of failPending, has arrived.
Answered(c) ==
  /\ pc[c] = "wait" /\ slot[c] # <<>>
  /\ outcome' = [outcome EXCEPT ![c] = Head(slot[c])]
  /\ slot' = [slot EXCEPT ![c] = Tail(@)]
  /\ Go(c, "returned")
  /\ UNCHANGED <<nextID, id, pending, writeMu, closeVars, queueVars, serverVars>>

\* The call leaves with an error; removePending drops its entry.
GivesUp(c) ==
  /\ outcome' = [outcome EXCEPT ![c] = Error]
  /\ pending' = [pending EXCEPT ![id[c]] = None]
  /\ Go(c, "returned")

TimesOut(c) ==
  /\ pc[c] = "wait"
  /\ GivesUp(c)
  /\ UNCHANGED <<nextID, id, slot, writeMu, closeVars, queueVars, serverVars>>

\* The entry stays for failPending.
SeesDone(c) ==
  /\ pc[c] = "wait" /\ Done
  /\ outcome' = [outcome EXCEPT ![c] = Error]
  /\ Go(c, "returned")
  /\ UNCHANGED <<nextID, id, pending, slot, writeMu, closeVars, queueVars, serverVars>>

-----------------------------------------------------------------------------
(* writeMessage, by a call or by Respond *)

\* What an error of writeMessage makes of the writer.
Fails(w) ==
  IF w = Responder
    THEN Go(w, "idle") /\ UNCHANGED <<outcome, pending>>
    ELSE GivesUp(w)

\* Mutant: the early return keeps the lock.
WriteLockKept(w) ==
  /\ pc[w] = "lock" /\ writeMu = None
  /\ writeMu' = w
  /\ IF Done THEN Fails(w) ELSE Go(w, "write") /\ UNCHANGED <<outcome, pending>>
  /\ UNCHANGED <<nextID, id, slot, closeVars, queueVars, serverVars>>

WriteLock(w) ==
  /\ pc[w] = "lock" /\ writeMu = None
  /\ IF Done
       THEN Fails(w) /\ UNCHANGED writeMu
       ELSE Go(w, "write") /\ writeMu' = w /\ UNCHANGED <<outcome, pending>>
  /\ UNCHANGED <<nextID, id, slot, closeVars, queueVars, serverVars>>

Write(w) ==
  /\ pc[w] = "write"
  /\ \/ /\ Broken
        /\ Go(w, "shutdown")
        /\ UNCHANGED stdin
     \/ /\ ~Broken /\ Len(stdin) < PipeSize
        /\ stdin' = Append(stdin, IF w = Responder THEN <<0, 0>> ELSE <<id[w], w>>)
        /\ Go(w, IF w = Responder THEN "idle" ELSE "wait")
  /\ writeMu' = None
  /\ UNCHANGED <<callVars, closeVars, queueVars, stdout, asked, alive, sent>>

-----------------------------------------------------------------------------
(* readLoop *)

\* Mutant: the entry stays until the call has seen the answer.
LookupOnly(i) == pending' = pending

\* deliverResponse takes the entry under the lock.
Lookup(i) == pending' = [pending EXCEPT ![i] = None]

Scan ==
  /\ pc[Reader] = "scan" /\ stdout # <<>>
  /\ stdout' = Tail(stdout)
  /\ LET m == Head(stdout) IN
       \/ /\ m[1] = "answer"
          /\ Lookup(m[2])
          /\ IF pending[m[2]] = None
               THEN UNCHANGED <<pc, carried>>
               ELSE carried' = <<m[3], pending[m[2]]>> /\ Go(Reader, "send")
       \/ /\ m[1] = "event" /\ Go(Reader, "publishEvent") /\ UNCHANGED <<pending, carried>>
       \/ /\ m[1] = "request" /\ Go(Reader, "publishRequest") /\ UNCHANGED <<pending, carried>>
  /\ UNCHANGED <<nextID, id, slot, outcome, writeMu, closeVars, events, requests, consuming,
                 stdin, asked, alive, sent>>

\* The process has ended, or the pipe was closed.
ScanEnds ==
  /\ pc[Reader] = "scan"
  /\ (stdout = <<>> /\ ~alive) \/ closing \in {"failing", "closed"}
  /\ Go(Reader, "shutdown")
  /\ UNCHANGED <<callVars, writeMu, closeVars, queueVars, serverVars>>

\* The send blocks while the channel is full.
SendAnswer ==
  /\ pc[Reader] = "send" /\ slot[carried[2]] = <<>>
  /\ slot' = [slot EXCEPT ![carried[2]] = <<<<"answer", carried[1]>>>>]
  /\ carried' = <<>>
  /\ Go(Reader, "scan")
  /\ UNCHANGED <<nextID, id, pending, outcome, writeMu, closeVars, events, requests, consuming, serverVars>>

Publish ==
  /\ \/ /\ pc[Reader] = "publishEvent" /\ events < EventCap
        /\ events' = events + 1
        /\ UNCHANGED requests
     \/ /\ pc[Reader] = "publishRequest" /\ requests < RequestCap
        /\ requests' = requests + 1
        /\ UNCHANGED events
  /\ Go(Reader, "scan")
  /\ UNCHANGED <<callVars, writeMu, closeVars, carried, consuming, serverVars>>

\* Mutant: publishing waits for the consumer, whatever happens.
PublishNeverGivesUp == FALSE /\ UNCHANGED vars

PublishGivesUp ==
  /\ pc[Reader] \in {"publishEvent", "publishRequest"} /\ Done
  /\ Go(Reader, "exited")
  /\ UNCHANGED <<callVars, writeMu, closeVars, queueVars, serverVars>>

-----------------------------------------------------------------------------
(* shutdown and Close *)

\* What follows shutdown in each goroutine that calls it.
AfterShutdown(g) ==
  CASE g = Reader    -> Go(g, "exited") /\ UNCHANGED <<outcome, pending>>
    [] g = Closer    -> Go(g, "join") /\ UNCHANGED <<outcome, pending>>
    [] OTHER         -> Fails(g)

\* closeOnce, setCloseErr and close(done).
ShutdownBegins(g) ==
  /\ pc[g] = "shutdown" /\ closing = "open"
  /\ closing' = "done" /\ closer' = g
  /\ UNCHANGED <<pc, callVars, writeMu, failing, queueVars, serverVars>>

\* The pipes are closed and the process is killed; then failPending takes the
\* entries.
ShutdownCloses(g) ==
  /\ pc[g] = "shutdown" /\ closing = "done" /\ closer = g
  /\ closing' = "failing"
  /\ failing' = {pending[i] : i \in Ids} \ {None}
  /\ pending' = [i \in Ids |-> None]
  /\ EndOfServer
  /\ UNCHANGED <<pc, nextID, id, slot, outcome, writeMu, closer, queueVars, stdout, sent>>

FailPending(g, c) ==
  /\ pc[g] = "shutdown" /\ closing = "failing" /\ closer = g
  /\ c \in failing /\ slot[c] = <<>>
  /\ slot' = [slot EXCEPT ![c] = <<Error>>]
  /\ failing' = failing \ {c}
  /\ UNCHANGED <<pc, nextID, id, pending, outcome, writeMu, closing, closer, queueVars, serverVars>>

\* The one that ran it returns, and then those that waited for closeOnce.
ShutdownReturns(g) ==
  /\ pc[g] = "shutdown"
  /\ \/ closing = "failing" /\ closer = g /\ failing = {}
     \/ closing = "closed"
  /\ closing' = "closed"
  /\ AfterShutdown(g)
  /\ UNCHANGED <<nextID, id, slot, writeMu, closer, failing, queueVars, serverVars>>

\* The controller is closed first, or was never started.
Close ==
  /\ pc[Closer] = "idle" /\ ~consuming
  /\ Go(Closer, "shutdown")
  /\ UNCHANGED <<callVars, writeMu, closeVars, queueVars, serverVars>>

Join ==
  /\ pc[Closer] = "join" /\ pc[Reader] = "exited"
  /\ Go(Closer, "closed")
  /\ UNCHANGED <<callVars, writeMu, closeVars, queueVars, serverVars>>

-----------------------------------------------------------------------------
(* The controller's loops *)

TakeEvent ==
  /\ consuming /\ events > 0
  /\ events' = events - 1
  /\ UNCHANGED <<pc, callVars, writeMu, closeVars, carried, requests, consuming, serverVars>>

\* handleRequest answers every request at once.
TakeRequest ==
  /\ consuming /\ pc[Responder] = "idle" /\ requests > 0
  /\ requests' = requests - 1
  /\ Go(Responder, "lock")
  /\ UNCHANGED <<callVars, writeMu, closeVars, carried, events, consuming, serverVars>>

\* The controller is closed.
StopConsuming ==
  /\ consuming
  /\ consuming' = FALSE
  /\ UNCHANGED <<pc, callVars, writeMu, closeVars, carried, events, requests, serverVars>>

-----------------------------------------------------------------------------
(* The app-server *)

ServerReads ==
  /\ alive /\ stdin # <<>>
  /\ stdin' = Tail(stdin)
  /\ asked' = asked \cup ({Head(stdin)} \ {<<0, 0>>})
  /\ UNCHANGED <<pc, callVars, writeMu, closeVars, queueVars, stdout, alive, sent>>

ServerSays(m) ==
  /\ alive /\ Len(stdout) < PipeSize
  /\ stdout' = Append(stdout, m)
  /\ \/ /\ m[1] = "answer" /\ <<m[2], m[3]>> \in asked
        /\ asked' = asked \ {<<m[2], m[3]>>}
        /\ UNCHANGED sent
     \/ /\ m[1] # "answer" /\ sent < MaxSent
        /\ sent' = sent + 1
        /\ UNCHANGED asked
  /\ UNCHANGED <<pc, callVars, writeMu, closeVars, queueVars, stdin, alive>>

ServerEnds ==
  /\ alive
  /\ EndOfServer
  /\ UNCHANGED <<pc, callVars, writeMu, closeVars, queueVars, stdout, sent>>

-----------------------------------------------------------------------------
Shutdown(g) ==
  ShutdownBegins(g) \/ ShutdownCloses(g) \/ ShutdownReturns(g) \/ \E c \in Calls : FailPending(g, c)

Writing(w) == WriteLock(w) \/ Write(w) \/ Shutdown(w)

Waiting(c) == Answered(c) \/ TimesOut(c) \/ SeesDone(c)

ReadLoop == Scan \/ ScanEnds \/ SendAnswer \/ Publish \/ PublishGivesUp \/ Shutdown(Reader)

Next ==
  \/ \E c \in Calls : Register(c) \/ Waiting(c) \/ Writing(c)
  \/ Writing(Responder) \/ TakeRequest \/ TakeEvent \/ StopConsuming
  \/ ReadLoop
  \/ Close \/ Join \/ Shutdown(Closer)
  \/ ServerReads \/ ServerEnds \/ \E m \in Messages : ServerSays(m)

Spec == Init /\ [][Next]_vars

\* Goroutines run, contexts expire, and the app-server keeps reading its input.
\* Neither it nor the controller owes anything else.
FairSpec ==
  /\ Spec
  /\ \A c \in Calls : WF_vars(Waiting(c)) /\ SF_vars(WriteLock(c)) /\ WF_vars(Write(c)) /\ WF_vars(Shutdown(c))
  /\ SF_vars(WriteLock(Responder)) /\ WF_vars(Write(Responder)) /\ WF_vars(Shutdown(Responder))
  /\ WF_vars(ReadLoop) /\ WF_vars(Join) /\ WF_vars(Shutdown(Closer))
  /\ WF_vars(ServerReads)

-----------------------------------------------------------------------------
TypeOK ==
  /\ pc \in [Goroutines -> {"idle", "lock", "write", "shutdown", "wait", "returned", "scan", "send",
                            "publishEvent", "publishRequest", "exited", "join", "closed"}]
  /\ nextID \in 0..NumCalls /\ id \in [Calls -> 0..NumCalls]
  /\ pending \in [Ids -> Calls \cup {None}]
  /\ \A c \in Calls : Len(slot[c]) <= 1
  /\ writeMu \in Goroutines \cup {None}
  /\ \A g \in Goroutines : writeMu = g <=> pc[g] = "write"
  /\ closing \in {"open", "done", "failing", "closed"} /\ closer \in Goroutines \cup {None}
  /\ failing \subseteq Calls
  /\ events \in 0..EventCap /\ requests \in 0..RequestCap
  /\ Len(stdin) <= PipeSize /\ Len(stdout) <= PipeSize

\* A call never returns the answer to another: late answers of calls that timed
\* out, and answers read during a shutdown, go nowhere.
OwnAnswer ==
  \A c \in Calls : outcome[c][1] = "answer" => outcome[c][2] = c

\* Nobody blocks on a response channel: the read loop and failPending never both
\* send to one, and never to a full one.
NoSendBlocks ==
  /\ pc[Reader] = "send" => slot[carried[2]] = <<>> /\ carried[2] \notin failing
  /\ \A c \in failing : slot[c] = <<>>

\* After a shutdown no entry is left, and none comes back: a call that starts
\* while the client closes either fails or is answered by failPending.
ClosedMeansEmpty ==
  closing \in {"failing", "closed"} => \A i \in Ids : pending[i] = None

\* Every call returns, also when the server answers no more, when the consumers
\* have stopped and the read loop is blocked, and in every race with shutdown.
CallsReturn == \A c \in Calls : pc[c] = "lock" ~> pc[c] = "returned"

\* Close returns, although it waits for a read loop that may be blocked.
CloseReturns == pc[Closer] = "shutdown" ~> pc[Closer] = "closed"
=============================================================================
