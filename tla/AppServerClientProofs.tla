----------------------- MODULE AppServerClientProofs ------------------------
(***************************************************************************)
(* Proofs about the app-server client, for any number of calls, sizes of   *)
(* pipes and queues, and messages of the server: an answer reaches the     *)
(* call that asked, no send on a response channel blocks, and a closed     *)
(* client keeps no entry.                                                  *)
(***************************************************************************)
EXTENDS AppServerClient, TLAPS

\* The places of each goroutine.
Places(g) ==
  CASE g = Reader    -> {"scan", "send", "publishEvent", "publishRequest", "shutdown", "exited"}
    [] g = Responder -> {"idle", "lock", "write", "shutdown"}
    [] g = Closer    -> {"idle", "shutdown", "join", "closed"}
    [] OTHER         -> {"idle", "lock", "write", "shutdown", "wait", "returned"}

\* A call is named by the id it takes; the one that writes holds the lock.
Placed ==
  /\ DOMAIN pc = Goroutines /\ pc = [g \in Goroutines |-> pc[g]]
  /\ \A g \in Goroutines : pc[g] \in Places(g)
  /\ nextID \in 0..NumCalls /\ id \in [Calls -> 0..NumCalls]
  /\ \A c \in Calls : pc[c] = "idle" <=> c > nextID
  /\ \A c \in Calls : id[c] = IF c <= nextID THEN c ELSE 0
  /\ writeMu \in Goroutines \cup {None}
  /\ \A g \in Goroutines : writeMu = g <=> pc[g] = "write"

\* The other sets of TypeOK.
Flags ==
  /\ closing \in {"open", "done", "failing", "closed"} /\ closer \in Goroutines \cup {None}
  /\ failing \subseteq Calls /\ pending \in [Ids -> Calls \cup {None}]
  /\ events \in 0..EventCap /\ requests \in 0..RequestCap

\* Every step, one disjunct for each action.
LEMMA Steps ==
  ASSUME [Next]_vars
  PROVE  \/ \E c \in Calls : Register(c) \/ Answered(c) \/ TimesOut(c) \/ SeesDone(c)
         \/ \E w \in Calls \cup {Responder} : WriteLock(w) \/ Write(w)
         \/ \E g \in Goroutines : ShutdownBegins(g) \/ ShutdownCloses(g) \/ ShutdownReturns(g)
         \/ \E g \in Goroutines : \E c \in Calls : FailPending(g, c)
         \/ Scan \/ ScanEnds \/ SendAnswer \/ Publish \/ PublishGivesUp
         \/ TakeRequest \/ TakeEvent \/ StopConsuming \/ Close \/ Join
         \/ ServerReads \/ ServerEnds \/ \E m \in Messages : ServerSays(m)
         \/ UNCHANGED vars
BY DEF Next, Waiting, Writing, ReadLoop, Shutdown, Goroutines

LEMMA Names ==
  /\ Calls \cap {Reader, Responder, Closer, None} = {} /\ None \notin Goroutines
  /\ Reader # Responder /\ Reader # Closer /\ Responder # Closer
  /\ Calls \subseteq Goroutines /\ {Reader, Responder, Closer} \subseteq Goroutines
  /\ Calls \subseteq Nat \ {0} /\ Ids = Calls /\ NumCalls \in Nat
BY AppServerClientAssumption DEF Calls, Goroutines, Ids

-----------------------------------------------------------------------------
(* Places *)

LEMMA InitPlaced == Init => Placed /\ Flags
<1> SUFFICES ASSUME Init PROVE Placed /\ Flags
  OBVIOUS
<1> USE Names
<1>1. pc = [g \in Goroutines |-> IF g = Reader THEN "scan" ELSE "idle"]
  BY DEF Init
<1>2. \A g \in Goroutines : pc[g] \in Places(g) /\ pc[g] # "write"
  BY <1>1 DEF Places
<1>3. \A c \in Calls : pc[c] = "idle" /\ c > nextID /\ id[c] = 0 /\ ~(c <= nextID)
  BY <1>1 DEF Init
<1>4. DOMAIN pc = Goroutines /\ pc = [g \in Goroutines |-> pc[g]]
  BY <1>1
<1>5. nextID \in 0..NumCalls /\ id \in [Calls -> 0..NumCalls] /\ writeMu = None
  BY DEF Init
<1>6. Flags
  BY AppServerClientAssumption DEF Init, Flags
<1> QED
  BY <1>2, <1>3, <1>4, <1>5, <1>6 DEF Placed

\* A goroutine moves; it takes the lock to write, or leaves it.
LEMMA Moved ==
  ASSUME Placed, NEW g \in Goroutines, NEW p \in Places(g), pc' = [pc EXCEPT ![g] = p],
         UNCHANGED <<nextID, id>>,
         g \in Calls => pc[g] # "idle" /\ p # "idle",
         p = "write" => writeMu = None /\ writeMu' = g,
         p # "write" => writeMu' = IF pc[g] = "write" THEN None ELSE writeMu
  PROVE  Placed'
<1> USE Names
<1>1. /\ DOMAIN pc' = Goroutines /\ pc' = [h \in Goroutines |-> pc'[h]]
      /\ \A h \in Goroutines : pc'[h] = IF h = g THEN p ELSE pc[h]
  BY DEF Placed
<1>2. \A h \in Goroutines : pc'[h] \in Places(h)
  BY <1>1 DEF Placed
<1>3. \A c \in Calls : (pc'[c] = "idle" <=> c > nextID') /\ id'[c] = IF c <= nextID' THEN c ELSE 0
  BY <1>1 DEF Placed
<1>4. writeMu' \in Goroutines \cup {None} /\ \A h \in Goroutines : writeMu' = h <=> pc'[h] = "write"
  BY <1>1 DEF Placed
<1> QED
  BY <1>1, <1>2, <1>3, <1>4 DEF Placed

LEMMA StepPlaced == ASSUME Placed, [Next]_vars PROVE Placed'
<1> USE Names
<1> DEFINE Moves(g, p) ==
      /\ pc' = [pc EXCEPT ![g] = p] /\ UNCHANGED <<nextID, id>>
      /\ g \in Calls => pc[g] # "idle" /\ p # "idle"
      /\ p = "write" => writeMu = None /\ writeMu' = g
      /\ p # "write" => writeMu' = IF pc[g] = "write" THEN None ELSE writeMu
<1>0. ASSUME NEW g \in Goroutines, NEW p \in Places(g), Moves(g, p) PROVE Placed'
  BY <1>0, Moved
<1> HIDE DEF Moves
<1>1. ASSUME NEW c \in Calls, Register(c) PROVE Placed'
  <2>1. c = nextID + 1
    <3>1. /\ pc[c] = "idle" /\ \A d \in 1..(c - 1) : pc[d] # "idle"
          /\ \A d \in Calls : pc[d] = "idle" <=> d > nextID
          /\ nextID \in 0..NumCalls /\ c \in 1..NumCalls
      BY <1>1 DEF Register, Starts, Placed, Calls
    <3>2. c > nextID
      BY <3>1
    <3>3. CASE c > nextID + 1
      <4>1. nextID + 1 \in Calls /\ nextID + 1 \in 1..(c - 1)
        BY <3>1, <3>3 DEF Calls
      <4> QED
        BY <3>1, <4>1
    <3> QED
      BY <3>1, <3>2, <3>3
  <2>2. \E p \in {"lock", "returned"} : pc' = [pc EXCEPT ![c] = p]
    BY <1>1 DEF Register, Go
  <2>3. nextID' = c /\ id' = [id EXCEPT ![c] = c] /\ writeMu' = writeMu /\ pc[c] = "idle"
    BY <1>1, <2>1 DEF Register, Starts
  <2>4. DOMAIN pc' = Goroutines /\ pc' = [h \in Goroutines |-> pc'[h]]
    BY <2>2 DEF Placed
  <2>5. \A h \in Goroutines : pc'[h] \in Places(h) /\ (writeMu' = h <=> pc'[h] = "write")
    BY <2>2, <2>3 DEF Placed, Places
  <2>6. id' \in [Calls -> 0..NumCalls] /\ nextID' \in 0..NumCalls
    BY <2>3 DEF Placed, Calls
  <2>7. \A d \in Calls : (pc'[d] = "idle" <=> d > nextID') /\ id'[d] = IF d <= nextID' THEN d ELSE 0
    BY <2>1, <2>2, <2>3 DEF Placed
  <2> QED
    BY <2>3, <2>4, <2>5, <2>6, <2>7 DEF Placed
<1>2. ASSUME NEW c \in Calls, Answered(c) \/ TimesOut(c) \/ SeesDone(c) PROVE Placed'
  <2>1. Moves(c, "returned")
    BY <1>2 DEF Moves, Answered, TimesOut, SeesDone, GivesUp, Go
  <2> QED
    BY <1>0, <2>1 DEF Places
<1>3. ASSUME NEW w \in Calls \cup {Responder}, WriteLock(w) PROVE Placed'
  <2>1. Moves(w, "write") \/ Moves(w, IF w = Responder THEN "idle" ELSE "returned")
    BY <1>3 DEF Moves, WriteLock, Fails, GivesUp, Go
  <2> QED
    BY <1>0, <2>1 DEF Places
<1>4. ASSUME NEW w \in Calls \cup {Responder}, Write(w) PROVE Placed'
  <2>1. Moves(w, "shutdown") \/ Moves(w, IF w = Responder THEN "idle" ELSE "wait")
    BY <1>4 DEF Moves, Write, Go, callVars
  <2> QED
    BY <1>0, <2>1 DEF Places
<1>5. ASSUME NEW g \in Goroutines, ShutdownReturns(g) PROVE Placed'
  <2>1. CASE g = Reader
    <3>1. Moves(g, "exited")
      BY <1>5, <2>1 DEF Moves, ShutdownReturns, AfterShutdown, Go
    <3> QED
      BY <1>0, <2>1, <3>1 DEF Places
  <2>2. CASE g = Closer
    <3>1. Moves(g, "join")
      BY <1>5, <2>2 DEF Moves, ShutdownReturns, AfterShutdown, Go
    <3> QED
      BY <1>0, <2>2, <3>1 DEF Places
  <2>3. CASE g \in Calls \cup {Responder}
    <3>1. Moves(g, IF g = Responder THEN "idle" ELSE "returned")
      BY <1>5, <2>3 DEF Moves, ShutdownReturns, AfterShutdown, Fails, GivesUp, Go
    <3> QED
      BY <1>0, <2>3, <3>1 DEF Places
  <2> QED
    BY <2>1, <2>2, <2>3 DEF Goroutines
<1>6. ASSUME NEW p \in Places(Reader), pc' = [pc EXCEPT ![Reader] = p],
             pc[Reader] # "write", p # "write", UNCHANGED <<nextID, id, writeMu>>
      PROVE  Placed'
  BY <1>0, <1>6 DEF Moves
<1>7. CASE Scan /\ ~UNCHANGED pc
  BY <1>6, <1>7 DEF Scan, Go, Places
<1>8. CASE ScanEnds \/ SendAnswer \/ Publish \/ PublishGivesUp
  BY <1>6, <1>8 DEF ScanEnds, SendAnswer, Publish, PublishGivesUp, Go, Places, callVars
<1>9. CASE TakeRequest
  <2>1. Moves(Responder, "lock")
    BY <1>9 DEF Moves, TakeRequest, Go, callVars
  <2> QED
    BY <1>0, <2>1 DEF Places
<1>10. CASE Close \/ Join
  <2>1. Moves(Closer, "shutdown") \/ Moves(Closer, "closed")
    BY <1>10 DEF Moves, Close, Join, Go, callVars
  <2> QED
    BY <1>0, <2>1 DEF Places
<1>11. CASE UNCHANGED <<pc, nextID, id, writeMu>>
  BY <1>11 DEF Placed
<1>12. ASSUME \/ \E g \in Goroutines : ShutdownBegins(g) \/ ShutdownCloses(g) \/ \E c \in Calls : FailPending(g, c)
              \/ Scan /\ UNCHANGED pc
              \/ TakeEvent \/ StopConsuming \/ ServerReads \/ ServerEnds
              \/ (\E m \in Messages : ServerSays(m)) \/ UNCHANGED vars
       PROVE  UNCHANGED <<pc, nextID, id, writeMu>>
  BY <1>12 DEF ShutdownBegins, ShutdownCloses, FailPending, Scan, TakeEvent, StopConsuming, ServerReads, ServerEnds,
     ServerSays, callVars, vars
<1> QED
  BY Steps, <1>1, <1>2, <1>3, <1>4, <1>5, <1>7, <1>8, <1>9, <1>10, <1>11, <1>12

LEMMA StepFlags == ASSUME Placed, Flags, [Next]_vars PROVE Flags'
<1> USE Names DEF Flags
<1>1. ASSUME NEW c \in Calls, Register(c) PROVE Flags'
  BY <1>1 DEF Register, closeVars, queueVars
<1>2. ASSUME NEW c \in Calls, Answered(c) \/ TimesOut(c) \/ SeesDone(c) PROVE Flags'
  BY <1>2 DEF Answered, TimesOut, SeesDone, GivesUp, closeVars, queueVars
<1>3. ASSUME NEW w \in Calls \cup {Responder}, WriteLock(w) \/ Write(w) PROVE Flags'
  BY <1>3 DEF WriteLock, Write, Fails, GivesUp, callVars, closeVars, queueVars
<1>4. ASSUME NEW g \in Goroutines, ShutdownBegins(g) \/ ShutdownReturns(g) PROVE Flags'
  BY <1>4 DEF ShutdownBegins, ShutdownReturns, AfterShutdown, Fails, GivesUp, Goroutines, callVars, queueVars
<1>5. ASSUME NEW g \in Goroutines, ShutdownCloses(g) PROVE Flags'
  BY <1>5 DEF ShutdownCloses, queueVars
<1>6. ASSUME NEW g \in Goroutines, NEW c \in Calls, FailPending(g, c) PROVE Flags'
  BY <1>6 DEF FailPending, queueVars
<1>7. CASE Scan
  BY <1>7 DEF Scan, Lookup, closeVars
<1>8. CASE Publish \/ TakeRequest \/ TakeEvent
  <2>1. EventCap \in Nat /\ RequestCap \in Nat
    BY AppServerClientAssumption
  <2>2. UNCHANGED <<closing, closer, failing, pending>>
    BY <1>8 DEF Publish, TakeRequest, TakeEvent, callVars, closeVars
  <2>3. \/ events < EventCap /\ events' = events + 1
        \/ events > 0 /\ events' = events - 1
        \/ events' = events
    BY <1>8 DEF Publish, TakeRequest, TakeEvent
  <2>4. \/ requests < RequestCap /\ requests' = requests + 1
        \/ requests > 0 /\ requests' = requests - 1
        \/ requests' = requests
    BY <1>8 DEF Publish, TakeRequest, TakeEvent
  <2>5. events' \in 0..EventCap /\ requests' \in 0..RequestCap
    BY <2>1, <2>3, <2>4
  <2> QED
    BY <2>2, <2>5
<1>9. ASSUME \/ ScanEnds \/ SendAnswer \/ PublishGivesUp \/ StopConsuming \/ Close \/ Join
             \/ ServerReads \/ ServerEnds \/ (\E m \in Messages : ServerSays(m)) \/ UNCHANGED vars
      PROVE  UNCHANGED <<closing, closer, failing, pending, events, requests>>
  BY <1>9 DEF ScanEnds, SendAnswer, PublishGivesUp, StopConsuming, Close, Join, ServerReads, ServerEnds, ServerSays,
     callVars, closeVars, queueVars, vars
<1>10. CASE UNCHANGED <<closing, closer, failing, pending, events, requests>>
  BY <1>10
<1> QED
  BY Steps, <1>1, <1>2, <1>3, <1>4, <1>5, <1>6, <1>7, <1>8, <1>9, <1>10

-----------------------------------------------------------------------------
(* Whose an answer is *)

Own == {<<c, c>> : c \in Calls}
Answer(c) == <<"answer", c>>

\* The pipes carry the ids of calls together with the calls that took them.
Pipes ==
  /\ stdin \in Seq(Own \cup {<<0, 0>>}) /\ Len(stdin) <= PipeSize /\ asked \subseteq Own
  /\ stdout \in Seq(Messages) /\ Len(stdout) <= PipeSize
  /\ \A i \in DOMAIN stdout : stdout[i][1] = "answer" => stdout[i][2] = stdout[i][3]

\* An entry, a response channel and a result belong to their call.
Owned ==
  /\ \A i \in Ids : pending[i] \in {None, i}
  /\ slot = [c \in Calls |-> slot[c]] /\ \A c \in Calls : slot[c] \in {<<>>, <<Error>>, <<Answer(c)>>}
  /\ outcome = [c \in Calls |-> outcome[c]] /\ \A c \in Calls : outcome[c] \in {<<"none">>, Error, Answer(c)}
  /\ pc[Reader] = "send" => carried \in Own

LEMMA InitOwned == Init => Pipes /\ Owned
BY Names, AppServerClientAssumption DEF Init, Pipes, Owned

LEMMA StepPipes == ASSUME Placed, Flags, Pipes, [Next]_vars PROVE Pipes'
<1> USE Names
<1>0. PipeSize \in Nat /\ PipeSize > 0
  BY AppServerClientAssumption
<1>1. ASSUME NEW w \in Calls \cup {Responder}, Write(w) PROVE Pipes'
  <2>1. UNCHANGED <<stdout, asked>>
    BY <1>1 DEF Write
  <2>2. CASE UNCHANGED stdin
    BY <2>1, <2>2 DEF Pipes
  <2>3. CASE ~UNCHANGED stdin
    <3>1. stdin' = Append(stdin, IF w = Responder THEN <<0, 0>> ELSE <<id[w], w>>) /\ Len(stdin) < PipeSize
      BY <1>1, <2>3 DEF Write
    <3>2. w # Responder => id[w] = w
      <4>1. SUFFICES ASSUME w \in Calls PROVE w <= nextID
        BY DEF Placed
      <4>2. ~(w > nextID) /\ w \in Nat /\ nextID \in Nat
        <5>1. pc[w] = "write" /\ w \in Calls /\ nextID \in 0..NumCalls
          BY <1>1, <4>1 DEF Write, Placed
        <5>2. pc[w] = "idle" <=> w > nextID
          BY <5>1 DEF Placed
        <5> QED
          BY <5>1, <5>2
      <4> QED
        BY <4>2
    <3> DEFINE m == IF w = Responder THEN <<0, 0>> ELSE <<id[w], w>>
    <3>3. m \in Own \cup {<<0, 0>>}
      BY <3>2 DEF Own
    <3> HIDE DEF m
    <3>4. stdin' = Append(stdin, m)
      BY <3>1 DEF m
    <3>5. stdin' \in Seq(Own \cup {<<0, 0>>}) /\ Len(stdin') <= PipeSize
      BY <1>0, <3>1, <3>3, <3>4 DEF Pipes
    <3> QED
      BY <2>1, <3>5 DEF Pipes
  <2> QED
    BY <2>2, <2>3
<1>2. CASE Scan
  <2>1. stdout # <<>> /\ stdout' = Tail(stdout) /\ UNCHANGED <<stdin, asked>>
    BY <1>2 DEF Scan
  <2>2. stdout' \in Seq(Messages) /\ Len(stdout') <= PipeSize
    BY <1>0, <2>1 DEF Pipes
  <2>3. \A i \in DOMAIN stdout' : i + 1 \in DOMAIN stdout /\ stdout'[i] = stdout[i + 1]
    BY <2>1 DEF Pipes
  <2> QED
    BY <2>1, <2>2, <2>3 DEF Pipes
<1>3. CASE ServerReads
  <2>1. stdin # <<>> /\ stdin' = Tail(stdin) /\ asked' = asked \cup ({Head(stdin)} \ {<<0, 0>>}) /\ UNCHANGED stdout
    BY <1>3 DEF ServerReads
  <2>2. Head(stdin) \in Own \cup {<<0, 0>>} /\ stdin' \in Seq(Own \cup {<<0, 0>>}) /\ Len(stdin') <= PipeSize
    BY <1>0, <2>1 DEF Pipes
  <2> QED
    BY <2>1, <2>2 DEF Pipes
<1>4. ASSUME NEW m \in Messages, ServerSays(m) PROVE Pipes'
  <2>1. stdout' = Append(stdout, m) /\ Len(stdout) < PipeSize /\ UNCHANGED stdin /\ asked' \subseteq asked
    BY <1>4 DEF ServerSays
  <2>2. m[1] = "answer" => m[2] = m[3]
    BY <1>4 DEF ServerSays, Pipes, Own
  <2>3. stdout' \in Seq(Messages) /\ Len(stdout') <= PipeSize
    BY <1>0, <2>1 DEF Pipes
  <2>4. \A i \in DOMAIN stdout' : (i \in DOMAIN stdout /\ stdout'[i] = stdout[i]) \/ stdout'[i] = m
    BY <2>1 DEF Pipes
  <2> QED
    BY <2>1, <2>2, <2>3, <2>4 DEF Pipes
<1>5. CASE UNCHANGED stdout /\ stdin' \in {stdin, <<>>} /\ asked' \in {asked, {}}
  <2>1. <<>> \in Seq(Own \cup {<<0, 0>>}) /\ Len(<<>>) = 0
    OBVIOUS
  <2>2. stdin' \in Seq(Own \cup {<<0, 0>>}) /\ Len(stdin') <= PipeSize
    <3>1. CASE stdin' = stdin
      BY <3>1 DEF Pipes
    <3>2. CASE stdin' = <<>>
      BY <1>0, <2>1, <3>2
    <3> QED
      BY <1>5, <3>1, <3>2
  <2>3. asked' \subseteq Own
    BY <1>5 DEF Pipes
  <2> QED
    BY <1>5, <2>2, <2>3 DEF Pipes
<1>6. ASSUME \/ \E c \in Calls : Register(c) \/ Answered(c) \/ TimesOut(c) \/ SeesDone(c)
             \/ \E w \in Calls \cup {Responder} : WriteLock(w)
             \/ \E g \in Goroutines : ShutdownBegins(g) \/ ShutdownCloses(g) \/ ShutdownReturns(g)
             \/ \E g \in Goroutines : \E c \in Calls : FailPending(g, c)
      PROVE  UNCHANGED stdout /\ stdin' \in {stdin, <<>>} /\ asked' \in {asked, {}}
  BY <1>6 DEF Register, Answered, TimesOut, SeesDone, WriteLock, ShutdownBegins, ShutdownCloses, ShutdownReturns,
     FailPending, EndOfServer, serverVars
<1>7. ASSUME \/ ScanEnds \/ SendAnswer \/ Publish \/ PublishGivesUp \/ TakeRequest \/ TakeEvent \/ StopConsuming
             \/ Close \/ Join \/ ServerEnds \/ UNCHANGED vars
      PROVE  UNCHANGED stdout /\ stdin' \in {stdin, <<>>} /\ asked' \in {asked, {}}
  BY <1>7 DEF ScanEnds, SendAnswer, Publish, PublishGivesUp, TakeRequest, TakeEvent, StopConsuming, Close, Join,
     ServerEnds, EndOfServer, serverVars, vars
<1> QED
  BY Steps, <1>1, <1>2, <1>3, <1>4, <1>5, <1>6, <1>7

LEMMA OneElement == ASSUME NEW x PROVE Head(<<x>>) = x /\ Tail(<<x>>) = <<>>
OBVIOUS

LEMMA StepOwned == ASSUME Placed, Flags, Pipes, Owned, [Next]_vars PROVE Owned'
<1> USE Names
<1> DEFINE Belong == /\ \A i \in Ids : pending'[i] \in {None, i}
                     /\ slot' = [c \in Calls |-> slot'[c]]
                     /\ \A c \in Calls : slot'[c] \in {<<>>, <<Error>>, <<Answer(c)>>}
                     /\ outcome' = [c \in Calls |-> outcome'[c]]
                     /\ \A c \in Calls : outcome'[c] \in {<<"none">>, Error, Answer(c)}
           Hand == pc'[Reader] = "send" => pc[Reader] = "send" /\ carried' = carried
<1>0. /\ Belong /\ Hand => Owned'
      /\ Belong /\ (pc'[Reader] = "send" => carried' \in Own) => Owned'
  BY DEF Owned
<1>1. UNCHANGED <<pending, slot, outcome>> => Belong
  BY DEF Owned
<1>2. ASSUME NEW c \in Calls, \/ UNCHANGED pending
                              \/ \E i : pending' = [pending EXCEPT ![i] = None]
                              \/ pending' = [pending EXCEPT ![c] = c],
             outcome' = outcome \/ outcome' = [outcome EXCEPT ![c] = Error], UNCHANGED slot
      PROVE  Belong
  <2>1. \A i \in Ids : pending'[i] \in {None, i}
    BY <1>2 DEF Owned, Flags
  <2>2. /\ outcome' = [d \in Calls |-> outcome'[d]]
        /\ \A d \in Calls : outcome'[d] \in {<<"none">>, Error, Answer(d)}
    BY <1>2 DEF Owned
  <2>3. slot' = [d \in Calls |-> slot'[d]] /\ \A d \in Calls : slot'[d] \in {<<>>, <<Error>>, <<Answer(d)>>}
    BY <1>2 DEF Owned
  <2> QED
    BY <2>1, <2>2, <2>3
<1> HIDE DEF Belong
<1>3. ASSUME NEW c \in Calls, Register(c) PROVE Owned'
  <2>1. Hand /\ c = nextID + 1
    <3>1. nextID' = nextID + 1 /\ nextID' \in 0..NumCalls /\ pc'[c] # "idle"
      BY <1>3, StepPlaced DEF Register, Go, Placed
    <3>2. nextID \in 0..NumCalls /\ c > nextID /\ ~(c > nextID')
      BY <1>3, <3>1, StepPlaced DEF Register, Starts, Placed
    <3>3. c = nextID + 1
      BY <3>1, <3>2
    <3> QED
      BY <1>3, <3>3 DEF Register, Go, Placed, queueVars
  <2>2. Belong
    BY <1>2, <1>3, <2>1 DEF Register
  <2> QED
    BY <1>0, <2>1, <2>2
<1>4. ASSUME NEW c \in Calls, Answered(c) PROVE Owned'
  <2>1. Hand /\ UNCHANGED pending
    BY <1>4 DEF Answered, Go, Placed, queueVars
  <2>2. slot[c] \in {<<Error>>, <<Answer(c)>>}
    BY <1>4 DEF Answered, Owned
  <2>3. Head(slot[c]) \in {Error, Answer(c)} /\ Tail(slot[c]) = <<>>
    BY <2>2, OneElement
  <2>4. /\ outcome' = [outcome EXCEPT ![c] = Head(slot[c])]
        /\ slot' = [slot EXCEPT ![c] = Tail(slot[c])]
    BY <1>4 DEF Answered
  <2>5. Belong
    BY <2>1, <2>3, <2>4 DEF Belong, Owned
  <2> QED
    BY <1>0, <2>1, <2>5
<1>5. ASSUME NEW c \in Calls, TimesOut(c) \/ SeesDone(c) PROVE Owned'
  <2>1. Hand
    BY <1>5 DEF TimesOut, SeesDone, GivesUp, Go, Placed, queueVars
  <2>2. Belong
    BY <1>2, <1>5 DEF TimesOut, SeesDone, GivesUp
  <2> QED
    BY <1>0, <2>1, <2>2
<1>6. ASSUME NEW w \in Calls \cup {Responder}, WriteLock(w) \/ Write(w) PROVE Owned'
  <2>1. Hand
    BY <1>6 DEF WriteLock, Write, Fails, GivesUp, Go, Placed, queueVars
  <2>2. Belong
    <3>1. CASE UNCHANGED <<pending, slot, outcome>>
      BY <1>1, <3>1
    <3>2. CASE w \in Calls /\ GivesUp(w) /\ UNCHANGED slot
      BY <1>2, <3>2 DEF GivesUp
    <3> QED
      BY <1>6, <3>1, <3>2 DEF WriteLock, Write, Fails, callVars
  <2> QED
    BY <1>0, <2>1, <2>2
<1>7. ASSUME NEW g \in Goroutines, ShutdownReturns(g) PROVE Owned'
  <2>1. UNCHANGED slot /\ (UNCHANGED <<pending, outcome>> \/ (g \in Calls /\ GivesUp(g)))
    BY <1>7 DEF ShutdownReturns, AfterShutdown, Fails, Goroutines
  <2>2. Hand
    BY <1>7 DEF ShutdownReturns, AfterShutdown, Fails, GivesUp, Go, Placed, queueVars
  <2>3. Belong
    BY <1>1, <1>2, <2>1 DEF GivesUp
  <2> QED
    BY <1>0, <2>2, <2>3
<1>8. ASSUME NEW g \in Goroutines, ShutdownBegins(g) \/ ShutdownCloses(g) PROVE Owned'
  <2>1. Hand
    BY <1>8 DEF ShutdownBegins, ShutdownCloses, queueVars
  <2>2. Belong
    BY <1>8 DEF Belong, ShutdownBegins, ShutdownCloses, Owned, callVars
  <2> QED
    BY <1>0, <2>1, <2>2
<1>9. ASSUME NEW g \in Goroutines, NEW c \in Calls, FailPending(g, c) PROVE Owned'
  <2>1. Hand
    BY <1>9 DEF FailPending, queueVars
  <2>2. UNCHANGED <<pending, outcome>> /\ slot' = [slot EXCEPT ![c] = <<Error>>]
    BY <1>9 DEF FailPending
  <2>3. Belong
    BY <2>2 DEF Belong, Owned
  <2> QED
    BY <1>0, <2>1, <2>3
<1>10. CASE Scan
  <2> DEFINE m == Head(stdout)
  <2>1. m[1] = "answer" => m[2] = m[3] /\ m[2] \in Calls
    <3>1. 1 \in DOMAIN stdout /\ m = stdout[1] /\ m \in Messages
      BY <1>10 DEF Scan, Pipes
    <3>2. m[1] = "answer" => m[2] \in Ids
      BY <3>1 DEF Messages
    <3> QED
      BY <3>1, <3>2 DEF Pipes
  <2>2. UNCHANGED <<slot, outcome>> /\ (UNCHANGED pending \/ \E i : pending' = [pending EXCEPT ![i] = None])
    BY <1>10 DEF Scan, Lookup
  <2>3. Belong
    BY <2>2 DEF Belong, Owned, Flags
  <2>4. CASE Hand
    BY <1>0, <2>3, <2>4
  <2>5. CASE ~Hand
    <3>1. m[1] = "answer" /\ pending[m[2]] # None /\ carried' = <<m[3], pending[m[2]]>>
      BY <1>10, <2>5 DEF Scan, Go, Placed
    <3>2. pending[m[2]] = m[3] /\ m[3] \in Calls
      BY <2>1, <3>1 DEF Owned
    <3>3. carried' \in Own
      BY <3>1, <3>2 DEF Own
    <3> QED
      BY <1>0, <2>3, <3>3
  <2> QED
    BY <2>4, <2>5
<1>11. CASE SendAnswer
  <2>1. PICK c \in Calls : carried = <<c, c>>
    BY <1>11 DEF SendAnswer, Owned, Own
  <2>2. slot' = [slot EXCEPT ![c] = <<Answer(c)>>] /\ UNCHANGED <<pending, outcome>> /\ Hand
    BY <1>11, <2>1 DEF SendAnswer, Answer, Go, Placed
  <2>3. Belong
    BY <2>2 DEF Belong, Owned
  <2> QED
    BY <1>0, <2>2, <2>3
<1>12. ASSUME \/ ScanEnds \/ Publish \/ PublishGivesUp \/ TakeRequest \/ TakeEvent \/ StopConsuming
              \/ Close \/ Join \/ ServerReads \/ ServerEnds \/ (\E m \in Messages : ServerSays(m)) \/ UNCHANGED vars
       PROVE  UNCHANGED <<pending, slot, outcome>> /\ Hand
  BY <1>12 DEF ScanEnds, Publish, PublishGivesUp, TakeRequest, TakeEvent, StopConsuming, Close, Join, ServerReads,
     ServerEnds, ServerSays, Go, Placed, callVars, queueVars, vars
<1> QED
  <2>1. CASE UNCHANGED <<pending, slot, outcome>> /\ Hand
    BY <1>0, <1>1, <2>1
  <2> HIDE DEF Hand
  <2> QED
    BY Steps, <1>3, <1>4, <1>5, <1>6, <1>7, <1>8, <1>9, <1>10, <1>11, <1>12, <2>1

\* No call returns the answer to another, whatever timed out or was shut down
\* meanwhile.
THEOREM AnswersFindTheirCall == Spec => []OwnAnswer
<1>1. Init => Placed /\ Flags /\ Pipes /\ Owned
  BY InitPlaced, InitOwned
<1>2. Placed /\ Flags /\ Pipes /\ Owned /\ [Next]_vars => (Placed /\ Flags /\ Pipes /\ Owned)'
  BY StepPlaced, StepFlags, StepPipes, StepOwned
<1>3. Owned => OwnAnswer
  BY DEF Owned, OwnAnswer, Error, Answer
<1> QED
  BY <1>1, <1>2, <1>3, PTL DEF Spec

-----------------------------------------------------------------------------
(* Who holds what a call waits for *)

\* The read loop has the answer to a call in its hand.
Carrying(c) == pc[Reader] = "send" /\ carried[2] = c

\* At most one of the entry, the read loop, failPending and the response channel
\* has what the call waits for, and nothing has it before the call registers.
Held(c) ==
  /\ pending[c] # None => c \notin failing /\ ~Carrying(c) /\ slot[c] = <<>>
  /\ c \in failing => ~Carrying(c) /\ slot[c] = <<>>
  /\ Carrying(c) => slot[c] = <<>>
  /\ c > nextID => pending[c] = None /\ c \notin failing /\ ~Carrying(c) /\ slot[c] = <<>>

OneHolder == ClosedMeansEmpty /\ \A c \in Calls : Held(c)

\* Nobody takes up what concerns the call.
Leaves(c) ==
  /\ pending'[c] \in {pending[c], None} /\ slot'[c] \in {slot[c], <<>>}
  /\ c \in failing' => c \in failing
  /\ Carrying(c)' => Carrying(c)
  /\ c > nextID' => c > nextID

LEMMA HeldStays == ASSUME NEW c \in Calls, Held(c), Leaves(c) PROVE Held(c)'
BY DEF Held, Leaves

LEMMA StepHolder == ASSUME Placed, Flags, Pipes, Owned, OneHolder, [Next]_vars PROVE OneHolder'
<1> USE Names
<1> DEFINE Same == UNCHANGED <<pending, slot, failing, carried, nextID>>
                   /\ (pc'[Reader] = "send" => pc[Reader] = "send")
<1>0. /\ ClosedMeansEmpty /\ \A c \in Calls : Held(c)
      /\ nextID \in 0..NumCalls
  BY DEF OneHolder, Placed
<1>1. ASSUME Same, closing' \in {"failing", "closed"} => closing \in {"failing", "closed"} PROVE OneHolder'
  <2>1. \A c \in Calls : Leaves(c)
    BY <1>1 DEF Leaves, Carrying
  <2> QED
    BY <1>0, <1>1, <2>1, HeldStays DEF OneHolder, ClosedMeansEmpty
<1>2. ASSUME NEW c \in Calls, Register(c) PROVE OneHolder'
  <2>1. c = nextID + 1
    <3>1. nextID' = nextID + 1 /\ nextID' \in 0..NumCalls /\ pc'[c] # "idle"
      BY <1>2, StepPlaced DEF Register, Go, Placed
    <3>2. c > nextID /\ ~(c > nextID')
      BY <1>2, <3>1, StepPlaced DEF Register, Starts, Placed
    <3> QED
      BY <1>0, <3>1, <3>2
  <2>2. UNCHANGED <<slot, failing, carried, closing>> /\ pc'[Reader] = pc[Reader] /\ nextID' = c
    BY <1>2, <2>1 DEF Register, Go, Placed, queueVars, closeVars
  <2>3. \/ UNCHANGED pending
        \/ closing = "open" /\ pending' = [pending EXCEPT ![c] = c]
    BY <1>2, <2>1 DEF Register, Done
  <2>4. ClosedMeansEmpty'
    BY <1>0, <2>2, <2>3 DEF ClosedMeansEmpty
  <2>5. Held(c)'
    BY <1>0, <2>1, <2>2 DEF Held, Carrying
  <2>6. ASSUME NEW d \in Calls, d # c PROVE Held(d)'
    <3>1. Leaves(d)
      <4>1. pending'[d] = pending[d] /\ slot'[d] = slot[d] /\ failing' = failing /\ (Carrying(d)' => Carrying(d))
        BY <2>2, <2>3, <2>6 DEF Carrying, Flags
      <4>2. d > nextID' => d > nextID
        <5>1. nextID' = nextID + 1
          BY <2>1, <2>2
        <5>2. d \in Nat
          OBVIOUS
        <5>3. nextID \in Nat
          BY <1>0
        <5> QED
          BY <5>1, <5>2, <5>3
      <4> QED
        BY <4>1, <4>2 DEF Leaves
    <3> QED
      BY <1>0, <3>1, HeldStays
  <2> QED
    BY <2>4, <2>5, <2>6 DEF OneHolder
<1>3. ASSUME \/ UNCHANGED pending
             \/ \E i : pending' = [pending EXCEPT ![i] = None],
             UNCHANGED <<failing, carried, nextID>>,
             pc'[Reader] = "send" => pc[Reader] = "send",
             closing' \in {"failing", "closed"} => closing \in {"failing", "closed"},
             UNCHANGED slot \/ \E c \in Calls : slot' = [slot EXCEPT ![c] = <<>>]
      PROVE  OneHolder'
  <2>1. \A c \in Calls : pending'[c] \in {pending[c], None}
    BY <1>3 DEF Flags
  <2>2. \A c \in Calls : slot'[c] \in {slot[c], <<>>}
    BY <1>3 DEF Owned
  <2>3. \A c \in Calls : Leaves(c)
    BY <1>3, <2>1, <2>2 DEF Leaves, Carrying
  <2> QED
    BY <1>0, <1>3, <2>1, <2>3, HeldStays DEF OneHolder, ClosedMeansEmpty
<1>4. ASSUME NEW c \in Calls, Answered(c) PROVE OneHolder'
  <2>1. slot[c] \in {<<Error>>, <<Answer(c)>>} /\ slot' = [slot EXCEPT ![c] = Tail(slot[c])]
    BY <1>4 DEF Answered, Owned
  <2>2. Tail(slot[c]) = <<>>
    BY <2>1, OneElement
  <2> QED
    BY <1>3, <1>4, <2>1, <2>2 DEF Answered, Go, Placed, closeVars, queueVars
<1>5. ASSUME NEW c \in Calls, TimesOut(c) \/ SeesDone(c) PROVE OneHolder'
  BY <1>3, <1>5 DEF TimesOut, SeesDone, GivesUp, Go, Placed, closeVars, queueVars
<1>6. ASSUME NEW w \in Calls \cup {Responder}, WriteLock(w) \/ Write(w) PROVE OneHolder'
  BY <1>3, <1>6 DEF WriteLock, Write, Fails, GivesUp, Go, Placed, callVars, closeVars, queueVars
<1>7. ASSUME NEW g \in Goroutines, ShutdownReturns(g) PROVE OneHolder'
  <2>1. /\ UNCHANGED <<slot, failing, carried, nextID>>
        /\ UNCHANGED pending \/ \E i : pending' = [pending EXCEPT ![i] = None]
        /\ closing \in {"failing", "closed"}
    BY <1>7 DEF ShutdownReturns, AfterShutdown, Fails, GivesUp, queueVars
  <2>2. pc'[Reader] = "send" => pc[Reader] = "send"
    BY <1>7 DEF ShutdownReturns, AfterShutdown, Fails, GivesUp, Go, Placed
  <2> QED
    BY <1>3, <2>1, <2>2
<1>8. ASSUME NEW g \in Goroutines, ShutdownCloses(g) PROVE OneHolder'
  <2>1. /\ failing' = {pending[i] : i \in Ids} \ {None} /\ pending' = [i \in Ids |-> None]
        /\ UNCHANGED <<pc, nextID, slot, carried>>
    BY <1>8 DEF ShutdownCloses, queueVars
  <2>2. \A c \in Calls : c \in failing' => pending[c] # None
    BY <2>1 DEF Owned
  <2>3. \A c \in Calls : Held(c)'
    BY <1>0, <2>1, <2>2 DEF Held, Carrying
  <2>4. ClosedMeansEmpty'
    BY <2>1 DEF ClosedMeansEmpty
  <2> QED
    BY <2>3, <2>4 DEF OneHolder
<1>9. ASSUME NEW g \in Goroutines, NEW c \in Calls, FailPending(g, c) PROVE OneHolder'
  <2>1. /\ slot' = [slot EXCEPT ![c] = <<Error>>] /\ failing' = failing \ {c} /\ c \in failing
        /\ UNCHANGED <<pc, nextID, pending, closing, carried>>
    BY <1>9 DEF FailPending, queueVars
  <2>2. Held(c)'
    BY <1>0, <2>1 DEF Held, Carrying
  <2>3. ASSUME NEW d \in Calls, d # c PROVE Held(d)'
    <3>1. Leaves(d)
      BY <2>1, <2>3 DEF Leaves, Carrying, Owned
    <3> QED
      BY <1>0, <3>1, HeldStays
  <2> QED
    BY <1>0, <2>1, <2>2, <2>3 DEF OneHolder, ClosedMeansEmpty
<1>10. CASE Scan
  <2>1. UNCHANGED <<slot, failing, closing, nextID>>
    BY <1>10 DEF Scan, closeVars
  <2>2. CASE UNCHANGED carried /\ (pc'[Reader] = "send" => pc[Reader] = "send")
    BY <1>3, <1>10, <2>1, <2>2 DEF Scan, Lookup
  <2>3. CASE ~(UNCHANGED carried /\ (pc'[Reader] = "send" => pc[Reader] = "send"))
    <3> DEFINE m == Head(stdout)
    <3>1. /\ m[1] = "answer" /\ pending[m[2]] # None /\ pending' = [pending EXCEPT ![m[2]] = None]
          /\ carried' = <<m[3], pending[m[2]]>>
      BY <1>10, <2>3 DEF Scan, Lookup, Go, Placed
    <3>2. m[2] \in Ids
      <4>1. m \in Messages
        BY <1>10 DEF Scan, Pipes
      <4> QED
        BY <3>1, <4>1 DEF Messages
    <3>3. PICK c \in Calls : m[2] = c
      BY <3>2
    <3>4. pending[c] = c /\ carried'[2] = c /\ pending' = [pending EXCEPT ![c] = None]
      BY <3>1, <3>3 DEF Owned
    <3>5. pending'[c] = None /\ \A d \in Calls : d # c => pending'[d] = pending[d]
      BY <3>4 DEF Flags
    <3>6. Held(c)'
      BY <1>0, <2>1, <3>4, <3>5 DEF Held, Carrying
    <3>7. ASSUME NEW d \in Calls, d # c PROVE Held(d)'
      <4>1. Leaves(d)
        BY <2>1, <3>4, <3>5, <3>7 DEF Leaves, Carrying
      <4> QED
        BY <1>0, <4>1, HeldStays
    <3>8. ClosedMeansEmpty'
      BY <1>0, <2>1, <3>5 DEF ClosedMeansEmpty
    <3> QED
      BY <3>6, <3>7, <3>8 DEF OneHolder
  <2> QED
    BY <2>2, <2>3
<1>11. CASE SendAnswer
  <2>1. PICK c \in Calls : carried = <<c, c>>
    BY <1>11 DEF SendAnswer, Owned, Own
  <2>2. /\ slot' = [slot EXCEPT ![c] = <<Answer(c)>>] /\ pc[Reader] = "send" /\ pc'[Reader] = "scan"
        /\ UNCHANGED <<pending, failing, closing, nextID>>
    BY <1>11, <2>1 DEF SendAnswer, Answer, Go, Placed, closeVars
  <2>3. Carrying(c) /\ \A d \in Calls : ~Carrying(d)'
    BY <2>1, <2>2 DEF Carrying
  <2>4. Held(c)'
    BY <1>0, <2>2, <2>3 DEF Held
  <2>5. ASSUME NEW d \in Calls, d # c PROVE Held(d)'
    <3>1. Leaves(d)
      BY <2>2, <2>3, <2>5 DEF Leaves, Owned
    <3> QED
      BY <1>0, <3>1, HeldStays
  <2> QED
    BY <1>0, <2>2, <2>4, <2>5 DEF OneHolder, ClosedMeansEmpty
<1>12. ASSUME \/ \E g \in Goroutines : ShutdownBegins(g)
              \/ ScanEnds \/ Publish \/ PublishGivesUp \/ TakeRequest \/ TakeEvent \/ StopConsuming
              \/ Close \/ Join \/ ServerReads \/ ServerEnds \/ (\E m \in Messages : ServerSays(m)) \/ UNCHANGED vars
       PROVE  Same /\ (closing' \in {"failing", "closed"} => closing \in {"failing", "closed"})
  BY <1>12 DEF ShutdownBegins, ScanEnds, Publish, PublishGivesUp, TakeRequest, TakeEvent, StopConsuming, Close, Join,
     ServerReads, ServerEnds, ServerSays, Go, Placed, callVars, closeVars, queueVars, vars
<1> HIDE DEF Same
<1> QED
  BY Steps, <1>1, <1>2, <1>4, <1>5, <1>6, <1>7, <1>8, <1>9, <1>10, <1>11, <1>12

\* What holds in every reachable state, together.
LEMMA ClientInvariant == Spec => [](Placed /\ Flags /\ Pipes /\ Owned /\ OneHolder)
<1>1. Init => Placed /\ Flags /\ Pipes /\ Owned /\ OneHolder
  <2> SUFFICES ASSUME Init PROVE OneHolder
    BY InitPlaced, InitOwned
  <2>1. \A c \in Calls : pending[c] = None /\ c \notin failing /\ slot[c] = <<>> /\ pc[Reader] # "send"
    BY Names DEF Init
  <2>2. ClosedMeansEmpty
    BY DEF Init, ClosedMeansEmpty
  <2> QED
    BY <2>1, <2>2 DEF OneHolder, Held, Carrying
<1>2. /\ Placed /\ Flags /\ Pipes /\ Owned /\ OneHolder /\ [Next]_vars
      => (Placed /\ Flags /\ Pipes /\ Owned /\ OneHolder)'
  BY StepPlaced, StepFlags, StepPipes, StepOwned, StepHolder
<1> QED
  BY <1>1, <1>2, PTL DEF Spec

THEOREM ClientTypeCorrect == Spec => []TypeOK
<1>1. Placed /\ Flags /\ Pipes /\ Owned => TypeOK
  <2> SUFFICES ASSUME Placed, Flags, Pipes, Owned PROVE TypeOK
    OBVIOUS
  <2>1. pc \in [Goroutines -> {"idle", "lock", "write", "shutdown", "wait", "returned", "scan", "send",
                               "publishEvent", "publishRequest", "exited", "join", "closed"}]
    BY DEF Placed, Places
  <2>2. \A c \in Calls : Len(slot[c]) <= 1
    <3> SUFFICES ASSUME NEW c \in Calls PROVE Len(slot[c]) <= 1
      OBVIOUS
    <3>1. CASE slot[c] = <<>>
      BY <3>1
    <3>2. CASE slot[c] = <<Error>>
      BY <3>2
    <3>3. CASE slot[c] = <<Answer(c)>>
      BY <3>3
    <3> QED
      BY <3>1, <3>2, <3>3 DEF Owned
  <2> QED
    BY <2>1, <2>2, Names DEF TypeOK, Placed, Flags, Pipes
<1> QED
  BY <1>1, ClientInvariant, PTL

\* The read loop and failPending never both answer a call, and neither blocks on
\* its channel.
THEOREM SendsNeverBlock == Spec => []NoSendBlocks
<1>1. Placed /\ Owned /\ OneHolder /\ Flags => NoSendBlocks
  <2> SUFFICES ASSUME Placed, Owned, OneHolder, Flags PROVE NoSendBlocks
    OBVIOUS
  <2>1. pc[Reader] = "send" => carried[2] \in Calls /\ Carrying(carried[2])
    BY DEF Owned, Own, Carrying
  <2> QED
    BY <2>1 DEF NoSendBlocks, OneHolder, Held, Flags
<1> QED
  BY <1>1, ClientInvariant, PTL

\* A client that is closed keeps no entry, and no call adds one.
THEOREM ClosedStaysEmpty == Spec => []ClosedMeansEmpty
<1>1. OneHolder => ClosedMeansEmpty
  BY DEF OneHolder
<1> QED
  BY <1>1, ClientInvariant, PTL
=============================================================================
