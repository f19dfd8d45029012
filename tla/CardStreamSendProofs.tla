------------------------ MODULE CardStreamSendProofs ------------------------
(***************************************************************************)
(* Proofs about the Sends of a card, for every number of runs, versions,   *)
(* stream objects and faults: they are well-formed, an activation is       *)
(* overtaken by the closing of earlier streams alone, and native streaming *)
(* shows what was last sent with success, or something sent later.         *)
(***************************************************************************)
EXTENDS CardStreamProofs, FiniteSetTheorems

\* A presentation has at most as many structural changes as versions.
LEMMA KeyType ==
  ASSUME NEW r \in Runs, NEW v
  PROVE  Key(r, v) \in Runs \X (0..MaxVersion) /\ Key(r, v)[1] = r
<1> DEFINE S == {w \in Structural : w <= v}
<1>1. MaxVersion \in Nat /\ S \subseteq 1..MaxVersion
  BY CardStreamAssumption
<1>2. IsFiniteSet(1..MaxVersion) /\ Cardinality(1..MaxVersion) = MaxVersion
  BY <1>1, FS_Interval
<1>3. IsFiniteSet(S) /\ Cardinality(S) <= MaxVersion
  BY <1>1, <1>2, FS_Subset
<1>4. Cardinality(S) \in Nat
  BY <1>3, FS_CardinalityType
<1> HIDE DEF S
<1>5. Key(r, v) = <<r, Cardinality(S)>>
  BY DEF Key, S
<1> QED
  BY <1>1, <1>3, <1>4, <1>5

-----------------------------------------------------------------------------
(* Types *)

StreamType == [resolved : BOOLEAN, key : (Runs \cup {0}) \X (0..MaxVersion),
               detail : 0..MaxVersion, active : BOOLEAN, unavailable : BOOLEAN]

PCs == Ops \cup {"none", "lock", "resolve", "patch"}

SendTypes ==
  /\ pc \in [Runs -> PCs]
  /\ kind \in [Runs -> {"none", "start", "progress", "result"}]
  /\ using \in [Runs -> Streams \cup {None}]
  /\ then \in [Runs -> {"none", "enable", "return"}]
  /\ seq \in [Runs -> 0..MaxSequence]
  /\ reply \in [Runs -> {"none", "ok", "refused"}]

ObjectTypes ==
  /\ current \in Streams \cup {None}
  /\ stream \in [Streams -> StreamType]
  /\ holder \in [Streams -> Runs \cup {0}]

RunTypes ==
  /\ begun \in 0..NumRuns /\ ended \subseteq Runs /\ done \subseteq ended
  /\ reported \in [Runs -> 0..MaxVersion] /\ since \in [Runs -> SUBSET (0..MaxVersion)]
  /\ faults \in 0..MaxFaults

FeishuTypes ==
  /\ requests \subseteq [op : {"enable", "off", "content"}, seq : 1..MaxSequence, detail : Runs \X (0..MaxVersion)]
  /\ card.seq \in 0..MaxSequence

\* The parts of TypeOK, and what keeps done within ended.
Types ==
  /\ SendTypes /\ ObjectTypes /\ RunTypes /\ FeishuTypes
  /\ \A r \in Runs : kind[r] = "result" \/ pc[r] = "close" => kind[r] = "result" /\ r \in ended

LEMMA GoToType ==
  ASSUME SendTypes, NEW r \in Runs, NEW p \in PCs, NEW after \in {"none", "enable", "return"},
         GoTo(r, p, after)
  PROVE  SendTypes'
<1>1. MaxSequence \in Nat
  BY StreamSequenceAssumption
<1> QED
  BY <1>1 DEF GoTo, At, SendTypes

LEMMA CallType ==
  ASSUME SendTypes, NEW r \in Runs, NEW what \in {"none", "start", "progress", "result"},
         NEW s \in Streams \cup {None}, NEW p \in PCs, Call(r, what, s, p)
  PROVE  SendTypes' /\ kind' = [kind EXCEPT ![r] = what]
<1>1. MaxSequence \in Nat
  BY StreamSequenceAssumption
<1> QED
  BY <1>1 DEF Call, At, SendTypes

LEMMA NoCallType ==
  ASSUME SendTypes, NEW r \in Runs, NoCall(r)
  PROVE  SendTypes' /\ kind' = [kind EXCEPT ![r] = "none"]
BY CallType DEF NoCall, PCs

\* The flags and the detail of a stream object.
LEMMA FlagType ==
  ASSUME NEW x \in StreamType, NEW b \in BOOLEAN
  PROVE  /\ [x EXCEPT !.resolved = b] \in StreamType
         /\ [x EXCEPT !.active = b] \in StreamType
         /\ [x EXCEPT !.unavailable = b] \in StreamType
BY DEF StreamType

LEMMA SetFlag ==
  ASSUME stream \in [Streams -> StreamType], NEW r \in Runs, NEW b \in BOOLEAN,
         NEW field \in {"resolved", "active", "unavailable"}, Set(r, field, b)
  PROVE  stream' \in [Streams -> StreamType]
<1>1. CASE field = "resolved"
  <2>1. stream' = [stream EXCEPT ![using[r]] = [stream[using[r]] EXCEPT !.resolved = b]]
    BY <1>1 DEF Set
  <2> QED
    BY <2>1, FlagType
<1>2. CASE field = "active"
  <2>1. stream' = [stream EXCEPT ![using[r]] = [stream[using[r]] EXCEPT !.active = b]]
    BY <1>2 DEF Set
  <2> QED
    BY <2>1, FlagType
<1>3. CASE field = "unavailable"
  <2>1. stream' = [stream EXCEPT ![using[r]] = [stream[using[r]] EXCEPT !.unavailable = b]]
    BY <1>3 DEF Set
  <2> QED
    BY <2>1, FlagType
<1> QED
  BY <1>1, <1>2, <1>3

LEMMA DetailType ==
  ASSUME NEW x \in StreamType, NEW v \in 0..MaxVersion
  PROVE  [x EXCEPT !.detail = v] \in StreamType
BY DEF StreamType

LEMMA KeyFieldType ==
  ASSUME NEW x \in StreamType, NEW k \in (Runs \cup {0}) \X (0..MaxVersion)
  PROVE  [x EXCEPT !.key = k] \in StreamType
<1>1. [x EXCEPT !.key = k].key \in (Runs \cup {0}) \X (0..MaxVersion)
  BY DEF StreamType
<1> QED
  BY <1>1 DEF StreamType

LEMMA SetDetail ==
  ASSUME stream \in [Streams -> StreamType], NEW r \in Runs, NEW v \in 0..MaxVersion, Set(r, "detail", v)
  PROVE  stream' \in [Streams -> StreamType]
<1>1. stream' = [stream EXCEPT ![using[r]] = [stream[using[r]] EXCEPT !.detail = v]]
  BY DEF Set
<1> QED
  BY <1>1, DetailType

\* What a patch leaves in the stream object.
LEMMA KeyAndDetailType ==
  ASSUME stream \in [Streams -> StreamType], NEW s, NEW r \in Runs, NEW v \in 0..MaxVersion,
         stream' = [stream EXCEPT ![s].key = Key(r, v), ![s].detail = v]
  PROVE  stream' \in [Streams -> StreamType]
<1>1. Key(r, v) \in (Runs \cup {0}) \X (0..MaxVersion)
  BY KeyType
<1>2. stream' = [stream EXCEPT ![s] = [[stream[s] EXCEPT !.key = Key(r, v)] EXCEPT !.detail = v]]
  OBVIOUS
<1>3. ASSUME s \in Streams
      PROVE  [[stream[s] EXCEPT !.key = Key(r, v)] EXCEPT !.detail = v] \in StreamType
  BY <1>1, <1>3, KeyFieldType, DetailType
<1> QED
  BY <1>2, <1>3

LEMMA FinishTypes ==
  ASSUME Types, NEW r \in Runs, NEW ok \in BOOLEAN, Finish(r, ok)
  PROVE  /\ SendTypes' /\ kind' = [kind EXCEPT ![r] = "none"]
         /\ holder' \in [Streams -> Runs \cup {0}]
         /\ since' \in [Runs -> SUBSET (0..MaxVersion)]
<1>1. SendTypes' /\ kind' = [kind EXCEPT ![r] = "none"]
  BY NoCallType DEF Finish, Types
<1>2. holder' \in [Streams -> Runs \cup {0}]
  BY DEF Finish, Release, Types, ObjectTypes
<1>3. since' \in [Runs -> SUBSET (0..MaxVersion)]
  BY DEF Finish, Types, RunTypes
<1> QED
  BY <1>1, <1>2, <1>3

LEMMA FaultType ==
  ASSUME faults \in 0..MaxFaults, NEW f, Fault(f) \/ UNCHANGED faults
  PROVE  faults' \in 0..MaxFaults
BY CardStreamAssumption DEF Fault

LEMMA TaskStreamType ==
  ASSUME ObjectTypes, NEW s \in Streams, TaskStream(s)
  PROVE  current' \in Streams \cup {None} /\ stream' \in [Streams -> StreamType]
<1>1. NoStream \in StreamType
  BY CardStreamAssumption DEF NoStream, StreamType
<1> QED
  BY <1>1 DEF TaskStream, ObjectTypes

\* The Send of r goes on at a place its kind allows.
Moves(r) ==
  \E p \in PCs, after \in {"none", "enable", "return"} :
    GoTo(r, p, after) /\ (p = "close" => kind[r] = "result")

LEMMA MovesType ==
  ASSUME Types, NEW r \in Runs, Moves(r) \/ NoCall(r), ended' = ended
  PROVE  /\ SendTypes'
         /\ \A q \in Runs : kind'[q] = "result" \/ pc'[q] = "close" => kind'[q] = "result" /\ q \in ended'
<1>1. CASE Moves(r)
  <2>1. PICK p \in PCs, after \in {"none", "enable", "return"} :
          GoTo(r, p, after) /\ (p = "close" => kind[r] = "result")
    BY <1>1 DEF Moves
  <2>2. SendTypes'
    BY <2>1, GoToType DEF Types
  <2>3. kind' = kind /\ pc' = [pc EXCEPT ![r] = p]
    BY <2>1 DEF GoTo, At
  <2> QED
    BY <2>1, <2>2, <2>3 DEF Types, SendTypes
<1>2. CASE NoCall(r)
  <2>1. SendTypes' /\ kind' = [kind EXCEPT ![r] = "none"]
    BY <1>2, NoCallType DEF Types
  <2>2. pc' = [pc EXCEPT ![r] = "none"]
    BY <1>2 DEF NoCall, Call, At
  <2> QED
    BY <2>1, <2>2 DEF Types, SendTypes
<1> QED
  BY <1>1, <1>2

\* A step of a Send that leaves the runs, Feishu and the map of streams alone.
LEMMA SendStepType ==
  ASSUME Types, NEW r \in Runs, Moves(r) \/ NoCall(r), UNCHANGED <<begun, ended, done, reported>>,
         UNCHANGED <<requests, card>>, current' = current,
         stream' \in [Streams -> StreamType], holder' \in [Streams -> Runs \cup {0}],
         since' \in [Runs -> SUBSET (0..MaxVersion)], faults' \in 0..MaxFaults
  PROVE  Types'
BY MovesType DEF Types, ObjectTypes, RunTypes, FeishuTypes

LEMMA ReturnsFault ==
  ASSUME NEW r, NEW outcome, Returns(r, outcome)
  PROVE  Fault("transient") \/ Fault("permanent") \/ UNCHANGED faults
BY DEF Returns, CutOff

LEMMA LockTypes ==
  ASSUME Types, NEW r \in Runs, Lock(r)
  PROVE  Types'
<1>1. /\ UNCHANGED <<begun, ended, done, reported>> /\ UNCHANGED <<requests, card>>
      /\ current' = current /\ faults' = faults
  BY DEF Lock, SendFrame, runsVars, feishuVars
<1>2. faults' \in 0..MaxFaults
  BY <1>1 DEF Types, RunTypes
<1>3. stream' \in [Streams -> StreamType]
  <2>1. CASE stream' = stream
    BY <2>1 DEF Types, ObjectTypes
  <2>2. CASE stream' = [stream EXCEPT ![using[r]].key = Key(r, 0), ![using[r]].detail = 0]
    BY <2>2, KeyAndDetailType, CardStreamAssumption, 0 \in 0..MaxVersion DEF Types, ObjectTypes
  <2> QED
    BY <2>1, <2>2 DEF Lock
<1>4. holder' \in [Streams -> Runs \cup {0}]
  <2>1. holder' = holder \/ (\E s : holder' = [holder EXCEPT ![s] = r]) \/ Release(r)
    BY DEF Lock, Finish
  <2> QED
    BY <2>1 DEF Release, Types, ObjectTypes
<1>5. since' \in [Runs -> SUBSET (0..MaxVersion)]
  <2>1. since' = since \/ Finish(r, FALSE)
    BY DEF Lock
  <2> QED
    BY <2>1, FinishTypes DEF Types, RunTypes
<1>6. Moves(r) \/ NoCall(r)
  <2>1. ASSUME NEW p \in {"resolve", "enable", "close", "patch", "pause", "content"},
               NEW after \in {"none", "enable", "return"},
               GoTo(r, p, after), p = "close" => kind[r] = "result"
        PROVE  Moves(r)
    BY <2>1 DEF Moves, PCs, Ops
  <2>2. EnablePC(using[r]) \in {"resolve", "enable"}
    BY DEF EnablePC
  <2>3. CASE kind[r] = "start"
    <3>1. GoTo(r, EnablePC(using[r]), "none")
      BY <2>3 DEF Lock
    <3> QED
      BY <2>1, <2>2, <2>3, <3>1
  <2>4. CASE kind[r] = "result"
    <3>1. GoTo(r, "close", "none") \/ GoTo(r, "patch", "none")
      BY <2>4 DEF Lock
    <3> QED
      BY <2>1, <2>4, <3>1
  <2>5. CASE kind[r] = "progress"
    <3>1. \/ GoTo(r, "patch", "return") \/ GoTo(r, "patch", "enable") \/ GoTo(r, "pause", "none")
          \/ GoTo(r, "content", "none") \/ NoCall(r)
      BY <2>5 DEF Lock, Finish
    <3> QED
      BY <2>1, <3>1
  <2> QED
    BY <2>3, <2>4, <2>5 DEF Lock
<1> QED
  BY <1>1, <1>2, <1>3, <1>4, <1>5, <1>6, SendStepType

LEMMA MovesTo ==
  ASSUME NEW r \in Runs, NEW p \in PCs \ {"close"}, NEW after \in {"none", "enable", "return"}, GoTo(r, p, after)
  PROVE  Moves(r)
BY DEF Moves

LEMMA ResolveTypes ==
  ASSUME Types, NEW r \in Runs, NEW outcome, ResolveReturns(r, outcome)
  PROVE  Types'
<1>1. /\ UNCHANGED <<begun, ended, done, reported>> /\ UNCHANGED <<requests, card>> /\ current' = current
  BY DEF ResolveReturns, OpFrame, SendFrame, runsVars, feishuVars
<1>2. faults' \in 0..MaxFaults
  BY FaultType DEF ResolveReturns, CutOff, Types, RunTypes
<1>3. stream' \in [Streams -> StreamType]
  BY SetFlag DEF ResolveReturns, Types, ObjectTypes
<1>4. (Moves(r) /\ UNCHANGED <<holder, since>>) \/ Finish(r, TRUE) \/ Finish(r, FALSE)
  BY MovesTo DEF ResolveReturns, PCs, Ops
<1>5. /\ Moves(r) \/ NoCall(r)
      /\ holder' \in [Streams -> Runs \cup {0}] /\ since' \in [Runs -> SUBSET (0..MaxVersion)]
  BY <1>4, FinishTypes DEF Finish, Types, ObjectTypes, RunTypes
<1> QED
  BY <1>1, <1>2, <1>3, <1>5, SendStepType

LEMMA EnableTypes ==
  ASSUME Types, NEW r \in Runs, NEW outcome, EnableReturns(r, outcome)
  PROVE  Types'
<1>1. /\ UNCHANGED <<begun, ended, done, reported>> /\ UNCHANGED <<requests, card>> /\ current' = current
  BY DEF EnableReturns, OpFrame, SendFrame, runsVars, feishuVars
<1>2. faults' \in 0..MaxFaults
  BY FaultType, ReturnsFault DEF EnableReturns, Types, RunTypes
<1>3. stream' \in [Streams -> StreamType]
  <2>1. Set(r, "active", TRUE) \/ Set(r, "unavailable", TRUE) \/ stream' = stream
    BY DEF EnableReturns
  <2> QED
    BY <2>1, SetFlag DEF Types, ObjectTypes
<1>4. NoCall(r) /\ holder' \in [Streams -> Runs \cup {0}] /\ since' \in [Runs -> SUBSET (0..MaxVersion)]
  <2>1. (outcome # "transient") \in BOOLEAN /\ Finish(r, outcome # "transient")
    BY DEF EnableReturns
  <2> QED
    BY <2>1, FinishTypes, Zenon DEF Finish
<1> QED
  BY <1>1, <1>2, <1>3, <1>4, SendStepType

LEMMA PauseTypes ==
  ASSUME Types, NEW r \in Runs, NEW outcome, PauseReturns(r, outcome)
  PROVE  Types'
<1>1. /\ UNCHANGED <<begun, ended, done, reported>> /\ UNCHANGED <<requests, card>> /\ current' = current
  BY DEF PauseReturns, OpFrame, SendFrame, runsVars, feishuVars
<1>2. faults' \in 0..MaxFaults
  BY FaultType, ReturnsFault DEF PauseReturns, Types, RunTypes
<1>3. stream' \in [Streams -> StreamType]
  <2>1. Set(r, "active", FALSE) \/ Set(r, "unavailable", TRUE) \/ stream' = stream
    BY DEF PauseReturns
  <2> QED
    BY <2>1, SetFlag DEF Types, ObjectTypes
<1>4. (Moves(r) /\ UNCHANGED <<holder, since>>) \/ Finish(r, FALSE)
  <2>1. \/ GoTo(r, "patch", "enable") /\ UNCHANGED <<holder, since>>
        \/ GoTo(r, "disable", "none") /\ UNCHANGED <<holder, since>>
        \/ Finish(r, FALSE)
    BY DEF PauseReturns
  <2> QED
    BY <2>1, MovesTo DEF PCs, Ops
<1>5. /\ Moves(r) \/ NoCall(r)
      /\ holder' \in [Streams -> Runs \cup {0}] /\ since' \in [Runs -> SUBSET (0..MaxVersion)]
  BY <1>4, FinishTypes DEF Finish, Types, ObjectTypes, RunTypes
<1> QED
  BY <1>1, <1>2, <1>3, <1>5, SendStepType

LEMMA ContentTypes ==
  ASSUME Types, NEW r \in Runs, NEW outcome, ContentReturns(r, outcome)
  PROVE  Types'
<1>1. /\ UNCHANGED <<begun, ended, done, reported>> /\ UNCHANGED <<requests, card>> /\ current' = current
  BY DEF ContentReturns, OpFrame, SendFrame, runsVars, feishuVars
<1>2. faults' \in 0..MaxFaults
  BY FaultType, ReturnsFault DEF ContentReturns, Types, RunTypes
<1>3. stream' \in [Streams -> StreamType]
  <2>1. Set(r, "detail", reported[r]) \/ Set(r, "unavailable", TRUE) \/ stream' = stream
    BY DEF ContentReturns
  <2>2. reported[r] \in 0..MaxVersion
    BY DEF Types, RunTypes
  <2> QED
    BY <2>1, <2>2, SetFlag, SetDetail DEF Types, ObjectTypes
<1>4. (Moves(r) /\ UNCHANGED <<holder, since>>) \/ Finish(r, TRUE) \/ Finish(r, FALSE)
  <2>1. \/ GoTo(r, "disable", "none") /\ UNCHANGED <<holder, since>>
        \/ Finish(r, TRUE) \/ Finish(r, FALSE)
    BY DEF ContentReturns
  <2> QED
    BY <2>1, MovesTo DEF PCs, Ops
<1>5. /\ Moves(r) \/ NoCall(r)
      /\ holder' \in [Streams -> Runs \cup {0}] /\ since' \in [Runs -> SUBSET (0..MaxVersion)]
  BY <1>4, FinishTypes DEF Finish, Types, ObjectTypes, RunTypes
<1> QED
  BY <1>1, <1>2, <1>3, <1>5, SendStepType

LEMMA DisableTypes ==
  ASSUME Types, NEW r \in Runs, NEW outcome, DisableReturns(r, outcome)
  PROVE  Types'
<1>1. /\ UNCHANGED <<begun, ended, done, reported>> /\ UNCHANGED <<requests, card>> /\ current' = current
      /\ UNCHANGED <<holder, since>>
  BY DEF DisableReturns, OpFrame, SendFrame, runsVars, feishuVars
<1>2. faults' \in 0..MaxFaults
  BY FaultType, ReturnsFault DEF DisableReturns, Types, RunTypes
<1>3. stream' \in [Streams -> StreamType]
  <2>1. Set(r, "active", FALSE) \/ stream' = stream
    BY DEF DisableReturns
  <2> QED
    BY <2>1, SetFlag DEF Types, ObjectTypes
<1>4. Moves(r)
  <2>1. GoTo(r, "patch", "return")
    BY DEF DisableReturns
  <2> QED
    BY <2>1, MovesTo DEF PCs, Ops
<1>5. holder' \in [Streams -> Runs \cup {0}] /\ since' \in [Runs -> SUBSET (0..MaxVersion)]
  BY <1>1 DEF Types, ObjectTypes, RunTypes
<1> QED
  BY <1>1, <1>2, <1>3, <1>4, <1>5, SendStepType

LEMMA CloseTypes ==
  ASSUME Types, NEW r \in Runs, NEW outcome, CloseReturns(r, outcome)
  PROVE  Types'
<1>1. /\ UNCHANGED <<begun, ended, done, reported>> /\ UNCHANGED <<requests, card>> /\ current' = current
      /\ since' = since
  BY DEF CloseReturns, OpFrame, SendFrame, runsVars, feishuVars
<1>2. faults' \in 0..MaxFaults
  BY FaultType, ReturnsFault DEF CloseReturns, Types, RunTypes
<1>3. stream' \in [Streams -> StreamType]
  <2>1. Set(r, "active", FALSE) \/ stream' = stream
    BY DEF CloseReturns
  <2> QED
    BY <2>1, SetFlag DEF Types, ObjectTypes
<1>4. SendTypes' /\ kind' = [kind EXCEPT ![r] = "result"]
  BY CallType DEF CloseReturns, PCs, Types
<1>5. pc' = [pc EXCEPT ![r] = "patch"] /\ pc[r] = "close"
  BY DEF CloseReturns, Call, At
<1>6. \A q \in Runs : kind'[q] = "result" \/ pc'[q] = "close" => kind'[q] = "result" /\ q \in ended'
  BY <1>1, <1>4, <1>5 DEF Types, SendTypes
<1>7. holder' \in [Streams -> Runs \cup {0}]
  BY DEF CloseReturns, Release, Types, ObjectTypes
<1> QED
  BY <1>1, <1>2, <1>3, <1>4, <1>6, <1>7 DEF Types, ObjectTypes, RunTypes, FeishuTypes

LEMMA ProgressPatchedTypes ==
  ASSUME Types, NEW r \in Runs, NEW outcome, ProgressPatched(r, outcome)
  PROVE  Types'
<1>1. /\ UNCHANGED <<begun, ended, done, reported>> /\ UNCHANGED <<requests, card>> /\ current' = current
  BY DEF ProgressPatched, OpFrame, SendFrame, runsVars, feishuVars
<1>2. faults' \in 0..MaxFaults
  BY FaultType DEF ProgressPatched, PatchEnds, CutOff, Types, RunTypes
<1>3. stream' \in [Streams -> StreamType]
  <2>1. \/ stream' = [stream EXCEPT ![using[r]].key = Key(r, reported[r]), ![using[r]].detail = reported[r]]
        \/ stream' = stream
    BY DEF ProgressPatched
  <2>2. reported[r] \in 0..MaxVersion
    BY DEF Types, RunTypes
  <2> QED
    BY <2>1, <2>2, KeyAndDetailType DEF Types, ObjectTypes
<1>4. (Moves(r) /\ UNCHANGED <<holder, since>>) \/ Finish(r, TRUE) \/ Finish(r, FALSE)
  <2>1. \/ GoTo(r, EnablePC(using[r]), "none") /\ UNCHANGED <<holder, since>>
        \/ Finish(r, TRUE) \/ Finish(r, FALSE)
    BY DEF ProgressPatched
  <2>2. EnablePC(using[r]) \in PCs \ {"close"}
    BY DEF EnablePC, PCs, Ops
  <2> QED
    BY <2>1, <2>2, MovesTo
<1>5. /\ Moves(r) \/ NoCall(r)
      /\ holder' \in [Streams -> Runs \cup {0}] /\ since' \in [Runs -> SUBSET (0..MaxVersion)]
  BY <1>4, FinishTypes DEF Finish, Types, ObjectTypes, RunTypes
<1> QED
  BY <1>1, <1>2, <1>3, <1>5, SendStepType

LEMMA ResultPatchedTypes ==
  ASSUME Types, NEW r \in Runs, NEW outcome, ResultPatched(r, outcome)
  PROVE  Types'
<1>1. /\ UNCHANGED <<stream, current, holder, since, begun, ended, reported, requests, card>>
      /\ NoCall(r) /\ r \in ended
  BY DEF ResultPatched, feishuVars, Types
<1>2. faults' \in 0..MaxFaults
  BY FaultType DEF ResultPatched, PatchEnds, CutOff, Types, RunTypes
<1>3. done' \subseteq ended'
  BY <1>1 DEF ResultPatched, Types, RunTypes
<1> QED
  BY <1>1, <1>2, <1>3, MovesType DEF Types, ObjectTypes, RunTypes, FeishuTypes

LEMMA IssueTypes ==
  ASSUME Types, NEW r \in Runs, Issue(r)
  PROVE  Types'
<1>1. PICK n \in 1..MaxSequence :
        /\ seq' = [seq EXCEPT ![r] = n]
        /\ requests' = requests \cup
             {[op |-> IF pc[r] \in {"pause", "disable", "close"} THEN "off" ELSE pc[r],
               seq |-> n, detail |-> <<r, IF pc[r] = "content" THEN reported[r] ELSE 0>>]}
  BY DEF Issue
<1>2. n \in 0..MaxSequence /\ (IF pc[r] = "content" THEN reported[r] ELSE 0) \in 0..MaxVersion
  BY StreamSequenceAssumption, CardStreamAssumption DEF Types, RunTypes
<1>3. (IF pc[r] \in {"pause", "disable", "close"} THEN "off" ELSE pc[r]) \in {"enable", "off", "content"}
  BY DEF Issue, Ops
<1>4. [op |-> IF pc[r] \in {"pause", "disable", "close"} THEN "off" ELSE pc[r], seq |-> n,
       detail |-> <<r, IF pc[r] = "content" THEN reported[r] ELSE 0>>]
        \in [op : {"enable", "off", "content"}, seq : 1..MaxSequence, detail : Runs \X (0..MaxVersion)]
  BY <1>2, <1>3
<1>5. requests' \subseteq [op : {"enable", "off", "content"}, seq : 1..MaxSequence, detail : Runs \X (0..MaxVersion)]
  BY <1>1, <1>4 DEF Types, FeishuTypes
<1>6. SendTypes'
  BY <1>1, <1>2 DEF Issue, Types, SendTypes
<1>7. UNCHANGED <<current, stream, holder, pc, kind, begun, ended, done, reported, since, card, faults>>
  BY DEF Issue, runsVars
<1> QED
  BY <1>5, <1>6, <1>7 DEF Types, ObjectTypes, RunTypes, FeishuTypes

LEMMA PatchAppliesTypes ==
  ASSUME Types, NEW r \in Runs, PatchApplies(r)
  PROVE  Types'
<1>1. UNCHANGED <<current, stream, holder, pc, kind, using, then, seq, begun, ended, done, reported, since, requests, faults>>
  BY DEF PatchApplies, runsVars
<1>2. SendTypes'
  BY <1>1 DEF PatchApplies, Types, SendTypes
<1>3. card'.seq = card.seq
  BY DEF PatchApplies, Shows
<1> QED
  BY <1>1, <1>2, <1>3 DEF Types, ObjectTypes, RunTypes, FeishuTypes

LEMMA LateTypes ==
  ASSUME Types,
         (\E r \in Runs : AttemptTimesOut(r)) \/ \E p \in late : PatchLate(p)
  PROVE  Types'
<1>1. UNCHANGED <<current, stream, holder, pc, kind, using, then, seq, reply, begun, ended, done, reported, since, requests>>
  BY DEF AttemptTimesOut, PatchLate, sendVars, runsVars
<1>2. card'.seq = card.seq
  <2>1. CASE \E r \in Runs : AttemptTimesOut(r)
    BY <2>1 DEF AttemptTimesOut
  <2>2. ASSUME NEW p \in late, PatchLate(p)
        PROVE  card'.seq = card.seq
    <3>1. Shows(p, TRUE)
      BY <2>2 DEF PatchLate
    <3> QED
      BY <3>1 DEF Shows
  <2> QED
    BY <2>1, <2>2
<1>3. faults' \in 0..MaxFaults
  BY FaultType DEF AttemptTimesOut, PatchLate, Types, RunTypes
<1> QED
  BY <1>1, <1>2, <1>3 DEF Types, SendTypes, ObjectTypes, RunTypes, FeishuTypes

LEMMA SendKeepsTypes ==
  ASSUME Types, NEW r \in Runs, Send(r)
  PROVE  Types'
<1>1. CASE \E outcome \in Outcomes :
             \/ ResolveReturns(r, outcome) \/ EnableReturns(r, outcome) \/ PauseReturns(r, outcome)
             \/ ContentReturns(r, outcome) \/ DisableReturns(r, outcome) \/ CloseReturns(r, outcome)
             \/ ProgressPatched(r, outcome) \/ ResultPatched(r, outcome)
  BY <1>1, ResolveTypes, EnableTypes, PauseTypes, ContentTypes, DisableTypes, CloseTypes,
     ProgressPatchedTypes, ResultPatchedTypes
<1> QED
  BY <1>1, LockTypes, IssueTypes, PatchAppliesTypes, LateTypes DEF Send

LEMMA BeginTypes ==
  ASSUME Types, BeginRun
  PROVE  Types'
<1>1. UNCHANGED <<ended, done, reported, holder, since, faults, requests, card>> /\ begun' \in 0..NumRuns
  BY CardStreamAssumption DEF BeginRun, feishuVars, Types, RunTypes
<1>2. CASE begun = 0
  <2>1. PICK s \in Streams : TaskStream(s) /\ Call(1, "start", s, "lock")
    BY <1>2 DEF BeginRun
  <2>2. 1 \in Runs
    BY <1>2, CardStreamAssumption DEF BeginRun, Runs
  <2>3. SendTypes' /\ kind' = [kind EXCEPT ![1] = "start"]
    BY <2>1, <2>2, CallType DEF PCs, Types
  <2>4. current' \in Streams \cup {None} /\ stream' \in [Streams -> StreamType]
    BY <2>1, TaskStreamType DEF Types
  <2>5. pc' = [pc EXCEPT ![1] = "lock"]
    BY <2>1 DEF Call, At
  <2>6. \A q \in Runs : kind'[q] = "result" \/ pc'[q] = "close" => kind'[q] = "result" /\ q \in ended'
    BY <1>1, <2>2, <2>3, <2>5 DEF Types, SendTypes
  <2> QED
    BY <1>1, <2>3, <2>4, <2>6 DEF Types, ObjectTypes, RunTypes, FeishuTypes
<1>3. CASE begun # 0
  <2>1. UNCHANGED <<current, stream, pc, kind, using, then, seq, reply>>
    BY <1>3 DEF BeginRun, sendVars
  <2> QED
    BY <1>1, <2>1 DEF Types, SendTypes, ObjectTypes, RunTypes, FeishuTypes
<1> QED
  BY <1>2, <1>3

LEMMA ProgressTypes ==
  ASSUME Types, NEW r \in Runs, NEW v \in 1..MaxVersion, Progress(r, v)
  PROVE  Types'
<1>1. PICK s \in Streams : TaskStream(s) /\ Call(r, "progress", s, "lock")
  BY DEF Progress
<1>2. /\ UNCHANGED <<begun, ended, done, holder, faults, requests, card>>
      /\ reported' = [reported EXCEPT ![r] = v] /\ since' = [since EXCEPT ![r] = @ \cup {v}]
  BY DEF Progress, feishuVars
<1>3. SendTypes' /\ kind' = [kind EXCEPT ![r] = "progress"] /\ pc' = [pc EXCEPT ![r] = "lock"]
  BY <1>1, CallType DEF PCs, Types, Call, At
<1>4. current' \in Streams \cup {None} /\ stream' \in [Streams -> StreamType]
  BY <1>1, TaskStreamType DEF Types
<1>5. v \in 0..MaxVersion
  BY CardStreamAssumption
<1>6. \A q \in Runs : kind'[q] = "result" \/ pc'[q] = "close" => kind'[q] = "result" /\ q \in ended'
  BY <1>2, <1>3 DEF Types, SendTypes
<1>7. reported' \in [Runs -> 0..MaxVersion] /\ since' \in [Runs -> SUBSET (0..MaxVersion)]
  BY <1>2, <1>5 DEF Types, RunTypes
<1> QED
  BY <1>2, <1>3, <1>4, <1>6, <1>7 DEF Types, ObjectTypes, RunTypes, FeishuTypes

LEMMA ResultTypes ==
  ASSUME Types, NEW r \in Runs, Result(r)
  PROVE  Types'
<1>1. UNCHANGED <<stream, holder, begun, ended, done, since, faults, requests, card>> /\ r \in ended
  BY DEF Result, feishuVars
<1>2. current' = None /\ reported' \in [Runs -> 0..MaxVersion]
  BY CardStreamAssumption DEF Result, Types, RunTypes
<1>3. SendTypes' /\ kind' = [kind EXCEPT ![r] = "result"]
  <2>1. (IF current = None THEN "patch" ELSE "lock") \in PCs /\ current \in Streams \cup {None}
    BY DEF PCs, Types, ObjectTypes
  <2> QED
    BY <2>1, CallType DEF Result, Types
<1>4. pc'[r] \in {"patch", "lock"} /\ \A q \in Runs \ {r} : pc'[q] = pc[q]
  BY DEF Result, Call, At, Types, SendTypes
<1>5. \A q \in Runs : kind'[q] = "result" \/ pc'[q] = "close" => kind'[q] = "result" /\ q \in ended'
  BY <1>1, <1>3, <1>4 DEF Types, SendTypes
<1> QED
  BY <1>1, <1>2, <1>3, <1>5 DEF Types, ObjectTypes, RunTypes, FeishuTypes

LEMMA EndTypes ==
  ASSUME Types, NEW r \in Runs, EndRun(r)
  PROVE  Types'
<1>1. /\ UNCHANGED <<current, stream, holder, begun, done, reported, pc, kind, using, then, seq, reply, faults>>
      /\ UNCHANGED <<requests, card>> /\ ended' = ended \cup {r}
  BY DEF EndRun, sendVars, feishuVars
<1>2. since' \in [Runs -> SUBSET (0..MaxVersion)]
  BY DEF EndRun, Types, RunTypes
<1> QED
  BY <1>1, <1>2 DEF Types, SendTypes, ObjectTypes, RunTypes, FeishuTypes

LEMMA CrashTypes ==
  ASSUME Types, Crash
  PROVE  Types'
<1>1. /\ 0 \in 0..MaxVersion /\ 0 \in 0..MaxSequence
      /\ NoStream \in StreamType
  BY CardStreamAssumption, StreamSequenceAssumption DEF NoStream, StreamType
<1>2. SendTypes'
  BY <1>1 DEF Crash, SendTypes, PCs
<1>3. ObjectTypes'
  <2>1. current' = None /\ stream' = [s \in Streams |-> NoStream] /\ holder' = [s \in Streams |-> 0]
    BY DEF Crash
  <2> QED
    BY <1>1, <2>1 DEF ObjectTypes
<1>4. RunTypes'
  <2>1. faults' \in 0..MaxFaults
    BY FaultType DEF Crash, Types, RunTypes
  <2>2. ended' = 1..begun /\ done' = 1..begun /\ UNCHANGED <<begun, reported>> /\ begun \in 0..NumRuns
    BY DEF Crash, Types, RunTypes
  <2>3. 1..begun \subseteq Runs
    BY <2>2, CardStreamAssumption DEF Runs
  <2>4. since' \in [Runs -> SUBSET (0..MaxVersion)]
    BY DEF Crash, Types, RunTypes
  <2> QED
    BY <2>1, <2>2, <2>3, <2>4 DEF Types, RunTypes
<1>5. FeishuTypes'
  BY DEF Crash, feishuVars, Types, FeishuTypes
<1>6. \A q \in Runs : kind'[q] = "none" /\ pc'[q] = "none"
  BY DEF Crash
<1> QED
  BY <1>2, <1>3, <1>4, <1>5, <1>6 DEF Types

LEMMA ProcessTypes ==
  ASSUME Types, NEW q \in requests, NEW refused \in BOOLEAN, Process(q, refused)
  PROVE  Types'
<1>1. UNCHANGED <<current, stream, holder, pc, kind, using, then, seq, begun, ended, done, reported, since>>
  BY DEF Process, runsVars
<1>2. faults' \in 0..MaxFaults
  BY FaultType DEF Process, Types, RunTypes
<1>3. requests' \subseteq requests /\ reply' \in [Runs -> {"none", "ok", "refused"}]
  BY DEF Process, Types, SendTypes
<1>4. card'.seq \in 0..MaxSequence
  <2>1. q.seq \in 0..MaxSequence
    BY DEF Types, FeishuTypes
  <2>2. card' = card \/ card'.seq = q.seq \/ card'.seq = card.seq
    BY DEF Process
  <2> QED
    BY <2>1, <2>2 DEF Types, FeishuTypes
<1> QED
  BY <1>1, <1>2, <1>3, <1>4 DEF Types, SendTypes, ObjectTypes, RunTypes, FeishuTypes

LEMMA InitTypes == Init => Types
<1>1. SUFFICES ASSUME Init PROVE Types
  OBVIOUS
<1>2. /\ 0 \in 0..MaxVersion /\ 0 \in 0..MaxSequence /\ 0 \in 0..NumRuns /\ 0 \in 0..MaxFaults
      /\ NoStream \in StreamType
  BY CardStreamAssumption, StreamSequenceAssumption DEF NoStream, StreamType
<1>3. SendTypes
  BY <1>1, <1>2 DEF Init, SendTypes, PCs
<1>4. ObjectTypes
  <2>1. current = None /\ stream = [s \in Streams |-> NoStream] /\ holder = [s \in Streams |-> 0]
    BY <1>1 DEF Init
  <2> QED
    BY <1>2, <2>1 DEF ObjectTypes
<1>5. RunTypes
  BY <1>1, <1>2 DEF Init, RunTypes
<1>6. FeishuTypes
  BY <1>1, <1>2 DEF Init, FeishuTypes
<1>7. \A q \in Runs : kind[q] = "none" /\ pc[q] = "none"
  BY <1>1 DEF Init
<1> QED
  BY <1>3, <1>4, <1>5, <1>6, <1>7 DEF Types

LEMMA StepKeepsTypes ==
  ASSUME Types, [Next]_vars
  PROVE  Types'
<1>1. CASE UNCHANGED vars
  <2>1. UNCHANGED <<current, stream, holder, begun, ended, done, reported, since, faults, requests, card>>
    BY <1>1 DEF vars, runsVars, feishuVars
  <2>2. UNCHANGED <<pc, kind, using, then, seq, reply>>
    BY <1>1 DEF vars, sendVars
  <2> QED
    BY <2>1, <2>2 DEF Types, SendTypes, ObjectTypes, RunTypes, FeishuTypes
<1>2. CASE Next
  BY <1>2, BeginTypes, CrashTypes, EndTypes, ResultTypes, SendKeepsTypes, ProgressTypes, ProcessTypes, LateTypes DEF Next
<1> QED
  BY <1>1, <1>2

\* The Sends, their streams and what Feishu has of them are well-formed.
THEOREM StreamTypeCorrect == Spec => []TypeOK
<1>1. Spec => []Types
  BY InitTypes, StepKeepsTypes, PTL DEF Spec
<1>2. Spec => []SequenceInv
  BY StreamsFollowSequence, SequenceInvariant, PTL
<1>3. Types /\ SequenceInv => TypeOK
  BY DEF Types, SendTypes, ObjectTypes, RunTypes, FeishuTypes, SequenceInv, TypeOK, StreamType, PCs
<1> QED
  BY <1>1, <1>2, <1>3, PTL

-----------------------------------------------------------------------------
(* The runs and their Sends *)

Reporting(r) == kind[r] \in {"start", "progress"}

\* The Send of r holds the lock of its stream object.
Holds(r) == (Reporting(r) /\ pc[r] # "lock") \/ pc[r] = "close"

\* Where a Send can be once it has the lock.
Places(what) ==
  CASE what = "start"    -> {"resolve", "enable"}
    [] what = "progress" -> {"resolve", "enable", "pause", "content", "disable", "patch"}
    [] what = "result"   -> {"close", "patch"}
    [] OTHER             -> {}

\* One run after the other; the first has a stream from its start to its end.
RunShape ==
  /\ ended \subseteq 1..begun /\ 1..(begun - 1) \subseteq ended
  /\ begun = 0 => current = None
  /\ begun = 1 /\ 1 \notin ended => current # None

\* What a run sends, when, and what it has been told of it.
SendShape ==
  \A r \in Runs :
    /\ kind[r] = "none" <=> pc[r] = "none"
    /\ pc[r] # "none" => r <= begun
    /\ pc[r] \in {"none", "lock"} \cup Places(kind[r])
    /\ kind[r] = "start" => r = 1 /\ begun = 1 /\ r \notin ended /\ since[r] = {0}
    /\ kind[r] = "progress" => r \notin done
    /\ kind[r] = "result" => r \in ended \ done
    /\ r \notin ended /\ Reporting(r) => current \in {using[r], None}
    /\ r \notin ended => reported[r] \in since[r]
    /\ r > begun => since[r] = {0}

\* A Send under the lock of its object is alone with it, its number the last
\* one taken from there.
LockShape ==
  \A r \in Runs :
    /\ Holds(r) => holder[using[r]] = r
    /\ seq[r] # 0 => pc[r] \in Ops /\ next[using[r]] = seq[r] + 1

Shape == RunShape /\ SendShape /\ LockShape

\* What is known of every state.
Base == Types /\ SequenceInv /\ HasStream

SendFixed == UNCHANGED <<last, next, end, uses, begun, ended, done, reported, current, requests, card>>

\* The Send of r goes on under the lock, which it takes first where it has not;
\* a result without an active stream does without.
Goes(r) ==
  \E p \in Places(kind[r]), after \in {"none", "enable", "return"} :
    /\ GoTo(r, p, after)
    /\ since' = since
    /\ \/ pc[r] # "lock" /\ Reporting(r) /\ Holds(r) /\ holder' = holder
       \/ pc[r] = "lock" /\ holder[using[r]] = 0 /\ holder' = [holder EXCEPT ![using[r]] = r]
       \/ pc[r] = "lock" /\ kind[r] = "result" /\ p = "patch" /\ holder' = holder

Stops(r) == Reporting(r) /\ pc[r] # "none" /\ (pc[r] = "lock" => holder[using[r]] = 0) /\ \E ok \in BOOLEAN : Finish(r, ok)

LEMMA FixedBySend ==
  ASSUME OpFrame \/ (UNCHANGED seqVars /\ SendFrame)
  PROVE  SendFixed
BY DEF OpFrame, SendFrame, SendFixed, seqVars, runsVars, feishuVars

LEMMA GoesAhead ==
  ASSUME NEW r \in Runs, NEW p \in Places(kind[r]), NEW after \in {"none", "enable", "return"},
         GoTo(r, p, after), since' = since, holder' = holder, pc[r] # "lock", Reporting(r), Holds(r)
  PROVE  Goes(r)
BY DEF Goes

LEMMA StopsHere ==
  ASSUME NEW r \in Runs, NEW ok \in BOOLEAN, Finish(r, ok), pc[r] \notin {"none", "lock"}, Reporting(r)
  PROVE  Stops(r)
BY DEF Stops

\* Where the operations of a Send of progress or of the start are.
LEMMA Reports ==
  ASSUME Base, Shape, NEW r \in Runs
  PROVE  /\ pc[r] \in {"resolve", "enable", "pause", "content", "disable"} => Reporting(r) /\ Holds(r)
         /\ pc[r] \in {"pause", "content", "disable"} => kind[r] = "progress"
         /\ pc[r] = "close" => kind[r] = "result"
<1>1. pc[r] \in {"none", "lock"} \cup Places(kind[r]) /\ kind[r] \in {"none", "start", "progress", "result"}
  BY DEF Shape, SendShape, Base, Types, SendTypes
<1> QED
  BY <1>1 DEF Places, Reporting, Holds

LEMMA LockCase ==
  ASSUME Base, Shape, NEW r \in Runs, Lock(r)
  PROVE  SendFixed /\ (Goes(r) \/ Stops(r))
<1>1. SendFixed
  BY DEF Lock, SendFrame, SendFixed, seqVars, runsVars, feishuVars
<1>2. pc[r] = "lock" /\ holder[using[r]] = 0
  BY DEF Lock
<1>3. CASE kind[r] = "start"
  <2>1. EnablePC(using[r]) \in Places(kind[r])
    BY <1>3 DEF EnablePC, Places
  <2>2. GoTo(r, EnablePC(using[r]), "none") /\ since' = since /\ holder' = [holder EXCEPT ![using[r]] = r]
    BY <1>3 DEF Lock
  <2> QED
    BY <1>1, <1>2, <2>1, <2>2 DEF Goes
<1>4. CASE kind[r] = "result"
  <2>1. "patch" \in Places(kind[r]) /\ "close" \in Places(kind[r])
    BY <1>4 DEF Places
  <2>2. /\ since' = since
        /\ \/ GoTo(r, "close", "none") /\ holder' = [holder EXCEPT ![using[r]] = r]
           \/ GoTo(r, "patch", "none") /\ holder' = holder
    BY <1>4 DEF Lock
  <2> QED
    BY <1>1, <1>2, <1>4, <2>1, <2>2 DEF Goes
<1>5. CASE kind[r] = "progress"
  <2>1. {"patch", "pause", "content"} \subseteq Places(kind[r])
    BY <1>5 DEF Places
  <2>2. \/ /\ since' = since /\ holder' = [holder EXCEPT ![using[r]] = r]
           /\ \/ GoTo(r, "patch", "return") \/ GoTo(r, "patch", "enable")
              \/ GoTo(r, "pause", "none") \/ GoTo(r, "content", "none")
        \/ Finish(r, FALSE)
    BY <1>5 DEF Lock
  <2>3. CASE Finish(r, FALSE)
    BY <1>1, <1>2, <1>5, <2>3 DEF Stops, Reporting
  <2>4. CASE ~Finish(r, FALSE)
    BY <1>1, <1>2, <2>1, <2>2, <2>4 DEF Goes
  <2> QED
    BY <2>3, <2>4
<1> QED
  BY <1>3, <1>4, <1>5 DEF Lock

LEMMA ReturnCases ==
  ASSUME Base, Shape, NEW r \in Runs, NEW outcome,
         \/ ResolveReturns(r, outcome) \/ EnableReturns(r, outcome) \/ PauseReturns(r, outcome)
         \/ ContentReturns(r, outcome) \/ DisableReturns(r, outcome) \/ ProgressPatched(r, outcome)
  PROVE  SendFixed /\ (Goes(r) \/ Stops(r))
<1> DEFINE Out == Goes(r) \/ Stops(r)
<1>1. SendFixed
  BY FixedBySend DEF ResolveReturns, EnableReturns, PauseReturns, ContentReturns, DisableReturns, ProgressPatched
<1>2. CASE ResolveReturns(r, outcome)
  <2>1. pc[r] = "resolve" /\ Reporting(r) /\ Holds(r)
    BY <1>2, Reports DEF ResolveReturns
  <2>2. "enable" \in Places(kind[r])
    BY <2>1 DEF Reporting, Places
  <2>3. (GoTo(r, "enable", "none") /\ UNCHANGED <<holder, since>>) \/ Finish(r, TRUE) \/ Finish(r, FALSE)
    BY <1>2 DEF ResolveReturns
  <2> QED
    BY <1>1, <2>1, <2>2, <2>3, GoesAhead, StopsHere
<1>3. CASE EnableReturns(r, outcome)
  <2>1. pc[r] = "enable" /\ Reporting(r)
    BY <1>3, Reports DEF EnableReturns
  <2>2. (outcome # "transient") \in BOOLEAN /\ Finish(r, outcome # "transient")
    BY <1>3 DEF EnableReturns
  <2>3. Stops(r)
    BY <2>1, <2>2, StopsHere, Zenon
  <2> QED
    BY <1>1, <2>3
<1>4. CASE PauseReturns(r, outcome)
  <2>1. pc[r] = "pause" /\ Reporting(r) /\ Holds(r) /\ kind[r] = "progress"
    BY <1>4, Reports DEF PauseReturns
  <2>2. "patch" \in Places(kind[r]) /\ "disable" \in Places(kind[r])
    BY <2>1 DEF Places
  <2>3. \/ GoTo(r, "patch", "enable") /\ UNCHANGED <<holder, since>>
        \/ GoTo(r, "disable", "none") /\ UNCHANGED <<holder, since>>
        \/ Finish(r, FALSE)
    BY <1>4 DEF PauseReturns
  <2> QED
    BY <1>1, <2>1, <2>2, <2>3, GoesAhead, StopsHere
<1>5. CASE ContentReturns(r, outcome)
  <2>1. pc[r] = "content" /\ Reporting(r) /\ Holds(r) /\ kind[r] = "progress"
    BY <1>5, Reports DEF ContentReturns
  <2>2. "disable" \in Places(kind[r])
    BY <2>1 DEF Places
  <2>3. (GoTo(r, "disable", "none") /\ UNCHANGED <<holder, since>>) \/ Finish(r, TRUE) \/ Finish(r, FALSE)
    BY <1>5 DEF ContentReturns
  <2> QED
    BY <1>1, <2>1, <2>2, <2>3, GoesAhead, StopsHere
<1>6. CASE DisableReturns(r, outcome)
  <2>1. pc[r] = "disable" /\ Reporting(r) /\ Holds(r) /\ kind[r] = "progress"
    BY <1>6, Reports DEF DisableReturns
  <2>2. "patch" \in Places(kind[r])
    BY <2>1 DEF Places
  <2>3. GoTo(r, "patch", "return") /\ UNCHANGED <<holder, since>>
    BY <1>6 DEF DisableReturns
  <2> QED
    BY <1>1, <2>1, <2>2, <2>3, GoesAhead
<1>7. CASE ProgressPatched(r, outcome)
  <2>1. pc[r] = "patch" /\ kind[r] = "progress" /\ Reporting(r) /\ Holds(r)
    BY <1>7 DEF ProgressPatched, PatchEnds, Reporting, Holds
  <2>2. EnablePC(using[r]) \in Places(kind[r])
    BY <2>1 DEF Places, EnablePC
  <2>3. \/ GoTo(r, EnablePC(using[r]), "none") /\ UNCHANGED <<holder, since>>
        \/ Finish(r, TRUE) \/ Finish(r, FALSE)
    BY <1>7 DEF ProgressPatched
  <2> QED
    BY <1>1, <2>1, <2>2, <2>3, GoesAhead, StopsHere
<1> QED
  BY <1>2, <1>3, <1>4, <1>5, <1>6, <1>7

LEMMA ObjectOf ==
  ASSUME Base, Shape, NEW r \in Runs, (Reporting(r) /\ pc[r] # "none") \/ pc[r] \in {"lock", "close"}
  PROVE  using[r] \in Streams
<1>1. pc[r] \in NeedStream \/ kind[r] = "progress" => using[r] \in Streams
  BY DEF Base, HasStream
<1>2. kind[r] = "start" /\ pc[r] # "none" => pc[r] \in NeedStream
  BY DEF Shape, SendShape, Places, NeedStream, Ops
<1> QED
  BY <1>1, <1>2 DEF Reporting, NeedStream, Ops

LEMMA GoesKeepsShape ==
  ASSUME Base, Shape, NEW r \in Runs, SendFixed, Goes(r)
  PROVE  Shape'
<1>1. PICK p \in Places(kind[r]), after \in {"none", "enable", "return"} :
        /\ GoTo(r, p, after)
        /\ since' = since
        /\ \/ pc[r] # "lock" /\ Reporting(r) /\ Holds(r) /\ holder' = holder
           \/ pc[r] = "lock" /\ holder[using[r]] = 0 /\ holder' = [holder EXCEPT ![using[r]] = r]
           \/ pc[r] = "lock" /\ kind[r] = "result" /\ p = "patch" /\ holder' = holder
  BY DEF Goes
<1>2. /\ pc' = [pc EXCEPT ![r] = p] /\ seq' = [seq EXCEPT ![r] = 0]
      /\ UNCHANGED <<kind, using>>
  BY <1>1 DEF GoTo, At
<1>3. UNCHANGED <<next, begun, ended, done, reported, current>>
  BY DEF SendFixed
<1>4. /\ pc \in [Runs -> PCs] /\ seq \in [Runs -> 0..MaxSequence] /\ holder \in [Streams -> Runs \cup {0}]
      /\ 0 \notin Runs
  BY DEF Base, Types, SendTypes, ObjectTypes, Runs
<1>5. p \notin {"none", "lock"}
  BY <1>1 DEF Places
<1>6. RunShape'
  BY <1>3 DEF Shape, RunShape
<1>7. SendShape'
  <2>1. ASSUME NEW q \in Runs
        PROVE  /\ kind[q] = "none" <=> pc'[q] = "none"
               /\ pc'[q] # "none" => q <= begun
               /\ pc'[q] \in {"none", "lock"} \cup Places(kind[q])
    <3>1. CASE q = r
      <4>1. pc[r] # "none"
        BY <1>1, <1>4 DEF Holds, Reporting, Shape, SendShape, Ops
      <4> QED
        BY <1>1, <1>2, <1>4, <1>5, <3>1, <4>1 DEF Shape, SendShape
    <3>2. CASE q # r
      BY <1>2, <1>4, <3>2 DEF Shape, SendShape
    <3> QED
      BY <3>1, <3>2
  <2> QED
    BY <1>1, <1>2, <1>3, <2>1 DEF Shape, SendShape, Reporting
<1>8. LockShape'
  <2>1. ASSUME NEW q \in Runs, Holds(q)'
        PROVE  holder'[using'[q]] = q
    <3>1. CASE q = r
      <4>1. using[r] \in Streams
        <5>1. pc[r] = "lock" \/ Holds(r)
          BY <1>1
        <5>2. kind[r] = "none" <=> pc[r] = "none"
          BY DEF Shape, SendShape
        <5> QED
          BY <5>1, <5>2, ObjectOf DEF Holds, Reporting
      <4>2. CASE pc[r] # "lock" /\ Holds(r) /\ holder' = holder
        BY <1>2, <3>1, <4>2 DEF Shape, LockShape
      <4>3. CASE holder' = [holder EXCEPT ![using[r]] = r]
        BY <1>2, <1>4, <3>1, <4>1, <4>3
      <4>4. CASE pc[r] = "lock" /\ kind[r] = "result" /\ p = "patch" /\ holder' = holder
        <5>1. pc'[r] = "patch" /\ kind'[r] = "result"
          BY <1>2, <1>4, <4>4
        <5> QED
          BY <2>1, <3>1, <5>1 DEF Holds, Reporting
      <4> QED
        BY <1>1, <4>2, <4>3, <4>4
    <3>2. CASE q # r
      <4>1. Holds(q) /\ holder[using[q]] = q
        BY <1>2, <1>4, <2>1, <3>2 DEF Holds, Reporting, Shape, LockShape
      <4>2. q # 0
        BY <1>4
      <4>3. CASE holder' = holder
        BY <1>2, <4>1, <4>3
      <4>4. CASE holder[using[r]] = 0 /\ holder' = [holder EXCEPT ![using[r]] = r]
        <5>1. using[q] # using[r]
          BY <4>1, <4>2, <4>4
        <5> QED
          BY <1>2, <4>1, <4>4, <5>1
      <4> QED
        BY <1>1, <4>3, <4>4
    <3> QED
      BY <3>1, <3>2
  <2>2. \A q \in Runs : seq'[q] # 0 => pc'[q] \in Ops /\ next'[using'[q]] = seq'[q] + 1
    BY <1>2, <1>3, <1>4 DEF Shape, LockShape
  <2> QED
    BY <2>1, <2>2 DEF LockShape
<1> QED
  BY <1>6, <1>7, <1>8 DEF Shape

LEMMA StopsKeepsShape ==
  ASSUME Base, Shape, NEW r \in Runs, SendFixed, Stops(r)
  PROVE  Shape'
<1>1. PICK ok \in BOOLEAN : Finish(r, ok)
  BY DEF Stops
<1>2. /\ pc' = [pc EXCEPT ![r] = "none"] /\ seq' = [seq EXCEPT ![r] = 0]
      /\ kind' = [kind EXCEPT ![r] = "none"] /\ using' = [using EXCEPT ![r] = None]
      /\ holder' = IF using[r] = None THEN holder ELSE [holder EXCEPT ![using[r]] = 0]
      /\ since' = IF ok /\ kind[r] = "progress" /\ r \notin ended THEN [since EXCEPT ![r] = {reported[r]}] ELSE since
  BY <1>1 DEF Finish, NoCall, Call, At, Release
<1>3. UNCHANGED <<next, begun, ended, done, reported, current>>
  BY DEF SendFixed
<1>4. /\ pc \in [Runs -> PCs] /\ seq \in [Runs -> 0..MaxSequence] /\ holder \in [Streams -> Runs \cup {0}]
      /\ kind \in [Runs -> {"none", "start", "progress", "result"}] /\ using \in [Runs -> Streams \cup {None}]
      /\ since \in [Runs -> SUBSET (0..MaxVersion)] /\ reported \in [Runs -> 0..MaxVersion] /\ begun \in Nat
      /\ 0 \notin Runs /\ Runs \subseteq Nat
  BY DEF Base, Types, SendTypes, ObjectTypes, RunTypes, Runs
<1>5. RunShape'
  BY <1>3 DEF Shape, RunShape
<1>6. Reporting(r) /\ pc[r] # "none" /\ r <= begun
  BY DEF Stops, Shape, SendShape
<1>7. SendShape'
  <2>1. ASSUME NEW q \in Runs, q # r
        PROVE  /\ pc'[q] = pc[q] /\ kind'[q] = kind[q] /\ using'[q] = using[q] /\ since'[q] = since[q]
    BY <1>2, <1>4, <2>1
  <2>2. /\ pc'[r] = "none" /\ kind'[r] = "none" /\ (r \notin ended => reported[r] \in since'[r])
        /\ r <= begun
    BY <1>2, <1>4, <1>6 DEF Shape, SendShape
  <2>3. ASSUME NEW q \in Runs, q # r
        PROVE  /\ kind'[q] = "none" <=> pc'[q] = "none"
               /\ pc'[q] # "none" => q <= begun'
               /\ pc'[q] \in {"none", "lock"} \cup Places(kind'[q])
               /\ kind'[q] = "start" => q = 1 /\ begun' = 1 /\ q \notin ended' /\ since'[q] = {0}
               /\ kind'[q] = "progress" => q \notin done'
               /\ kind'[q] = "result" => q \in ended' \ done'
               /\ q \notin ended' /\ Reporting(q)' => current' \in {using'[q], None}
               /\ q \notin ended' => reported'[q] \in since'[q]
               /\ q > begun' => since'[q] = {0}
    BY <1>3, <2>1, <2>3 DEF Shape, SendShape, Reporting
  <2> QED
    BY <1>3, <1>4, <2>2, <2>3 DEF SendShape, Reporting
<1>8. LockShape'
  <2>1. ASSUME NEW q \in Runs, Holds(q)'
        PROVE  holder'[using'[q]] = q
    <3>1. q # r
      BY <1>2, <1>4, <2>1 DEF Holds, Reporting
    <3>2. Holds(q) /\ holder[using[q]] = q /\ using'[q] = using[q]
      BY <1>2, <1>4, <2>1, <3>1 DEF Holds, Reporting, Shape, LockShape
    <3>3. holder[using[r]] \in {0, r}
      BY <1>6 DEF Stops, Shape, LockShape, Holds
    <3> QED
      BY <1>2, <1>4, <3>1, <3>2, <3>3
  <2>2. \A q \in Runs : seq'[q] # 0 => pc'[q] \in Ops /\ next'[using'[q]] = seq'[q] + 1
    BY <1>2, <1>3, <1>4 DEF Shape, LockShape
  <2> QED
    BY <2>1, <2>2 DEF LockShape
<1> QED
  BY <1>5, <1>7, <1>8 DEF Shape

\* A call of r begins, goes over to the next step of its kind, or is over.
LEMMA OthersSame ==
  ASSUME Base, NEW r \in Runs, NEW what, NEW s, NEW p, Call(r, what, s, p)
  PROVE  /\ pc'[r] = p /\ kind'[r] = what /\ using'[r] = s /\ seq'[r] = 0
         /\ \A q \in Runs \ {r} : /\ pc'[q] = pc[q] /\ kind'[q] = kind[q] /\ using'[q] = using[q]
                                  /\ seq'[q] = seq[q] /\ (Holds(q)' <=> Holds(q)) /\ (Reporting(q)' <=> Reporting(q))
<1>1. /\ pc \in [Runs -> PCs] /\ seq \in [Runs -> 0..MaxSequence]
      /\ kind \in [Runs -> {"none", "start", "progress", "result"}] /\ using \in [Runs -> Streams \cup {None}]
  BY DEF Base, Types, SendTypes
<1>2. /\ pc'[r] = p /\ kind'[r] = what /\ using'[r] = s /\ seq'[r] = 0
      /\ \A q \in Runs \ {r} : /\ pc'[q] = pc[q] /\ kind'[q] = kind[q] /\ using'[q] = using[q] /\ seq'[q] = seq[q]
  BY <1>1 DEF Call, At
<1> QED
  BY <1>2 DEF Holds, Reporting

\* The object of a Send stays as it is when another Send begins.
LEMMA TaskStreamSpares ==
  ASSUME Base, NEW s \in Streams, TaskStream(s)
  PROVE  /\ current' = s
         /\ current = None => next'[s] = 0 /\ stream'[s] = NoStream /\ \A r \in Runs : using[r] # s
         /\ current # None => s = current /\ UNCHANGED <<stream, next, end>>
         /\ \A t \in Streams \ {s} : next'[t] = next[t] /\ end'[t] = end[t] /\ stream'[t] = stream[t]
         /\ last' = last /\ uses' = uses
<1>1. /\ next \in [Streams -> Nat] /\ end \in [Streams -> 0..MaxSequence] /\ stream \in [Streams -> StreamType]
  BY DEF Base, SequenceInv, SeqTypeOK, Types, ObjectTypes
<1>2. CASE current # None
  BY <1>2 DEF TaskStream, seqVars
<1>3. CASE current = None
  <2>1. /\ s \in Unused /\ current' = s /\ stream' = [stream EXCEPT ![s] = NoStream] /\ Forget({s})
    BY <1>3 DEF TaskStream
  <2> QED
    BY <1>1, <1>3, <2>1 DEF Forget, Unused
<1> QED
  BY <1>2, <1>3

LEMMA BeginKeepsShape ==
  ASSUME Base, Shape, BeginRun
  PROVE  Shape'
<1>1. /\ UNCHANGED <<ended, done, reported, holder, since>>
      /\ begun' = begun + 1 /\ begun < NumRuns /\ 1..begun \subseteq ended
  BY DEF BeginRun
<1>2. /\ begun \in Nat /\ NumRuns \in Nat /\ Runs \subseteq Nat /\ 0 \notin Runs
      /\ since \in [Runs -> SUBSET (0..MaxVersion)] /\ reported \in [Runs -> 0..MaxVersion]
  BY CardStreamAssumption DEF Base, Types, RunTypes, Runs
<1>3. CASE begun = 0
  <2>1. PICK s \in Streams : TaskStream(s) /\ Call(1, "start", s, "lock")
    BY <1>3 DEF BeginRun
  <2>2. 1 \in Runs /\ begun' = 1 /\ ended = {}
    BY <1>1, <1>2, <1>3 DEF Runs, Shape, RunShape
  <2>3. \A q \in Runs : pc[q] = "none" /\ kind[q] = "none" /\ since[q] = {0}
    BY <1>2, <1>3 DEF Shape, SendShape
  <2>4. /\ pc'[1] = "lock" /\ kind'[1] = "start" /\ using'[1] = s /\ seq'[1] = 0
        /\ \A q \in Runs \ {1} : /\ pc'[q] = "none" /\ kind'[q] = "none" /\ seq'[q] = seq[q]
    BY <2>1, <2>2, <2>3, OthersSame
  <2>5. current' = s /\ s # None
    BY <2>1, TaskStreamSpares, CardStreamAssumption
  <2>6. RunShape'
    BY <1>1, <2>2, <2>5 DEF RunShape
  <2>7. SendShape'
    BY <1>1, <1>2, <2>2, <2>3, <2>4, <2>5 DEF SendShape, Shape, Reporting
  <2>8. \A q \in Runs : seq'[q] = 0 /\ ~Holds(q)'
    BY <2>3, <2>4 DEF Holds, Reporting, Shape, LockShape, Ops
  <2>9. LockShape'
    BY <2>8 DEF LockShape
  <2> QED
    BY <2>6, <2>7, <2>9 DEF Shape
<1>4. CASE begun # 0
  <2>1. UNCHANGED <<current, next, pc, kind, using, seq>>
    BY <1>4 DEF BeginRun, sendVars, seqVars
  <2>2. RunShape'
    BY <1>1, <1>2, <1>4, <2>1 DEF Shape, RunShape
  <2>3. 1 \in ended
    BY <1>1, <1>2, <1>4
  <2>4. SendShape'
    <3>1. \A q \in Runs : kind[q] # "start"
      BY <2>3 DEF Shape, SendShape
    <3>2. \A q \in Runs : q <= begun => q <= begun + 1
      BY <1>2
    <3>3. \A q \in Runs : q > begun + 1 => q > begun
      BY <1>2
    <3>4. \A q \in Runs : Reporting(q)' <=> Reporting(q)
      BY <2>1 DEF Reporting
    <3> QED
      BY <1>1, <2>1, <3>1, <3>2, <3>3, <3>4 DEF Shape, SendShape
  <2>5. LockShape'
    BY <1>1, <2>1 DEF Shape, LockShape, Holds, Reporting
  <2> QED
    BY <2>2, <2>4, <2>5 DEF Shape
<1> QED
  BY <1>3, <1>4

LEMMA ProgressKeepsShape ==
  ASSUME Base, Shape, NEW r \in Runs, NEW v \in 1..MaxVersion, Progress(r, v)
  PROVE  Shape'
<1>1. PICK s \in Streams : TaskStream(s) /\ Call(r, "progress", s, "lock")
  BY DEF Progress
<1>2. /\ r = begun /\ r \notin ended /\ pc[r] = "none"
      /\ UNCHANGED <<begun, ended, done, holder>> /\ reported' = [reported EXCEPT ![r] = v]
      /\ since' = [since EXCEPT ![r] = @ \cup {v}]
  BY DEF Progress
<1>3. /\ begun \in Nat /\ Runs \subseteq Nat /\ 0 \notin Runs /\ MaxVersion \in Nat
      /\ since \in [Runs -> SUBSET (0..MaxVersion)] /\ reported \in [Runs -> 0..MaxVersion]
  BY CardStreamAssumption DEF Base, Types, RunTypes, Runs
<1>4. /\ reported'[r] = v /\ v \in since'[r]
      /\ \A q \in Runs \ {r} : reported'[q] = reported[q] /\ since'[q] = since[q]
  BY <1>2, <1>3
<1>5. /\ current' = s /\ s # None
      /\ \A q \in Runs : using[q] \in Streams => next'[using[q]] = next[using[q]]
  BY <1>1, TaskStreamSpares, CardStreamAssumption
<1>6. RunShape'
  BY <1>2, <1>3, <1>5 DEF Shape, RunShape
<1>7. \A q \in Runs \ {r} : q \notin ended => ~Reporting(q)
  BY <1>2, <1>3 DEF Shape, RunShape, SendShape, Reporting
<1>8. SendShape'
  <2>1. /\ pc'[r] = "lock" /\ kind'[r] = "progress" /\ using'[r] = s
        /\ \A q \in Runs \ {r} : pc'[q] = pc[q] /\ kind'[q] = kind[q] /\ (Reporting(q)' <=> Reporting(q))
    BY <1>1, OthersSame
  <2>2. r \notin done
    BY <1>2 DEF Base, Types, RunTypes
  <2>3. ASSUME NEW q \in Runs, q # r
        PROVE  /\ kind'[q] = "none" <=> pc'[q] = "none"
               /\ pc'[q] # "none" => q <= begun'
               /\ pc'[q] \in {"none", "lock"} \cup Places(kind'[q])
               /\ kind'[q] = "start" => q = 1 /\ begun' = 1 /\ q \notin ended' /\ since'[q] = {0}
               /\ kind'[q] = "progress" => q \notin done'
               /\ kind'[q] = "result" => q \in ended' \ done'
               /\ q \notin ended' /\ Reporting(q)' => current' \in {using'[q], None}
               /\ q \notin ended' => reported'[q] \in since'[q]
               /\ q > begun' => since'[q] = {0}
    BY <1>2, <1>4, <1>7, <2>1, <2>3 DEF Shape, SendShape
  <2>4. r <= begun' /\ reported'[r] \in since'[r] /\ ~(r > begun')
    BY <1>2, <1>3, <1>4
  <2> QED
    BY <1>2, <1>5, <2>1, <2>2, <2>3, <2>4 DEF SendShape
<1>9. LockShape'
  <2>1. ~Holds(r)' /\ seq'[r] = 0 /\ \A q \in Runs \ {r} :
             using'[q] = using[q] /\ pc'[q] = pc[q] /\ seq'[q] = seq[q] /\ (Holds(q)' <=> Holds(q))
    BY <1>1, OthersSame DEF Holds, Reporting
  <2>2. ASSUME NEW q \in Runs, q # r, seq[q] # 0
        PROVE  next'[using[q]] = seq[q] + 1
    BY <1>5, <2>2 DEF Shape, LockShape, Base, HasStream, NeedStream
  <2> QED
    BY <1>2, <2>1, <2>2 DEF Shape, LockShape
<1> QED
  BY <1>6, <1>8, <1>9 DEF Shape

LEMMA ResultKeepsShape ==
  ASSUME Base, Shape, NEW r \in Runs, Result(r)
  PROVE  Shape'
<1>1. /\ r \in ended \ done /\ pc[r] = "none" /\ current' = None
      /\ Call(r, "result", current, IF current = None THEN "patch" ELSE "lock")
      /\ UNCHANGED <<next, holder, begun, ended, done, since>>
      /\ \A q \in Runs \ {r} : reported'[q] = reported[q]
  BY DEF Result, seqVars, Base, Types, RunTypes
<1>2. /\ pc'[r] \in {"patch", "lock"} /\ kind'[r] = "result" /\ seq'[r] = 0
      /\ \A q \in Runs \ {r} : /\ pc'[q] = pc[q] /\ kind'[q] = kind[q] /\ using'[q] = using[q]
                               /\ seq'[q] = seq[q] /\ (Holds(q)' <=> Holds(q)) /\ (Reporting(q)' <=> Reporting(q))
  BY <1>1, OthersSame
<1>3. begun \in Nat /\ Runs \subseteq Nat /\ ended \subseteq 1..begun /\ r <= begun
  BY <1>1 DEF Base, Types, RunTypes, Runs, Shape, RunShape
<1>4. RunShape'
  BY <1>1, <1>3 DEF Shape, RunShape
<1>5. SendShape'
  <2>1. kind[r] = "none"
    BY <1>1 DEF Shape, SendShape
  <2>2. {"patch", "lock"} \subseteq {"none", "lock"} \cup Places("result")
    BY DEF Places
  <2>3. ASSUME NEW q \in Runs, q # r
        PROVE  /\ kind'[q] = "none" <=> pc'[q] = "none"
               /\ pc'[q] # "none" => q <= begun'
               /\ pc'[q] \in {"none", "lock"} \cup Places(kind'[q])
               /\ kind'[q] = "start" => q = 1 /\ begun' = 1 /\ q \notin ended' /\ since'[q] = {0}
               /\ kind'[q] = "progress" => q \notin done'
               /\ kind'[q] = "result" => q \in ended' \ done'
               /\ q \notin ended' /\ Reporting(q)' => current' \in {using'[q], None}
               /\ q \notin ended' => reported'[q] \in since'[q]
               /\ q > begun' => since'[q] = {0}
    BY <1>1, <1>2, <2>3 DEF Shape, SendShape
  <2>4. r > begun' => since'[r] = {0}
    BY <1>1 DEF Shape, SendShape
  <2> QED
    BY <1>1, <1>2, <1>3, <2>1, <2>2, <2>3, <2>4 DEF SendShape
<1>6. LockShape'
  BY <1>1, <1>2 DEF Shape, LockShape, Holds, Reporting
<1> QED
  BY <1>4, <1>5, <1>6 DEF Shape

LEMMA EndKeepsShape ==
  ASSUME Base, Shape, NEW r \in Runs, EndRun(r)
  PROVE  Shape'
<1>1. /\ r = begun /\ kind[r] # "start" /\ ended' = ended \cup {r}
      /\ UNCHANGED <<next, current, holder, begun, done, reported, pc, kind, using, seq>>
      /\ \A q \in Runs \ {r} : since'[q] = since[q]
  BY DEF EndRun, seqVars, sendVars, Base, Types, RunTypes
<1>2. begun \in Nat /\ r \in 1..begun
  BY <1>1 DEF Base, Types, RunTypes, Runs
<1>3. RunShape'
  BY <1>1, <1>2 DEF Shape, RunShape
<1>4. SendShape'
  <2>1. \A q \in Runs : kind[q] = "start" => q # r
    BY <1>1
  <2>2. \A q \in Runs : Reporting(q)' <=> Reporting(q)
    BY <1>1 DEF Reporting
  <2> QED
    BY <1>1, <1>2, <2>1, <2>2 DEF Shape, SendShape
<1>5. LockShape'
  BY <1>1 DEF Shape, LockShape, Holds, Reporting
<1> QED
  BY <1>3, <1>4, <1>5 DEF Shape

LEMMA CrashKeepsShape ==
  ASSUME Base, Shape, Crash
  PROVE  Shape'
<1>1. /\ current' = None /\ ended' = 1..begun /\ done' = 1..begun /\ UNCHANGED <<begun, reported>>
      /\ since' = [q \in Runs |-> IF q <= begun THEN {} ELSE since[q]]
      /\ pc' = [q \in Runs |-> "none"] /\ kind' = [q \in Runs |-> "none"]
      /\ seq' = [q \in Runs |-> 0]
  BY DEF Crash
<1>2. begun \in Nat /\ Runs \subseteq Nat \ {0} /\ \A q \in Runs : q > begun => q \notin ended
  BY CardStreamAssumption DEF Base, Types, RunTypes, Runs, Shape, RunShape
<1>3. RunShape'
  BY <1>1, <1>2 DEF RunShape
<1>4. SendShape'
  <2>1. \A q \in Runs : q > begun => since'[q] = since[q] /\ since'[q] = {0} /\ reported[q] \in since[q]
    BY <1>1, <1>2 DEF Shape, SendShape
  <2>2. \A q \in Runs : q \notin ended' => q > begun
    BY <1>1, <1>2
  <2> QED
    BY <1>1, <2>1, <2>2 DEF SendShape, Reporting
<1>5. LockShape'
  BY <1>1 DEF LockShape, Holds, Reporting
<1> QED
  BY <1>3, <1>4, <1>5 DEF Shape

LEMMA ProcessKeepsShape ==
  ASSUME Base, Shape, NEW q \in requests, NEW refused \in BOOLEAN, Process(q, refused)
  PROVE  Shape'
<1>1. UNCHANGED <<next, current, holder, pc, kind, using, seq, begun, ended, done, reported, since>>
  BY DEF Process, seqVars, runsVars
<1> QED
  BY <1>1 DEF Shape, RunShape, SendShape, LockShape, Reporting, Holds

LEMMA PatchAppliesKeepsShape ==
  ASSUME Base, Shape, NEW r \in Runs, PatchApplies(r)
  PROVE  Shape'
<1>1. UNCHANGED <<next, current, holder, pc, kind, using, seq, begun, ended, done, reported, since>>
  BY DEF PatchApplies, seqVars, runsVars
<1> QED
  BY <1>1 DEF Shape, RunShape, SendShape, LockShape, Reporting, Holds

LEMMA LateKeepsShape ==
  ASSUME Base, Shape,
         (\E r \in Runs : AttemptTimesOut(r)) \/ \E p \in late : PatchLate(p)
  PROVE  Shape'
<1>1. UNCHANGED <<next, current, holder, pc, kind, using, seq, begun, ended, done, reported, since>>
  BY DEF AttemptTimesOut, PatchLate, sendVars, seqVars, runsVars
<1> QED
  BY <1>1 DEF Shape, RunShape, SendShape, LockShape, Reporting, Holds

LEMMA IssueKeepsShape ==
  ASSUME Base, Shape, NEW r \in Runs, Issue(r)
  PROVE  Shape'
<1>1. PICK n \in 1..MaxSequence : Take(using[r], n) /\ seq' = [seq EXCEPT ![r] = n]
  BY DEF Issue
<1>2. /\ pc[r] \in Ops /\ seq[r] = 0
      /\ UNCHANGED <<current, holder, pc, kind, using, begun, ended, done, reported, since>>
  BY DEF Issue, runsVars
<1>3. /\ seq \in [Runs -> 0..MaxSequence] /\ next \in [Streams -> Nat] /\ MaxSequence \in Nat
      /\ next' = [next EXCEPT ![using[r]] = n + 1]
  BY <1>1, StreamSequenceAssumption DEF Base, Types, SendTypes, SequenceInv, SeqTypeOK, Take
<1>4. \A q \in Runs : pc[q] \in Ops => Holds(q) /\ using[q] \in Streams /\ holder[using[q]] = q
  BY Reports, ObjectOf DEF Ops, Shape, LockShape, Holds
<1>5. RunShape' /\ SendShape'
  BY <1>2 DEF Shape, RunShape, SendShape, Reporting
<1>6. LockShape'
  <2>1. ASSUME NEW q \in Runs, seq'[q] # 0
        PROVE  pc[q] \in Ops /\ next'[using[q]] = seq'[q] + 1
    <3>1. CASE q = r
      BY <1>1, <1>2, <1>3, <1>4, <3>1
    <3>2. CASE q # r
      <4>1. seq[q] # 0 /\ seq'[q] = seq[q] /\ pc[q] \in Ops /\ next[using[q]] = seq[q] + 1
        BY <1>1, <1>3, <2>1, <3>2 DEF Shape, LockShape
      <4>2. using[q] # using[r]
        BY <1>2, <1>4, <3>2, <4>1
      <4> QED
        BY <1>3, <1>4, <4>1, <4>2
    <3> QED
      BY <3>1, <3>2
  <2>2. \A q \in Runs : Holds(q)' <=> Holds(q)
    BY <1>2 DEF Holds, Reporting
  <2> QED
    BY <1>2, <2>1, <2>2 DEF Shape, LockShape
<1> QED
  BY <1>5, <1>6 DEF Shape

LEMMA CloseKeepsShape ==
  ASSUME Base, Shape, NEW r \in Runs, NEW outcome, CloseReturns(r, outcome)
  PROVE  Shape'
<1>1. /\ pc[r] = "close" /\ Call(r, "result", None, "patch") /\ Release(r)
      /\ UNCHANGED <<next, current, begun, ended, done, reported, since>>
  BY FixedBySend DEF CloseReturns, SendFixed
<1>2. /\ pc'[r] = "patch" /\ kind'[r] = "result" /\ seq'[r] = 0
      /\ \A q \in Runs \ {r} : /\ pc'[q] = pc[q] /\ kind'[q] = kind[q] /\ using'[q] = using[q]
                               /\ seq'[q] = seq[q] /\ (Holds(q)' <=> Holds(q)) /\ (Reporting(q)' <=> Reporting(q))
  BY <1>1, OthersSame
<1>3. kind[r] = "result" /\ holder[using[r]] = r /\ holder \in [Streams -> Runs \cup {0}] /\ using[r] \in Streams
  BY <1>1, Reports, ObjectOf DEF Shape, LockShape, Holds, Base, Types, ObjectTypes
<1>4. RunShape'
  BY <1>1 DEF Shape, RunShape
<1>5. SendShape'
  <2>1. "patch" \in Places("result")
    BY DEF Places
  <2>2. ASSUME NEW q \in Runs, q # r
        PROVE  /\ kind'[q] = "none" <=> pc'[q] = "none"
               /\ pc'[q] # "none" => q <= begun'
               /\ pc'[q] \in {"none", "lock"} \cup Places(kind'[q])
               /\ kind'[q] = "start" => q = 1 /\ begun' = 1 /\ q \notin ended' /\ since'[q] = {0}
               /\ kind'[q] = "progress" => q \notin done'
               /\ kind'[q] = "result" => q \in ended' \ done'
               /\ q \notin ended' /\ Reporting(q)' => current' \in {using'[q], None}
               /\ q \notin ended' => reported'[q] \in since'[q]
               /\ q > begun' => since'[q] = {0}
    BY <1>1, <1>2, <2>2 DEF Shape, SendShape
  <2>3. /\ r <= begun /\ r \in ended \ done /\ (r > begun => since[r] = {0})
    BY <1>1, <1>3 DEF Shape, SendShape
  <2> QED
    BY <1>1, <1>2, <2>1, <2>2, <2>3 DEF SendShape, Reporting
<1>6. LockShape'
  <2>1. ~Holds(r)'
    BY <1>2 DEF Holds, Reporting
  <2>2. ASSUME NEW q \in Runs, q # r, Holds(q)
        PROVE  holder'[using[q]] = q
    <3>1. holder[using[q]] = q
      BY <2>2 DEF Shape, LockShape
    <3>2. holder' = [holder EXCEPT ![using[r]] = 0] \/ holder' = holder
      BY <1>1 DEF Release
    <3>3. using[q] \in Streams
      <4>1. kind[q] = "none" <=> pc[q] = "none"
        BY DEF Shape, SendShape
      <4> QED
        BY <2>2, <4>1, ObjectOf DEF Holds, Reporting
    <3> QED
      BY <1>3, <2>2, <3>1, <3>2, <3>3
  <2> QED
    BY <1>1, <1>2, <2>1, <2>2 DEF Shape, LockShape
<1> QED
  BY <1>4, <1>5, <1>6 DEF Shape

LEMMA ResultPatchedKeepsShape ==
  ASSUME Base, Shape, NEW r \in Runs, NEW outcome, ResultPatched(r, outcome)
  PROVE  Shape'
<1>1. /\ pc[r] = "patch" /\ kind[r] = "result" /\ Call(r, "none", None, "none") /\ (done' = done \/ done' = done \cup {r})
      /\ UNCHANGED <<next, current, holder, begun, ended, reported, since>>
  BY DEF ResultPatched, PatchEnds, NoCall, seqVars
<1>2. /\ pc'[r] = "none" /\ kind'[r] = "none" /\ seq'[r] = 0
      /\ \A q \in Runs \ {r} : /\ pc'[q] = pc[q] /\ kind'[q] = kind[q] /\ using'[q] = using[q]
                               /\ seq'[q] = seq[q] /\ (Holds(q)' <=> Holds(q)) /\ (Reporting(q)' <=> Reporting(q))
  BY <1>1, OthersSame
<1>3. RunShape'
  BY <1>1 DEF Shape, RunShape
<1>4. SendShape'
  <2>2. ASSUME NEW q \in Runs, q # r
        PROVE  /\ kind'[q] = "none" <=> pc'[q] = "none"
               /\ pc'[q] # "none" => q <= begun'
               /\ pc'[q] \in {"none", "lock"} \cup Places(kind'[q])
               /\ kind'[q] = "start" => q = 1 /\ begun' = 1 /\ q \notin ended' /\ since'[q] = {0}
               /\ kind'[q] = "progress" => q \notin done'
               /\ kind'[q] = "result" => q \in ended' \ done'
               /\ q \notin ended' /\ Reporting(q)' => current' \in {using'[q], None}
               /\ q \notin ended' => reported'[q] \in since'[q]
               /\ q > begun' => since'[q] = {0}
    BY <1>1, <1>2, <2>2 DEF Shape, SendShape
  <2>3. (r \notin ended' => reported'[r] \in since'[r]) /\ (r > begun' => since'[r] = {0})
    BY <1>1 DEF Shape, SendShape
  <2> QED
    BY <1>1, <1>2, <2>2, <2>3 DEF SendShape, Reporting
<1>5. LockShape'
  BY <1>1, <1>2 DEF Shape, LockShape, Holds, Reporting
<1> QED
  BY <1>3, <1>4, <1>5 DEF Shape

LEMMA StepKeepsShape ==
  ASSUME Base, Shape, [Next]_vars
  PROVE  Shape'
<1>1. CASE UNCHANGED vars
  <2>1. UNCHANGED <<next, current, holder, begun, ended, done, reported, since>>
    BY <1>1 DEF vars, runsVars, seqVars
  <2>2. UNCHANGED <<pc, kind, using, seq>>
    BY <1>1 DEF vars, sendVars
  <2> QED
    BY <2>1, <2>2 DEF Shape, RunShape, SendShape, LockShape, Reporting, Holds
<1>2. ASSUME NEW r \in Runs, Send(r)
      PROVE  Shape'
  <2>1. CASE Lock(r)
    BY <2>1, LockCase, GoesKeepsShape, StopsKeepsShape
  <2>2. ASSUME NEW outcome \in Outcomes,
               \/ ResolveReturns(r, outcome) \/ EnableReturns(r, outcome) \/ PauseReturns(r, outcome)
               \/ ContentReturns(r, outcome) \/ DisableReturns(r, outcome) \/ ProgressPatched(r, outcome)
        PROVE  Shape'
    BY <2>2, ReturnCases, GoesKeepsShape, StopsKeepsShape
  <2>3. ASSUME NEW outcome \in Outcomes, CloseReturns(r, outcome) \/ ResultPatched(r, outcome)
        PROVE  Shape'
    BY <2>3, CloseKeepsShape, ResultPatchedKeepsShape
  <2> QED
    BY <1>2, <2>1, <2>2, <2>3, IssueKeepsShape, PatchAppliesKeepsShape, LateKeepsShape DEF Send
<1> QED
  BY <1>1, <1>2, BeginKeepsShape, ProgressKeepsShape, ResultKeepsShape, EndKeepsShape, CrashKeepsShape,
     ProcessKeepsShape, LateKeepsShape DEF Next

LEMMA InitShape == Init => Shape
<1>1. SUFFICES ASSUME Init PROVE Shape
  OBVIOUS
<1>2. RunShape
  BY <1>1 DEF Init, RunShape
<1>3. SendShape
  BY <1>1 DEF Init, SendShape, Reporting
<1>4. LockShape
  BY <1>1 DEF Init, LockShape, Holds, Reporting
<1> QED
  BY <1>2, <1>3, <1>4 DEF Shape

\* A Send is where its kind and its object allow, one run reports after the other,
\* and who holds the lock of an object is alone in taking numbers from it.
THEOREM SendsKeepShape == Spec => [](Base /\ Shape)
<1>1. Spec => []Types
  BY InitTypes, StepKeepsTypes, PTL DEF Spec
<1>2. Spec => []SequenceInv
  BY StreamsFollowSequence, SequenceInvariant, PTL
<1>3. Spec => []HasStream
  <2>1. Init => HasStream
    BY DEF Init, HasStream, NeedStream, Ops
  <2>2. HasStream /\ [Next]_vars => HasStream'
    BY StepFollows
  <2> QED
    BY <2>1, <2>2, PTL DEF Spec
<1>4. Base /\ Shape /\ [Next]_vars => Shape'
  BY StepKeepsShape
<1>5. Types /\ SequenceInv /\ HasStream => Base
  BY DEF Base
<1> QED
  BY <1>1, <1>2, <1>3, <1>4, <1>5, InitShape, PTL DEF Spec

-----------------------------------------------------------------------------
(* Activations and the numbers above them *)

\* The object of the run in progress.
Front(s) == s = current \/ \E r \in Runs \ ended : Reporting(r) /\ using[r] = s

\* Numbers used that lie above the block of s: out of later blocks.
Above(s) == {n \in 1..MaxSequence : uses[n] > 0 /\ n > end[s]}

\* Results that may still take a number to close the stream of another object.
Pending(s) == {q \in Runs : kind[q] = "result" /\ pc[q] \in {"lock", "close"} /\ seq[q] = 0 /\ using[q] # s}

\* Every run that is over takes one number at most past the object in use.
FewAbove(s) == next[s] # 0 => Cardinality(Above(s)) + Cardinality(Pending(s)) <= Cardinality(ended)

OvertakenByClosing == \A s \in Streams : Front(s) => FewAbove(s)

LEMMA Counts ==
  ASSUME Base, Shape, NEW s
  PROVE  /\ IsFiniteSet(Above(s)) /\ Cardinality(Above(s)) \in Nat
         /\ IsFiniteSet(Pending(s)) /\ Cardinality(Pending(s)) \in Nat
         /\ IsFiniteSet(ended) /\ Cardinality(ended) \in Nat
         /\ Cardinality(Pending(s)) <= Cardinality(ended)
<1>1. MaxSequence \in Nat /\ NumRuns \in Nat /\ ended \in SUBSET (1..NumRuns)
  BY StreamSequenceAssumption, CardStreamAssumption DEF Base, Types, RunTypes, Runs
<1>2. IsFiniteSet(1..MaxSequence) /\ IsFiniteSet(1..NumRuns)
  BY <1>1, FS_Interval
<1>3. IsFiniteSet(ended)
  BY <1>1, <1>2, FS_Subset
<1>4. Above(s) \in SUBSET (1..MaxSequence)
  BY DEF Above
<1>5. Pending(s) \in SUBSET ended
  BY DEF Pending, Shape, SendShape
<1>6. IsFiniteSet(Above(s)) /\ IsFiniteSet(Pending(s)) /\ Cardinality(Pending(s)) <= Cardinality(ended)
  BY <1>2, <1>3, <1>4, <1>5, FS_Subset
<1> QED
  BY <1>3, <1>6, FS_CardinalityType

Counted(s) ==
  /\ Cardinality(Above(s)) \in Nat /\ Cardinality(Pending(s)) \in Nat
  /\ IsFiniteSet(ended) /\ Cardinality(ended) \in Nat
  /\ Cardinality(Pending(s)) <= Cardinality(ended)

LEMMA CountsNext ==
  ASSUME NEW s
  PROVE  (Base /\ Shape => Counted(s))'
<1>1. Base /\ Shape => Counted(s)
  BY Counts DEF Counted
<1> QED
  BY <1>1, PTL

LEMMA FewerAbove ==
  ASSUME Base, Base', Shape, Shape', NEW s, next[s] # 0, FewAbove(s),
         Above(s)' \subseteq Above(s), Pending(s)' \subseteq Pending(s), ended \subseteq ended'
  PROVE  FewAbove(s)'
<1>1. /\ IsFiniteSet(Above(s)) /\ Cardinality(Above(s)) \in Nat
      /\ IsFiniteSet(Pending(s)) /\ Cardinality(Pending(s)) \in Nat
      /\ Cardinality(ended) \in Nat
  BY Counts
<1>2. /\ Cardinality(Above(s)') \in Nat /\ Cardinality(Pending(s)') \in Nat
      /\ IsFiniteSet(ended') /\ Cardinality(ended') \in Nat
  BY CountsNext DEF Counted
<1>3. /\ Cardinality(Above(s)') <= Cardinality(Above(s)) /\ Cardinality(Pending(s)') <= Cardinality(Pending(s))
      /\ Cardinality(ended) <= Cardinality(ended')
  BY <1>1, <1>2, FS_Subset
<1>4. Cardinality(Above(s)) + Cardinality(Pending(s)) <= Cardinality(ended)
  BY DEF FewAbove
<1>5. Cardinality(Above(s)') + Cardinality(Pending(s)') <= Cardinality(ended')
  BY <1>1, <1>2, <1>3, <1>4
<1> QED
  BY <1>5 DEF FewAbove

\* A step that takes no number, brings no object to the front and leaves no new
\* result pending.
Quiet ==
  /\ UNCHANGED <<next, end, uses>> /\ ended \subseteq ended'
  /\ \A s \in Streams : Front(s)' => Front(s) /\ Pending(s)' \subseteq Pending(s)

LEMMA QuietKeeps ==
  ASSUME Base, Base', Shape, Shape', OvertakenByClosing, Quiet
  PROVE  OvertakenByClosing'
<1>1. SUFFICES ASSUME NEW s \in Streams, Front(s)' PROVE FewAbove(s)'
  BY DEF OvertakenByClosing
<1>2. Front(s) /\ FewAbove(s) /\ Pending(s)' \subseteq Pending(s)
  BY <1>1 DEF Quiet, OvertakenByClosing
<1>3. Above(s)' \subseteq Above(s)
  BY DEF Above, Quiet
<1>4. CASE next[s] = 0
  BY <1>4 DEF FewAbove, Quiet
<1>5. CASE next[s] # 0
  BY <1>2, <1>3, <1>5, FewerAbove DEF Quiet
<1> QED
  BY <1>4, <1>5

\* The other Sends as they are, r's no more a result than before.
LEMMA QuietSend ==
  ASSUME Base, Shape, NEW r \in Runs, UNCHANGED <<next, end, uses>>, ended' = ended, current' = current,
         \A q \in Runs \ {r} : pc'[q] = pc[q] /\ kind'[q] = kind[q] /\ using'[q] = using[q] /\ seq'[q] = seq[q],
         \/ kind'[r] = "none"
         \/ kind'[r] = kind[r] /\ using'[r] = using[r] /\ (kind[r] = "result" => pc[r] = "lock")
         \/ kind'[r] = "result" /\ pc'[r] = "patch"
  PROVE  Quiet
<1>1. ASSUME NEW s \in Streams, Front(s)'
      PROVE  Front(s)
  <2>1. CASE s = current'
    BY <2>1 DEF Front
  <2>2. CASE s # current'
    <3>1. PICK q \in Runs \ ended : Reporting(q)' /\ using'[q] = s
      BY <1>1, <2>2 DEF Front
    <3>2. Reporting(q) /\ using[q] = s
      BY <3>1 DEF Reporting
    <3> QED
      BY <3>2 DEF Front
  <2> QED
    BY <2>1, <2>2
<1>2. ASSUME NEW s \in Streams, NEW q \in Pending(s)'
      PROVE  q \in Pending(s)
  <2>1. q \in Runs /\ kind'[q] = "result" /\ pc'[q] \in {"lock", "close"} /\ seq'[q] = 0 /\ using'[q] # s
    BY DEF Pending
  <2>2. CASE q = r
    <3>1. kind[r] = "result" /\ pc[r] = "lock" /\ using'[r] = using[r]
      BY <2>1, <2>2
    <3>2. seq[r] = 0
      BY <3>1 DEF Shape, LockShape, Ops
    <3> QED
      BY <2>1, <2>2, <3>1, <3>2 DEF Pending
  <2>3. CASE q # r
    BY <2>1, <2>3 DEF Pending
  <2> QED
    BY <2>2, <2>3
<1> QED
  BY <1>1, <1>2 DEF Quiet

LEMMA GoesIsQuiet ==
  ASSUME Base, Shape, NEW r \in Runs, SendFixed, Goes(r)
  PROVE  Quiet
<1>1. PICK p, after : GoTo(r, p, after) /\ (kind[r] = "result" => pc[r] = "lock")
  BY DEF Goes, Reporting
<1>2. /\ kind' = kind /\ using' = using
      /\ \A q \in Runs \ {r} : pc'[q] = pc[q] /\ seq'[q] = seq[q]
  BY <1>1 DEF GoTo, At, Base, Types, SendTypes
<1> QED
  BY <1>1, <1>2, QuietSend DEF SendFixed

LEMMA StopsIsQuiet ==
  ASSUME Base, Shape, NEW r \in Runs, SendFixed, Stops(r)
  PROVE  Quiet
<1>1. Call(r, "none", None, "none")
  BY DEF Stops, Finish, NoCall
<1> QED
  BY <1>1, OthersSame, QuietSend DEF SendFixed

OneReports == \A m \in Runs \ ended : Reporting(m) => m = begun

LEMMA OneReportsNow ==
  ASSUME Base, Shape
  PROVE  OneReports
<1>1. SUFFICES ASSUME NEW m \in Runs, m \notin ended, Reporting(m)
      PROVE  m = begun
  BY DEF OneReports
<1>2. (kind[m] = "none" <=> pc[m] = "none") /\ (pc[m] # "none" => m <= begun) /\ 1..(begun - 1) \subseteq ended
  BY DEF Shape, SendShape, RunShape
<1>3. m \in Nat /\ m >= 1 /\ begun \in Nat
  BY DEF Base, Types, RunTypes, Runs
<1> QED
  BY <1>1, <1>2, <1>3 DEF Reporting

LEMMA OneReportsNext ==
  (Base /\ Shape => OneReports)'
<1>1. Base /\ Shape => OneReports
  BY OneReportsNow
<1> QED
  BY <1>1, PTL

LEMMA TaskStreamFront ==
  ASSUME Base, Base', Shape, Shape', OvertakenByClosing, NEW s \in Streams, NEW r \in Runs,
         TaskStream(s), r = begun', r \notin ended, kind[r] = "none", ended' = ended,
         \A q \in Runs \ {r} : pc'[q] = pc[q] /\ kind'[q] = kind[q] /\ using'[q] = using[q] /\ seq'[q] = seq[q],
         kind'[r] \in {"start", "progress"}, using'[r] = s
  PROVE  OvertakenByClosing'
<1>1. SUFFICES ASSUME NEW t \in Streams, Front(t)' PROVE FewAbove(t)'
  BY DEF OvertakenByClosing
<1>2. current' = s
  BY TaskStreamSpares
<1>3. \A q \in Runs \ ended : Reporting(q)' => q = r
  BY OneReportsNext DEF OneReports
<1>4. t = s
  BY <1>1, <1>2, <1>3 DEF Front
<1>5. CASE current = None
  BY <1>4, <1>5, TaskStreamSpares DEF FewAbove
<1>6. CASE current # None
  <2>1. s = current /\ UNCHANGED <<next, end, uses>>
    BY <1>6, TaskStreamSpares
  <2>2. FewAbove(s)
    BY <2>1 DEF Front, OvertakenByClosing
  <2>3. Above(s)' \subseteq Above(s) /\ Pending(s)' \subseteq Pending(s)
    <3>1. Above(s)' \subseteq Above(s)
      BY <2>1 DEF Above
    <3>2. ASSUME NEW q \in Pending(s)'
          PROVE  q \in Pending(s)
      <4>1. q \in Runs /\ kind'[q] = "result" /\ pc'[q] \in {"lock", "close"} /\ seq'[q] = 0 /\ using'[q] # s
        BY DEF Pending
      <4>2. q # r
        BY <4>1
      <4> QED
        BY <4>1, <4>2 DEF Pending
    <3> QED
      BY <3>1, <3>2
  <2>4. CASE next[s] = 0
    BY <1>4, <2>1, <2>4 DEF FewAbove
  <2>5. CASE next[s] # 0
    BY <1>4, <2>2, <2>3, <2>5, FewerAbove
  <2> QED
    BY <2>4, <2>5
<1> QED
  BY <1>5, <1>6

\* A number out of the block of s does not lie above it, and a new block leaves
\* nothing above.  Any other number is the one of a pending result.
LEMMA IssueKeepsFew ==
  ASSUME Base, Base', Shape, Shape', OvertakenByClosing, NEW r \in Runs, Issue(r)
  PROVE  OvertakenByClosing'
<1>1. PICK n \in 1..MaxSequence : Take(using[r], n) /\ seq' = [seq EXCEPT ![r] = n]
  BY DEF Issue
<1>2. /\ pc[r] \in Ops /\ seq[r] = 0 /\ ~Canceled(r)
      /\ UNCHANGED <<current, pc, kind, using, ended>>
  BY DEF Issue, runsVars
<1>3. /\ seq \in [Runs -> 0..MaxSequence] /\ next \in [Streams -> Nat] /\ MaxSequence \in Nat
      /\ end \in [Streams -> 0..MaxSequence] /\ uses \in [1..MaxSequence -> Nat] /\ BlockSize \in Nat \ {0}
      /\ next' = [next EXCEPT ![using[r]] = n + 1] /\ uses' = [uses EXCEPT ![n] = @ + 1]
  BY <1>1, StreamSequenceAssumption DEF Base, Types, SendTypes, SequenceInv, SeqTypeOK, Take
<1>4. using[r] \in Streams
  BY <1>2 DEF Base, HasStream, NeedStream
<1>5. SUFFICES ASSUME NEW s \in Streams, Front(s)' PROVE FewAbove(s)'
  BY DEF OvertakenByClosing
<1>6. Front(s) /\ FewAbove(s)
  BY <1>2, <1>5 DEF Front, Reporting, OvertakenByClosing
<1>7. \A q \in Runs : q # r => seq'[q] = seq[q]
  BY <1>1, <1>3
<1>8. Pending(s)' \subseteq Pending(s)
  <2>1. seq'[r] # 0
    BY <1>1, <1>3
  <2> QED
    BY <1>2, <1>7, <2>1 DEF Pending
<1>9. CASE using[r] = s /\ ~NeedsBlock(s)
  <2>1. n = next[s] /\ n <= end[s] /\ end' = end /\ next[s] # 0
    BY <1>1, <1>3, <1>9 DEF Take, NeedsBlock
  <2>2. Above(s)' \subseteq Above(s)
    BY <1>3, <2>1 DEF Above
  <2> QED
    BY <1>2, <1>6, <1>8, <2>1, <2>2, FewerAbove
<1>10. CASE using[r] = s /\ NeedsBlock(s)
  <2>1. end'[s] = last'
    BY <1>1, <1>3, <1>10 DEF Take
  <2>2. \A m \in 1..MaxSequence : uses'[m] > 0 => m <= last'
    BY DEF Base, SequenceInv
  <2>3. last' \in Nat
    BY DEF Base, SequenceInv, SeqTypeOK
  <2>4. Above(s)' = {}
    BY <1>3, <2>1, <2>2, <2>3 DEF Above
  <2>5. Cardinality(Above(s)') = 0
    BY <2>4, FS_EmptySet
  <2>6. Counted(s)'
    BY CountsNext
  <2> QED
    BY <2>5, <2>6 DEF FewAbove, Counted
<1>11. CASE using[r] # s
  <2>1. end'[s] = end[s] /\ next'[s] = next[s]
    BY <1>1, <1>3, <1>11 DEF Take
  <2>2. CASE next[s] = 0
    BY <2>1, <2>2 DEF FewAbove
  <2>3. CASE next[s] # 0
    <3>1. kind[r] = "result"
      <4>1. kind[r] \in {"start", "progress", "result"}
        BY <1>2 DEF Base, Types, SendTypes, Shape, SendShape, Ops
      <4>2. ASSUME Reporting(r) PROVE FALSE
        <5>1. r \notin ended
          BY <1>2, <4>2 DEF Canceled, Reporting, Shape, SendShape
        <5>2. current \in {using[r], None}
          BY <4>2, <5>1 DEF Shape, SendShape
        <5>3. s # current
          BY <1>11, <5>2, CardStreamAssumption
        <5>4. PICK q \in Runs \ ended : Reporting(q) /\ using[q] = s
          BY <1>6, <5>3 DEF Front
        <5>5. \A m \in Runs \ ended : Reporting(m) => m = begun
          BY OneReportsNow DEF OneReports
        <5> QED
          BY <1>11, <4>2, <5>1, <5>4, <5>5
      <4> QED
        BY <4>1, <4>2 DEF Reporting
    <3>2. r \in Pending(s) /\ r \notin Pending(s)'
      <4>1. pc[r] = "close"
        BY <1>2, <3>1 DEF Shape, SendShape, Places, Ops
      <4>2. seq'[r] # 0
        BY <1>1, <1>3
      <4> QED
        BY <1>2, <1>11, <3>1, <4>1, <4>2 DEF Pending
    <3>3. Above(s)' \subseteq Above(s) \cup {n}
      BY <1>3, <2>1 DEF Above
    <3>4. Pending(s)' \subseteq Pending(s) \ {r}
      BY <1>8, <3>2
    <3>5. /\ IsFiniteSet(Above(s)) /\ Cardinality(Above(s)) \in Nat
          /\ IsFiniteSet(Pending(s)) /\ Cardinality(Pending(s)) \in Nat
          /\ Cardinality(ended) \in Nat
      BY Counts
    <3>6. IsFiniteSet(Above(s) \cup {n}) /\ Cardinality(Above(s) \cup {n}) <= Cardinality(Above(s)) + 1
      <4>1. /\ IsFiniteSet(Above(s) \cup {n})
            /\ Cardinality(Above(s) \cup {n}) = IF n \in Above(s) THEN Cardinality(Above(s)) ELSE Cardinality(Above(s)) + 1
        BY <3>5, FS_AddElement
      <4> QED
        BY <3>5, <4>1
    <3>7. IsFiniteSet(Pending(s) \ {r}) /\ Cardinality(Pending(s) \ {r}) = Cardinality(Pending(s)) - 1
      BY <3>2, <3>5, FS_RemoveElement
    <3>8. /\ Cardinality(Above(s)') <= Cardinality(Above(s) \cup {n})
          /\ Cardinality(Pending(s)') <= Cardinality(Pending(s) \ {r})
      BY <3>3, <3>4, <3>6, <3>7, FS_Subset
    <3>9. Cardinality(Above(s)') \in Nat /\ Cardinality(Pending(s)') \in Nat
      BY CountsNext DEF Counted
    <3>10. Cardinality(Above(s) \cup {n}) \in Nat
      BY <3>6, FS_CardinalityType
    <3>11. Cardinality(Above(s)) + Cardinality(Pending(s)) <= Cardinality(ended)
      BY <1>6, <2>3 DEF FewAbove
    <3>12. Cardinality(Above(s)') + Cardinality(Pending(s)') <= Cardinality(ended)
      BY <3>5, <3>6, <3>7, <3>8, <3>9, <3>10, <3>11
    <3> QED
      BY <1>2, <3>12 DEF FewAbove
  <2> QED
    BY <2>2, <2>3
<1> QED
  BY <1>9, <1>10, <1>11

\* A result takes the object of its run with it, which is that of the run in
\* progress where there is one.
LEMMA ResultIsQuiet ==
  ASSUME Base, Shape, NEW r \in Runs, Result(r)
  PROVE  Quiet
<1>1. /\ current' = None /\ ended' = ended /\ UNCHANGED <<next, end, uses>>
      /\ Call(r, "result", current, IF current = None THEN "patch" ELSE "lock")
  BY DEF Result, seqVars
<1>2. /\ kind'[r] = "result" /\ using'[r] = current
      /\ pc'[r] = (IF current = None THEN "patch" ELSE "lock")
      /\ \A q \in Runs \ {r} : /\ pc'[q] = pc[q] /\ kind'[q] = kind[q] /\ using'[q] = using[q]
                               /\ seq'[q] = seq[q] /\ (Reporting(q)' <=> Reporting(q))
  BY <1>1, OthersSame
<1>3. ASSUME NEW s \in Streams, Front(s)'
      PROVE  Front(s) /\ Pending(s)' \subseteq Pending(s)
  <2>1. PICK q \in Runs \ ended : Reporting(q)' /\ using'[q] = s
    BY <1>1, <1>3, CardStreamAssumption DEF Front
  <2>2. q # r
    BY <1>2, <2>1 DEF Reporting
  <2>3. Reporting(q) /\ using[q] = s
    BY <1>2, <2>1, <2>2
  <2>4. current \in {s, None}
    BY <2>1, <2>3 DEF Shape, SendShape
  <2>5. ASSUME NEW p \in Pending(s)'
        PROVE  p \in Pending(s)
    <3>1. p \in Runs /\ kind'[p] = "result" /\ pc'[p] \in {"lock", "close"} /\ seq'[p] = 0 /\ using'[p] # s
      BY DEF Pending
    <3>2. p # r
      BY <1>2, <2>4, <3>1
    <3> QED
      BY <1>2, <3>1, <3>2 DEF Pending
  <2> QED
    BY <2>1, <2>3, <2>5 DEF Front
<1> QED
  BY <1>1, <1>3 DEF Quiet

LEMMA SendKeepsOvertaken ==
  ASSUME Base, Base', Shape, Shape', OvertakenByClosing, NEW r \in Runs, Send(r)
  PROVE  OvertakenByClosing'
<1>1. CASE Lock(r)
  BY <1>1, LockCase, GoesIsQuiet, StopsIsQuiet, QuietKeeps
<1>2. CASE PatchApplies(r)
  <2>1. UNCHANGED <<next, end, uses, current, pc, kind, using, seq, ended>>
    BY <1>2 DEF PatchApplies, seqVars, runsVars
  <2>2. Quiet
    BY <2>1 DEF Quiet, Front, Pending, Reporting
  <2> QED
    BY <2>2, QuietKeeps
<1>3. ASSUME NEW outcome \in Outcomes,
             \/ ResolveReturns(r, outcome) \/ EnableReturns(r, outcome) \/ PauseReturns(r, outcome)
             \/ ContentReturns(r, outcome) \/ DisableReturns(r, outcome) \/ ProgressPatched(r, outcome)
      PROVE  OvertakenByClosing'
  BY <1>3, ReturnCases, GoesIsQuiet, StopsIsQuiet, QuietKeeps
<1>4. ASSUME NEW outcome \in Outcomes, CloseReturns(r, outcome)
      PROVE  OvertakenByClosing'
  <2>1. Call(r, "result", None, "patch") /\ UNCHANGED <<next, end, uses, current, ended>>
    BY <1>4, FixedBySend DEF CloseReturns, SendFixed
  <2>2. Quiet
    BY <2>1, OthersSame, QuietSend
  <2> QED
    BY <2>2, QuietKeeps
<1>5. ASSUME NEW outcome \in Outcomes, ResultPatched(r, outcome)
      PROVE  OvertakenByClosing'
  <2>1. Call(r, "none", None, "none") /\ UNCHANGED <<next, end, uses, current, ended>>
    BY <1>5 DEF ResultPatched, NoCall, seqVars
  <2>2. Quiet
    BY <2>1, OthersSame, QuietSend
  <2> QED
    BY <2>2, QuietKeeps
<1>6. CASE AttemptTimesOut(r)
  <2>1. UNCHANGED <<next, end, uses, current, pc, kind, using, seq, ended>>
    BY <1>6 DEF AttemptTimesOut, seqVars, sendVars, runsVars
  <2>2. Quiet
    BY <2>1 DEF Quiet, Front, Pending, Reporting
  <2> QED
    BY <2>2, QuietKeeps
<1> QED
  BY <1>1, <1>2, <1>3, <1>4, <1>5, <1>6, IssueKeepsFew DEF Send

LEMMA StepKeepsOvertaken ==
  ASSUME Base, Base', Shape, Shape', OvertakenByClosing, [Next]_vars
  PROVE  OvertakenByClosing'
<1>1. CASE UNCHANGED vars
  <2>1. UNCHANGED <<next, end, uses, current, ended, pc, kind, using, seq>>
    BY <1>1 DEF vars, runsVars, seqVars, sendVars
  <2> QED
    BY <2>1 DEF OvertakenByClosing, FewAbove, Front, Above, Pending, Reporting
<1>2. CASE BeginRun
  <2>1. ended' = ended /\ begun' = begun + 1 /\ begun < NumRuns
    BY <1>2 DEF BeginRun
  <2>2. CASE begun = 0
    <3>1. PICK s \in Streams : TaskStream(s) /\ Call(1, "start", s, "lock")
      BY <1>2, <2>2 DEF BeginRun
    <3>2. 1 \in Runs /\ 1 = begun' /\ 1 \notin ended /\ kind[1] = "none"
      <4>1. 1 \in Runs /\ begun' = 1
        BY <2>1, <2>2, CardStreamAssumption DEF Runs
      <4>2. (pc[1] # "none" => 1 <= begun) /\ (kind[1] = "none" <=> pc[1] = "none") /\ ended \subseteq 1..begun
        BY <4>1 DEF Shape, SendShape, RunShape
      <4> QED
        BY <2>2, <4>1, <4>2
    <3> QED
      BY <2>1, <3>1, <3>2, OthersSame, TaskStreamFront
  <2>3. CASE begun # 0
    <3>1. UNCHANGED <<next, end, uses, current, pc, kind, using, seq>>
      BY <1>2, <2>3 DEF BeginRun, seqVars, sendVars
    <3>2. Quiet
      BY <2>1, <3>1 DEF Quiet, Front, Pending, Reporting
    <3> QED
      BY <3>2, QuietKeeps
  <2> QED
    BY <2>2, <2>3
<1>3. CASE Crash
  <2>1. current' = None /\ kind' = [q \in Runs |-> "none"]
    BY <1>3 DEF Crash
  <2>2. ASSUME NEW s \in Streams PROVE ~Front(s)'
    BY <2>1, CardStreamAssumption DEF Front, Reporting
  <2> QED
    BY <2>2 DEF OvertakenByClosing
<1>4. ASSUME NEW r \in Runs, EndRun(r)
      PROVE  OvertakenByClosing'
  <2>1. UNCHANGED <<next, end, uses, current, pc, kind, using, seq>> /\ ended' = ended \cup {r}
    BY <1>4 DEF EndRun, seqVars, sendVars
  <2>2. Quiet
    BY <2>1 DEF Quiet, Front, Pending, Reporting
  <2> QED
    BY <2>2, QuietKeeps
<1>5. ASSUME NEW r \in Runs, NEW v \in 1..MaxVersion, Progress(r, v)
      PROVE  OvertakenByClosing'
  <2>1. PICK s \in Streams : TaskStream(s) /\ Call(r, "progress", s, "lock")
    BY <1>5 DEF Progress
  <2>2. r = begun' /\ r \notin ended /\ ended' = ended /\ kind[r] = "none"
    BY <1>5 DEF Progress, Shape, SendShape
  <2> QED
    BY <2>1, <2>2, OthersSame, TaskStreamFront
<1>6. ASSUME NEW q \in requests, NEW refused \in BOOLEAN, Process(q, refused)
      PROVE  OvertakenByClosing'
  <2>1. UNCHANGED <<next, end, uses, current, pc, kind, using, seq, ended>>
    BY <1>6 DEF Process, seqVars, runsVars
  <2>2. Quiet
    BY <2>1 DEF Quiet, Front, Pending, Reporting
  <2> QED
    BY <2>2, QuietKeeps
<1>7. ASSUME NEW p \in late, PatchLate(p)
      PROVE  OvertakenByClosing'
  <2>1. UNCHANGED <<next, end, uses, current, pc, kind, using, seq, ended>>
    BY <1>7 DEF PatchLate, seqVars, sendVars, runsVars
  <2>2. Quiet
    BY <2>1 DEF Quiet, Front, Pending, Reporting
  <2> QED
    BY <2>2, QuietKeeps
<1> QED
  BY <1>1, <1>2, <1>3, <1>4, <1>5, <1>6, <1>7, ResultIsQuiet, QuietKeeps, SendKeepsOvertaken DEF Next

\* Numbers above the block of the object in use were taken by runs that are over,
\* one each, to close their streams.
THEOREM OvertakenOnlyByClosing == Spec => []OvertakenByClosing
<1>1. Init => OvertakenByClosing
  <2>1. SUFFICES ASSUME Init, NEW s \in Streams PROVE FewAbove(s)
    BY DEF OvertakenByClosing
  <2> QED
    BY <2>1 DEF Init, SeqInit, FewAbove
<1>2. (Base /\ Shape) /\ (Base /\ Shape)' /\ OvertakenByClosing /\ [Next]_vars => OvertakenByClosing'
  BY StepKeepsOvertaken
<1> QED
  BY <1>1, <1>2, SendsKeepShape, PTL DEF Spec

LEMMA NumberIsIssued ==
  ASSUME Base, [Next]_vars, NEW r \in Runs, seq[r] = 0, seq'[r] # 0
  PROVE  Issue(r)
<1>1. seq \in [Runs -> 0..MaxSequence]
  BY DEF Base, Types, SendTypes
<1>2. ASSUME NEW q, seq' = [seq EXCEPT ![q] = 0] PROVE FALSE
  BY <1>1, <1>2
<1>3. ASSUME NEW q, NEW p, At(q, p) PROVE FALSE
  BY <1>2, <1>3 DEF At
<1>4. ASSUME NEW q, NEW what, NEW s, NEW p, Call(q, what, s, p) PROVE FALSE
  BY <1>3, <1>4 DEF Call
<1>5. ASSUME NEW q, NEW p, NEW after, GoTo(q, p, after) PROVE FALSE
  BY <1>3, <1>5 DEF GoTo
<1>6. ASSUME NEW q, NoCall(q) PROVE FALSE
  BY <1>4, <1>6 DEF NoCall
<1>7. seq' # seq
  OBVIOUS
<1>8. ASSUME NEW q \in Runs, Send(q) PROVE Issue(r)
  <2>1. CASE Issue(q)
    <3>1. q = r
      BY <1>1, <2>1 DEF Issue
    <3> QED
      BY <2>1, <3>1
  <2>2. ~PatchApplies(q) /\ ~AttemptTimesOut(q)
    BY <1>7 DEF PatchApplies, AttemptTimesOut, sendVars
  <2>3. ~Lock(q)
    BY <1>5, <1>6 DEF Lock, Finish
  <2>4. ASSUME NEW outcome \in Outcomes PROVE ~ResolveReturns(q, outcome) /\ ~EnableReturns(q, outcome)
    BY <1>5, <1>6 DEF ResolveReturns, EnableReturns, Finish
  <2>5. ASSUME NEW outcome \in Outcomes PROVE ~PauseReturns(q, outcome) /\ ~ContentReturns(q, outcome)
    BY <1>5, <1>6 DEF PauseReturns, ContentReturns, Finish
  <2>6. ASSUME NEW outcome \in Outcomes PROVE ~DisableReturns(q, outcome) /\ ~CloseReturns(q, outcome)
    BY <1>4, <1>5 DEF DisableReturns, CloseReturns
  <2>7. ASSUME NEW outcome \in Outcomes PROVE ~ProgressPatched(q, outcome) /\ ~ResultPatched(q, outcome)
    BY <1>5, <1>6 DEF ProgressPatched, ResultPatched, Finish
  <2> QED
    BY <1>8, <2>1, <2>2, <2>3, <2>4, <2>5, <2>6, <2>7 DEF Send
<1>9. ~BeginRun /\ ~Crash /\ ~UNCHANGED vars
  BY <1>4, <1>7 DEF BeginRun, Crash, sendVars, vars
<1>10. ASSUME NEW q \in Runs PROVE ~EndRun(q) /\ ~Result(q) /\ \A v \in 1..MaxVersion : ~Progress(q, v)
  BY <1>4, <1>7 DEF EndRun, Result, Progress, sendVars
<1>11. \A q \in requests, refused \in BOOLEAN : ~Process(q, refused)
  BY <1>7 DEF Process
<1>12. \A p \in late : ~PatchLate(p)
  BY <1>7 DEF PatchLate, sendVars
<1> QED
  BY <1>8, <1>9, <1>10, <1>11, <1>12 DEF Next

\* An activation is sent with a number above every one used before on the card,
\* but for one at most of each run that is over.
THEOREM ActivationsAreValid == Spec => ActivationsValid
<1>1. ASSUME Base, Shape, OvertakenByClosing, [Next]_vars, NEW r \in Runs,
             pc[r] = "enable", seq[r] = 0, seq'[r] # 0
      PROVE  Cardinality({n \in 1..MaxSequence : uses[n] > 0 /\ n >= seq'[r]}) <= Cardinality(ended)
  <2>1. PICK n \in 1..MaxSequence : Take(using[r], n) /\ seq' = [seq EXCEPT ![r] = n]
    BY <1>1, NumberIsIssued DEF Issue
  <2>2. ~Canceled(r)
    BY <1>1, NumberIsIssued DEF Issue
  <2> DEFINE s == using[r]
             Overtaken == {m \in 1..MaxSequence : uses[m] > 0 /\ m >= seq'[r]}
  <2>3. /\ seq'[r] = n /\ next \in [Streams -> Nat] /\ MaxSequence \in Nat /\ last \in Nat
        /\ end \in [Streams -> 0..MaxSequence] /\ BlockSize \in Nat \ {0} /\ Clock \subseteq Nat
    BY <1>1, <2>1, StreamSequenceAssumption DEF Base, Types, SendTypes, SequenceInv, SeqTypeOK
  <2>4. /\ Reporting(r) /\ s \in Streams
    BY <1>1, Reports, ObjectOf
  <2>5. r \notin ended
    BY <1>1, <2>2, <2>4 DEF Canceled, Reporting, Shape, SendShape
  <2>6. FewAbove(s)
    BY <1>1, <2>4, <2>5 DEF Front, OvertakenByClosing
  <2>7. /\ IsFiniteSet(Above(s)) /\ Cardinality(Above(s)) \in Nat /\ Cardinality(Pending(s)) \in Nat
        /\ Cardinality(ended) \in Nat
    BY <1>1, Counts
  <2>8. CASE NeedsBlock(s)
    <3>1. PICK minimum \in Clock : CanReserve(minimum) /\ n = Start(minimum)
      BY <2>1, <2>8 DEF Take
    <3>2. n > last
      BY <2>3, <3>1 DEF Start, CanReserve
    <3>3. \A m \in 1..MaxSequence : uses[m] > 0 => m <= last
      BY <1>1 DEF Base, SequenceInv
    <3>4. Overtaken = {}
      BY <2>3, <3>2, <3>3
    <3> QED
      BY <2>7, <3>4, FS_EmptySet
  <2>9. CASE ~NeedsBlock(s)
    <3>1. n = next[s] /\ n <= end[s] /\ next[s] # 0
      BY <2>1, <2>3, <2>4, <2>9 DEF Take, NeedsBlock
    <3>2. \A m \in 1..MaxSequence : m \in next[s]..end[s] => uses[m] = 0
      BY <1>1, <2>4, <3>1 DEF Base, SequenceInv, Left
    <3>3. Overtaken \subseteq Above(s)
      BY <2>3, <2>4, <3>1, <3>2 DEF Above
    <3>4. IsFiniteSet(Overtaken) /\ Cardinality(Overtaken) <= Cardinality(Above(s))
      BY <2>7, <3>3, FS_Subset
    <3>5. Cardinality(Above(s)) + Cardinality(Pending(s)) <= Cardinality(ended)
      BY <2>6, <3>1 DEF FewAbove
    <3>6. Cardinality(Overtaken) \in Nat
      BY <3>4, FS_CardinalityType
    <3> HIDE DEF Overtaken
    <3>7. Cardinality(Overtaken) <= Cardinality(ended)
      BY <2>7, <3>4, <3>5, <3>6
    <3> QED
      BY <3>7 DEF Overtaken
  <2> QED
    BY <2>8, <2>9
<1>2. (Base /\ Shape) /\ OvertakenByClosing /\ [Next]_vars =>
        (\A r \in Runs : pc[r] = "enable" /\ seq[r] = 0 /\ seq'[r] # 0 =>
           Cardinality({n \in 1..MaxSequence : uses[n] > 0 /\ n >= seq'[r]}) <= Cardinality(ended))
  BY <1>1
<1>3. Spec => [][Next]_vars
  BY DEF Spec
<1> QED
  BY <1>2, <1>3, SendsKeepShape, OvertakenOnlyByClosing, PTL DEF ActivationsValid

-----------------------------------------------------------------------------
(* What a step of a Send does to its stream object *)

OthersStay(r) ==
  \A q \in Runs \ {r} : /\ pc'[q] = pc[q] /\ kind'[q] = kind[q] /\ using'[q] = using[q] /\ then'[q] = then[q]
                        /\ seq'[q] = seq[q] /\ reply'[q] = reply[q] /\ since'[q] = since[q]

Moved(r, p, after) ==
  /\ OthersStay(r)
  /\ pc'[r] = p /\ then'[r] = after /\ kind'[r] = kind[r] /\ using'[r] = using[r]
  /\ seq'[r] = 0 /\ reply'[r] = "none" /\ since'[r] = since[r]

Over(r, ok) ==
  /\ OthersStay(r)
  /\ pc'[r] = "none" /\ then'[r] = "none" /\ kind'[r] = "none" /\ using'[r] = None
  /\ seq'[r] = 0 /\ reply'[r] = "none"
  /\ since'[r] = IF ok /\ kind[r] = "progress" /\ r \notin ended THEN {reported[r]} ELSE since[r]

\* The object of r after the step; the other objects are as before.
Leaves(r, key, detail, active, unavailable) ==
  /\ \A s \in Streams \ {using[r]} : stream'[s] = stream[s]
  /\ stream'[using[r]].key = key /\ stream'[using[r]].detail = detail
  /\ stream'[using[r]].active = active /\ stream'[using[r]].unavailable = unavailable

Same(r) ==
  LET o == stream[using[r]] IN Leaves(r, o.key, o.detail, o.active, o.unavailable)

\* The lock is free, or r has it.
Alone(r) == using[r] \in Streams /\ holder[using[r]] \in {0, r}

Begins(r) ==
  LET o == stream[using[r]] IN
  /\ kind[r] = "start" /\ pc[r] = "lock"
  /\ Leaves(r, Key(r, 0), 0, o.active, o.unavailable)
  /\ Moved(r, "resolve", "none") \/ Moved(r, "enable", "none")

Chooses(r) ==
  LET o == stream[using[r]]  v == reported[r] IN
  /\ kind[r] = "progress" /\ pc[r] = "lock" /\ Same(r)
  /\ \/ o.unavailable /\ Moved(r, "patch", "return")
     \/ ~o.unavailable /\ ~o.active /\ Moved(r, "patch", "enable")
     \/ ~o.unavailable /\ o.active /\ o.key # Key(r, v) /\ Moved(r, "pause", "none")
     \/ ~o.unavailable /\ o.active /\ o.key = Key(r, v) /\ Moved(r, "content", "none")

FindsShown(r) ==
  LET o == stream[using[r]]  v == reported[r] IN
  /\ kind[r] = "progress" /\ pc[r] = "lock" /\ Same(r)
  /\ ~o.unavailable /\ o.active /\ o.key = Key(r, v) /\ o.detail = v
  /\ Over(r, FALSE)

Resolves(r) == Reporting(r) /\ pc[r] = "resolve" /\ Same(r) /\ Moved(r, "enable", "none")

FailsNow(r) == Reporting(r) /\ pc[r] \notin {"none", "lock"} /\ Same(r) /\ Over(r, FALSE)

GivesUp(r) ==
  LET o == stream[using[r]] IN
  /\ Reporting(r) /\ pc[r] \in {"resolve", "enable", "pause", "content"}
  /\ Leaves(r, o.key, o.detail, o.active, TRUE)
  /\ \/ pc[r] \in {"resolve", "enable"} /\ Over(r, TRUE)
     \/ kind[r] = "progress" /\ Moved(r, "disable", "none")

Activates(r) ==
  LET o == stream[using[r]] IN
  /\ Reporting(r) /\ pc[r] = "enable" /\ seq[r] # 0 /\ reply[r] = "ok"
  /\ Leaves(r, o.key, o.detail, TRUE, o.unavailable)
  /\ Over(r, TRUE)

Pauses(r) ==
  LET o == stream[using[r]] IN
  /\ kind[r] = "progress" /\ pc[r] = "pause" /\ seq[r] # 0 /\ reply[r] = "ok"
  /\ Leaves(r, o.key, o.detail, FALSE, o.unavailable)
  /\ Moved(r, "patch", "enable")

ShowsDetail(r) ==
  LET o == stream[using[r]] IN
  /\ kind[r] = "progress" /\ pc[r] = "content" /\ seq[r] # 0 /\ reply[r] = "ok"
  /\ Leaves(r, o.key, reported[r], o.active, o.unavailable)
  /\ Over(r, TRUE)

Disables(r) ==
  LET o == stream[using[r]] IN
  /\ kind[r] = "progress" /\ pc[r] = "disable"
  /\ \E a \in {FALSE, o.active} : Leaves(r, o.key, o.detail, a, o.unavailable)
  /\ Moved(r, "patch", "return")

HasPatched(r) ==
  LET o == stream[using[r]]  v == reported[r] IN
  /\ kind[r] = "progress" /\ pc[r] = "patch" /\ reply[r] = "ok"
  /\ Leaves(r, Key(r, v), v, o.active, o.unavailable)
  /\ \/ then[r] = "enable" /\ (Moved(r, "resolve", "none") \/ Moved(r, "enable", "none"))
     \/ then[r] # "enable" /\ Over(r, TRUE)

TakesForResult(r) ==
  /\ kind[r] = "result" /\ pc[r] = "lock" /\ Same(r)
  /\ Moved(r, "close", "none") \/ Moved(r, "patch", "none")

Closes(r) ==
  LET o == stream[using[r]] IN
  /\ kind[r] = "result" /\ pc[r] = "close" /\ OthersStay(r)
  /\ \E a \in {FALSE, o.active} : Leaves(r, o.key, o.detail, a, o.unavailable)
  /\ kind'[r] = "result" /\ pc'[r] = "patch" /\ seq'[r] = 0 /\ since'[r] = since[r]

\* A step of the Send of r that leaves Feishu, the numbers and the runs alone.
Turns(r) ==
  /\ SendFixed /\ Alone(r)
  /\ \/ Begins(r) \/ Chooses(r) \/ FindsShown(r) \/ Resolves(r) \/ FailsNow(r) \/ GivesUp(r)
     \/ Activates(r) \/ Pauses(r) \/ ShowsDetail(r) \/ Disables(r) \/ HasPatched(r)
     \/ TakesForResult(r) \/ Closes(r)

LEMMA GoesToPlace ==
  ASSUME Base, NEW r \in Runs, NEW p, NEW after, GoTo(r, p, after), since' = since
  PROVE  Moved(r, p, after)
BY DEF GoTo, At, Moved, OthersStay, Base, Types, SendTypes

LEMMA FinishIsOver ==
  ASSUME Base, NEW r \in Runs, NEW ok \in BOOLEAN, Finish(r, ok)
  PROVE  Over(r, ok)
<1>1. /\ pc' = [pc EXCEPT ![r] = "none"] /\ seq' = [seq EXCEPT ![r] = 0] /\ reply' = [reply EXCEPT ![r] = "none"]
      /\ kind' = [kind EXCEPT ![r] = "none"] /\ using' = [using EXCEPT ![r] = None]
      /\ then' = [then EXCEPT ![r] = "none"]
      /\ since' = IF ok /\ kind[r] = "progress" /\ r \notin ended THEN [since EXCEPT ![r] = {reported[r]}] ELSE since
  BY DEF Finish, NoCall, Call, At
<1>2. OthersStay(r)
  BY <1>1 DEF OthersStay, Base, Types, SendTypes, RunTypes
<1> QED
  BY <1>1, <1>2 DEF Over, Base, Types, SendTypes, RunTypes

LEMMA SameObject ==
  ASSUME Base, NEW r \in Runs, stream' = stream
  PROVE  Same(r)
BY DEF Same, Leaves

LEMMA FlagSet ==
  ASSUME Base, NEW r \in Runs, using[r] \in Streams, NEW b \in BOOLEAN,
         NEW field \in {"resolved", "active", "unavailable"}, Set(r, field, b)
  PROVE  LET o == stream[using[r]] IN
         Leaves(r, o.key, o.detail, IF field = "active" THEN b ELSE o.active,
                                    IF field = "unavailable" THEN b ELSE o.unavailable)
<1>1. stream \in [Streams -> StreamType]
  BY DEF Base, Types, ObjectTypes
<1>2. stream' = [stream EXCEPT ![using[r]] = [stream[using[r]] EXCEPT ![field] = b]]
  BY DEF Set
<1>3. stream'[using[r]] = [stream[using[r]] EXCEPT ![field] = b]
  BY <1>1, <1>2
<1>4. \A s \in Streams \ {using[r]} : stream'[s] = stream[s]
  BY <1>1, <1>2
<1> DEFINE o == stream[using[r]]
<1>5. o \in StreamType
  BY <1>1
<1>6. CASE field = "resolved"
  BY <1>3, <1>4, <1>5, <1>6 DEF Leaves, StreamType
<1>7. CASE field = "active"
  BY <1>3, <1>4, <1>5, <1>7 DEF Leaves, StreamType
<1>8. CASE field = "unavailable"
  BY <1>3, <1>4, <1>5, <1>8 DEF Leaves, StreamType
<1> QED
  BY <1>6, <1>7, <1>8

LEMMA KeySet ==
  ASSUME Base, NEW r \in Runs, using[r] \in Streams, NEW v,
         stream' = [stream EXCEPT ![using[r]].key = Key(r, v), ![using[r]].detail = v]
  PROVE  Leaves(r, Key(r, v), v, stream[using[r]].active, stream[using[r]].unavailable)
BY DEF Leaves, Base, Types, ObjectTypes, StreamType

LEMMA DetailSet ==
  ASSUME Base, NEW r \in Runs, using[r] \in Streams, NEW v, Set(r, "detail", v)
  PROVE  Leaves(r, stream[using[r]].key, v, stream[using[r]].active, stream[using[r]].unavailable)
BY DEF Set, Leaves, Base, Types, ObjectTypes, StreamType

LEMMA IsAlone ==
  ASSUME Base, Shape, NEW r \in Runs, Reporting(r) \/ (kind[r] = "result" /\ pc[r] \in {"lock", "close"}),
         pc[r] = "lock" => holder[using[r]] = 0
  PROVE  Alone(r)
<1>1. kind[r] = "none" <=> pc[r] = "none"
  BY DEF Shape, SendShape
<1>2. using[r] \in Streams
  BY <1>1, ObjectOf DEF Reporting
<1>3. pc[r] # "lock" => Holds(r)
  BY DEF Holds
<1> QED
  BY <1>2, <1>3 DEF Alone, Shape, LockShape

LEMMA LockTurns ==
  ASSUME Base, Shape, NEW r \in Runs, Lock(r)
  PROVE  Turns(r)
<1>1. SendFixed /\ pc[r] = "lock" /\ holder[using[r]] = 0
  BY LockCase DEF Lock
<1>2. kind[r] \in {"start", "progress", "result"} /\ Alone(r)
  BY <1>1, IsAlone DEF Lock, Reporting
<1>3. CASE kind[r] = "start"
  <2>1. stream' = [stream EXCEPT ![using[r]].key = Key(r, 0), ![using[r]].detail = 0]
    BY <1>3 DEF Lock
  <2>2. GoTo(r, "resolve", "none") \/ GoTo(r, "enable", "none")
    BY <1>3 DEF Lock, EnablePC
  <2>3. since' = since
    BY <1>3 DEF Lock
  <2>4. Moved(r, "resolve", "none") \/ Moved(r, "enable", "none")
    BY <2>2, <2>3, GoesToPlace
  <2>5. Leaves(r, Key(r, 0), 0, stream[using[r]].active, stream[using[r]].unavailable)
    BY <1>2, <2>1, KeySet DEF Alone
  <2> QED
    BY <1>1, <1>2, <1>3, <2>4, <2>5 DEF Turns, Begins
<1>4. CASE kind[r] = "result"
  <2>1. stream' = stream /\ since' = since /\ (GoTo(r, "close", "none") \/ GoTo(r, "patch", "none"))
    BY <1>4 DEF Lock
  <2> QED
    BY <1>1, <1>2, <1>4, <2>1, GoesToPlace, SameObject DEF Turns, TakesForResult
<1>5. CASE kind[r] = "progress"
  <2> DEFINE o == stream[using[r]]
  <2>1. Same(r)
    BY <1>5, SameObject DEF Lock
  <2>2. \/ /\ since' = since
           /\ \/ o.unavailable /\ GoTo(r, "patch", "return")
              \/ ~o.unavailable /\ ~o.active /\ GoTo(r, "patch", "enable")
              \/ ~o.unavailable /\ o.active /\ o.key # Key(r, reported[r]) /\ GoTo(r, "pause", "none")
              \/ ~o.unavailable /\ o.active /\ o.key = Key(r, reported[r]) /\ GoTo(r, "content", "none")
        \/ /\ ~o.unavailable /\ o.active /\ o.key = Key(r, reported[r]) /\ o.detail = reported[r]
           /\ Finish(r, FALSE)
    BY <1>5 DEF Lock
  <2>3. Chooses(r) \/ FindsShown(r)
    BY <1>1, <1>5, <2>1, <2>2, GoesToPlace, FinishIsOver DEF Chooses, FindsShown
  <2> QED
    BY <1>1, <1>2, <2>3 DEF Turns
<1> QED
  BY <1>2, <1>3, <1>4, <1>5

LEMMA SendTurns ==
  ASSUME Base, Shape, NEW r \in Runs, NEW outcome \in Outcomes,
         \/ ResolveReturns(r, outcome) \/ EnableReturns(r, outcome) \/ PauseReturns(r, outcome)
         \/ ContentReturns(r, outcome) \/ DisableReturns(r, outcome) \/ ProgressPatched(r, outcome)
         \/ CloseReturns(r, outcome)
  PROVE  Turns(r)
<1> DEFINE o == stream[using[r]]
<1>1. SendFixed
  BY FixedBySend DEF ResolveReturns, EnableReturns, PauseReturns, ContentReturns, DisableReturns, CloseReturns,
                     ProgressPatched
<1>2. /\ pc[r] \in {"resolve", "enable", "pause", "content", "disable"} => Reporting(r)
      /\ pc[r] \in {"pause", "content", "disable"} => kind[r] = "progress"
      /\ pc[r] = "close" => kind[r] = "result"
  BY Reports
<1>3. Alone(r)
  <2>1. \/ pc[r] \in {"resolve", "enable", "pause", "content", "disable", "close"}
        \/ pc[r] = "patch" /\ kind[r] = "progress"
    BY DEF ResolveReturns, EnableReturns, PauseReturns, ContentReturns, DisableReturns, CloseReturns,
           ProgressPatched, PatchEnds
  <2>2. Reporting(r) \/ (kind[r] = "result" /\ pc[r] = "close")
    BY <1>2, <2>1 DEF Reporting
  <2>3. pc[r] # "lock"
    BY <2>1
  <2> QED
    BY <2>2, <2>3, IsAlone
<1>4. Returns(r, outcome) /\ outcome = "ok" => seq[r] # 0 /\ reply[r] = "ok"
  BY DEF Returns
<1>5. using[r] \in Streams
  BY <1>3 DEF Alone
<1>6. /\ Set(r, "unavailable", TRUE) => Leaves(r, o.key, o.detail, o.active, TRUE)
      /\ Set(r, "active", FALSE) => Leaves(r, o.key, o.detail, FALSE, o.unavailable)
      /\ Set(r, "active", TRUE) => Leaves(r, o.key, o.detail, TRUE, o.unavailable)
      /\ Set(r, "resolved", TRUE) => Same(r)
  <2>1. Set(r, "unavailable", TRUE) => Leaves(r, o.key, o.detail, o.active, TRUE)
    BY <1>5, FlagSet
  <2>2. Set(r, "active", FALSE) => Leaves(r, o.key, o.detail, FALSE, o.unavailable)
    BY <1>5, FlagSet
  <2>3. Set(r, "active", TRUE) => Leaves(r, o.key, o.detail, TRUE, o.unavailable)
    BY <1>5, FlagSet
  <2>4. Set(r, "resolved", TRUE) => Same(r)
    BY <1>5, FlagSet DEF Same
  <2> QED
    BY <2>1, <2>2, <2>3, <2>4
<1>7. CASE ResolveReturns(r, outcome)
  <2>1. pc[r] = "resolve" /\ Reporting(r)
    BY <1>2, <1>7 DEF ResolveReturns
  <2>2. \/ Set(r, "resolved", TRUE) /\ GoTo(r, "enable", "none") /\ since' = since
        \/ stream' = stream /\ Finish(r, FALSE)
        \/ Set(r, "unavailable", TRUE) /\ Finish(r, TRUE)
    BY <1>7 DEF ResolveReturns
  <2>3. Resolves(r) \/ FailsNow(r) \/ GivesUp(r)
    BY <1>6, <2>1, <2>2, GoesToPlace, FinishIsOver, SameObject DEF Resolves, FailsNow, GivesUp
  <2> QED
    BY <1>1, <1>3, <2>3 DEF Turns
<1>8. CASE EnableReturns(r, outcome)
  <2>1. pc[r] = "enable" /\ Reporting(r) /\ Returns(r, outcome)
    BY <1>2, <1>8 DEF EnableReturns
  <2>2. \/ outcome = "ok" /\ Set(r, "active", TRUE) /\ Finish(r, TRUE)
        \/ stream' = stream /\ Finish(r, FALSE)
        \/ Set(r, "unavailable", TRUE) /\ Finish(r, TRUE)
    <3>1. CASE outcome = "ok"
      <4>1. (outcome # "transient") = TRUE
        BY <3>1
      <4> QED
        BY <1>8, <3>1, <4>1 DEF EnableReturns
    <3>2. CASE outcome = "transient"
      <4>1. (outcome # "transient") = FALSE
        BY <3>2
      <4> QED
        BY <1>8, <3>2, <4>1 DEF EnableReturns
    <3>3. CASE outcome \notin {"ok", "transient"}
      <4>1. (outcome # "transient") = TRUE
        BY <3>3
      <4> QED
        BY <1>8, <3>3, <4>1 DEF EnableReturns
    <3> QED
      BY <3>1, <3>2, <3>3
  <2>3. Activates(r) \/ FailsNow(r) \/ GivesUp(r)
    BY <1>4, <1>6, <2>1, <2>2, FinishIsOver, SameObject DEF Activates, FailsNow, GivesUp
  <2> QED
    BY <1>1, <1>3, <2>3 DEF Turns
<1>9. CASE PauseReturns(r, outcome)
  <2>1. pc[r] = "pause" /\ kind[r] = "progress" /\ Returns(r, outcome)
    BY <1>2, <1>9 DEF PauseReturns
  <2>2. \/ outcome = "ok" /\ Set(r, "active", FALSE) /\ GoTo(r, "patch", "enable") /\ since' = since
        \/ stream' = stream /\ Finish(r, FALSE)
        \/ Set(r, "unavailable", TRUE) /\ GoTo(r, "disable", "none") /\ since' = since
    BY <1>9 DEF PauseReturns
  <2>3. Pauses(r) \/ FailsNow(r) \/ GivesUp(r)
    BY <1>4, <1>6, <2>1, <2>2, GoesToPlace, FinishIsOver, SameObject DEF Pauses, FailsNow, GivesUp, Reporting
  <2> QED
    BY <1>1, <1>3, <2>3 DEF Turns
<1>10. CASE ContentReturns(r, outcome)
  <2>1. pc[r] = "content" /\ kind[r] = "progress" /\ Returns(r, outcome)
    BY <1>2, <1>10 DEF ContentReturns
  <2>2. \/ outcome = "ok" /\ Set(r, "detail", reported[r]) /\ Finish(r, TRUE)
        \/ stream' = stream /\ Finish(r, FALSE)
        \/ Set(r, "unavailable", TRUE) /\ GoTo(r, "disable", "none") /\ since' = since
    BY <1>10 DEF ContentReturns
  <2>3. ShowsDetail(r) \/ FailsNow(r) \/ GivesUp(r)
    BY <1>4, <1>5, <1>6, <2>1, <2>2, GoesToPlace, FinishIsOver, SameObject, DetailSet
    DEF ShowsDetail, FailsNow, GivesUp, Reporting
  <2> QED
    BY <1>1, <1>3, <2>3 DEF Turns
<1>11. CASE DisableReturns(r, outcome)
  <2>1. pc[r] = "disable" /\ kind[r] = "progress"
    BY <1>2, <1>11 DEF DisableReturns
  <2>2. (Set(r, "active", FALSE) \/ stream' = stream) /\ GoTo(r, "patch", "return") /\ since' = since
    BY <1>11 DEF DisableReturns
  <2>3. Disables(r)
    BY <1>6, <2>1, <2>2, GoesToPlace, SameObject DEF Disables, Same
  <2> QED
    BY <1>1, <1>3, <2>3 DEF Turns
<1>12. CASE ProgressPatched(r, outcome)
  <2>1. pc[r] = "patch" /\ kind[r] = "progress" /\ (outcome = "ok" => reply[r] = "ok")
    BY <1>12 DEF ProgressPatched, PatchEnds
  <2>2. CASE outcome = "ok"
    <3>1. /\ stream' = [stream EXCEPT ![using[r]].key = Key(r, reported[r]), ![using[r]].detail = reported[r]]
          /\ \/ then[r] = "enable" /\ (GoTo(r, "resolve", "none") \/ GoTo(r, "enable", "none")) /\ since' = since
             \/ then[r] # "enable" /\ Finish(r, TRUE)
      BY <1>12, <2>2 DEF ProgressPatched, EnablePC
    <3>2. Leaves(r, Key(r, reported[r]), reported[r], o.active, o.unavailable)
      BY <1>5, <3>1, KeySet
    <3>3. HasPatched(r)
      BY <2>1, <2>2, <3>1, <3>2, GoesToPlace, FinishIsOver DEF HasPatched
    <3> QED
      BY <1>1, <1>3, <3>3 DEF Turns
  <2>3. CASE outcome # "ok"
    <3>1. stream' = stream /\ Finish(r, FALSE)
      BY <1>12, <2>3 DEF ProgressPatched
    <3>2. FailsNow(r)
      BY <2>1, <3>1, FinishIsOver, SameObject DEF FailsNow, Reporting
    <3> QED
      BY <1>1, <1>3, <3>2 DEF Turns
  <2> QED
    BY <2>2, <2>3
<1>13. CASE CloseReturns(r, outcome)
  <2>1. pc[r] = "close" /\ kind[r] = "result" /\ since' = since
    BY <1>2, <1>13 DEF CloseReturns
  <2>2. (Set(r, "active", FALSE) \/ stream' = stream) /\ Call(r, "result", None, "patch")
    BY <1>13 DEF CloseReturns
  <2>3. /\ pc'[r] = "patch" /\ kind'[r] = "result" /\ seq'[r] = 0 /\ OthersStay(r)
    BY <2>1, <2>2 DEF Call, At, OthersStay, Base, Types, SendTypes
  <2>4. Closes(r)
    BY <1>6, <2>1, <2>2, <2>3, SameObject DEF Closes, Same
  <2> QED
    BY <1>1, <1>3, <2>4 DEF Turns
<1> QED
  BY <1>7, <1>8, <1>9, <1>10, <1>11, <1>12, <1>13

\* Every step of a Send is a turn, an operation sent, or a patch shown, repeated or
\* answered.
LEMMA SendCases ==
  ASSUME Base, Shape, NEW r \in Runs, Send(r)
  PROVE  \/ Turns(r) \/ Issue(r) \/ PatchApplies(r) \/ AttemptTimesOut(r)
         \/ \E outcome \in Outcomes : ResultPatched(r, outcome)
BY LockTurns, SendTurns DEF Send

\* No other Send is using the object of a turn under its lock.
LEMMA Apart ==
  ASSUME Base, Shape, NEW r \in Runs, Alone(r), pc[r] # "none", NEW q \in Runs, q # r
  PROVE  (Holds(q) => using[q] # using[r]) /\ kind[q] # "start"
<1>1. Holds(q) => holder[using[q]] = q
  BY DEF Shape, LockShape
<1>2. r <= begun /\ (kind[q] = "start" => q = 1 /\ begun = 1)
  BY DEF Shape, SendShape
<1>3. 0 \notin Runs /\ r \in Nat /\ r >= 1
  BY DEF Runs
<1> QED
  BY <1>1, <1>2, <1>3 DEF Alone

-----------------------------------------------------------------------------
(* What a Send knows of the object it holds *)

Held(q) ==
  LET o == stream[using[q]]  v == reported[q] IN
  /\ kind[q] = "start" => ~o.active /\ (pc[q] # "lock" => o.key = Key(q, 0) /\ o.detail = 0)
  /\ kind[q] = "progress" =>
       /\ pc[q] \in {"resolve", "enable", "content"} => o.key = Key(q, v)
       /\ pc[q] \in {"resolve", "enable"} => o.detail = v /\ ~o.active
       /\ pc[q] = "patch" => (then[q] = "enable" /\ ~o.active) \/ (then[q] = "return" /\ o.unavailable)
       /\ pc[q] = "disable" => o.unavailable
       /\ pc[q] \in {"pause", "content"} => o.active /\ ~o.unavailable

ObjectsHeld == \A q \in Runs : Held(q)

LEMMA CallStays ==
  ASSUME Base, NEW r \in Runs, NEW what, NEW s, NEW p, Call(r, what, s, p),
         \A q \in Runs \ {r} : since'[q] = since[q]
  PROVE  OthersStay(r)
BY DEF Call, At, OthersStay, Base, Types, SendTypes

\* The object of another Send that reports and has the lock is not that of r.
LEMMA HeldElsewhere ==
  ASSUME Base, Shape, ObjectsHeld, NEW r \in Runs, NEW q \in Runs, q # r, OthersStay(r), reported'[q] = reported[q],
         kind[q] = "start" => stream'[using[q]] = stream[using[q]],
         Reporting(q) /\ Holds(q) => stream'[using[q]] = stream[using[q]]
  PROVE  Held(q)'
<1>1. /\ pc'[q] = pc[q] /\ kind'[q] = kind[q] /\ using'[q] = using[q] /\ then'[q] = then[q]
  BY DEF OthersStay
<1>2. CASE Reporting(q) /\ (Holds(q) \/ kind[q] = "start")
  <2>1. stream'[using'[q]] = stream[using[q]]
    BY <1>1, <1>2
  <2> QED
    BY <1>1, <2>1 DEF Held, ObjectsHeld
<1>3. CASE Reporting(q) /\ ~Holds(q) /\ kind[q] # "start"
  BY <1>1, <1>3 DEF Held, Holds, Reporting
<1>4. CASE ~Reporting(q)
  BY <1>1, <1>4 DEF Held, Reporting
<1> QED
  BY <1>2, <1>3, <1>4

LEMMA TurnHolds ==
  ASSUME Base, Shape, ObjectsHeld, NEW r \in Runs, Turns(r)
  PROVE  Held(r)'
<1>1. Held(r) /\ reported' = reported
  BY DEF ObjectsHeld, Turns, SendFixed
<1>2. CASE Begins(r) \/ Chooses(r) \/ Resolves(r)
  BY <1>1, <1>2 DEF Begins, Chooses, Resolves, Same, Leaves, Moved, Held, Reporting
<1>3. CASE FindsShown(r) \/ FailsNow(r) \/ Activates(r) \/ ShowsDetail(r)
  BY <1>3 DEF FindsShown, FailsNow, Activates, ShowsDetail, Over, Held
<1>4. CASE GivesUp(r)
  BY <1>1, <1>4 DEF GivesUp, Leaves, Moved, Over, Held
<1>5. CASE Pauses(r) \/ Disables(r) \/ HasPatched(r)
  BY <1>1, <1>5 DEF Pauses, Disables, HasPatched, Leaves, Moved, Over, Held
<1>6. CASE TakesForResult(r) \/ Closes(r)
  BY <1>6 DEF TakesForResult, Closes, Moved, Held
<1> QED
  BY <1>2, <1>3, <1>4, <1>5, <1>6 DEF Turns

LEMMA TurnCalls ==
  ASSUME Base, Shape, NEW r \in Runs, Turns(r)
  PROVE  /\ OthersStay(r) /\ pc[r] # "none" /\ Alone(r)
         /\ UNCHANGED <<last, next, end, uses, begun, ended, done, reported, current, requests, card>>
         /\ \A s \in Streams \ {using[r]} : stream'[s] = stream[s]
<1>1. OthersStay(r)
  BY DEF Turns, Begins, Chooses, FindsShown, Resolves, FailsNow, GivesUp, Activates, Pauses, ShowsDetail, Disables,
         HasPatched, TakesForResult, Closes, Moved, Over
<1>2. pc[r] # "none"
  BY DEF Turns, Begins, Chooses, FindsShown, Resolves, FailsNow, GivesUp, Activates, Pauses, ShowsDetail, Disables,
         HasPatched, TakesForResult, Closes
<1>3. \A s \in Streams \ {using[r]} : stream'[s] = stream[s]
  BY DEF Turns, Begins, Chooses, FindsShown, Resolves, FailsNow, GivesUp, Activates, Pauses, ShowsDetail, Disables,
         HasPatched, TakesForResult, Closes, Same, Leaves
<1> QED
  BY <1>1, <1>2, <1>3 DEF Turns, SendFixed

LEMMA TurnKeepsHeld ==
  ASSUME Base, Shape, ObjectsHeld, NEW r \in Runs, Turns(r)
  PROVE  ObjectsHeld'
<1>1. ASSUME NEW q \in Runs, q # r
      PROVE  Held(q)'
  <2>1. /\ OthersStay(r) /\ reported' = reported /\ Alone(r) /\ pc[r] # "none"
        /\ \A s \in Streams \ {using[r]} : stream'[s] = stream[s]
    BY TurnCalls
  <2>2. (Holds(q) => using[q] # using[r]) /\ kind[q] # "start"
    BY <1>1, <2>1, Apart
  <2>3. Reporting(q) /\ Holds(q) => using[q] \in Streams
    <3>1. kind[q] = "none" <=> pc[q] = "none"
      BY DEF Shape, SendShape
    <3> QED
      BY <3>1, ObjectOf DEF Reporting
  <2> QED
    BY <1>1, <2>1, <2>2, <2>3, HeldElsewhere
<1> QED
  BY <1>1, TurnHolds DEF ObjectsHeld

\* The stream object of a Send that begins; other Sends keep theirs.
LEMMA TaskStreamHeld ==
  ASSUME Base, Shape, ObjectsHeld, NEW r \in Runs, NEW s \in Streams, TaskStream(s), OthersStay(r),
         \A q \in Runs \ {r} : reported'[q] = reported[q],
         pc'[r] = "lock", using'[r] = s, kind'[r] \in {"start", "progress"},
         kind'[r] = "start" => current = None
  PROVE  ObjectsHeld'
<1>1. ASSUME NEW q \in Runs, q # r
      PROVE  Held(q)'
  <2>1. using[q] \in Streams => stream'[using[q]] = stream[using[q]]
    BY TaskStreamSpares
  <2>2. Reporting(q) => using[q] \in Streams
    <3>1. kind[q] = "none" <=> pc[q] = "none"
      BY DEF Shape, SendShape
    <3> QED
      BY <3>1, ObjectOf DEF Reporting
  <2> QED
    BY <1>1, <2>1, <2>2, HeldElsewhere DEF Reporting
<1>2. Held(r)'
  <2>1. kind'[r] = "start" => stream'[s] = NoStream
    BY TaskStreamSpares
  <2> QED
    BY <2>1 DEF Held, NoStream
<1> QED
  BY <1>1, <1>2 DEF ObjectsHeld

LEMMA StepKeepsHeld ==
  ASSUME Base, Shape, ObjectsHeld, [Next]_vars
  PROVE  ObjectsHeld'
<1>1. ASSUME UNCHANGED <<pc, kind, using, then, reported, stream>>
      PROVE  ObjectsHeld'
  BY <1>1 DEF ObjectsHeld, Held
<1>2. ASSUME NEW r \in Runs, OthersStay(r), stream' = stream, kind'[r] \in {"none", "result"},
             \A q \in Runs \ {r} : reported'[q] = reported[q]
      PROVE  ObjectsHeld'
  <2>1. Held(r)'
    BY <1>2 DEF Held
  <2> QED
    BY <1>2, <2>1, HeldElsewhere DEF ObjectsHeld
<1>3. CASE UNCHANGED vars
  BY <1>1, <1>3 DEF vars, sendVars, runsVars
<1>4. ASSUME NEW r \in Runs, Send(r)
      PROVE  ObjectsHeld'
  <2>1. CASE Issue(r) \/ PatchApplies(r) \/ AttemptTimesOut(r)
    BY <1>1, <2>1 DEF Issue, PatchApplies, AttemptTimesOut, runsVars, sendVars
  <2>2. ASSUME NEW outcome \in Outcomes, ResultPatched(r, outcome)
        PROVE  ObjectsHeld'
    <3>1. Call(r, "none", None, "none") /\ UNCHANGED <<stream, reported, since>>
      BY <2>2 DEF ResultPatched, NoCall
    <3> QED
      BY <1>2, <3>1, CallStays, OthersSame
  <2> QED
    BY <1>4, <2>1, <2>2, SendCases, TurnKeepsHeld
<1>5. CASE BeginRun
  <2>1. CASE begun = 0
    <3>1. PICK s \in Streams : TaskStream(s) /\ Call(1, "start", s, "lock")
      BY <1>5, <2>1 DEF BeginRun
    <3>2. 1 \in Runs /\ reported' = reported /\ since' = since /\ current = None
      BY <1>5, <2>1, CardStreamAssumption DEF BeginRun, Runs, Shape, RunShape
    <3> QED
      BY <3>1, <3>2, CallStays, OthersSame, TaskStreamHeld
  <2>2. CASE begun # 0
    BY <1>1, <1>5, <2>2 DEF BeginRun, sendVars
  <2> QED
    BY <2>1, <2>2
<1>6. CASE Crash
  BY <1>6 DEF Crash, ObjectsHeld, Held
<1>7. ASSUME NEW r \in Runs, EndRun(r)
      PROVE  ObjectsHeld'
  BY <1>1, <1>7 DEF EndRun, sendVars
<1>8. ASSUME NEW r \in Runs, Result(r)
      PROVE  ObjectsHeld'
  <2>1. /\ Call(r, "result", current, IF current = None THEN "patch" ELSE "lock") /\ UNCHANGED <<stream, since>>
        /\ reported' = [reported EXCEPT ![r] = 0]
    BY <1>8 DEF Result
  <2>2. \A q \in Runs \ {r} : reported'[q] = reported[q]
    BY <2>1 DEF Base, Types, RunTypes
  <2> QED
    BY <1>2, <2>1, <2>2, CallStays, OthersSame
<1>9. ASSUME NEW r \in Runs, NEW v \in 1..MaxVersion, Progress(r, v)
      PROVE  ObjectsHeld'
  <2>1. PICK s \in Streams : TaskStream(s) /\ Call(r, "progress", s, "lock")
    BY <1>9 DEF Progress
  <2>2. \A q \in Runs \ {r} : reported'[q] = reported[q] /\ since'[q] = since[q]
    BY <1>9 DEF Progress, Base, Types, RunTypes
  <2> QED
    BY <2>1, <2>2, CallStays, OthersSame, TaskStreamHeld
<1>10. ASSUME NEW q \in requests, NEW refused \in BOOLEAN, Process(q, refused)
       PROVE  ObjectsHeld'
  BY <1>1, <1>10 DEF Process, runsVars
<1>11. ASSUME NEW p \in late, PatchLate(p)
       PROVE  ObjectsHeld'
  BY <1>1, <1>11 DEF PatchLate, sendVars, runsVars
<1> QED
  BY <1>3, <1>4, <1>5, <1>6, <1>7, <1>8, <1>9, <1>10, <1>11 DEF Next

-----------------------------------------------------------------------------
(* Whose presentation an object has *)

\* The object of the card never has that of a run with a result.
Owners ==
  /\ \A s \in Streams : stream[s].key[1] \in 0..begun /\ (stream[s].active => stream[s].key[1] # 0)
  /\ current # None => \A q \in Runs : q \in done \/ kind[q] = "result" => stream[current].key[1] # q

LEMMA TurnKeys ==
  ASSUME Base, Shape, ObjectsHeld, NEW r \in Runs, Turns(r)
  PROVE  /\ \A s \in Streams : /\ stream'[s].key = stream[s].key \/ (Reporting(r) /\ stream'[s].key[1] = r)
                               /\ stream'[s].active => stream[s].active \/ stream'[s].key[1] = r
         /\ kind'[r] \in {kind[r], "none"}
         /\ kind'[r] # "none" /\ kind[r] # "result" => using'[r] = using[r]
<1>1. Held(r)
  BY DEF ObjectsHeld
<1>2. \A v : Key(r, v)[1] = r
  BY KeyType
<1>3. \A s \in Streams \ {using[r]} : stream'[s] = stream[s]
  BY TurnCalls
<1>4. CASE Begins(r) \/ HasPatched(r)
  BY <1>2, <1>3, <1>4 DEF Begins, HasPatched, Leaves, Moved, Over, Reporting
<1>5. CASE Chooses(r) \/ FindsShown(r) \/ Resolves(r) \/ FailsNow(r) \/ TakesForResult(r)
  BY <1>3, <1>5 DEF Chooses, FindsShown, Resolves, FailsNow, TakesForResult, Same, Leaves, Moved, Over
<1>6. CASE GivesUp(r) \/ Pauses(r) \/ ShowsDetail(r) \/ Disables(r) \/ Closes(r)
  BY <1>3, <1>6 DEF GivesUp, Pauses, ShowsDetail, Disables, Closes, Leaves, Moved, Over
<1>7. CASE Activates(r)
  <2>1. stream[using[r]].key[1] = r
    BY <1>1, <1>2, <1>7 DEF Activates, Held, Reporting
  <2> QED
    BY <1>3, <1>7, <2>1 DEF Activates, Leaves, Over
<1> QED
  BY <1>4, <1>5, <1>6, <1>7 DEF Turns

LEMMA TurnKeepsOwners ==
  ASSUME Base, Shape, ObjectsHeld, Owners, NEW r \in Runs, Turns(r)
  PROVE  Owners'
<1>1. /\ UNCHANGED <<begun, done, current>> /\ pc[r] # "none" /\ OthersStay(r)
  BY TurnCalls
<1>2. /\ r \in 0..begun /\ r # 0
  BY <1>1 DEF Shape, SendShape, Runs, Base, Types, RunTypes
<1>3. Reporting(r) => r \notin done
  BY DEF Reporting, Shape, SendShape, Base, Types, RunTypes
<1>4. \A s \in Streams : /\ stream'[s].key = stream[s].key \/ (Reporting(r) /\ stream'[s].key[1] = r)
                         /\ stream'[s].active => stream[s].active \/ stream'[s].key[1] = r
  BY TurnKeys
<1>5. kind'[r] \in {kind[r], "none"}
  BY TurnKeys
<1>6. ASSUME NEW s \in Streams
      PROVE  stream'[s].key[1] \in 0..begun /\ (stream'[s].active => stream'[s].key[1] # 0)
  BY <1>2, <1>4 DEF Owners
<1>7. ASSUME current # None, NEW q \in Runs, q \in done \/ kind'[q] = "result"
      PROVE  stream'[current].key[1] # q
  <2>1. current \in Streams
    BY <1>7 DEF Base, Types, ObjectTypes
  <2>2. q \in done \/ kind[q] = "result"
    BY <1>1, <1>5, <1>7 DEF OthersStay
  <2>3. stream[current].key[1] # q
    BY <1>7, <2>2 DEF Owners
  <2>4. Reporting(r) => q # r
    BY <1>3, <2>2 DEF Reporting
  <2> QED
    BY <1>4, <2>1, <2>3, <2>4
<1> QED
  BY <1>1, <1>6, <1>7 DEF Owners

LEMMA TaskStreamOwners ==
  ASSUME Base, Shape, Owners, NEW r \in Runs, NEW s \in Streams, TaskStream(s), OthersStay(r),
         kind'[r] \in {"start", "progress"}, begun' \in {begun, begun + 1}, done' = done
  PROVE  Owners'
<1>1. \A t \in Streams : stream'[t] = stream[t] \/ (current = None /\ t = s /\ stream'[t] = NoStream)
  BY TaskStreamSpares
<1>2. current' = s /\ s # None /\ (current # None => s = current)
  BY TaskStreamSpares, CardStreamAssumption
<1>3. NoStream.key[1] = 0 /\ ~NoStream.active /\ 0 \notin Runs /\ begun \in Nat
  BY DEF NoStream, Runs, Base, Types, RunTypes
<1>4. \A t \in Streams : stream'[t].key[1] \in 0..begun' /\ (stream'[t].active => stream'[t].key[1] # 0)
  BY <1>1, <1>3 DEF Owners
<1>5. \A q \in Runs : q \in done' \/ kind'[q] = "result" => q \in done \/ kind[q] = "result"
  BY DEF OthersStay
<1>6. \A q \in Runs : q \in done' \/ kind'[q] = "result" => stream'[current'].key[1] # q
  BY <1>1, <1>2, <1>3, <1>5, TaskStreamSpares DEF Owners
<1> QED
  BY <1>4, <1>6 DEF Owners

LEMMA StepKeepsOwners ==
  ASSUME Base, Shape, ObjectsHeld, Owners, [Next]_vars
  PROVE  Owners'
<1>1. ASSUME UNCHANGED <<stream, current, begun>>, \A q \in Runs : q \in done' \/ kind'[q] = "result" => q \in done \/ kind[q] = "result"
      PROVE  Owners'
  BY <1>1 DEF Owners
<1>2. CASE UNCHANGED vars
  BY <1>1, <1>2 DEF vars, sendVars, runsVars
<1>3. ASSUME NEW r \in Runs, Send(r)
      PROVE  Owners'
  <2>1. CASE Issue(r) \/ PatchApplies(r) \/ AttemptTimesOut(r)
    BY <1>1, <2>1 DEF Issue, PatchApplies, AttemptTimesOut, runsVars, sendVars
  <2>2. ASSUME NEW outcome \in Outcomes, ResultPatched(r, outcome)
        PROVE  Owners'
    <3>1. /\ Call(r, "none", None, "none") /\ UNCHANGED <<stream, current, begun, since>>
          /\ kind[r] = "result" /\ done' \subseteq done \cup {r}
      BY <2>2 DEF ResultPatched, NoCall
    <3>2. kind'[r] = "none" /\ \A q \in Runs \ {r} : kind'[q] = kind[q]
      BY <3>1, OthersSame
    <3> QED
      BY <1>1, <3>1, <3>2
  <2> QED
    BY <1>3, <2>1, <2>2, SendCases, TurnKeepsOwners
<1>4. CASE BeginRun
  <2>1. begun' = begun + 1 /\ UNCHANGED <<done, since>> /\ begun \in Nat
    BY <1>4 DEF BeginRun, Base, Types, RunTypes
  <2>2. CASE begun = 0
    <3>1. PICK s \in Streams : TaskStream(s) /\ Call(1, "start", s, "lock")
      BY <1>4, <2>2 DEF BeginRun
    <3>2. 1 \in Runs
      BY <1>4, <2>2, CardStreamAssumption DEF BeginRun, Runs
    <3> QED
      BY <2>1, <3>1, <3>2, CallStays, OthersSame, TaskStreamOwners
  <2>3. CASE begun # 0
    <3>1. UNCHANGED <<stream, current, kind>>
      BY <1>4, <2>3 DEF BeginRun, sendVars
    <3> QED
      BY <2>1, <3>1 DEF Owners
  <2> QED
    BY <2>2, <2>3
<1>5. CASE Crash
  <2>1. current' = None /\ begun' = begun /\ stream' = [s \in Streams |-> NoStream]
    BY <1>5 DEF Crash
  <2>2. NoStream.key[1] = 0 /\ ~NoStream.active /\ begun \in Nat
    BY DEF NoStream, Base, Types, RunTypes
  <2> QED
    BY <2>1, <2>2 DEF Owners
<1>6. ASSUME NEW r \in Runs, EndRun(r)
      PROVE  Owners'
  BY <1>1, <1>6 DEF EndRun, sendVars
<1>7. ASSUME NEW r \in Runs, Result(r)
      PROVE  Owners'
  <2>1. current' = None /\ UNCHANGED <<stream, begun>>
    BY <1>7 DEF Result
  <2> QED
    BY <2>1 DEF Owners
<1>8. ASSUME NEW r \in Runs, NEW v \in 1..MaxVersion, Progress(r, v)
      PROVE  Owners'
  <2>1. PICK s \in Streams : TaskStream(s) /\ Call(r, "progress", s, "lock")
    BY <1>8 DEF Progress
  <2>2. UNCHANGED <<begun, done>> /\ \A q \in Runs \ {r} : since'[q] = since[q]
    BY <1>8 DEF Progress, Base, Types, RunTypes
  <2> QED
    BY <2>1, <2>2, CallStays, OthersSame, TaskStreamOwners
<1>9. ASSUME NEW q \in requests, NEW refused \in BOOLEAN, Process(q, refused)
      PROVE  Owners'
  BY <1>1, <1>9 DEF Process, runsVars
<1>10. ASSUME NEW p \in late, PatchLate(p)
       PROVE  Owners'
  BY <1>1, <1>10 DEF PatchLate, sendVars, runsVars
<1> QED
  BY <1>2, <1>3, <1>4, <1>5, <1>6, <1>7, <1>8, <1>9, <1>10 DEF Next

-----------------------------------------------------------------------------
(* What the card has when an activation is sent *)

\* Before the first run begins its Sends the card is its start card.
StartCard ==
  begun = 0 => /\ card.kind # "result" /\ card.key = Key(1, 0) /\ card.detail = <<1, 0>>
               /\ requests = {} /\ late = {}

Patched(r) == kind[r] = "progress" /\ ((pc[r] = "patch" /\ reply[r] = "ok") \/ pc[r] \in {"resolve", "enable"})

OnCard ==
  /\ StartCard
  /\ \A r \in Runs :
       /\ kind[r] = "start" => card.late \/ card.key = Key(r, 0)
       /\ r \notin ended /\ Patched(r) => card.late \/ card.kind = "result" \/ card.key = Key(r, reported[r])

LEMMA TurnPatched ==
  ASSUME Base, Shape, NEW r \in Runs, Turns(r), Patched(r)'
  PROVE  Patched(r)
<1>1. CASE Begins(r) \/ Chooses(r) \/ Resolves(r) \/ GivesUp(r) \/ Pauses(r) \/ Disables(r) \/ HasPatched(r)
  BY <1>1 DEF Begins, Chooses, Resolves, GivesUp, Pauses, Disables, HasPatched, Moved, Over, Patched, Reporting
<1>2. CASE FindsShown(r) \/ FailsNow(r) \/ Activates(r) \/ ShowsDetail(r) \/ TakesForResult(r) \/ Closes(r)
  BY <1>2 DEF FindsShown, FailsNow, Activates, ShowsDetail, TakesForResult, Closes, Moved, Over, Patched
<1> QED
  BY <1>1, <1>2 DEF Turns

LEMMA StepKeepsOnCard ==
  ASSUME Base, Shape, ObjectsHeld, OnCard, [Next]_vars
  PROVE  OnCard'
<1> DEFINE Kept(q) == /\ kind'[q] = "start" => kind[q] = "start"
                      /\ Patched(q)' => Patched(q)
<1>1. ASSUME UNCHANGED <<card, requests, begun>>, ended \subseteq ended', begun = 0 => late' = late,
             \A q \in Runs : Kept(q) /\ (Patched(q)' => reported'[q] = reported[q])
      PROVE  OnCard'
  BY <1>1 DEF OnCard, StartCard
<1>2. ASSUME NEW r \in Runs, OthersStay(r), NEW q \in Runs, q # r
      PROVE  Kept(q)
  BY <1>2 DEF OthersStay, Patched
<1>3. CASE UNCHANGED vars
  BY <1>1, <1>3 DEF vars, sendVars, runsVars, feishuVars, Patched
<1>4. ASSUME NEW r \in Runs, Send(r)
      PROVE  OnCard'
  <2>0. pc[r] # "none" => begun # 0
    BY DEF Shape, SendShape, Runs
  <2>1. CASE Turns(r)
    <3>1. UNCHANGED <<card, requests, begun, ended, reported>> /\ OthersStay(r) /\ begun # 0
      BY <2>0, <2>1, TurnCalls
    <3>2. Kept(r)
      BY <2>1, TurnPatched, TurnKeys
    <3> QED
      BY <1>1, <1>2, <3>1, <3>2
  <2>2. CASE Issue(r)
    <3>1. UNCHANGED <<card, begun, ended, reported, kind, pc, reply>> /\ pc[r] # "none"
      BY <2>2 DEF Issue, runsVars, Ops
    <3> QED
      BY <2>0, <3>1 DEF OnCard, StartCard, Patched
  <2>3. CASE PatchApplies(r)
    <3>1. /\ pc[r] = "patch" /\ ~Canceled(r) /\ UNCHANGED <<begun, ended, reported, kind, pc>>
          /\ reply' = [reply EXCEPT ![r] = "ok"]
          /\ card'.kind = "result" \/ (kind[r] # "result" /\ card'.key = Key(r, reported[r]))
      BY <2>3 DEF PatchApplies, Shows, Patch, runsVars
    <3>2. \A q \in Runs : kind[q] # "start"
      <4>1. ASSUME NEW q \in Runs, kind[q] = "start" PROVE q = r
        BY <3>1, <4>1 DEF Shape, SendShape, Runs
      <4>2. kind[r] # "start"
        BY <3>1 DEF Shape, SendShape, Places
      <4> QED
        BY <4>1, <4>2
    <3>3. ASSUME kind[r] # "result", NEW q \in Runs, q \notin ended, Patched(q)
          PROVE  q = r
      <4>1. kind[r] = "progress"
        BY <3>1, <3>2, <3>3 DEF Shape, SendShape, Base, Types, SendTypes
      <4>2. r \notin ended
        BY <3>1, <4>1 DEF Canceled
      <4>3. q = begun /\ r = begun
        BY <3>3, <4>1, <4>2, OneReportsNow DEF OneReports, Reporting, Patched
      <4> QED
        BY <4>3
    <3>4. ASSUME NEW q \in Runs, q # r, Patched(q)'
          PROVE  Patched(q)
      BY <3>1, <3>4 DEF Patched, Base, Types, SendTypes
    <3> QED
      BY <2>0, <3>1, <3>2, <3>3, <3>4 DEF OnCard, StartCard
  <2>4. ASSUME NEW outcome \in Outcomes, ResultPatched(r, outcome)
        PROVE  OnCard'
    <3>1. /\ Call(r, "none", None, "none") /\ UNCHANGED <<card, requests, begun, ended, reported, since>>
          /\ pc[r] # "none"
      BY <2>4 DEF ResultPatched, PatchEnds, NoCall
    <3>2. OthersStay(r) /\ kind'[r] = "none"
      BY <3>1, CallStays, OthersSame
    <3>3. Kept(r)
      BY <3>2 DEF Patched
    <3> QED
      BY <1>1, <1>2, <2>0, <3>1, <3>2, <3>3
  <2>5. CASE AttemptTimesOut(r)
    <3>1. UNCHANGED <<card, requests, begun, ended, reported, kind, pc, reply>> /\ pc[r] # "none"
      BY <2>5 DEF AttemptTimesOut, sendVars, runsVars
    <3> QED
      BY <1>1, <2>0, <3>1 DEF Patched
  <2> QED
    BY <1>4, <2>1, <2>2, <2>3, <2>4, <2>5, SendCases
<1>5. CASE BeginRun
  <2>1. begun' = begun + 1 /\ UNCHANGED <<ended, reported, since, card, requests>> /\ begun \in Nat
    BY <1>5 DEF BeginRun, feishuVars, Base, Types, RunTypes
  <2>2. CASE begun = 0
    <3>1. PICK s \in Streams : TaskStream(s) /\ Call(1, "start", s, "lock")
      BY <1>5, <2>2 DEF BeginRun
    <3>2. 1 \in Runs
      BY <1>5, <2>2, CardStreamAssumption DEF BeginRun, Runs
    <3>3. OthersStay(1) /\ kind'[1] = "start"
      BY <2>1, <3>1, <3>2, CallStays, OthersSame
    <3>4. ~Patched(1)'
      BY <3>3 DEF Patched
    <3>5. card.key = Key(1, 0)
      BY <2>2 DEF OnCard, StartCard
    <3> QED
      BY <1>2, <2>1, <2>2, <3>2, <3>3, <3>4, <3>5 DEF OnCard, StartCard
  <2>3. CASE begun # 0
    <3>1. UNCHANGED <<pc, kind, reply>>
      BY <1>5, <2>3 DEF BeginRun, sendVars
    <3> QED
      BY <2>1, <3>1 DEF OnCard, StartCard, Patched
  <2> QED
    BY <2>2, <2>3
<1>6. CASE Crash
  <2>1. UNCHANGED <<begun, card, requests>> /\ kind' = [q \in Runs |-> "none"]
        /\ late' = late \cup UNION {Unanswered(r) : r \in Runs}
    BY <1>6 DEF Crash
  <2>2. ASSUME begun = 0, NEW r \in Runs
        PROVE  Unanswered(r) = {}
    <3>1. pc[r] = "none"
      BY <2>2 DEF Shape, SendShape, Runs
    <3> QED
      BY <3>1 DEF Unanswered
  <2>3. begun = 0 => late' = late
    BY <2>1, <2>2
  <2> QED
    BY <2>1, <2>3 DEF OnCard, StartCard, Patched
<1>7. ASSUME NEW r \in Runs, EndRun(r)
      PROVE  OnCard'
  BY <1>1, <1>7 DEF EndRun, sendVars, feishuVars, Patched
<1>8. ASSUME NEW r \in Runs, Result(r)
      PROVE  OnCard'
  <2>1. /\ Call(r, "result", current, IF current = None THEN "patch" ELSE "lock")
        /\ UNCHANGED <<card, requests, late, begun, ended, since>>
        /\ reported' = [reported EXCEPT ![r] = 0]
    BY <1>8 DEF Result, feishuVars
  <2>2. /\ OthersStay(r) /\ kind'[r] = "result"
        /\ \A q \in Runs \ {r} : reported'[q] = reported[q]
    BY <2>1, CallStays, OthersSame DEF Base, Types, RunTypes
  <2>3. Kept(r) /\ ~Patched(r)'
    BY <2>2 DEF Patched
  <2> QED
    BY <1>1, <1>2, <2>1, <2>2, <2>3
<1>9. ASSUME NEW r \in Runs, NEW v \in 1..MaxVersion, Progress(r, v)
      PROVE  OnCard'
  <2>1. PICK s \in Streams : TaskStream(s) /\ Call(r, "progress", s, "lock")
    BY <1>9 DEF Progress
  <2>2. /\ UNCHANGED <<card, requests, late, begun, ended>>
        /\ \A q \in Runs \ {r} : reported'[q] = reported[q] /\ since'[q] = since[q]
    BY <1>9 DEF Progress, feishuVars, Base, Types, RunTypes
  <2>3. OthersStay(r) /\ pc'[r] = "lock" /\ kind'[r] = "progress"
    BY <2>1, <2>2, CallStays, OthersSame
  <2>4. Kept(r) /\ ~Patched(r)'
    BY <2>3 DEF Patched
  <2> QED
    BY <1>1, <1>2, <2>2, <2>3, <2>4
<1>10. ASSUME NEW q \in requests, NEW refused \in BOOLEAN, Process(q, refused)
       PROVE  OnCard'
  <2>1. /\ UNCHANGED <<begun, ended, reported, pc, kind, seq>>
        /\ card'.kind = card.kind /\ card'.key = card.key /\ card'.late = card.late
    BY <1>10 DEF Process, runsVars
  <2>2. begun # 0
    BY <1>10 DEF OnCard, StartCard
  <2>3. ASSUME NEW r \in Runs, Patched(r)' PROVE Patched(r)
    <3>1. q.seq # 0
      BY <1>10 DEF Base, Types, FeishuTypes
    <3>2. pc[r] = "patch" => seq[r] = 0
      BY DEF Shape, LockShape, Ops
    <3>3. pc[r] = "patch" => reply'[r] = reply[r]
      BY <1>10, <3>1, <3>2 DEF Process
    <3> QED
      BY <2>1, <2>3, <3>3 DEF Patched
  <2> QED
    BY <2>1, <2>2, <2>3 DEF OnCard, StartCard
<1>11. ASSUME NEW p \in late, PatchLate(p)
       PROVE  OnCard'
  <2>1. card'.late /\ UNCHANGED <<begun, requests, late>>
    BY <1>11 DEF PatchLate, Shows, runsVars
  <2>2. begun # 0
    BY <1>11 DEF OnCard, StartCard
  <2> QED
    BY <2>1, <2>2 DEF OnCard, StartCard
<1> QED
  BY <1>3, <1>4, <1>5, <1>6, <1>7, <1>8, <1>9, <1>10, <1>11 DEF Next

-----------------------------------------------------------------------------
(* The object of the run in progress follows the run and the card *)

Streaming(s) == stream[s].active /\ ~stream[s].unavailable

Fresh(r, s) ==
  stream[s].key[1] = r /\ Streaming(s) =>
    /\ \E v \in since[r] : stream[s].key = Key(r, v)
    /\ card.late \/ card.kind = "result" \/ card.key = stream[s].key

Follows == \A r \in Runs \ ended, s \in Streams : r = begun /\ Front(s) => Fresh(r, s)

\* The object of the run in progress is the one its Send uses.
LEMMA FrontUses ==
  ASSUME Base, Shape, NEW r \in Runs, r \notin ended, Reporting(r), NEW s \in Streams, Front(s)
  PROVE  s = using[r]
<1>1. current \in {using[r], None} /\ s # None
  BY CardStreamAssumption DEF Shape, SendShape
<1>2. \A q \in Runs \ ended : Reporting(q) => q = r
  BY OneReportsNow DEF OneReports
<1> QED
  BY <1>1, <1>2 DEF Front

LEMMA TurnFront ==
  ASSUME Base, Shape, ObjectsHeld, NEW r \in Runs, Turns(r), NEW s \in Streams, Front(s)'
  PROVE  Front(s)
<1>1. ended' = ended /\ current' = current /\ OthersStay(r)
  BY TurnCalls
<1>2. kind'[r] \in {kind[r], "none"} /\ (kind'[r] # "none" /\ kind[r] # "result" => using'[r] = using[r])
  BY TurnKeys
<1>3. CASE s = current
  BY <1>3 DEF Front
<1>4. CASE s # current
  <2>1. PICK q \in Runs \ ended : Reporting(q)' /\ using'[q] = s
    BY <1>1, <1>4 DEF Front
  <2>2. Reporting(q) /\ using[q] = s
    BY <1>1, <1>2, <2>1 DEF OthersStay, Reporting
  <2> QED
    BY <2>1, <2>2 DEF Front
<1> QED
  BY <1>3, <1>4

\* The turns of the run itself.
LEMMA OwnTurnFresh ==
  ASSUME Base, Shape, ObjectsHeld, OnCard, NEW r \in Runs, r \notin ended, Turns(r), Reporting(r),
         NEW s \in Streams, s = using[r], Fresh(r, s)
  PROVE  Fresh(r, s)'
<1>1. /\ card' = card /\ Held(r)
      /\ kind[r] = "start" => since[r] = {0} /\ (card.late \/ card.key = Key(r, 0))
  BY TurnCalls DEF ObjectsHeld, OnCard, Shape, SendShape
<1>2. kind[r] \in {"start", "progress"}
  BY DEF Reporting
<1>3. CASE Begins(r)
  <2>1. ~Streaming(s)'
    BY <1>1, <1>3 DEF Begins, Leaves, Held, Streaming
  <2> QED
    BY <2>1 DEF Fresh
<1>4. CASE Chooses(r) \/ Resolves(r) \/ FailsNow(r) \/ FindsShown(r)
  <2>1. since'[r] = since[r]
    BY <1>4 DEF Chooses, Resolves, FailsNow, FindsShown, Moved, Over
  <2>2. /\ stream'[s].key = stream[s].key /\ stream'[s].active = stream[s].active
        /\ stream'[s].unavailable = stream[s].unavailable
    BY <1>4 DEF Chooses, Resolves, FailsNow, FindsShown, Same, Leaves
  <2> QED
    BY <1>1, <2>1, <2>2 DEF Fresh, Streaming
<1>5. CASE GivesUp(r) \/ Pauses(r) \/ Disables(r) \/ HasPatched(r)
  <2>1. ~Streaming(s)'
    BY <1>1, <1>5 DEF GivesUp, Pauses, Disables, HasPatched, Leaves, Held, Streaming
  <2> QED
    BY <2>1 DEF Fresh
<1>6. CASE Activates(r)
  <2>1. /\ stream'[s].key = stream[s].key
        /\ since'[r] = IF kind[r] = "progress" THEN {reported[r]} ELSE since[r]
    BY <1>6 DEF Activates, Leaves, Over
  <2>2. CASE kind[r] = "start"
    <3>1. stream[s].key = Key(r, 0)
      BY <1>1, <1>6, <2>2 DEF Activates, Held
    <3> QED
      BY <1>1, <2>1, <2>2, <3>1 DEF Fresh
  <2>3. CASE kind[r] = "progress"
    <3>1. stream[s].key = Key(r, reported[r])
      BY <1>1, <1>6, <2>3 DEF Activates, Held
    <3>2. card.late \/ card.kind = "result" \/ card.key = Key(r, reported[r])
      BY <1>6, <2>3 DEF Activates, OnCard, Patched
    <3> QED
      BY <1>1, <2>1, <2>3, <3>1, <3>2 DEF Fresh
  <2> QED
    BY <1>2, <2>2, <2>3
<1>7. CASE ShowsDetail(r)
  <2>1. stream[s].key = Key(r, reported[r]) /\ Streaming(s)
    BY <1>1, <1>7 DEF ShowsDetail, Held, Streaming
  <2>2. stream'[s].key = stream[s].key /\ since'[r] = {reported[r]}
    BY <1>7 DEF ShowsDetail, Leaves, Over
  <2> QED
    BY <1>1, <2>1, <2>2 DEF Fresh
<1> QED
  BY <1>2, <1>3, <1>4, <1>5, <1>6, <1>7 DEF Turns, TakesForResult, Closes

\* Those of a run that is over, on the same object or another.
LEMMA OtherTurnFresh ==
  ASSUME Base, Shape, ObjectsHeld, NEW q \in Runs, Turns(q),
         NEW r \in Runs, r # q, NEW s \in Streams, Fresh(r, s)
  PROVE  Fresh(r, s)'
<1>1. /\ card' = card /\ since'[r] = since[r] /\ Held(q)
      /\ \A t \in Streams \ {using[q]} : stream'[t] = stream[t]
  BY TurnCalls DEF OthersStay, ObjectsHeld
<1>2. \A v : Key(q, v)[1] = q
  BY KeyType
<1>3. CASE s # using[q]
  BY <1>1, <1>3 DEF Fresh, Streaming
<1>4. CASE s = using[q]
  <2>1. CASE Begins(q) \/ HasPatched(q)
    <3>1. stream'[s].key = Key(q, 0) \/ stream'[s].key = Key(q, reported[q])
      BY <1>4, <2>1 DEF Begins, HasPatched, Leaves
    <3>2. stream'[s].key[1] = q
      BY <1>2, <3>1
    <3> QED
      BY <3>2 DEF Fresh
  <2>2. CASE Chooses(q) \/ FindsShown(q) \/ Resolves(q) \/ FailsNow(q) \/ TakesForResult(q)
    BY <1>1, <1>4, <2>2 DEF Chooses, FindsShown, Resolves, FailsNow, TakesForResult, Same, Leaves, Fresh, Streaming
  <2>3. CASE GivesUp(q) \/ Pauses(q) \/ Disables(q) \/ Closes(q)
    BY <1>1, <1>4, <2>3 DEF GivesUp, Pauses, Disables, Closes, Leaves, Fresh, Streaming
  <2>4. CASE Activates(q) \/ ShowsDetail(q)
    <3>1. \E v : stream[s].key = Key(q, v)
      BY <1>1, <1>4, <2>4 DEF Activates, ShowsDetail, Held, Reporting
    <3>2. stream[s].key[1] = q
      BY <1>2, <3>1
    <3> QED
      BY <1>4, <2>4, <3>2 DEF Activates, ShowsDetail, Leaves, Fresh
  <2> QED
    BY <2>1, <2>2, <2>3, <2>4 DEF Turns
<1> QED
  BY <1>3, <1>4

\* The run that begins or goes on has its object or a new one.
LEMMA TaskStreamIsFront ==
  ASSUME Base, Base', Shape, Shape', NEW r \in Runs, NEW s \in Streams, TaskStream(s), OthersStay(r),
         ended' = ended, r \notin ended, kind'[r] \in {"start", "progress"}, using'[r] = s,
         NEW t \in Streams, Front(t)'
  PROVE  t = s
<1>1. current' = s
  BY TaskStreamSpares
<1>2. \A q \in Runs \ ended : Reporting(q)' => q = r
  BY OneReportsNext DEF OneReports, Reporting
<1> QED
  BY <1>1, <1>2 DEF Front

LEMMA StepKeepsFollows ==
  ASSUME Base, Base', Shape, Shape', ObjectsHeld, Owners, OnCard, Follows, [Next]_vars
  PROVE  Follows'
<1>1. ASSUME UNCHANGED <<stream, begun>>, ended \subseteq ended', \A r \in Runs \ ended' : since'[r] = since[r],
             card'.late \/ (card'.kind = card.kind /\ card'.key = card.key /\ card'.late = card.late),
             \A s \in Streams : Front(s)' => Front(s)
      PROVE  Follows'
  <2>1. ASSUME NEW r \in Runs \ ended', NEW s \in Streams, Fresh(r, s)
        PROVE  Fresh(r, s)'
    BY <1>1, <2>1 DEF Fresh, Streaming
  <2> QED
    BY <1>1, <2>1 DEF Follows
<1>2. CASE UNCHANGED vars
  BY <1>1, <1>2 DEF vars, sendVars, runsVars, feishuVars, Front, Reporting
<1>3. ASSUME NEW q \in Runs, Send(q)
      PROVE  Follows'
  <2>1. CASE Turns(q)
    <3>1. UNCHANGED <<begun, ended>>
      BY <2>1, TurnCalls
    <3>2. SUFFICES ASSUME NEW r \in Runs, r \notin ended, NEW s \in Streams, r = begun, Front(s)'
          PROVE  Fresh(r, s)'
      BY <3>1 DEF Follows
    <3>3. Front(s) /\ Fresh(r, s)
      BY <2>1, <3>2, TurnFront DEF Follows
    <3>4. CASE q # r
      BY <2>1, <3>3, <3>4, OtherTurnFresh
    <3>5. CASE q = r
      <4>1. Reporting(r)
        BY <2>1, <3>2, <3>5, TurnCalls DEF Reporting, Shape, SendShape, Base, Types, SendTypes
      <4>2. s = using[r]
        BY <3>2, <3>3, <4>1, FrontUses
      <4> QED
        BY <2>1, <3>2, <3>3, <3>5, <4>1, <4>2, OwnTurnFresh
    <3> QED
      BY <3>4, <3>5
  <2>2. CASE Issue(q)
    BY <1>1, <2>2 DEF Issue, runsVars, Front, Reporting
  <2>3. CASE PatchApplies(q)
    <3>1. /\ pc[q] = "patch" /\ ~Canceled(q) /\ UNCHANGED <<begun, ended, since, stream, current, kind, using>>
          /\ card'.kind = "result" \/ kind[q] # "result"
      BY <2>3 DEF PatchApplies, Shows, Patch, runsVars
    <3>2. SUFFICES ASSUME NEW r \in Runs, r \notin ended, NEW s \in Streams, r = begun, Front(s)'
          PROVE  Fresh(r, s)'
      BY <3>1 DEF Follows
    <3>3. Front(s) /\ Fresh(r, s)
      BY <3>1, <3>2 DEF Front, Reporting, Follows
    <3>4. CASE card'.kind = "result"
      BY <3>1, <3>3, <3>4 DEF Fresh, Streaming
    <3>5. CASE kind[q] # "result"
      <4>1. kind[q] = "progress" /\ q \notin ended
        BY <3>1, <3>5 DEF Canceled, Shape, SendShape, Places, Base, Types, SendTypes
      <4>2. q = r
        BY <3>2, <4>1, OneReportsNow DEF OneReports, Reporting
      <4>3. s = using[r]
        BY <3>2, <3>3, <4>1, <4>2, FrontUses DEF Reporting
      <4>4. ~stream[s].active \/ stream[s].unavailable
        BY <3>1, <4>1, <4>2, <4>3 DEF ObjectsHeld, Held
      <4> QED
        BY <3>1, <4>4 DEF Fresh, Streaming
    <3> QED
      BY <3>1, <3>4, <3>5
  <2>4. ASSUME NEW outcome \in Outcomes, ResultPatched(q, outcome)
        PROVE  Follows'
    <3>1. /\ Call(q, "none", None, "none")
          /\ UNCHANGED <<stream, card, begun, ended, since, current>>
      BY <2>4 DEF ResultPatched, NoCall
    <3>2. OthersStay(q) /\ kind'[q] = "none"
      BY <3>1, CallStays, OthersSame
    <3>3. \A s \in Streams : Front(s)' => Front(s)
      BY <3>1, <3>2 DEF Front, Reporting, OthersStay
    <3> QED
      BY <1>1, <3>1, <3>3
  <2>5. CASE AttemptTimesOut(q)
    BY <1>1, <2>5 DEF AttemptTimesOut, runsVars, sendVars, Front, Reporting
  <2> QED
    BY <1>3, <2>1, <2>2, <2>3, <2>4, <2>5, SendCases
<1>4. ASSUME NEW r \in Runs, NEW s \in Streams, TaskStream(s), OthersStay(r), UNCHANGED <<ended, card>>,
             since[r] \subseteq since'[r], r = begun', begun' = begun \/ begun = 0,
             r \notin ended, kind'[r] \in {"start", "progress"}, using'[r] = s
      PROVE  Follows'
  <2>1. SUFFICES ASSUME NEW t \in Streams, Front(t)' PROVE Fresh(r, t)'
    BY <1>4 DEF Follows
  <2>2. t = s
    BY <1>4, <2>1, TaskStreamIsFront
  <2>3. CASE current = None
    BY <1>4, <2>2, <2>3, TaskStreamSpares DEF Fresh, NoStream, Runs
  <2>4. CASE current # None
    <3>1. s = current /\ stream' = stream
      BY <1>4, <2>4, TaskStreamSpares
    <3>2. begun # 0
      BY <2>4 DEF Shape, RunShape
    <3>3. Fresh(r, s)
      BY <1>4, <3>1, <3>2 DEF Front, Follows
    <3> QED
      BY <1>4, <2>2, <3>1, <3>3 DEF Fresh, Streaming
  <2> QED
    BY <2>3, <2>4
<1>5. CASE BeginRun
  <2>1. begun' = begun + 1 /\ begun \in Nat /\ UNCHANGED <<ended, card, since>>
    BY <1>5 DEF BeginRun, feishuVars, Base, Types, RunTypes
  <2>2. CASE begun = 0
    <3>1. PICK s \in Streams : TaskStream(s) /\ Call(1, "start", s, "lock")
      BY <1>5, <2>2 DEF BeginRun
    <3>2. 1 \in Runs /\ 1 = begun' /\ 1 \notin ended
      BY <1>5, <2>1, <2>2, CardStreamAssumption DEF BeginRun, Runs, Shape, RunShape
    <3>3. OthersStay(1) /\ kind'[1] = "start" /\ using'[1] = s
      BY <2>1, <3>1, <3>2, CallStays, OthersSame
    <3> QED
      BY <1>4, <2>1, <2>2, <3>1, <3>2, <3>3
  <2>3. CASE begun # 0
    <3>1. stream' = stream
      BY <1>5, <2>3 DEF BeginRun
    <3>2. \A s \in Streams : stream[s].key[1] # begun'
      BY <2>1 DEF Owners
    <3> QED
      BY <3>1, <3>2 DEF Follows, Fresh
  <2> QED
    BY <2>2, <2>3
<1>6. CASE Crash
  <2>1. current' = None /\ kind' = [q \in Runs |-> "none"]
    BY <1>6 DEF Crash
  <2>2. ASSUME NEW s \in Streams PROVE ~Front(s)'
    BY <2>1, CardStreamAssumption DEF Front, Reporting
  <2> QED
    BY <2>2 DEF Follows
<1>7. ASSUME NEW r \in Runs, EndRun(r)
      PROVE  Follows'
  <2>1. /\ UNCHANGED <<stream, begun, card, current, kind, using>> /\ ended' = ended \cup {r}
        /\ since' = [since EXCEPT ![r] = {}]
    BY <1>7 DEF EndRun, sendVars, feishuVars
  <2>2. \A q \in Runs \ ended' : since'[q] = since[q]
    BY <2>1 DEF Base, Types, RunTypes
  <2> QED
    BY <1>1, <2>1, <2>2 DEF Front, Reporting
<1>8. ASSUME NEW r \in Runs, Result(r)
      PROVE  Follows'
  <2>1. UNCHANGED <<stream, card, begun, ended, since>>
    BY <1>8 DEF Result, feishuVars
  <2>2. \A s \in Streams : Front(s)' => Front(s)
    BY <1>8, ResultIsQuiet DEF Quiet
  <2> QED
    BY <1>1, <2>1, <2>2
<1>9. ASSUME NEW r \in Runs, NEW v \in 1..MaxVersion, Progress(r, v)
      PROVE  Follows'
  <2>1. PICK s \in Streams : TaskStream(s) /\ Call(r, "progress", s, "lock")
    BY <1>9 DEF Progress
  <2>2. /\ UNCHANGED <<card, ended, begun>> /\ r = begun /\ r \notin ended /\ since[r] \subseteq since'[r]
        /\ \A q \in Runs \ {r} : since'[q] = since[q]
    BY <1>9 DEF Progress, feishuVars, Base, Types, RunTypes
  <2>3. OthersStay(r) /\ kind'[r] = "progress" /\ using'[r] = s
    BY <2>1, <2>2, CallStays, OthersSame
  <2> QED
    BY <1>4, <2>1, <2>2, <2>3
<1>10. ASSUME NEW q \in requests, NEW refused \in BOOLEAN, Process(q, refused)
       PROVE  Follows'
  <2>1. /\ UNCHANGED <<stream, begun, ended, since, current, kind, using>>
        /\ card'.kind = card.kind /\ card'.key = card.key /\ card'.late = card.late
    BY <1>10 DEF Process, runsVars
  <2> QED
    BY <1>1, <2>1 DEF Front, Reporting
<1>11. ASSUME NEW p \in late, PatchLate(p)
       PROVE  Follows'
  <2>1. UNCHANGED <<stream, begun, ended, since, current, kind, using>> /\ card'.late
    BY <1>11 DEF PatchLate, Shows, sendVars, runsVars
  <2> QED
    BY <1>1, <2>1 DEF Front, Reporting
<1> QED
  BY <1>2, <1>3, <1>5, <1>6, <1>7, <1>8, <1>9, <1>10, <1>11 DEF Next

-----------------------------------------------------------------------------
(* The requests on their way *)

\* The requests of the run in progress have the numbers its object gave, or
\* lower ones; an answer is not older than what it answers.
Orders ==
  /\ \A x \in requests : x.seq <= last /\ x.detail[1] <= begun
  /\ \A r \in Runs : /\ pc[r] \in Ops /\ seq[r] = 0 => reply[r] = "none"
                     /\ seq[r] # 0 /\ reply[r] = "ok" => card.seq >= seq[r]
  /\ \A r \in Runs \ ended, s \in Streams : r = begun /\ Front(s) /\ next[s] # 0 =>
       \A x \in requests : x.detail[1] = r => x.seq < next[s]

LEMMA TurnAnswers ==
  ASSUME Base, Shape, NEW r \in Runs, Turns(r)
  PROVE  seq'[r] = 0 /\ (pc'[r] \in Ops => reply'[r] = "none")
BY DEF Turns, Begins, Chooses, FindsShown, Resolves, FailsNow, GivesUp, Activates, Pauses, ShowsDetail, Disables,
       HasPatched, TakesForResult, Closes, Moved, Over, Ops

\* A number is the next one of its object, or above all that are reserved.
LEMMA TakeRises ==
  ASSUME Base, NEW s \in Streams, NEW n \in 1..MaxSequence, Take(s, n)
  PROVE  /\ next'[s] = n + 1 /\ \A t \in Streams \ {s} : next'[t] = next[t]
         /\ last' >= last
         /\ n > last \/ (n = next[s] /\ next[s] # 0)
<1>1. /\ last \in Nat /\ next \in [Streams -> Nat] /\ BlockSize \in Nat \ {0} /\ Clock \subseteq Nat /\ n \in Nat
  BY StreamSequenceAssumption DEF Base, SequenceInv, SeqTypeOK
<1>2. next'[s] = n + 1 /\ \A t \in Streams \ {s} : next'[t] = next[t]
  BY <1>1 DEF Take
<1>3. CASE NeedsBlock(s)
  <2>1. PICK minimum \in Clock : n = Start(minimum)
    BY <1>3 DEF Take
  <2>2. n > last /\ last' = n + BlockSize - 1
    BY <1>1, <1>3, <2>1 DEF Take, Start
  <2> QED
    BY <1>1, <1>2, <2>2
<1>4. CASE ~NeedsBlock(s)
  BY <1>1, <1>2, <1>4 DEF Take, NeedsBlock
<1> QED
  BY <1>3, <1>4

LEMMA IssueOrders ==
  ASSUME Base, Base', Shape, Orders, NEW q \in Runs, Issue(q)
  PROVE  Orders'
<1>1. PICK n \in 1..MaxSequence :
        /\ Take(using[q], n) /\ seq' = [seq EXCEPT ![q] = n]
        /\ requests' = requests \cup
             {[op |-> IF pc[q] \in {"pause", "disable", "close"} THEN "off" ELSE pc[q],
               seq |-> n, detail |-> <<q, IF pc[q] = "content" THEN reported[q] ELSE 0>>]}
  BY DEF Issue
<1>2. /\ UNCHANGED <<begun, ended, pc, kind, using, current, reply, card>> /\ pc[q] \in Ops /\ seq[q] = 0
  BY DEF Issue, runsVars
<1>3. using[q] \in Streams
  BY <1>2 DEF Base, HasStream, NeedStream
<1>4. /\ next'[using[q]] = n + 1 /\ \A t \in Streams \ {using[q]} : next'[t] = next[t]
      /\ last' >= last /\ (n > last \/ (n = next[using[q]] /\ next[using[q]] # 0))
  BY <1>1, <1>3, TakeRises
<1>5. /\ last \in Nat /\ last' \in Nat /\ next \in [Streams -> Nat] /\ begun \in Nat /\ q \in Nat
      /\ \A x \in requests : x.seq \in Nat
      /\ seq \in [Runs -> 0..MaxSequence] /\ n \in Nat /\ n # 0
  BY DEF Base, SequenceInv, SeqTypeOK, Types, RunTypes, FeishuTypes, SendTypes, Runs
<1>6. n <= last'
  <2>1. uses'[n] > 0
    BY <1>1, StreamSequenceAssumption DEF Take, Base, SequenceInv, SeqTypeOK
  <2> QED
    BY <2>1 DEF Base, SequenceInv
<1>7. q <= begun
  BY <1>2 DEF Shape, SendShape, Ops
<1>8. \A x \in requests' : x \in requests \/ (x.seq = n /\ x.detail[1] = q)
  BY <1>1
<1>9. \A x \in requests' : x.seq <= last' /\ x.detail[1] <= begun'
  BY <1>2, <1>4, <1>5, <1>6, <1>7, <1>8 DEF Orders
<1>10. \A r \in Runs : /\ pc'[r] \in Ops /\ seq'[r] = 0 => reply'[r] = "none"
                       /\ seq'[r] # 0 /\ reply'[r] = "ok" => card'.seq >= seq'[r]
  BY <1>1, <1>2, <1>5 DEF Orders
<1>11. ASSUME NEW r \in Runs, r \notin ended, NEW s \in Streams, r = begun, Front(s), next'[s] # 0,
              NEW x \in requests', x.detail[1] = r
       PROVE  x.seq < next'[s]
  <2>1. CASE x \notin requests
    <3>1. q = r /\ x.seq = n
      BY <1>8, <1>11, <2>1
    <3>2. Reporting(r)
      BY <1>2, <1>11, <3>1 DEF Reporting, Shape, SendShape, Ops, Base, Types, SendTypes
    <3>3. using[q] = s
      BY <1>11, <3>1, <3>2, FrontUses
    <3> QED
      BY <1>4, <1>5, <3>1, <3>3
  <2>2. CASE x \in requests /\ using[q] # s
    BY <1>4, <1>11, <2>2 DEF Orders
  <2>3. CASE x \in requests /\ using[q] = s
    <3>1. x.seq <= last /\ (next[s] # 0 => x.seq < next[s])
      BY <1>11, <2>3 DEF Orders
    <3> QED
      BY <1>4, <1>5, <2>3, <3>1
  <2> QED
    BY <2>1, <2>2, <2>3
<1>12. \A s \in Streams : Front(s)' => Front(s)
  BY <1>2 DEF Front, Reporting
<1> QED
  BY <1>2, <1>9, <1>10, <1>11, <1>12 DEF Orders

LEMMA ProcessOrders ==
  ASSUME Base, Shape, Orders, NEW x \in requests, NEW refused \in BOOLEAN, Process(x, refused)
  PROVE  Orders' /\ card'.seq >= card.seq
<1>1. /\ UNCHANGED <<last, next, begun, ended, pc, kind, using, current, seq>> /\ requests' \subseteq requests
  BY DEF Process, seqVars, runsVars
<1>2. x.seq \in Nat /\ x.seq # 0 /\ card.seq \in Nat /\ seq \in [Runs -> 0..MaxSequence]
      /\ reply \in [Runs -> {"none", "ok", "refused"}]
  BY DEF Base, Types, FeishuTypes, SendTypes
<1>3. \/ card' = card /\ \A r \in Runs : reply'[r] = IF seq[r] # x.seq THEN reply[r] ELSE "refused"
      \/ /\ card'.seq = x.seq /\ x.seq > card.seq
         /\ \A r \in Runs : reply'[r] = IF seq[r] # x.seq THEN reply[r] ELSE "ok"
  <2> DEFINE ok == ~refused /\ x.seq > card.seq
  <2>1. /\ card' = IF ~ok THEN card ELSE
              [card EXCEPT !.seq = x.seq,
                           !.detail = IF x.op = "content" /\ card.kind # "result" THEN x.detail ELSE @]
        /\ reply' = [r \in Runs |-> IF seq[r] # x.seq THEN reply[r] ELSE IF ok THEN "ok" ELSE "refused"]
    BY DEF Process
  <2>2. CASE ok
    <3>1. card'.seq = x.seq
      BY <2>1, <2>2 DEF Base, Types, FeishuTypes
    <3> QED
      BY <2>1, <2>2, <3>1
  <2>3. CASE ~ok
    BY <2>1, <2>3
  <2> QED
    BY <2>2, <2>3
<1>4. card'.seq >= card.seq
  BY <1>2, <1>3
<1>5. \A r \in Runs : /\ pc'[r] \in Ops /\ seq'[r] = 0 => reply'[r] = "none"
                      /\ seq'[r] # 0 /\ reply'[r] = "ok" => card'.seq >= seq'[r]
  BY <1>1, <1>2, <1>3 DEF Orders
<1>6. \A s \in Streams : Front(s)' => Front(s)
  BY <1>1 DEF Front, Reporting
<1> QED
  BY <1>1, <1>4, <1>5, <1>6 DEF Orders

LEMMA StepKeepsOrders ==
  ASSUME Base, Base', Shape, Shape', ObjectsHeld, Orders, [Next]_vars
  PROVE  Orders'
<1> DEFINE Answered(r) == /\ pc'[r] \in Ops /\ seq'[r] = 0 => reply'[r] = "none"
                          /\ seq'[r] # 0 /\ reply'[r] = "ok" => seq'[r] = seq[r] /\ reply[r] = "ok"
<1>1. ASSUME UNCHANGED <<requests, begun, next, last>>, card'.seq = card.seq, ended \subseteq ended',
             \A s \in Streams : Front(s)' => Front(s), \A r \in Runs : Answered(r)
      PROVE  Orders'
  BY <1>1 DEF Orders
<1>2. ASSUME NEW r \in Runs, OthersStay(r), NEW q \in Runs, q # r
      PROVE  Answered(q)
  BY <1>2 DEF OthersStay, Orders
<1>3. CASE UNCHANGED vars
  <2>1. UNCHANGED <<requests, begun, next, last, card, ended, current, kind, using, pc, seq, reply>>
    BY <1>3 DEF vars, sendVars, runsVars, feishuVars, seqVars
  <2> QED
    BY <1>1, <2>1 DEF Front, Reporting, Orders
<1>4. ASSUME NEW q \in Runs, Send(q)
      PROVE  Orders'
  <2>1. CASE Turns(q)
    <3>1. UNCHANGED <<requests, begun, next, last, card, ended>> /\ OthersStay(q)
      BY <2>1, TurnCalls
    <3>2. \A s \in Streams : Front(s)' => Front(s)
      BY <2>1, TurnFront
    <3>3. Answered(q)
      BY <2>1, TurnAnswers
    <3> QED
      BY <1>1, <1>2, <3>1, <3>2, <3>3
  <2>2. CASE PatchApplies(q)
    <3>1. /\ UNCHANGED <<requests, begun, next, last, ended, current, kind, using, pc, seq>>
          /\ pc[q] = "patch" /\ reply' = [reply EXCEPT ![q] = "ok"] /\ card'.seq = card.seq
      BY <2>2 DEF PatchApplies, Shows, runsVars, seqVars
    <3>2. seq[q] = 0
      BY <3>1 DEF Shape, LockShape, Ops
    <3>3. \A r \in Runs : Answered(r)
      BY <3>1, <3>2 DEF Orders, Ops, Base, Types, SendTypes
    <3> QED
      BY <1>1, <3>1, <3>3 DEF Front, Reporting
  <2>3. ASSUME NEW outcome \in Outcomes, ResultPatched(q, outcome)
        PROVE  Orders'
    <3>1. /\ Call(q, "none", None, "none")
          /\ UNCHANGED <<requests, begun, next, last, card, ended, since, current>>
      BY <2>3 DEF ResultPatched, NoCall, seqVars
    <3>2. OthersStay(q) /\ kind'[q] = "none" /\ pc'[q] = "none" /\ seq'[q] = 0
      BY <3>1, CallStays, OthersSame
    <3>3. \A s \in Streams : Front(s)' => Front(s)
      BY <3>1, <3>2 DEF Front, Reporting, OthersStay
    <3>4. Answered(q)
      BY <3>2 DEF Ops
    <3> QED
      BY <1>1, <1>2, <3>1, <3>2, <3>3, <3>4
  <2>4. CASE AttemptTimesOut(q)
    <3>1. UNCHANGED <<requests, begun, next, last, card, ended, current, kind, using, pc, seq, reply>>
      BY <2>4 DEF AttemptTimesOut, sendVars, runsVars, seqVars
    <3> QED
      BY <1>1, <3>1 DEF Front, Reporting, Orders
  <2> QED
    BY <1>4, <2>1, <2>2, <2>3, <2>4, SendCases, IssueOrders
<1>5. ASSUME NEW r \in Runs, NEW s \in Streams, TaskStream(s), OthersStay(r), UNCHANGED <<ended, card, requests>>,
             r = begun', begun' = begun \/ (begun = 0 /\ begun' = 1), r \notin ended, kind'[r] \in {"start", "progress"},
             using'[r] = s, pc'[r] = "lock", seq'[r] = 0
      PROVE  Orders'
  <2>1. ASSUME NEW t \in Streams, Front(t)', next'[t] # 0, NEW x \in requests, x.detail[1] = r
        PROVE  x.seq < next'[t]
    <3>1. t = s
      BY <1>5, <2>1, TaskStreamIsFront
    <3>2. current # None
      BY <1>5, <2>1, <3>1, TaskStreamSpares
    <3>3. s = current /\ next' = next
      BY <1>5, <3>2, TaskStreamSpares
    <3>4. begun # 0
      BY <3>2 DEF Shape, RunShape
    <3> QED
      BY <1>5, <2>1, <3>1, <3>3, <3>4 DEF Front, Orders
  <2>2. \A q \in Runs : /\ pc'[q] \in Ops /\ seq'[q] = 0 => reply'[q] = "none"
                        /\ seq'[q] # 0 /\ reply'[q] = "ok" => card'.seq >= seq'[q]
    BY <1>5 DEF OthersStay, Orders, Ops
  <2>3. \A x \in requests' : x.seq <= last' /\ x.detail[1] <= begun'
    <3>1. last' = last /\ begun \in Nat
      BY <1>5, TaskStreamSpares DEF Base, Types, RunTypes
    <3>2. \A x \in requests : x.detail[1] \in Nat
      BY DEF Base, Types, FeishuTypes, Runs
    <3> QED
      BY <1>5, <3>1, <3>2 DEF Orders
  <2> QED
    BY <1>5, <2>1, <2>2, <2>3 DEF Orders
<1>6. CASE BeginRun
  <2>1. begun' = begun + 1 /\ begun \in Nat /\ UNCHANGED <<ended, card, requests, since>>
    BY <1>6 DEF BeginRun, feishuVars, Base, Types, RunTypes
  <2>2. CASE begun = 0
    <3>1. PICK s \in Streams : TaskStream(s) /\ Call(1, "start", s, "lock")
      BY <1>6, <2>2 DEF BeginRun
    <3>2. 1 \in Runs /\ 1 = begun' /\ 1 \notin ended
      BY <1>6, <2>1, <2>2, CardStreamAssumption DEF BeginRun, Runs, Shape, RunShape
    <3>3. OthersStay(1) /\ kind'[1] = "start" /\ using'[1] = s /\ pc'[1] = "lock" /\ seq'[1] = 0
      BY <2>1, <3>1, <3>2, CallStays, OthersSame
    <3> QED
      BY <1>5, <2>1, <2>2, <3>1, <3>2, <3>3
  <2>3. CASE begun # 0
    <3>1. UNCHANGED <<next, last, pc, seq, reply>>
      BY <1>6, <2>3 DEF BeginRun, seqVars, sendVars
    <3>2. \A x \in requests : x.detail[1] \in Nat /\ x.detail[1] <= begun
      BY DEF Orders, Base, Types, FeishuTypes, Runs
    <3> QED
      BY <2>1, <3>1, <3>2 DEF Orders
  <2> QED
    BY <2>2, <2>3
<1>7. CASE Crash
  <2>1. /\ current' = None /\ kind' = [q \in Runs |-> "none"] /\ pc' = [q \in Runs |-> "none"]
        /\ seq' = [q \in Runs |-> 0] /\ UNCHANGED <<begun, requests, last>>
    BY <1>7 DEF Crash, feishuVars, Forget
  <2>2. ASSUME NEW s \in Streams PROVE ~Front(s)'
    BY <2>1, CardStreamAssumption DEF Front, Reporting
  <2> QED
    BY <2>1, <2>2 DEF Orders, Ops
<1>8. ASSUME NEW r \in Runs, EndRun(r)
      PROVE  Orders'
  <2>1. UNCHANGED <<requests, begun, next, last, card, current, kind, using, pc, seq, reply>> /\ ended \subseteq ended'
    BY <1>8 DEF EndRun, sendVars, feishuVars, seqVars
  <2> QED
    BY <1>1, <2>1 DEF Front, Reporting, Orders
<1>9. ASSUME NEW r \in Runs, Result(r)
      PROVE  Orders'
  <2>1. /\ Call(r, "result", current, IF current = None THEN "patch" ELSE "lock")
        /\ UNCHANGED <<requests, begun, next, last, card, ended, since>>
    BY <1>9 DEF Result, feishuVars, seqVars
  <2>2. \A s \in Streams : Front(s)' => Front(s)
    BY <1>9, ResultIsQuiet DEF Quiet
  <2>3. OthersStay(r) /\ pc'[r] \in {"patch", "lock"} /\ seq'[r] = 0
    BY <2>1, CallStays, OthersSame
  <2>4. Answered(r)
    BY <2>3 DEF Ops
  <2> QED
    BY <1>1, <1>2, <2>1, <2>2, <2>3, <2>4
<1>10. ASSUME NEW r \in Runs, NEW v \in 1..MaxVersion, Progress(r, v)
       PROVE  Orders'
  <2>1. PICK s \in Streams : TaskStream(s) /\ Call(r, "progress", s, "lock")
    BY <1>10 DEF Progress
  <2>2. /\ UNCHANGED <<card, requests, ended, begun>> /\ r = begun /\ r \notin ended
        /\ \A q \in Runs \ {r} : since'[q] = since[q]
    BY <1>10 DEF Progress, feishuVars, Base, Types, RunTypes
  <2>3. OthersStay(r) /\ kind'[r] = "progress" /\ using'[r] = s /\ pc'[r] = "lock" /\ seq'[r] = 0
    BY <2>1, <2>2, CallStays, OthersSame
  <2> QED
    BY <1>5, <2>1, <2>2, <2>3
<1>11. ASSUME NEW p \in late, PatchLate(p)
       PROVE  Orders'
  <2>1. /\ UNCHANGED <<requests, begun, next, last, ended, current, kind, using, pc, seq, reply>>
        /\ card'.seq = card.seq
    BY <1>11 DEF PatchLate, Shows, sendVars, runsVars, seqVars
  <2> QED
    BY <1>1, <2>1 DEF Front, Reporting, Orders
<1> QED
  BY <1>3, <1>4, <1>6, <1>7, <1>8, <1>9, <1>10, <1>11, ProcessOrders DEF Next

-----------------------------------------------------------------------------
(* Late requests for the detail *)

\* A request on its way can only put a detail there that was sent since the last
\* success.
NoneBehind(r) ==
  \A x \in requests : x.op = "content" /\ x.detail[1] = r /\ x.seq > card.seq => x.detail[2] \in since[r]

DetailKept == \A r \in Runs \ ended, s \in Streams : r = begun /\ Front(s) /\ Streaming(s) => NoneBehind(r)

\* Once an operation on the object of the run is answered, its earlier requests
\* come too late.
LEMMA AnsweredLast ==
  ASSUME Base, Shape, Orders, NEW q \in Runs, pc[q] \in Ops, seq[q] # 0, reply[q] = "ok",
         NEW r \in Runs, r \notin ended, r = begun, using[q] \in Streams, Front(using[q])
  PROVE  \A x \in requests : x.detail[1] = r => x.seq <= card.seq
<1>1. card.seq >= seq[q] /\ next[using[q]] = seq[q] + 1
  BY DEF Orders, Shape, LockShape
<1>2. seq[q] \in Nat /\ card.seq \in Nat /\ \A x \in requests : x.seq \in Nat
  BY DEF Base, Types, SendTypes, FeishuTypes
<1>3. \A x \in requests : x.detail[1] = r => x.seq < next[using[q]]
  BY <1>1, <1>2 DEF Orders
<1> QED
  BY <1>1, <1>2, <1>3

\* A turn that makes an object active, or counts progress as sent, is answered.
LEMMA TurnStreams ==
  ASSUME Base, Shape, ObjectsHeld, Follows, NEW q \in Runs, Turns(q),
         NEW r \in Runs, r \notin ended, r = begun, NEW s \in Streams, Front(s), Streaming(s)'
  PROVE  \/ Streaming(s) /\ since'[r] = since[r]
         \/ s = using[q] /\ pc[q] \in Ops /\ seq[q] # 0 /\ reply[q] = "ok"
<1>1. /\ Held(q) /\ OthersStay(q) /\ \A t \in Streams \ {using[q]} : stream'[t] = stream[t]
  BY TurnCalls DEF ObjectsHeld
<1>2. CASE s # using[q]
  <2>1. Streaming(s)
    BY <1>1, <1>2 DEF Streaming
  <2>2. ~(q = r /\ Reporting(r))
    BY <1>2, FrontUses
  <2>3. since'[r] = since[r]
    <3>1. CASE q # r
      BY <1>1, <3>1 DEF OthersStay
    <3>2. CASE q = r
      <4>1. FALSE
        BY <2>2, <3>2, TurnCalls DEF Reporting, Shape, SendShape, Base, Types, SendTypes
      <4> QED
        BY <4>1
    <3> QED
      BY <3>1, <3>2
  <2> QED
    BY <2>1, <2>3
<1>3. CASE s = using[q]
  <2>1. CASE Begins(q) \/ Chooses(q) \/ FindsShown(q) \/ Resolves(q) \/ FailsNow(q) \/ TakesForResult(q)
    <3>1. Streaming(s)
      BY <1>3, <2>1 DEF Begins, Chooses, FindsShown, Resolves, FailsNow, TakesForResult, Same, Leaves, Streaming
    <3>2. since'[q] = since[q]
      BY <2>1 DEF Begins, Chooses, FindsShown, Resolves, FailsNow, TakesForResult, Moved, Over
    <3> QED
      BY <1>1, <3>1, <3>2 DEF OthersStay
  <2>2. CASE Disables(q) \/ Closes(q)
    <3>1. Streaming(s)
      BY <1>3, <2>2 DEF Disables, Closes, Leaves, Streaming
    <3>2. since'[q] = since[q]
      BY <2>2 DEF Disables, Closes, Moved
    <3> QED
      BY <1>1, <3>1, <3>2 DEF OthersStay
  <2>3. CASE GivesUp(q) \/ Pauses(q)
    BY <1>3, <2>3 DEF GivesUp, Pauses, Leaves, Streaming
  <2>4. CASE Activates(q) \/ ShowsDetail(q)
    BY <1>3, <2>4 DEF Activates, ShowsDetail, Ops
  <2>5. CASE HasPatched(q)
    <3>1. stream'[s].active = stream[s].active /\ stream'[s].unavailable = stream[s].unavailable
      BY <1>3, <2>5 DEF HasPatched, Leaves
    <3>2. Streaming(s)
      BY <3>1 DEF Streaming
    <3>3. FALSE
      BY <1>1, <1>3, <2>5, <3>2 DEF HasPatched, Held, Streaming
    <3> QED
      BY <3>3
  <2> QED
    BY <2>1, <2>2, <2>3, <2>4, <2>5 DEF Turns
<1> QED
  BY <1>2, <1>3

LEMMA IssueDetail ==
  ASSUME Base, Shape, DetailKept, NEW q \in Runs, Issue(q)
  PROVE  DetailKept'
<1>1. PICK n \in 1..MaxSequence :
        /\ requests' = requests \cup
             {[op |-> IF pc[q] \in {"pause", "disable", "close"} THEN "off" ELSE pc[q],
               seq |-> n, detail |-> <<q, IF pc[q] = "content" THEN reported[q] ELSE 0>>]}
  BY DEF Issue
<1>2. /\ UNCHANGED <<begun, ended, kind, using, current, card, since, stream>> /\ pc[q] \in Ops
  BY DEF Issue, runsVars
<1>3. \A x \in requests' : x \in requests \/ (x.detail[1] = q /\ (x.op = "content" => x.detail[2] = reported[q]))
  BY <1>1, <1>2 DEF Ops
<1>4. q \notin ended => reported[q] \in since[q]
  BY DEF Shape, SendShape
<1>5. ASSUME NEW r \in Runs, r \notin ended, NoneBehind(r)
      PROVE  NoneBehind(r)'
  BY <1>2, <1>3, <1>4, <1>5 DEF NoneBehind
<1>6. \A s \in Streams : (Front(s)' => Front(s)) /\ (Streaming(s)' => Streaming(s))
  BY <1>2 DEF Front, Reporting, Streaming
<1> QED
  BY <1>2, <1>5, <1>6 DEF DetailKept

LEMMA StepKeepsDetail ==
  ASSUME Base, Base', Shape, Shape', ObjectsHeld, Follows, Orders, DetailKept, [Next]_vars
  PROVE  DetailKept'
<1>1. ASSUME begun' = begun, ended \subseteq ended', \A r \in Runs \ ended' : since'[r] = since[r],
             card'.seq >= card.seq, requests' \subseteq requests, stream' = stream,
             \A s \in Streams : Front(s)' => Front(s)
      PROVE  DetailKept'
  <2>1. ASSUME NEW r \in Runs \ ended', NoneBehind(r) PROVE NoneBehind(r)'
    <3>1. card.seq \in Nat /\ card'.seq \in Nat /\ \A x \in requests : x.seq \in Nat
      BY DEF Base, Types, FeishuTypes
    <3> QED
      BY <1>1, <2>1, <3>1 DEF NoneBehind
  <2> QED
    BY <1>1, <2>1 DEF DetailKept, Streaming
<1>2. card.seq >= card.seq
  BY DEF Base, Types, FeishuTypes
<1>3. CASE UNCHANGED vars
  <2>1. UNCHANGED <<requests, begun, card, ended, current, kind, using, stream, since>>
    BY <1>3 DEF vars, sendVars, runsVars, feishuVars
  <2> QED
    BY <1>1, <1>2, <2>1 DEF Front, Reporting
<1>4. ASSUME NEW q \in Runs, Send(q)
      PROVE  DetailKept'
  <2>1. CASE Turns(q)
    <3>1. UNCHANGED <<requests, begun, card, ended>>
      BY <2>1, TurnCalls
    <3>2. SUFFICES ASSUME NEW r \in Runs, r \notin ended, NEW s \in Streams, r = begun, Front(s)', Streaming(s)'
          PROVE  NoneBehind(r)'
      BY <3>1 DEF DetailKept
    <3>3. Front(s)
      BY <2>1, <3>2, TurnFront
    <3>4. CASE Streaming(s) /\ since'[r] = since[r]
      BY <3>1, <3>2, <3>3, <3>4 DEF DetailKept, NoneBehind
    <3>5. CASE s = using[q] /\ pc[q] \in Ops /\ seq[q] # 0 /\ reply[q] = "ok"
      <4>1. \A x \in requests : x.detail[1] = r => x.seq <= card.seq
        BY <3>2, <3>3, <3>5, AnsweredLast
      <4>2. card.seq \in Nat /\ \A x \in requests : x.seq \in Nat
        BY DEF Base, Types, FeishuTypes
      <4> QED
        BY <3>1, <4>1, <4>2 DEF NoneBehind
    <3> QED
      BY <2>1, <3>2, <3>3, <3>4, <3>5, TurnStreams
  <2>2. CASE PatchApplies(q)
    <3>1. UNCHANGED <<requests, begun, ended, current, kind, using, stream, since>> /\ card'.seq = card.seq
      BY <2>2 DEF PatchApplies, Shows, runsVars
    <3> QED
      BY <1>1, <1>2, <3>1 DEF Front, Reporting
  <2>3. ASSUME NEW outcome \in Outcomes, ResultPatched(q, outcome)
        PROVE  DetailKept'
    <3>1. /\ Call(q, "none", None, "none")
          /\ UNCHANGED <<requests, begun, card, ended, since, current, stream>>
      BY <2>3 DEF ResultPatched, NoCall
    <3>2. OthersStay(q) /\ kind'[q] = "none"
      BY <3>1, CallStays, OthersSame
    <3>3. \A s \in Streams : Front(s)' => Front(s)
      BY <3>1, <3>2 DEF Front, Reporting, OthersStay
    <3> QED
      BY <1>1, <1>2, <3>1, <3>3
  <2>4. CASE AttemptTimesOut(q)
    BY <1>1, <1>2, <2>4 DEF AttemptTimesOut, sendVars, runsVars, Front, Reporting
  <2> QED
    BY <1>4, <2>1, <2>2, <2>3, <2>4, SendCases, IssueDetail
<1>5. ASSUME NEW r \in Runs, NEW s \in Streams, TaskStream(s), OthersStay(r), UNCHANGED <<ended, card, requests>>,
             since[r] \subseteq since'[r], r = begun', begun' = begun \/ (begun = 0 /\ begun' = 1), r \notin ended,
             kind'[r] \in {"start", "progress"}, using'[r] = s
      PROVE  DetailKept'
  <2>1. ASSUME NEW t \in Streams, Front(t)', Streaming(t)'
        PROVE  NoneBehind(r)'
    <3>1. t = s
      BY <1>5, <2>1, TaskStreamIsFront
    <3>2. current # None
      BY <1>5, <2>1, <3>1, TaskStreamSpares DEF Streaming, NoStream
    <3>3. s = current /\ stream' = stream
      BY <1>5, <3>2, TaskStreamSpares
    <3>4. begun # 0
      BY <3>2 DEF Shape, RunShape
    <3>5. NoneBehind(r)
      BY <1>5, <2>1, <3>1, <3>3, <3>4 DEF Front, DetailKept, Streaming
    <3> QED
      BY <1>5, <3>5 DEF NoneBehind
  <2> QED
    BY <1>5, <2>1 DEF DetailKept
<1>6. CASE BeginRun
  <2>1. begun' = begun + 1 /\ begun \in Nat /\ UNCHANGED <<ended, card, requests, since>>
    BY <1>6 DEF BeginRun, feishuVars, Base, Types, RunTypes
  <2>2. CASE begun = 0
    <3>1. PICK s \in Streams : TaskStream(s) /\ Call(1, "start", s, "lock")
      BY <1>6, <2>2 DEF BeginRun
    <3>2. 1 \in Runs /\ 1 = begun' /\ 1 \notin ended
      BY <1>6, <2>1, <2>2, CardStreamAssumption DEF BeginRun, Runs, Shape, RunShape
    <3>3. OthersStay(1) /\ kind'[1] = "start" /\ using'[1] = s
      BY <2>1, <3>1, <3>2, CallStays, OthersSame
    <3> QED
      BY <1>5, <2>1, <2>2, <3>1, <3>2, <3>3
  <2>3. CASE begun # 0
    <3>1. \A x \in requests : x.detail[1] \in Nat /\ x.detail[1] <= begun
      BY DEF Orders, Base, Types, FeishuTypes, Runs
    <3> QED
      BY <2>1, <3>1 DEF DetailKept, NoneBehind
  <2> QED
    BY <2>2, <2>3
<1>7. CASE Crash
  <2>1. current' = None /\ kind' = [q \in Runs |-> "none"]
    BY <1>7 DEF Crash
  <2>2. ASSUME NEW s \in Streams PROVE ~Front(s)'
    BY <2>1, CardStreamAssumption DEF Front, Reporting
  <2> QED
    BY <2>2 DEF DetailKept
<1>8. ASSUME NEW r \in Runs, EndRun(r)
      PROVE  DetailKept'
  <2>1. /\ UNCHANGED <<requests, begun, card, current, kind, using, stream>> /\ ended' = ended \cup {r}
        /\ since' = [since EXCEPT ![r] = {}]
    BY <1>8 DEF EndRun, sendVars, feishuVars
  <2>2. \A q \in Runs \ ended' : since'[q] = since[q]
    BY <2>1 DEF Base, Types, RunTypes
  <2> QED
    BY <1>1, <1>2, <2>1, <2>2 DEF Front, Reporting
<1>9. ASSUME NEW r \in Runs, Result(r)
      PROVE  DetailKept'
  <2>1. UNCHANGED <<requests, begun, card, ended, since, stream>>
    BY <1>9 DEF Result, feishuVars
  <2>2. \A s \in Streams : Front(s)' => Front(s)
    BY <1>9, ResultIsQuiet DEF Quiet
  <2> QED
    BY <1>1, <1>2, <2>1, <2>2
<1>10. ASSUME NEW r \in Runs, NEW v \in 1..MaxVersion, Progress(r, v)
       PROVE  DetailKept'
  <2>1. PICK s \in Streams : TaskStream(s) /\ Call(r, "progress", s, "lock")
    BY <1>10 DEF Progress
  <2>2. /\ UNCHANGED <<card, requests, ended, begun>> /\ r = begun /\ r \notin ended /\ since[r] \subseteq since'[r]
        /\ \A q \in Runs \ {r} : since'[q] = since[q]
    BY <1>10 DEF Progress, feishuVars, Base, Types, RunTypes
  <2>3. OthersStay(r) /\ kind'[r] = "progress" /\ using'[r] = s
    BY <2>1, <2>2, CallStays, OthersSame
  <2> QED
    BY <1>5, <2>1, <2>2, <2>3
<1>11. ASSUME NEW x \in requests, NEW refused \in BOOLEAN, Process(x, refused)
       PROVE  DetailKept'
  <2>1. /\ UNCHANGED <<begun, ended, current, kind, using, stream, since>> /\ requests' \subseteq requests
    BY <1>11 DEF Process, runsVars
  <2>2. card'.seq >= card.seq
    BY <1>11, ProcessOrders
  <2> QED
    BY <1>1, <2>1, <2>2 DEF Front, Reporting
<1>12. ASSUME NEW p \in late, PatchLate(p)
       PROVE  DetailKept'
  <2>1. /\ UNCHANGED <<requests, begun, ended, current, kind, using, stream, since>>
        /\ card'.seq = card.seq
    BY <1>12 DEF PatchLate, Shows, sendVars, runsVars
  <2> QED
    BY <1>1, <1>2, <2>1 DEF Front, Reporting
<1> QED
  BY <1>3, <1>4, <1>6, <1>7, <1>8, <1>9, <1>10, <1>11, <1>12 DEF Next

-----------------------------------------------------------------------------
(* The first run *)

\* Nothing but the first run is going on.
OnlyFirst == begun = 1 /\ 1 \notin ended

\* The card has got what the first run reports.
Shown == kind[1] = "progress" /\ ((pc[1] \in {"patch", "content"} /\ reply[1] = "ok") \/ pc[1] \in {"resolve", "enable"})

FirstShown ==
  ~stream[current].unavailable =>
    /\ card.late \/ (card.detail[1] = 1 /\ card.detail[2] \in since[1])
    /\ ~stream[current].active => \A x \in requests : x.op = "content" => x.seq <= card.seq
    /\ Shown => card.late \/ card.detail[2] = reported[1]

ContentOfFirst ==
  pc[1] = "content" /\ seq[1] # 0 =>
    \A x \in requests : x.seq = seq[1] => x.op = "content" /\ x.detail = <<1, reported[1]>>

First == OnlyFirst => (card.late \/ card.kind # "result") /\ ContentOfFirst /\ FirstShown

LEMMA FirstAlone ==
  ASSUME Base, Shape, OnlyFirst
  PROVE  /\ 1 \in Runs /\ current \in Streams /\ Front(current) /\ kind[1] # "result"
         /\ Reporting(1) => using[1] = current
         /\ \A q \in Runs : pc[q] # "none" => q = 1
         /\ reported[1] \in since[1]
<1>1. 1 \in Runs
  BY CardStreamAssumption DEF OnlyFirst, Runs, Base, Types, RunTypes
<1>2. current \in Streams
  BY DEF OnlyFirst, Shape, RunShape, Base, Types, ObjectTypes
<1>3. Front(current)
  BY DEF Front
<1>4. kind[1] # "result"
  BY <1>1 DEF OnlyFirst, Shape, SendShape
<1>5. Reporting(1) => using[1] = current
  BY <1>1, <1>2, <1>3, FrontUses DEF OnlyFirst
<1>6. \A q \in Runs : pc[q] # "none" => q = 1
  BY DEF OnlyFirst, Shape, SendShape, Runs
<1>7. reported[1] \in since[1]
  BY <1>1 DEF OnlyFirst, Shape, SendShape
<1> QED
  BY <1>1, <1>2, <1>3, <1>4, <1>5, <1>6, <1>7

LEMMA FirstRequests ==
  ASSUME Base, Shape, Orders, OnlyFirst
  PROVE  /\ \A x \in requests : x.detail[1] = 1 /\ x.seq \in Nat /\ x.seq <= last /\ x.seq # 0
         /\ next[current] # 0 => \A x \in requests : x.seq < next[current]
<1>1. 1 \in Runs /\ current \in Streams /\ Front(current)
  BY FirstAlone
<1>2. ASSUME NEW x \in requests
      PROVE  x.detail[1] = 1 /\ x.seq \in Nat /\ x.seq <= last /\ x.seq # 0
  <2>1. x.detail[1] \in Nat /\ x.detail[1] >= 1 /\ x.seq \in Nat /\ x.seq # 0
    BY DEF Base, Types, FeishuTypes, Runs
  <2>2. x.detail[1] <= 1 /\ x.seq <= last
    BY DEF Orders, OnlyFirst
  <2> QED
    BY <2>1, <2>2
<1> QED
  BY <1>1, <1>2 DEF Orders, OnlyFirst

LEMMA TurnFirst ==
  ASSUME Base, Shape, ObjectsHeld, Follows, Orders, First, OnlyFirst, NEW q \in Runs, Turns(q)
  PROVE  First'
<1>1. UNCHANGED <<requests, begun, card, ended, current, reported>> /\ pc[q] # "none" /\ Held(q)
  BY TurnCalls DEF ObjectsHeld
<1>2. q = 1 /\ kind[1] \in {"start", "progress"} /\ using[1] = current /\ current \in Streams
  <2>1. q = 1 /\ kind[1] # "result" /\ current \in Streams /\ (Reporting(1) => using[1] = current)
    BY <1>1, FirstAlone
  <2> QED
    BY <1>1, <2>1 DEF Reporting, Shape, SendShape, Base, Types, SendTypes
<1>3. (card.late \/ card.kind # "result") /\ FirstShown
  BY DEF First
<1>4. seq'[1] = 0
  BY <1>2, TurnAnswers
<1>5. SUFFICES FirstShown'
  BY <1>1, <1>3, <1>4 DEF First, ContentOfFirst
<1>6. seq[1] # 0 /\ reply[1] = "ok" /\ pc[1] \in Ops => \A x \in requests : x.seq <= card.seq
  <2>1. Front(using[1])
    BY <1>2, FirstAlone
  <2>2. \A x \in requests : x.detail[1] = 1
    BY FirstRequests
  <2> QED
    BY <1>2, <2>1, <2>2, AnsweredLast DEF OnlyFirst
<1>7. CASE Begins(1)
  BY <1>1, <1>2, <1>3, <1>7 DEF Begins, Leaves, Moved, FirstShown, Shown
<1>8. CASE Chooses(1) \/ Resolves(1)
  BY <1>1, <1>2, <1>3, <1>8 DEF Chooses, Resolves, Same, Leaves, Moved, FirstShown, Shown
<1>9. CASE FindsShown(1) \/ FailsNow(1)
  BY <1>1, <1>2, <1>3, <1>9 DEF FindsShown, FailsNow, Same, Leaves, Over, FirstShown, Shown
<1>10. CASE GivesUp(1)
  BY <1>1, <1>2, <1>10 DEF GivesUp, Leaves, FirstShown
<1>11. CASE Activates(1)
  <2>1. /\ stream'[current].unavailable = stream[current].unavailable /\ stream'[current].active
        /\ since'[1] = IF kind[1] = "progress" THEN {reported[1]} ELSE since[1]
        /\ kind'[1] = "none"
    BY <1>2, <1>11 DEF Activates, Leaves, Over, OnlyFirst
  <2>2. kind[1] = "progress" => Shown
    BY <1>11 DEF Activates, Shown
  <2> QED
    BY <1>1, <1>3, <2>1, <2>2 DEF FirstShown, Shown
<1>12. CASE Pauses(1)
  <2>1. \A x \in requests : x.seq <= card.seq
    BY <1>6, <1>12 DEF Pauses, Ops
  <2> QED
    BY <1>1, <1>2, <1>3, <1>12, <2>1 DEF Pauses, Leaves, Moved, FirstShown, Shown
<1>13. CASE ShowsDetail(1)
  <2>1. /\ stream'[current].unavailable = stream[current].unavailable
        /\ stream'[current].active = stream[current].active
        /\ since'[1] = {reported[1]} /\ kind'[1] = "none"
    BY <1>2, <1>13 DEF ShowsDetail, Leaves, Over, OnlyFirst
  <2>2. Shown
    BY <1>13 DEF ShowsDetail, Shown
  <2> QED
    BY <1>1, <1>3, <2>1, <2>2 DEF FirstShown, Shown
<1>14. CASE Disables(1)
  <2>1. stream[current].unavailable
    BY <1>1, <1>2, <1>14 DEF Disables, Held
  <2>2. stream'[current].unavailable
    BY <1>2, <1>14, <2>1 DEF Disables, Leaves
  <2> QED
    BY <1>1, <2>2 DEF FirstShown
<1>15. CASE HasPatched(1)
  <2>1. /\ stream'[current].unavailable = stream[current].unavailable
        /\ stream'[current].active = stream[current].active
        /\ since'[1] \in {since[1], {reported[1]}}
    BY <1>2, <1>15 DEF HasPatched, Leaves, Moved, Over
  <2>2. Shown
    BY <1>15 DEF HasPatched, Shown
  <2> QED
    BY <1>1, <1>3, <2>1, <2>2 DEF FirstShown
<1> QED
  BY <1>2, <1>7, <1>8, <1>9, <1>10, <1>11, <1>12, <1>13, <1>14, <1>15 DEF Turns, TakesForResult, Closes

LEMMA IssueFirst ==
  ASSUME Base, Shape, ObjectsHeld, Orders, First, OnlyFirst, NEW q \in Runs, Issue(q)
  PROVE  First'
<1>1. PICK n \in 1..MaxSequence :
        /\ Take(using[q], n) /\ seq' = [seq EXCEPT ![q] = n]
        /\ requests' = requests \cup
             {[op |-> IF pc[q] \in {"pause", "disable", "close"} THEN "off" ELSE pc[q],
               seq |-> n, detail |-> <<q, IF pc[q] = "content" THEN reported[q] ELSE 0>>]}
  BY DEF Issue
<1>2. /\ UNCHANGED <<begun, ended, pc, kind, using, current, reply, card, since, stream, reported>> /\ pc[q] \in Ops
  BY DEF Issue, runsVars
<1>3. q = 1 /\ using[1] = current /\ current \in Streams
  <2>1. q = 1 /\ kind[1] # "result" /\ current \in Streams /\ (Reporting(1) => using[1] = current)
    BY <1>2, FirstAlone DEF Ops
  <2>2. kind[1] \in {"start", "progress"}
    BY <1>2, <2>1 DEF Shape, SendShape, Ops, Base, Types, SendTypes
  <2> QED
    BY <2>1, <2>2 DEF Reporting
<1>4. n > last \/ (n = next[current] /\ next[current] # 0)
  BY <1>1, <1>3, TakeRises
<1>5. \A x \in requests : x.seq # n
  <2>1. last \in Nat /\ next[current] \in Nat /\ n \in Nat
    BY <1>3 DEF Base, SequenceInv, SeqTypeOK
  <2> QED
    BY <1>4, <2>1, FirstRequests
<1>6. seq'[1] = n
  BY <1>1, <1>3 DEF Base, Types, SendTypes
<1>7. ContentOfFirst'
  BY <1>1, <1>2, <1>3, <1>5, <1>6 DEF ContentOfFirst
<1>8. ~stream[current].active => pc[1] # "content"
  <2>1. pc[1] = "content" => kind[1] = "progress"
    BY <1>3, Reports
  <2> QED
    BY <1>3, <2>1 DEF ObjectsHeld, Held
<1>9. FirstShown'
  <2>1. ASSUME ~stream[current].active, NEW x \in requests', x.op = "content" PROVE x \in requests
    BY <1>1, <1>3, <1>8, <2>1
  <2> QED
    BY <1>2, <2>1 DEF First, FirstShown, Shown
<1> QED
  BY <1>2, <1>7, <1>9 DEF First

LEMMA ProcessFirst ==
  ASSUME Base, Shape, ObjectsHeld, Orders, DetailKept, First, OnlyFirst,
         NEW x \in requests, NEW refused \in BOOLEAN, Process(x, refused)
  PROVE  First'
<1> DEFINE ok == ~refused /\ x.seq > card.seq
           shows == ok /\ x.op = "content"
<1>1. /\ UNCHANGED <<begun, ended, pc, kind, using, current, since, stream, reported, seq>>
      /\ requests' \subseteq requests
  BY DEF Process, runsVars
<1>2. (card.late \/ card.kind # "result") /\ ContentOfFirst /\ FirstShown
  BY DEF First
<1>3. /\ card' = IF ~ok THEN card ELSE
            [card EXCEPT !.seq = x.seq,
                         !.detail = IF x.op = "content" /\ card.kind # "result" THEN x.detail ELSE @]
      /\ reply' = [r \in Runs |-> IF seq[r] # x.seq THEN reply[r] ELSE IF ok THEN "ok" ELSE "refused"]
  BY DEF Process
<1>4. card'.kind = card.kind /\ card'.late = card.late
  BY <1>3
<1>5. card'.seq >= card.seq
  BY ProcessOrders
<1>6. 1 \in Runs /\ current \in Streams /\ (Reporting(1) => using[1] = current)
      /\ Front(current)
  BY FirstAlone
<1>7. /\ x.detail[1] = 1 /\ x.seq \in Nat /\ x.seq # 0 /\ (next[current] # 0 => x.seq < next[current])
      /\ card.seq \in Nat /\ card'.seq \in Nat /\ \A y \in requests : y.seq \in Nat
  BY <1>5, FirstRequests, ProcessTypes DEF Base, Types, FeishuTypes
<1>8. shows => card.late \/ card'.detail = x.detail
  BY <1>2, <1>3 DEF Base, Types, FeishuTypes
<1>9. ~shows => card'.detail = card.detail
  BY <1>3
<1>10. ContentOfFirst'
  BY <1>1, <1>2 DEF ContentOfFirst
<1>11. ASSUME ~stream[current].unavailable
       PROVE  /\ card'.late \/ (card'.detail[1] = 1 /\ card'.detail[2] \in since[1])
              /\ ~stream[current].active => \A y \in requests' : y.op = "content" => y.seq <= card'.seq
              /\ Shown' => card'.late \/ card'.detail[2] = reported[1]
  <2>1. shows => stream[current].active
    BY <1>2, <1>7, <1>11 DEF FirstShown
  <2>2. card'.late \/ (card'.detail[1] = 1 /\ card'.detail[2] \in since[1])
    <3>1. CASE shows
      <4>1. Streaming(current)
        BY <1>11, <2>1, <3>1 DEF Streaming
      <4>2. NoneBehind(1)
        BY <1>6, <4>1 DEF DetailKept, OnlyFirst
      <4> QED
        BY <1>4, <1>7, <1>8, <3>1, <4>2 DEF NoneBehind
    <3>2. CASE ~shows
      BY <1>2, <1>4, <1>9, <1>11, <3>2 DEF FirstShown
    <3> QED
      BY <3>1, <3>2
  <2>3. ~stream[current].active => \A y \in requests' : y.op = "content" => y.seq <= card'.seq
    BY <1>1, <1>2, <1>5, <1>7, <1>11 DEF FirstShown
  <2>4. ASSUME Shown' PROVE card'.late \/ card'.detail[2] = reported[1]
    <3>1. kind[1] = "progress" /\ using[1] = current /\ Held(1)
      BY <1>1, <1>6, <2>4 DEF Shown, Reporting, ObjectsHeld
    <3>2. CASE pc[1] \in {"resolve", "enable", "patch"}
      <4>1. ~stream[current].active
        BY <1>11, <3>1, <3>2 DEF Held
      <4>2. Shown
        <5>1. pc[1] = "patch" => seq[1] = 0
          BY <1>6 DEF Shape, LockShape, Ops
        <5> QED
          BY <1>1, <1>3, <1>6, <1>7, <2>4, <3>2, <5>1 DEF Shown
      <4> QED
        BY <1>2, <1>4, <1>9, <1>11, <2>1, <4>1, <4>2 DEF FirstShown
    <3>3. CASE pc[1] = "content"
      <4>1. reply'[1] = "ok"
        BY <1>1, <2>4, <3>3 DEF Shown
      <4>2. CASE seq[1] = x.seq
        <5>1. ok /\ x.op = "content" /\ x.detail = <<1, reported[1]>>
          BY <1>2, <1>3, <1>6, <1>7, <3>3, <4>1, <4>2 DEF ContentOfFirst
        <5> QED
          BY <1>4, <1>6, <1>8, <5>1
      <4>3. CASE seq[1] # x.seq
        <5>1. reply[1] = "ok"
          BY <1>3, <1>6, <4>1, <4>3
        <5>2. seq[1] # 0 /\ pc[1] \in Ops
          BY <1>6, <3>3, <5>1 DEF Orders, Ops
        <5>3. \A y \in requests : y.detail[1] = 1 => y.seq <= card.seq
          BY <1>6, <3>1, <5>1, <5>2, AnsweredLast DEF OnlyFirst
        <5>4. ~shows
          BY <1>7, <5>3
        <5>5. Shown
          BY <3>1, <3>3, <5>1 DEF Shown
        <5> QED
          BY <1>2, <1>4, <1>9, <1>11, <5>4, <5>5 DEF FirstShown
      <4> QED
        BY <4>2, <4>3
    <3> QED
      BY <1>1, <2>4, <3>2, <3>3 DEF Shown
  <2> QED
    BY <2>2, <2>3, <2>4
<1> QED
  BY <1>1, <1>2, <1>4, <1>10, <1>11 DEF First, FirstShown

LEMMA StepKeepsFirst ==
  ASSUME Base, Shape, ObjectsHeld, OnCard, Follows, Orders, DetailKept, First, [Next]_vars
  PROVE  First'
<1>1. SUFFICES ASSUME OnlyFirst' PROVE First'
  BY DEF First
<1>2. CASE UNCHANGED vars
  <2>1. UNCHANGED <<requests, begun, card, ended, current, kind, pc, seq, reply, stream, since, reported>>
    BY <1>2 DEF vars, sendVars, runsVars, feishuVars
  <2> QED
    BY <2>1 DEF First, OnlyFirst, ContentOfFirst, FirstShown, Shown
<1>3. ASSUME NEW q \in Runs, Send(q)
      PROVE  First'
  <2>1. CASE Turns(q)
    <3>1. UNCHANGED <<begun, ended>>
      BY <2>1, TurnCalls
    <3> QED
      BY <1>1, <2>1, <3>1, TurnFirst DEF OnlyFirst
  <2>2. CASE Issue(q)
    <3>1. UNCHANGED <<begun, ended>>
      BY <2>2 DEF Issue, runsVars
    <3> QED
      BY <1>1, <2>2, <3>1, IssueFirst DEF OnlyFirst
  <2>3. CASE PatchApplies(q)
    <3>1. /\ UNCHANGED <<requests, begun, ended, current, kind, pc, seq, stream, since, reported>>
          /\ pc[q] = "patch"
          /\ kind[q] # "result" => card'.kind = "progress" /\ card'.detail = <<q, reported[q]>> /\ card'.seq = card.seq
      BY <2>3 DEF PatchApplies, Shows, Patch, runsVars, Base, Types, FeishuTypes
    <3>2. OnlyFirst
      BY <1>1, <3>1 DEF OnlyFirst
    <3>3. q = 1 /\ kind[1] # "result" /\ reported[1] \in since[1]
      BY <3>1, <3>2, FirstAlone
    <3> QED
      BY <3>1, <3>2, <3>3 DEF First, ContentOfFirst, FirstShown
  <2>4. ASSUME NEW outcome \in Outcomes, ResultPatched(q, outcome)
        PROVE  First'
    <3>1. UNCHANGED <<begun, ended>> /\ pc[q] = "patch" /\ kind[q] = "result"
      BY <2>4 DEF ResultPatched, PatchEnds
    <3>2. OnlyFirst
      BY <1>1, <3>1 DEF OnlyFirst
    <3> QED
      BY <3>1, <3>2, FirstAlone
  <2>5. CASE AttemptTimesOut(q)
    <3>1. UNCHANGED <<requests, begun, card, ended, current, kind, pc, seq, reply, stream, since, reported>>
      BY <2>5 DEF AttemptTimesOut, sendVars, runsVars
    <3> QED
      BY <3>1 DEF First, OnlyFirst, ContentOfFirst, FirstShown, Shown
  <2> QED
    BY <1>3, <2>1, <2>2, <2>3, <2>4, <2>5, SendCases
<1>4. CASE BeginRun
  <2>1. begun = 0 /\ 1 \in Runs /\ UNCHANGED <<card, requests, since>>
    BY <1>1, <1>4, CardStreamAssumption DEF BeginRun, OnlyFirst, feishuVars, Base, Types, RunTypes, Runs
  <2>2. PICK s \in Streams : TaskStream(s) /\ Call(1, "start", s, "lock")
    BY <1>4, <2>1 DEF BeginRun
  <2>3. kind'[1] = "start" /\ pc'[1] = "lock"
    BY <2>1, <2>2, OthersSame
  <2>4. card.kind # "result" /\ card.detail = <<1, 0>> /\ requests = {}
    BY <2>1 DEF OnCard, StartCard
  <2>5. since[1] = {0}
    BY <2>1 DEF Shape, SendShape
  <2> QED
    BY <2>1, <2>3, <2>4, <2>5 DEF First, ContentOfFirst, FirstShown, Shown
<1>5. CASE Crash
  <2>1. begun' = begun /\ ended' = 1..begun
    BY <1>5 DEF Crash
  <2> QED
    BY <1>1, <2>1 DEF OnlyFirst
<1>6. ASSUME NEW r \in Runs, EndRun(r)
      PROVE  First'
  BY <1>1, <1>6 DEF EndRun, OnlyFirst
<1>7. ASSUME NEW r \in Runs, Result(r)
      PROVE  First'
  <2>1. r \in ended /\ UNCHANGED <<begun, ended>>
    BY <1>7 DEF Result
  <2>2. r = 1
    BY <1>1, <2>1 DEF OnlyFirst, Shape, RunShape, Runs
  <2> QED
    BY <1>1, <2>1, <2>2 DEF OnlyFirst
<1>8. ASSUME NEW r \in Runs, NEW v \in 1..MaxVersion, Progress(r, v)
      PROVE  First'
  <2>1. PICK s \in Streams : TaskStream(s) /\ Call(r, "progress", s, "lock")
    BY <1>8 DEF Progress
  <2>2. UNCHANGED <<card, requests, ended, begun>> /\ r = begun /\ since[r] \subseteq since'[r]
    BY <1>8 DEF Progress, feishuVars, Base, Types, RunTypes
  <2>3. OnlyFirst /\ r = 1
    BY <1>1, <2>2 DEF OnlyFirst
  <2>4. kind'[1] = "progress" /\ pc'[1] = "lock"
    BY <2>1, <2>3, OthersSame
  <2>5. current' = current /\ stream' = stream
    BY <2>1, <2>3, FirstAlone, TaskStreamSpares, CardStreamAssumption
  <2> QED
    BY <2>2, <2>3, <2>4, <2>5 DEF First, ContentOfFirst, FirstShown, Shown
<1>9. ASSUME NEW x \in requests, NEW refused \in BOOLEAN, Process(x, refused)
      PROVE  First'
  <2>1. UNCHANGED <<begun, ended>>
    BY <1>9 DEF Process, runsVars
  <2> QED
    BY <1>1, <1>9, <2>1, ProcessFirst DEF OnlyFirst
<1>10. ASSUME NEW p \in late, PatchLate(p)
       PROVE  First'
  <2>1. /\ UNCHANGED <<requests, begun, ended, current, kind, pc, seq, stream, reported>>
        /\ card'.late /\ card'.seq = card.seq
    BY <1>10 DEF PatchLate, Shows, sendVars, runsVars
  <2> QED
    BY <1>1, <2>1 DEF First, OnlyFirst, ContentOfFirst, FirstShown
<1> QED
  BY <1>2, <1>3, <1>4, <1>5, <1>6, <1>7, <1>8, <1>9, <1>10 DEF Next

-----------------------------------------------------------------------------
(* The card *)

\* What is known of the objects, the card and the requests on their way.
CardInv == ObjectsHeld /\ Owners /\ OnCard /\ Follows /\ Orders /\ DetailKept /\ First

LEMMA InitCard == Init => CardInv
<1>1. SUFFICES ASSUME Init PROVE CardInv
  OBVIOUS
<1>2. /\ begun = 0 /\ current = None /\ requests = {} /\ stream = [s \in Streams |-> NoStream]
      /\ late = {} /\ card.kind = "start" /\ card.key = Key(1, 0) /\ card.detail = <<1, 0>>
      /\ \A r \in Runs : kind[r] = "none" /\ pc[r] = "none" /\ seq[r] = 0
  BY <1>1 DEF Init
<1>3. ObjectsHeld
  BY <1>2 DEF ObjectsHeld, Held
<1>4. Owners
  BY <1>2 DEF Owners, NoStream
<1>5. OnCard
  BY <1>2 DEF OnCard, StartCard, Patched
<1>6. \A r \in Runs : r # begun
  BY <1>2 DEF Runs
<1>7. Follows /\ DetailKept /\ First
  BY <1>2, <1>6 DEF Follows, DetailKept, First, OnlyFirst
<1>8. Orders
  BY <1>2, <1>6 DEF Orders, Ops
<1> QED
  BY <1>3, <1>4, <1>5, <1>7, <1>8 DEF CardInv

LEMMA StepKeepsCard ==
  ASSUME Base, Base', Shape, Shape', CardInv, [Next]_vars
  PROVE  CardInv'
BY StepKeepsHeld, StepKeepsOwners, StepKeepsOnCard, StepKeepsFollows, StepKeepsOrders, StepKeepsDetail, StepKeepsFirst
DEF CardInv

LEMMA CardOfBegun ==
  ASSUME Base, Shape, CardInv, NEW r \in Runs, r = begun, r \notin ended, 1..(r - 1) \subseteq done,
         card.kind # "result", current # None, Streaming(current)
  PROVE  /\ NoneBehind(r)
         /\ card.late \/ \E v \in since[r] : card.key = Key(r, v)
         /\ r = 1 => card.late \/ (card.detail[1] = r /\ card.detail[2] \in since[r])
<1>1. current \in Streams /\ Front(current)
  BY DEF Front, Base, Types, ObjectTypes
<1>2. stream[current].key[1] = r
  <2>1. stream[current].key[1] \in 0..r /\ stream[current].key[1] # 0
    BY <1>1 DEF CardInv, Owners, Streaming
  <2>2. \A q \in Runs : q \in done => stream[current].key[1] # q
    BY DEF CardInv, Owners
  <2>3. r \in Nat /\ 1..(r - 1) \subseteq Runs
    BY CardStreamAssumption DEF Runs
  <2>4. stream[current].key[1] \notin 1..(r - 1)
    BY <2>2, <2>3
  <2> QED
    BY <2>1, <2>3, <2>4
<1>3. Fresh(r, current) /\ NoneBehind(r)
  BY <1>1 DEF CardInv, Follows, DetailKept
<1>4. card.late \/ \E v \in since[r] : card.key = Key(r, v)
  BY <1>2, <1>3 DEF Fresh
<1>5. r = 1 => card.late \/ (card.detail[1] = r /\ card.detail[2] \in since[r])
  BY DEF CardInv, First, OnlyFirst, FirstShown, Streaming
<1> QED
  BY <1>3, <1>4, <1>5

\* While native streaming is in use the card shows what the run was last told is
\* sent or something sent later, unless a patch given up without an answer was the
\* last to reach it; and no CardKit request on its way can put another detail there.
THEOREM AckedShown == Spec => []AckedIsShown
<1>1. (Base /\ Shape) /\ (Base /\ Shape)' /\ CardInv /\ [Next]_vars => CardInv'
  BY StepKeepsCard
<1>2. Spec => []CardInv
  BY <1>1, InitCard, SendsKeepShape, PTL DEF Spec
<1>3. (Base /\ Shape) /\ CardInv => AckedIsShown
  BY CardOfBegun DEF AckedIsShown, NoneBehind, Streaming
<1> QED
  BY <1>2, <1>3, SendsKeepShape, PTL
=============================================================================
