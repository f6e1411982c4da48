--------------------------- MODULE OverloadProofs ---------------------------
(***************************************************************************)
(* What is proved of a whole overload scenario, for any number of requests,*)
(* any window, payload and chunk, and, where it matters, any fault.        *)
(*                                                                         *)
(* First, the server thread in the company of the client thread does       *)
(* nothing it could not do alone (ServerRefined), so what RawServerProofs  *)
(* proves of the server holds in the scenario.  Then the client's books:   *)
(* one inductive invariant, ClientBooks, from which its type, its          *)
(* accounting and the safety of the watchdog's subtraction follow.  Then   *)
(* the invariants that tie the threads together through the wire, Links,   *)
(* and from all three that the two sides of the report agree.  Last, with  *)
(* the same invariants, that a run without faults is a run of              *)
(* OverloadPromise.                                                        *)
(***************************************************************************)
EXTENDS Overload, RawServerProofs

\* What the client has written is a part of what any peer may have sent.
LEMMA ReceivesAsAlone == TypeOK /\ ServerReceives => Receive
<1> SUFFICES ASSUME TypeOK, ServerReceives PROVE Receive
  OBVIOUS
<1>1. PICK f \in Arrivals : RecvDatagram(f, peer_reset)
  BY DEF ServerReceives
<1>2. peer_reset \in Resets(f)
  <2>1. peer_reset \in SUBSET Streams
    BY DEF TypeOK, ReceiveType
  <2> QED BY <2>1 DEF Resets
<1> QED BY <1>1, <1>2 DEF Receive

LEMMA StepsAsAlone == TypeOK /\ [OverloadNext]_overloadVars => [ServerNext]_serverVars
<1> SUFFICES ASSUME TypeOK, [OverloadNext]_overloadVars
             PROVE  ServerNext \/ UNCHANGED serverVars
  OBVIOUS
<1>1. CASE ServerStep
  BY <1>1, ReceivesAsAlone DEF ServerStep, ServerNext
<1>2. CASE ClientStep
  BY <1>2 DEF ClientStep
<1>3. CASE StopServer
  BY <1>3 DEF StopServer, ServerNext
<1>4. CASE Join
  BY <1>4 DEF Join
<1>5. CASE Halted \/ UNCHANGED overloadVars
  BY <1>5 DEF Halted, overloadVars
<1> QED BY <1>1, <1>2, <1>3, <1>4, <1>5 DEF OverloadNext

\* The two threads together refine the server thread in an environment that
\* sends anything and may ask for shutdown at any moment (overload.rs:213,
\* 334).
THEOREM ServerRefined == OverloadSafety => ServerSafety
<1>1. TypeOK /\ [ServerNext]_serverVars => TypeOK'
  <2>1. TypeOK /\ UNCHANGED serverVars => TypeOK'
    BY DEF TypeOK, serverVars, control, ControlType, ClientType, ReceiveType,
           SendType, clientMap, recvSide, sendSide
  <2> QED BY <2>1, TypeNext
<1>2. OverloadInit => ServerInit /\ TypeOK
  BY TypeInit DEF OverloadInit
<1> QED
  BY <1>1, <1>2, StepsAsAlone, PTL DEF OverloadSafety, ServerSafety

\* In a whole scenario, with any number of requests and whatever fails: the
\* policy decides exactly, each request once, and no refused body is read.
THEOREM ServerKeepsItsWord ==
  OverloadSafety =>
    [](Counts /\ Policy /\ RejectedNeverRead)
BY ServerRefined, CountsCorrect, PolicyCorrect, RejectedNeverReadCorrect, PTL

(***************************************************************************)
(* The invariants of the client thread, in the order they are proved.      *)
(***************************************************************************)
\* The steps of the loop, those after connect and before the end.
InLoop == cpc \in {"connect", "fill", "flush", "poll", "read", "flush2", "tally"}
AtEnd == cpc \in {"stop", "join", "done"}

\* The streams opened so far; of these, the ones a collected event is about.
IsOpen(s) == s < next_stream_id
Collected == {e.stream : e \in events}
WithOutcome(o) == {s \in Streams : outcome[s] = o}

\* Stream ids are given out in order, within the total and the window.
IdsInv ==
  /\ \E m \in 0 .. sent : next_stream_id = 4 * m
  /\ sent <= scenario.total_requests
  /\ Cardinality(pending) <= scenario.concurrency
  /\ \A s \in pending : IsOpen(s)

\* An opened stream is in exactly one place: pending, collected once in
\* events, or with its outcome.
PlaceInv ==
  /\ \A e, f \in events : e.stream = f.stream => e = f
  /\ \A e \in events : IsOpen(e.stream) /\ e.stream \notin pending /\ outcome[e.stream] = "none"
  /\ \A s \in Streams : outcome[s] # "none" => IsOpen(s) /\ s \notin pending
  /\ \A s \in Streams :
       IsOpen(s) => s \in pending \/ s \in Collected \/ outcome[s] # "none"

\* The tallies.
TallyInv ==
  /\ successes = Cardinality(WithOutcome("Success"))
  /\ rejected = Cardinality(WithOutcome("AppRejected"))
  /\ reset_count = Cardinality(WithOutcome("Reset"))
  /\ InLoop => Tallied = completed
  /\ InLoop /\ ~progress => completed < scenario.total_requests

\* What cannot happen without faults.
NoFaultInv ==
  ~Faults =>
    /\ flush_faults = 0 /\ errors = 0 /\ cpc # "failed"
    /\ next_stream_id = 4 * sent
    /\ \A e \in events : e.outcome # "Error"
    /\ \A s \in Streams : outcome[s] # "Error"
    /\ AtEnd => /\ Tallied = scenario.total_requests
                /\ pending = {} /\ events = {}

\* Nothing reaches the server that was not written, nor is judged before.
ArrivalInv ==
  /\ peer_reset = {}
  /\ \A s \in Streams :
       /\ arrived[s] <= written[s]
       /\ written[s] > 0 => IsOpen(s)
       /\ verdict[s] # "none" => arrived[s] > 0

\* Nothing reaches the client that was not sent.
WireInv ==
  /\ got.stop \subseteq flushed.stop /\ flushed.stop \subseteq read_shut
  /\ got.reset \subseteq flushed.reset /\ flushed.reset \subseteq reset_streams
  /\ \A s \in Streams : /\ got.resp[s] <= flushed.reply[s].len
                        /\ flushed.reply[s].len <= reply[s].len

\* An outcome fits what the server did with the stream.
Fits(s, o) ==
  /\ o = "Success" => verdict[s] = "accept" /\ reply[s].len = RespLen
  /\ o = "AppRejected" => verdict[s] = "reject" /\ scenario.mode = "App503"
  /\ o = "Reset" => verdict[s] = "reject" /\ scenario.mode = "Reset"

FitInv ==
  /\ \A e \in events : Fits(e.stream, e.outcome)
  /\ \A s \in Streams : Fits(s, outcome[s])

\* A threshold that the window does not exceed refuses nobody.
RoomInv ==
  ~Faults /\ scenario.reject_percent = 0 /\ scenario.concurrency <= scenario.threshold
    => Rejected = {}

ClientInv ==
  /\ IdsInv /\ PlaceInv /\ TallyInv /\ NoFaultInv /\ ArrivalInv /\ WireInv /\ FitInv
  /\ RoomInv

-----------------------------------------------------------------------------
(***************************************************************************)
(* What a step may change.                                                 *)
(***************************************************************************)
\* Steps that open, write, collect and count nothing.
Rest == UNCHANGED <<tallies, requests, events, progress, outcome, flush_faults>>

LEMMA StepKinds ==
  ASSUME [OverloadNext]_overloadVars
  PROVE  \/ /\ Rest
            /\ InLoop' => InLoop
            /\ AtEnd' => AtEnd
            /\ cpc' = "failed" => cpc = "failed" \/ Faults
         \/ /\ UNCHANGED serverVars
            /\ \/ OpenRequest \/ OpenRequestFlushFails \/ OpenRequestFails
               \/ FlushPendingRequests \/ ReadResponses \/ TallyEvents \/ Watchdog
<1>1. CASE ServerStep
  BY <1>1 DEF ServerStep, clientVars, Rest, InLoop, AtEnd
<1>2. CASE ClientStep
  BY <1>2
  DEF ClientStep, Connected, ConnectFails, FillEnds, Poll, PollIdleClose, DriveFails,
      Rest, InLoop, AtEnd
<1>3. CASE StopServer
  BY <1>3 DEF StopServer, Rest, InLoop, AtEnd
<1>4. CASE Join
  BY <1>4 DEF Join, Rest, InLoop, AtEnd
<1>5. CASE Halted \/ UNCHANGED overloadVars
  BY <1>5 DEF Halted, overloadVars, clientVars, Rest, InLoop, AtEnd
<1> QED BY <1>1, <1>2, <1>3, <1>4, <1>5 DEF OverloadNext

LEMMA ScenarioFixed ==
  ASSUME TypeOK, [OverloadNext]_overloadVars
  PROVE  scenario' = scenario
<1>1. [ServerNext]_serverVars
  BY StepsAsAlone
<1>2. ServerNext => scenario' = scenario
  BY DEF ServerNext, Loop, LoopTop, PollTimeout, PollReadable, RecvWouldBlock,
     Receive, RecvDatagram, Handler, RetryDone, FirstDueDone, ReadDone, SecondDueDone,
     RetryResponse, FinishStream, RejectApp503, RejectReset, AcceptStream, ReadMore,
     FirstSight, Visit, Failure, LoopFails, HandleFails, FinishStreamFails,
     RejectApp503Fails, AcceptStreamFails, RequestShutdown, Ended, serverVars, unchangedButControl
<1> QED BY <1>1, <1>2 DEF serverVars

LEMMA TotalFacts ==
  ASSUME TypeOK
  PROVE  /\ scenario \in Scenarios
         /\ scenario.total_requests \in Nat \ {0}
         /\ scenario.concurrency \in Nat \ {0}
         /\ scenario.payload_size \in Nat \ {0}
<1>1. scenario \in ScenarioType /\ scenario \in Scenarios
  BY ScenariosAssumption DEF TypeOK, ControlType
<1> QED BY <1>1 DEF ScenarioType

(***************************************************************************)
(* Stream ids.                                                             *)
(***************************************************************************)
\* While requests are left, the next id is that of a stream nobody has used.
LEMMA NextIsStream ==
  ASSUME TypeOK, ClientTypeOK, IdsInv, WantsMore
  PROVE  /\ next_stream_id \in Streams /\ ~IsOpen(next_stream_id)
         /\ next_stream_id \notin pending
<1>1. PICK m \in 0 .. sent : next_stream_id = 4 * m
  BY DEF IdsInv
<1>2. sent \in Nat /\ sent < scenario.total_requests
  BY DEF ClientTypeOK, WantsMore
<1>3. m \in 0 .. (scenario.total_requests - 1)
  BY <1>2, TotalFacts
<1>4. next_stream_id \in Streams
  BY <1>1, <1>3, TotalFacts, StreamIdAssumption
<1>5. ~IsOpen(next_stream_id)
  BY DEF IsOpen, ClientTypeOK
<1> QED BY <1>4, <1>5 DEF IdsInv

LEMMA FourApart ==
  ASSUME NEW m \in Nat, NEW s \in Nat, s % 4 = 0
  PROVE  s < 4 * m + 4 <=> s < 4 * m \/ s = 4 * m
<1>1. s = 4 * (s \div 4) /\ s \div 4 \in Nat
  OBVIOUS
<1> DEFINE q == s \div 4
<1> HIDE DEF q
<1>2. s = 4 * q /\ q \in Nat
  BY <1>1 DEF q
<1> QED BY <1>2

\* Opening a request adds one id to the opened ones.
LEMMA OpensOne ==
  ASSUME ClientTypeOK, IdsInv, next_stream_id' = next_stream_id + 4
  PROVE  \A s \in Streams : IsOpen(s)' <=> IsOpen(s) \/ s = next_stream_id
<1>1. PICK m \in 0 .. sent : next_stream_id = 4 * m
  BY DEF IdsInv
<1>2. m \in Nat
  BY <1>1 DEF ClientTypeOK
<1>3. ASSUME NEW s \in Streams PROVE IsOpen(s)' <=> IsOpen(s) \/ s = next_stream_id
  <2>1. s \in Nat /\ s % 4 = 0
    BY StreamIdAssumption
  <2>2. s < 4 * m + 4 <=> s < 4 * m \/ s = 4 * m
    BY <1>2, <2>1, FourApart
  <2> QED BY <1>1, <2>2 DEF IsOpen
<1> QED BY <1>3

LEMMA PendingCard ==
  ASSUME ClientTypeOK
  PROVE  /\ Cardinality(pending) \in Nat
         /\ \A s \in Streams \ pending :
              Cardinality(pending \cup {s}) = Cardinality(pending) + 1
         /\ \A S \in SUBSET pending :
              Cardinality(S) \in Nat /\ Cardinality(S) <= Cardinality(pending)
<1>1. pending \in SUBSET Streams
  BY DEF ClientTypeOK
<1>2. IsFiniteSet(pending)
  BY <1>1, StreamsAssumption, FS_Subset
<1>3. ASSUME NEW S \in SUBSET pending
      PROVE  Cardinality(S) \in Nat /\ Cardinality(S) <= Cardinality(pending)
  <2>1. IsFiniteSet(S) /\ Cardinality(S) <= Cardinality(pending)
    BY <1>2, FS_Subset
  <2> QED BY <2>1, FS_CardinalityType
<1> QED BY <1>1, <1>3, Card

LEMMA IdsInit == OverloadInit => IdsInv
<1> SUFFICES ASSUME OverloadInit PROVE IdsInv
  OBVIOUS
<1>1. TypeOK
  BY TypeInit DEF OverloadInit
<1>2. sent = 0 /\ next_stream_id = 0 /\ pending = {}
  BY DEF OverloadInit, ClientInit
<1>3. Cardinality(pending) = 0
  BY <1>2, FS_EmptySet
<1>4. next_stream_id = 4 * 0 /\ 0 \in 0 .. sent
  BY <1>2
<1> QED BY <1>1, <1>2, <1>3, <1>4, TotalFacts DEF IdsInv

LEMMA IdsOpens ==
  ASSUME TypeOK, ClientTypeOK, IdsInv, WantsMore, scenario' = scenario,
         next_stream_id' = next_stream_id + 4, sent' = sent + 1,
         pending' = pending \cup {next_stream_id}
  PROVE  IdsInv'
<1>1. PICK m \in 0 .. sent : next_stream_id = 4 * m
  BY DEF IdsInv
<1>2. /\ sent \in Nat /\ sent < scenario.total_requests
      /\ Cardinality(pending) < scenario.concurrency
  BY DEF ClientTypeOK, WantsMore
<1>3. next_stream_id' = 4 * (m + 1) /\ m + 1 \in 0 .. sent'
  BY <1>1, <1>2
<1>4. Cardinality(pending') = Cardinality(pending) + 1 /\ Cardinality(pending) \in Nat
  BY NextIsStream, PendingCard
<1>5. \A s \in pending' : IsOpen(s)'
  BY NextIsStream, OpensOne DEF IdsInv, ClientTypeOK
<1>6. sent' <= scenario'.total_requests
  BY <1>2, TotalFacts
<1>7. Cardinality(pending') <= scenario'.concurrency
  BY <1>2, <1>4, TotalFacts
<1> QED BY <1>3, <1>5, <1>6, <1>7 DEF IdsInv

LEMMA IdsNext ==
  ASSUME TypeOK, ClientTypeOK, IdsInv, [OverloadNext]_overloadVars
  PROVE  IdsInv'
<1>0. scenario' = scenario
  BY ScenarioFixed
<1>1. CASE Rest
  BY <1>0, <1>1 DEF Rest, tallies, requests, IdsInv, IsOpen
<1>2. CASE OpenRequest \/ OpenRequestFlushFails
  <2>1. /\ WantsMore /\ next_stream_id' = next_stream_id + 4 /\ sent' = sent + 1
        /\ pending' = pending \cup {next_stream_id}
    BY <1>2 DEF OpenRequest, OpenRequestFlushFails, Fill, Opens
  <2> QED BY <1>0, <2>1, IdsOpens
<1>3. CASE OpenRequestFails
  <2>1. sent' = sent + 1 /\ UNCHANGED <<next_stream_id, pending>> /\ WantsMore
    BY <1>3 DEF OpenRequestFails, Fill, requests
  <2>2. sent \in Nat /\ sent < scenario.total_requests
    BY <2>1 DEF WantsMore, ClientTypeOK
  <2>3. 0 .. sent \subseteq 0 .. sent' /\ sent' <= scenario'.total_requests
    BY <1>0, <2>1, <2>2, TotalFacts
  <2> QED BY <1>0, <2>1, <2>3 DEF IdsInv, IsOpen
<1>4. ASSUME pending' \subseteq pending, UNCHANGED <<next_stream_id, sent>>
      PROVE  IdsInv'
  <2>1. Cardinality(pending') <= Cardinality(pending) /\ Cardinality(pending') \in Nat
    BY <1>4, PendingCard
  <2>2. Cardinality(pending) \in Nat
    BY PendingCard
  <2>3. Cardinality(pending') <= scenario'.concurrency
    BY <1>0, <2>1, <2>2, TotalFacts DEF IdsInv
  <2> QED BY <1>0, <1>4, <2>3 DEF IdsInv, IsOpen
<1>5. CASE FlushPendingRequests
  BY <1>4, <1>5 DEF FlushPendingRequests, FlushPending, tallies
<1>6. CASE ReadResponses
  BY <1>4, <1>6 DEF ReadResponses, tallies
<1>7. CASE TallyEvents \/ Watchdog
  BY <1>4, <1>7 DEF TallyEvents, Watchdog, Tally, requests
<1> QED BY <1>1, <1>2, <1>3, <1>5, <1>6, <1>7, StepKinds

(***************************************************************************)
(* Events, one to a stream.                                                *)
(***************************************************************************)
LEMMA ByStream ==
  ASSUME NEW E \in SUBSET [stream : Streams, outcome : Outcomes],
         \A e, f \in E : e.stream = f.stream => e = f
  PROVE  LET S == {e.stream : e \in E} IN
         /\ IsFiniteSet(E) /\ IsFiniteSet(S) /\ S \in SUBSET Streams
         /\ Cardinality(E) \in Nat /\ Cardinality(E) = Cardinality(S)
<1> DEFINE S == {e.stream : e \in E}
           f == [e \in E |-> e.stream]
<1>1. S \in SUBSET Streams
  OBVIOUS
<1>2. \A e, g \in E : f[e] = f[g] => e = g
  OBVIOUS
<1>3. f \in [E -> S]
  OBVIOUS
<1>4. \A s \in S : \E e \in E : f[e] = s
  OBVIOUS
<1>5. IsFiniteSet(S)
  BY <1>1, StreamsAssumption, FS_Subset
<1> HIDE DEF f, S
<1>6. f \in Injection(E, S)
  BY <1>2, <1>3 DEF Injection, IsInjective
<1>7. f \in Surjection(E, S)
  BY <1>3, <1>4 DEF Surjection
<1>8. IsFiniteSet(E) /\ Cardinality(E) = Cardinality(S)
  BY <1>5, <1>6, <1>7, FS_Injection
<1>9. Cardinality(E) \in Nat
  BY <1>8, FS_CardinalityType
<1> QED BY <1>1, <1>5, <1>8, <1>9 DEF S

LEMMA DisjointUnion ==
  ASSUME NEW A, IsFiniteSet(A), NEW B, IsFiniteSet(B), A \cap B = {}
  PROVE  /\ IsFiniteSet(A \cup B)
         /\ Cardinality(A \cup B) = Cardinality(A) + Cardinality(B)
         /\ Cardinality(A) \in Nat /\ Cardinality(B) \in Nat
<1>1. Cardinality(A \cap B) = 0
  BY FS_EmptySet
<1>2. Cardinality(A) \in Nat /\ Cardinality(B) \in Nat
  BY FS_CardinalityType
<1>3. Cardinality(A \cup B) = Cardinality(A) + Cardinality(B) - Cardinality(A \cap B)
  BY FS_Union
<1>4. IsFiniteSet(A \cup B)
  BY FS_Union
<1> QED BY <1>1, <1>2, <1>3, <1>4

\* The events with an outcome, and the streams they are about.
EventsAs(o) == {e \in events : e.outcome = o}
CollectedAs(o) == {e.stream : e \in EventsAs(o)}

LEMMA EventsFinite ==
  ASSUME ClientTypeOK, PlaceInv
  PROVE  /\ IsFiniteSet(events) /\ Cardinality(events) \in Nat
         /\ Collected \in SUBSET Streams /\ Cardinality(events) = Cardinality(Collected)
<1>1. events \in SUBSET [stream : Streams, outcome : Outcomes]
  BY DEF ClientTypeOK
<1>2. \A e, f \in events : e.stream = f.stream => e = f
  BY DEF PlaceInv
<1> QED BY <1>1, <1>2, ByStream DEF Collected

LEMMA CountOne ==
  ASSUME ClientTypeOK, PlaceInv, NEW o
  PROVE  /\ IsFiniteSet(EventsAs(o))
         /\ Count(o) = Cardinality(EventsAs(o)) /\ Count(o) \in Nat
         /\ CollectedAs(o) \in SUBSET Streams
         /\ IsFiniteSet(CollectedAs(o))
         /\ Count(o) = Cardinality(CollectedAs(o))
<1>1. EventsAs(o) \in SUBSET [stream : Streams, outcome : Outcomes]
  BY DEF ClientTypeOK, EventsAs
<1>2. \A e, f \in EventsAs(o) : e.stream = f.stream => e = f
  BY DEF PlaceInv, EventsAs
<1>3. Count(o) = Cardinality(EventsAs(o))
  BY DEF Count, EventsAs
<1> HIDE DEF EventsAs
<1>4. LET S == {e.stream : e \in EventsAs(o)} IN
      /\ IsFiniteSet(EventsAs(o)) /\ IsFiniteSet(S) /\ S \in SUBSET Streams
      /\ Cardinality(EventsAs(o)) \in Nat /\ Cardinality(EventsAs(o)) = Cardinality(S)
  BY <1>1, <1>2, ByStream
<1> QED BY <1>3, <1>4 DEF CollectedAs

\* The four counts of the for-loop add up to the number of events.
LEMMA CountsAddUp ==
  ASSUME ClientTypeOK, PlaceInv
  PROVE  Cardinality(events) =
           Count("Success") + Count("AppRejected") + Count("Reset") + Count("Error")
<1> DEFINE A == EventsAs("Success")   B == EventsAs("AppRejected")
           C == EventsAs("Reset")     D == EventsAs("Error")
<1>1. events = (A \cup B) \cup (C \cup D)
  BY DEF ClientTypeOK, Outcomes, EventsAs
<1>2. A \cap B = {} /\ C \cap D = {} /\ (A \cup B) \cap (C \cup D) = {}
  BY DEF EventsAs
<1>3. /\ IsFiniteSet(A) /\ Count("Success") = Cardinality(A)
      /\ IsFiniteSet(B) /\ Count("AppRejected") = Cardinality(B)
      /\ IsFiniteSet(C) /\ Count("Reset") = Cardinality(C)
      /\ IsFiniteSet(D) /\ Count("Error") = Cardinality(D)
  BY CountOne
<1> HIDE DEF A, B, C, D
<1>4. IsFiniteSet(A \cup B) /\ Cardinality(A \cup B) = Cardinality(A) + Cardinality(B)
  BY <1>2, <1>3, DisjointUnion
<1>5. IsFiniteSet(C \cup D) /\ Cardinality(C \cup D) = Cardinality(C) + Cardinality(D)
  BY <1>2, <1>3, DisjointUnion
<1>6. Cardinality(events) = Cardinality(A \cup B) + Cardinality(C \cup D)
  BY <1>1, <1>2, <1>4, <1>5, DisjointUnion
<1>7. /\ Cardinality(A) \in Nat /\ Cardinality(B) \in Nat
      /\ Cardinality(C) \in Nat /\ Cardinality(D) \in Nat
  BY <1>3, FS_CardinalityType
<1> QED BY <1>3, <1>4, <1>5, <1>6, <1>7

(***************************************************************************)
(* Type correctness of the client thread.                                  *)
(***************************************************************************)
LEMMA ChunkEndType ==
  ASSUME TypeOK, NEW w \in 0 .. scenario.payload_size
  PROVE  ChunkEnd(w) \in w .. scenario.payload_size
BY TotalFacts, RawStreamChunkAssumption DEF ChunkEnd

\* What a step leaves of the type: cpc, the frames, the tallies and requests.
RequestType ==
  /\ next_stream_id \in Nat
  /\ pending \subseteq Streams /\ stopped_sending \subseteq Streams
  /\ written \in [Streams -> 0 .. scenario.payload_size]
  /\ read \in [Streams -> 0 .. RespLen]
  /\ events \subseteq [stream : Streams, outcome : Outcomes]

TallyType ==
  /\ sent \in Nat /\ completed \in Nat /\ successes \in Nat /\ rejected \in Nat
  /\ reset_count \in Nat /\ flush_faults \in Nat /\ errors \in Int
  /\ progress \in BOOLEAN
  /\ outcome \in [Streams -> Outcomes \cup {"none"}]

WireType ==
  /\ conn_open \in BOOLEAN
  /\ got \in [resp : [Streams -> 0 .. RespLen], stop : SUBSET Streams,
              reset : SUBSET Streams]

PlaceType ==
  cpc \in {"connect", "fill", "flush", "poll", "read", "flush2", "tally",
           "stop", "join", "done", "failed"}

LEMMA ClientTypeParts ==
  ClientTypeOK <=> PlaceType /\ RequestType /\ TallyType /\ WireType
BY DEF ClientTypeOK, PlaceType, RequestType, TallyType, WireType

LEMMA ClientTypeInit == OverloadInit => ClientTypeOK
<1> SUFFICES ASSUME OverloadInit PROVE ClientTypeOK
  OBVIOUS
<1>1. TypeOK
  BY TypeInit DEF OverloadInit
<1>2. scenario.payload_size \in Nat
  BY <1>1, TotalFacts
<1>3. PlaceType /\ RequestType
  BY <1>2, RespLenAssumption DEF OverloadInit, ClientInit, PlaceType, RequestType
<1>4. TallyType
  <2>1. progress \in BOOLEAN /\ outcome \in [Streams -> Outcomes \cup {"none"}]
    BY DEF OverloadInit, ClientInit
  <2> QED BY <2>1 DEF OverloadInit, ClientInit, TallyType
<1>5. WireType
  BY RespLenAssumption DEF OverloadInit, ClientInit, WireType
<1> QED BY <1>3, <1>4, <1>5, ClientTypeParts

LEMMA PlaceTypeNext ==
  ASSUME PlaceType, [OverloadNext]_overloadVars
  PROVE  PlaceType'
BY DEF PlaceType, OverloadNext, overloadVars, clientVars, ServerStep, ClientStep, Connected,
       ConnectFails, OpenRequest, OpenRequestFlushFails, OpenRequestFails, Opens, FillEnds,
       FlushPendingRequests, Poll, PollIdleClose, ReadResponses, DriveFails,
       TallyEvents, Watchdog, Tally, StopServer, Join, Halted

LEMMA WireTypeNext ==
  ASSUME TypeOK, WireType, [OverloadNext]_overloadVars
  PROVE  WireType'
<1>1. CASE UNCHANGED wire
  BY <1>1 DEF wire, WireType
<1>2. CASE Poll
  <2>1. got' \in Received /\ UNCHANGED conn_open
    BY <1>2 DEF Poll
  <2>2. flushed.stop \subseteq Streams /\ flushed.reset \subseteq Streams
    BY DEF TypeOK, SendType
  <2> QED BY <2>1, <2>2 DEF Received, WireType
<1>3. CASE PollIdleClose
  BY <1>3 DEF PollIdleClose, WireType
<1>4. UNCHANGED wire \/ Poll \/ PollIdleClose
  BY DEF OverloadNext, overloadVars, clientVars, ServerStep, ClientStep, Connected,
         ConnectFails, OpenRequest, OpenRequestFlushFails, OpenRequestFails, Opens,
         FillEnds, FlushPendingRequests, ReadResponses, DriveFails, TallyEvents,
         Watchdog, Tally, StopServer, Join, Halted
<1> QED BY <1>1, <1>2, <1>3, <1>4

LEMMA ClassifyType == ASSUME NEW s PROVE classify_raw_response(s) \in Outcomes
BY DEF classify_raw_response, Outcomes

LEMMA RequestTypeNext ==
  ASSUME TypeOK, ClientTypeOK, IdsInv, [OverloadNext]_overloadVars
  PROVE  RequestType'
<1>0. scenario' = scenario /\ RequestType
  BY ScenarioFixed, ClientTypeParts
<1>1. CASE UNCHANGED <<requests, events>>
  BY <1>0, <1>1 DEF requests, RequestType
<1>2. CASE OpenRequest \/ OpenRequestFlushFails
  <2>1. PICK n \in 1 .. ChunkEnd(0) : Opens(n)
    BY <1>2 DEF OpenRequest, OpenRequestFlushFails
  <2>2. n \in 0 .. scenario.payload_size
    BY <2>1, TotalFacts, ChunkEndType
  <2>3. next_stream_id \in Streams
    BY <1>2, NextIsStream DEF OpenRequest, OpenRequestFlushFails, Fill
  <2> QED BY <1>0, <2>1, <2>2, <2>3 DEF Opens, RequestType
<1>3. CASE FlushPendingRequests
  <2>1. PICK failing \in SUBSET pending : FlushPending(failing)
    BY <1>3 DEF FlushPendingRequests
  <2>2. \A s \in failing : Event(s, "Error") \in [stream : Streams, outcome : Outcomes]
    BY <1>0 DEF Event, Outcomes, RequestType
  <2> HIDE DEF Event
  <2>3. events' \subseteq [stream : Streams, outcome : Outcomes]
    BY <1>0, <2>1, <2>2 DEF FlushPending, Failed, RequestType
  <2> QED BY <1>0, <2>1, <2>3 DEF FlushPending, RequestType
<1>4. CASE ReadResponses
  <2>1. \A s \in pending : /\ Event(s, "Reset") \in [stream : Streams, outcome : Outcomes]
                           /\ Event(s, classify_raw_response(s))
                                \in [stream : Streams, outcome : Outcomes]
    BY <1>0, ClassifyType DEF Event, Outcomes, RequestType
  <2> HIDE DEF Event
  <2>2. events' \subseteq [stream : Streams, outcome : Outcomes]
    BY <1>0, <1>4, <2>1 DEF ReadResponses, RequestType
  <2>3. pending' \subseteq pending /\ UNCHANGED <<next_stream_id, written, stopped_sending>>
    BY <1>4 DEF ReadResponses
  <2>4. read' \in [Streams -> 0 .. RespLen]
    BY <1>0, <1>4 DEF ReadResponses, RequestType, ClientTypeOK
  <2> QED BY <1>0, <2>2, <2>3, <2>4 DEF RequestType
<1>5. CASE TallyEvents \/ Watchdog
  BY <1>0, <1>5 DEF TallyEvents, Watchdog, Tally, requests, RequestType
<1> QED BY <1>1, <1>2, <1>3, <1>4, <1>5, StepKinds DEF Rest, OpenRequestFails

LEMMA TallyTypeNext ==
  ASSUME TypeOK, ClientTypeOK, PlaceInv, [OverloadNext]_overloadVars
  PROVE  TallyType'
<1>0. TallyType /\ scenario.total_requests \in Nat
  BY ClientTypeParts, TotalFacts
<1>1. CASE UNCHANGED <<tallies, outcome, flush_faults>> /\ progress' \in BOOLEAN
  BY <1>0, <1>1 DEF tallies, TallyType
<1>2. CASE OpenRequest \/ OpenRequestFlushFails
  <2>1. PICK n \in 1 .. ChunkEnd(0) : Opens(n)
    BY <1>2 DEF OpenRequest, OpenRequestFlushFails
  <2>2. /\ sent' = sent + 1 /\ progress' \in BOOLEAN
        /\ UNCHANGED <<successes, rejected, reset_count, outcome>>
    BY <2>1 DEF Opens
  <2>3. /\ completed' = completed \/ completed' = completed + 1
        /\ errors' = errors \/ errors' = errors + 1
        /\ flush_faults' = flush_faults \/ flush_faults' = flush_faults + 1
    BY <1>2 DEF OpenRequest, OpenRequestFlushFails
  <2> QED BY <1>0, <2>2, <2>3 DEF TallyType
<1>5. CASE OpenRequestFails
  BY <1>0, <1>5 DEF OpenRequestFails, TallyType
<1>3. CASE TallyEvents \/ Watchdog
  <2>1. PICK timed_out \in BOOLEAN : Tally(timed_out)
    BY <1>3 DEF TallyEvents, Watchdog
  <2>2. /\ Count("Success") \in Nat /\ Count("AppRejected") \in Nat
        /\ Count("Reset") \in Nat /\ Count("Error") \in Nat
    BY CountOne
  <2>3. Cardinality(events) \in Nat
    BY EventsFinite
  <2>4. completed' \in Nat /\ successes' \in Nat /\ rejected' \in Nat /\ reset_count' \in Nat
        /\ errors' \in Int
    BY <1>0, <2>1, <2>2, <2>3 DEF Tally, TallyType
  <2>5. ASSUME NEW s \in Streams, \E e \in events : e.stream = s
        PROVE  (CHOOSE e \in events : e.stream = s).outcome \in Outcomes
    <3>1. (CHOOSE e \in events : e.stream = s) \in events
      BY <2>5
    <3> QED BY <3>1 DEF ClientTypeOK
  <2>6. outcome' \in [Streams -> Outcomes \cup {"none"}]
    BY <1>0, <2>1, <2>5 DEF Tally, TallyType
  <2> QED BY <1>0, <2>1, <2>4, <2>6 DEF Tally, TallyType
<1>4. CASE FlushPendingRequests \/ ReadResponses \/ Rest
  BY <1>0, <1>1, <1>4 DEF FlushPendingRequests, ReadResponses, Rest, TallyType
<1> QED BY <1>2, <1>3, <1>4, <1>5, StepKinds

LEMMA ClientTypeNext ==
  ASSUME TypeOK, ClientTypeOK, IdsInv, PlaceInv, [OverloadNext]_overloadVars
  PROVE  ClientTypeOK'
<1>1. PlaceType /\ WireType
  BY ClientTypeParts
<1>2. PlaceType' /\ RequestType' /\ TallyType' /\ WireType'
  BY <1>1, PlaceTypeNext, RequestTypeNext, TallyTypeNext, WireTypeNext
<1> QED BY <1>2 DEF ClientTypeOK, PlaceType, RequestType, TallyType, WireType

(***************************************************************************)
(* Every opened stream is in one place, and none is lost.                  *)
(***************************************************************************)
LEMMA PlaceInit == OverloadInit => PlaceInv
<1> SUFFICES ASSUME OverloadInit PROVE PlaceInv
  OBVIOUS
<1>1. ASSUME NEW s \in Streams PROVE ~IsOpen(s)
  BY StreamIdAssumption DEF OverloadInit, ClientInit, IsOpen
<1>2. events = {} /\ outcome = [s \in Streams |-> "none"]
  BY DEF OverloadInit, ClientInit
<1> QED BY <1>1, <1>2 DEF PlaceInv

\* The requests of closing leave pending, each with one event.
Collects(closing, new) ==
  /\ closing \subseteq pending
  /\ \A e \in new : e.stream \in closing
  /\ \A s \in closing : \E e \in new : e.stream = s
  /\ \A e, f \in new : e.stream = f.stream => e = f
  /\ pending' = pending \ closing
  /\ events' = events \cup new
  /\ UNCHANGED <<next_stream_id, outcome>>

LEMMA EventFields ==
  ASSUME NEW s, NEW result
  PROVE  Event(s, result).stream = s /\ Event(s, result).outcome = result
BY DEF Event

LEMMA FlushCollects ==
  ASSUME FlushPendingRequests
  PROVE  \E failing \in SUBSET pending :
           /\ FlushPending(failing)
           /\ Faults \/ failing = {}
           /\ Collects(failing, {Event(s, "Error") : s \in failing})
<1>1. PICK failing \in SUBSET pending :
        FlushPending(failing) /\ (Faults \/ failing = {})
  BY DEF FlushPendingRequests
<1>2. /\ pending' = pending \ failing
      /\ events' = events \cup {Event(s, "Error") : s \in failing}
      /\ UNCHANGED <<next_stream_id, outcome>>
  BY <1>1 DEF FlushPending, Failed, FlushPendingRequests
<1> DEFINE new == {Event(s, "Error") : s \in failing}
<1>3. \A s \in failing : Event(s, "Error") \in new /\ Event(s, "Error").stream = s
  BY EventFields
<1>4. \A e \in new : \E s \in failing : e = Event(s, "Error") /\ e.stream = s
  BY EventFields
<1> HIDE DEF new
<1>5. Collects(failing, new)
  BY <1>2, <1>3, <1>4 DEF Collects, new
<1> QED BY <1>1, <1>5 DEF new

\* The streams read_responses finds ended, and the events it makes of them.
Resetting == pending \cap got.reset
Ending == {s \in pending \ Resetting : got.resp[s] = RespLen}
EndEvents == {Event(s, "Reset") : s \in Resetting}
               \cup {Event(s, classify_raw_response(s)) : s \in Ending}

LEMMA ReadCollects ==
  ASSUME ReadResponses
  PROVE  Collects(Resetting \cup Ending, EndEvents)
<1>1. /\ pending' = pending \ (Resetting \cup Ending)
      /\ events' = events \cup EndEvents
      /\ UNCHANGED <<next_stream_id, outcome>>
  BY DEF ReadResponses, Resetting, Ending, EndEvents
<1>2. Resetting \subseteq pending /\ Ending \subseteq pending /\ Resetting \cap Ending = {}
  BY DEF Resetting, Ending
<1> HIDE DEF Resetting, Ending
<1>3. /\ \A s \in Resetting : /\ Event(s, "Reset") \in EndEvents
                             /\ Event(s, "Reset").stream = s
      /\ \A s \in Ending : /\ Event(s, classify_raw_response(s)) \in EndEvents
                          /\ Event(s, classify_raw_response(s)).stream = s
  BY EventFields DEF EndEvents
<1>4. \A e \in EndEvents :
        \/ e.stream \in Resetting /\ e = Event(e.stream, "Reset")
        \/ e.stream \in Ending /\ e = Event(e.stream, classify_raw_response(e.stream))
  <2>1. ASSUME NEW s \in Resetting, NEW e, e = Event(s, "Reset")
        PROVE  e.stream \in Resetting /\ e = Event(e.stream, "Reset")
    BY <2>1, EventFields
  <2>2. ASSUME NEW s \in Ending, NEW e, e = Event(s, classify_raw_response(s))
        PROVE  e.stream \in Ending /\ e = Event(e.stream, classify_raw_response(e.stream))
    <3>1. e.stream = s
      BY <2>2, EventFields
    <3> QED BY <2>2, <3>1
  <2> QED BY <2>1, <2>2 DEF EndEvents
<1> HIDE DEF EndEvents
<1>5. \A e \in EndEvents : e.stream \in Resetting \cup Ending
  BY <1>4
<1>6. \A s \in Resetting \cup Ending : \E e \in EndEvents : e.stream = s
  BY <1>3
<1>7. \A e, f \in EndEvents : e.stream = f.stream => e = f
  <2>1. ASSUME NEW e \in EndEvents, NEW f \in EndEvents, e.stream = f.stream
        PROVE  e = f
    <3>1. CASE e.stream \in Resetting
      BY <1>2, <1>4, <2>1, <3>1
    <3>2. CASE e.stream \in Ending
      BY <1>2, <1>4, <2>1, <3>2
    <3> QED BY <1>4, <3>1, <3>2
  <2> QED BY <2>1
<1> QED BY <1>1, <1>2, <1>5, <1>6, <1>7 DEF Collects

LEMMA PlaceCollects ==
  ASSUME ClientTypeOK, IdsInv, PlaceInv, NEW closing, NEW new, Collects(closing, new)
  PROVE  PlaceInv'
<1>1. \A e, f \in events' : e.stream = f.stream => e = f
  BY DEF PlaceInv, Collects
<1>2. \A e \in events' : IsOpen(e.stream)' /\ e.stream \notin pending'
                         /\ outcome'[e.stream] = "none"
  <2>1. ASSUME NEW e \in new
        PROVE  IsOpen(e.stream) /\ outcome[e.stream] = "none"
    <3>1. e.stream \in pending /\ e.stream \in Streams
      BY DEF Collects, ClientTypeOK
    <3> QED BY <3>1 DEF PlaceInv, IdsInv
  <2>2. ASSUME NEW e \in new PROVE e.stream \notin pending'
    BY DEF Collects
  <2> QED BY <2>1, <2>2 DEF PlaceInv, Collects, IsOpen
<1>3. \A s \in Streams : outcome'[s] # "none" => IsOpen(s)' /\ s \notin pending'
  BY DEF PlaceInv, Collects, IsOpen
<1>4. ASSUME NEW s \in Streams, IsOpen(s)'
      PROVE  s \in pending' \/ s \in Collected' \/ outcome'[s] # "none"
  <2>1. s \in pending \/ s \in Collected \/ outcome[s] # "none"
    BY <1>4 DEF PlaceInv, Collects, IsOpen
  <2> QED BY <2>1 DEF Collects, Collected
<1> QED BY <1>1, <1>2, <1>3, <1>4 DEF PlaceInv

\* A successful open makes its stream pending and no other opened.
LEMMA PlaceOpens ==
  ASSUME TypeOK, ClientTypeOK, IdsInv, PlaceInv, WantsMore,
         next_stream_id' = next_stream_id + 4,
         pending' = pending \cup {next_stream_id},
         UNCHANGED <<events, outcome>>
  PROVE  PlaceInv'
<1>1. \A s \in Streams : IsOpen(s)' <=> IsOpen(s) \/ s = next_stream_id
  BY OpensOne
<1>2. next_stream_id \in Streams /\ ~IsOpen(next_stream_id)
  BY NextIsStream
<1>3. \A e \in events : e.stream \in Streams
  BY DEF ClientTypeOK
<1>4. Collected' = Collected
  BY DEF Collected
<1> HIDE DEF IsOpen
<1>5. \A e \in events' : IsOpen(e.stream)' /\ e.stream \notin pending'
                         /\ outcome'[e.stream] = "none"
  BY <1>1, <1>2, <1>3 DEF PlaceInv
<1>6. \A s \in Streams : outcome'[s] # "none" => IsOpen(s)' /\ s \notin pending'
  BY <1>1, <1>2 DEF PlaceInv
<1>7. \A s \in Streams :
        IsOpen(s)' => s \in pending' \/ s \in Collected' \/ outcome'[s] # "none"
  BY <1>1, <1>4 DEF PlaceInv
<1>8. \A e, f \in events' : e.stream = f.stream => e = f
  BY DEF PlaceInv
<1> QED BY <1>5, <1>6, <1>7, <1>8 DEF PlaceInv

\* The outcome tallied for a stream is that of its event.
LEMMA TallyOutcome ==
  ASSUME ClientTypeOK, PlaceInv, NEW timed_out, Tally(timed_out)
  PROVE  /\ \A e \in events : outcome'[e.stream] = e.outcome
         /\ \A s \in Streams \ Collected : outcome'[s] = outcome[s]
<1>1. outcome' = [s \in Streams |->
                    IF \E e \in events : e.stream = s
                    THEN (CHOOSE e \in events : e.stream = s).outcome
                    ELSE outcome[s]]
  BY DEF Tally
<1>2. ASSUME NEW e \in events PROVE outcome'[e.stream] = e.outcome
  <2>1. e.stream \in Streams
    BY DEF ClientTypeOK
  <2> DEFINE c == CHOOSE f \in events : f.stream = e.stream
  <2>2. c \in events /\ c.stream = e.stream
    OBVIOUS
  <2>3. c = e
    BY <2>2 DEF PlaceInv
  <2>4. outcome'[e.stream] = c.outcome
    BY <1>1, <2>1
  <2> HIDE DEF c
  <2> QED BY <2>3, <2>4
<1>3. ASSUME NEW s \in Streams \ Collected PROVE outcome'[s] = outcome[s]
  <2>1. ~ \E e \in events : e.stream = s
    BY DEF Collected
  <2> QED BY <1>1, <2>1
<1> QED BY <1>2, <1>3

LEMMA PlaceTally ==
  ASSUME ClientTypeOK, PlaceInv, NEW timed_out, Tally(timed_out)
  PROVE  PlaceInv'
<1>1. events' = {} /\ UNCHANGED <<next_stream_id, pending>>
  BY DEF Tally, requests
<1>2. \A e \in events : outcome'[e.stream] = e.outcome /\ e.outcome # "none"
                        /\ e.stream \in Streams
  BY TallyOutcome DEF ClientTypeOK, Outcomes
<1>3. \A s \in Streams \ Collected : outcome'[s] = outcome[s]
  BY TallyOutcome
<1>4. \A s \in Collected : \E e \in events : e.stream = s
  BY DEF Collected
<1>5. ASSUME NEW s \in Streams, outcome'[s] # "none"
      PROVE  IsOpen(s)' /\ s \notin pending'
  BY <1>1, <1>3, <1>4, <1>5 DEF PlaceInv, IsOpen
<1>6. ASSUME NEW s \in Streams, IsOpen(s)'
      PROVE  s \in pending' \/ outcome'[s] # "none"
  BY <1>1, <1>2, <1>3, <1>4, <1>6 DEF PlaceInv, IsOpen
<1> QED BY <1>1, <1>5, <1>6 DEF PlaceInv

LEMMA PlaceNext ==
  ASSUME TypeOK, ClientTypeOK, IdsInv, PlaceInv, [OverloadNext]_overloadVars
  PROVE  PlaceInv'
<1>1. CASE Rest \/ OpenRequestFails
  BY <1>1 DEF Rest, OpenRequestFails, requests, PlaceInv, IsOpen, Collected
<1>2. CASE OpenRequest \/ OpenRequestFlushFails
  <2>1. /\ WantsMore /\ next_stream_id' = next_stream_id + 4
        /\ pending' = pending \cup {next_stream_id} /\ UNCHANGED <<events, outcome>>
    BY <1>2 DEF OpenRequest, OpenRequestFlushFails, Fill, Opens
  <2> QED BY <2>1, PlaceOpens
<1>3. CASE FlushPendingRequests
  BY <1>3, FlushCollects, PlaceCollects
<1>4. CASE ReadResponses
  BY <1>4, ReadCollects, PlaceCollects
<1>5. CASE TallyEvents \/ Watchdog
  BY <1>5, PlaceTally DEF TallyEvents, Watchdog
<1> QED BY <1>1, <1>2, <1>3, <1>4, <1>5, StepKinds

\* Collecting moves requests from pending to events and loses none.
LEMMA CollectsCard ==
  ASSUME ClientTypeOK, PlaceInv, ClientTypeOK', PlaceInv',
         NEW closing, NEW new, Collects(closing, new)
  PROVE  Cardinality(pending') + Cardinality(events')
           = Cardinality(pending) + Cardinality(events)
<1>1. pending \in SUBSET Streams /\ pending' \in SUBSET Streams
  BY DEF ClientTypeOK
<1>2. IsFiniteSet(pending) /\ IsFiniteSet(pending')
  BY <1>1, StreamsAssumption, FS_Subset
<1>3. Collected \in SUBSET Streams /\ Cardinality(events) = Cardinality(Collected)
  BY EventsFinite
<1>4. (Collected \in SUBSET Streams /\ Cardinality(events) = Cardinality(Collected))'
  <2>1. \A e, f \in events' : e.stream = f.stream => e = f
    BY DEF PlaceInv
  <2>2. events' \in SUBSET [stream : Streams, outcome : Outcomes]
    BY DEF ClientTypeOK
  <2> QED BY <2>1, <2>2, ByStream DEF Collected
<1>5. IsFiniteSet(Collected) /\ IsFiniteSet(Collected')
  BY <1>3, <1>4, StreamsAssumption, FS_Subset
<1>6. pending \cap Collected = {} /\ pending' \cap Collected' = {}
  BY DEF PlaceInv, Collected
<1>7. Collected' = Collected \cup closing
  BY DEF Collects, Collected
<1>8. pending' \cup Collected' = pending \cup Collected
  BY <1>7 DEF Collects
<1>9. Cardinality(pending \cup Collected) = Cardinality(pending) + Cardinality(Collected)
  BY <1>2, <1>5, <1>6, DisjointUnion
<1>10. Cardinality(pending' \cup Collected') = Cardinality(pending') + Cardinality(Collected')
  BY <1>2, <1>5, <1>6, DisjointUnion
<1> QED BY <1>3, <1>4, <1>8, <1>9, <1>10

LEMMA ConservationInit == OverloadInit => Conservation
BY FS_EmptySet DEF OverloadInit, ClientInit, Conservation

LEMMA ConservationNext ==
  ASSUME TypeOK, ClientTypeOK, IdsInv, PlaceInv, Conservation,
         ClientTypeOK', PlaceInv', [OverloadNext]_overloadVars
  PROVE  Conservation'
<1>0. /\ sent \in Nat /\ completed \in Nat /\ flush_faults \in Nat
      /\ Cardinality(pending) \in Nat /\ Cardinality(events) \in Nat
  BY PendingCard, EventsFinite DEF ClientTypeOK
<1>1. CASE Rest
  BY <1>1 DEF Rest, tallies, requests, Conservation
<1>2. CASE OpenRequest \/ OpenRequestFlushFails
  <2>1. /\ WantsMore /\ sent' = sent + 1
        /\ pending' = pending \cup {next_stream_id} /\ UNCHANGED events
        /\ \/ UNCHANGED <<completed, flush_faults>>
           \/ completed' = completed + 1 /\ flush_faults' = flush_faults + 1
    BY <1>2 DEF OpenRequest, OpenRequestFlushFails, Fill, Opens
  <2>2. Cardinality(pending') = Cardinality(pending) + 1
    BY <2>1, NextIsStream, PendingCard
  <2> QED BY <1>0, <2>1, <2>2 DEF Conservation
<1>3. CASE OpenRequestFails
  <2>1. /\ sent' = sent + 1 /\ completed' = completed + 1
        /\ UNCHANGED <<pending, events, flush_faults>>
    BY <1>3 DEF OpenRequestFails, requests
  <2> QED BY <1>0, <2>1 DEF Conservation
<1>4. CASE FlushPendingRequests
  <2>1. UNCHANGED <<sent, completed, flush_faults>>
    BY <1>4 DEF FlushPendingRequests, tallies
  <2>2. Cardinality(pending') + Cardinality(events')
          = Cardinality(pending) + Cardinality(events)
    BY <1>4, FlushCollects, CollectsCard
  <2>3. Cardinality(pending') \in Nat /\ Cardinality(events') \in Nat
    <3>1. pending' \in SUBSET Streams
      BY DEF ClientTypeOK
    <3>2. events' \in SUBSET [stream : Streams, outcome : Outcomes]
      BY DEF ClientTypeOK
    <3>3. \A e, f \in events' : e.stream = f.stream => e = f
      BY DEF PlaceInv
    <3> QED BY <3>1, <3>2, <3>3, Card, ByStream
  <2> QED BY <1>0, <2>1, <2>2, <2>3 DEF Conservation
<1>5. CASE ReadResponses
  <2>1. UNCHANGED <<sent, completed, flush_faults>>
    BY <1>5 DEF ReadResponses, tallies
  <2>2. Cardinality(pending') + Cardinality(events')
          = Cardinality(pending) + Cardinality(events)
    BY <1>5, ReadCollects, CollectsCard
  <2>3. Cardinality(pending') \in Nat /\ Cardinality(events') \in Nat
    <3>1. pending' \in SUBSET Streams
      BY DEF ClientTypeOK
    <3>2. events' \in SUBSET [stream : Streams, outcome : Outcomes]
      BY DEF ClientTypeOK
    <3>3. \A e, f \in events' : e.stream = f.stream => e = f
      BY DEF PlaceInv
    <3> QED BY <3>1, <3>2, <3>3, Card, ByStream
  <2> QED BY <1>0, <2>1, <2>2, <2>3 DEF Conservation
<1>6. CASE TallyEvents \/ Watchdog
  <2>1. /\ completed' = completed + Cardinality(events) /\ events' = {}
        /\ UNCHANGED <<sent, pending, flush_faults>>
    BY <1>6 DEF TallyEvents, Watchdog, Tally, requests
  <2>2. Cardinality(events') = 0
    BY <2>1, FS_EmptySet
  <2> QED BY <1>0, <2>1, <2>2 DEF Conservation
<1> QED BY <1>1, <1>2, <1>3, <1>4, <1>5, <1>6, StepKinds

(***************************************************************************)
(* The tallies.                                                            *)
(***************************************************************************)
LEMMA TallyInit == OverloadInit => TallyInv
<1> SUFFICES ASSUME OverloadInit PROVE TallyInv
  OBVIOUS
<1>1. TypeOK
  BY TypeInit DEF OverloadInit
<1>2. /\ successes = 0 /\ rejected = 0 /\ reset_count = 0 /\ errors = 0 /\ completed = 0
      /\ outcome = [s \in Streams |-> "none"]
  BY DEF OverloadInit, ClientInit
<1>3. WithOutcome("Success") = {} /\ WithOutcome("AppRejected") = {} /\ WithOutcome("Reset") = {}
  BY <1>2 DEF WithOutcome
<1> QED BY <1>1, <1>2, <1>3, TotalFacts, FS_EmptySet DEF TallyInv, Tallied

\* Tallying adds to the streams with an outcome those it was collected for.
LEMMA TallyAdds ==
  ASSUME ClientTypeOK, PlaceInv, NEW timed_out, Tally(timed_out), NEW o \in Outcomes
  PROVE  Cardinality(WithOutcome(o)') = Cardinality(WithOutcome(o)) + Count(o)
<1>1. WithOutcome(o)' = WithOutcome(o) \cup CollectedAs(o)
  <2>1. \A e \in events : outcome'[e.stream] = e.outcome /\ e.stream \in Streams
    BY TallyOutcome DEF ClientTypeOK
  <2>2. \A s \in Streams \ Collected : outcome'[s] = outcome[s]
    BY TallyOutcome
  <2>3. \A s \in Collected : outcome[s] = "none" /\ \E e \in events : e.stream = s
    BY DEF PlaceInv, Collected
  <2>4. o # "none"
    BY DEF Outcomes
  <2>5. ASSUME NEW s \in Streams
        PROVE  outcome'[s] = o <=> outcome[s] = o \/ \E e \in events : e.stream = s /\ e.outcome = o
    <3>1. CASE s \in Collected
      <4>1. PICK e \in events : e.stream = s
        BY <2>3, <3>1
      <4>2. outcome'[s] = e.outcome /\ outcome[s] # o
        BY <2>1, <2>3, <2>4, <3>1, <4>1
      <4>3. \A f \in events : f.stream = s => f = e
        BY <4>1 DEF PlaceInv
      <4> QED BY <4>1, <4>2, <4>3
    <3>2. CASE s \notin Collected
      <4>1. ~ \E e \in events : e.stream = s
        BY <3>2 DEF Collected
      <4> QED BY <2>2, <3>2, <4>1
    <3> QED BY <3>1, <3>2
  <2>6. CollectedAs(o) = {s \in Streams : \E e \in events : e.stream = s /\ e.outcome = o}
    BY <2>1 DEF CollectedAs, EventsAs
  <2> QED BY <2>5, <2>6 DEF WithOutcome
<1>2. WithOutcome(o) \cap CollectedAs(o) = {}
  BY DEF WithOutcome, CollectedAs, EventsAs, PlaceInv, Outcomes
<1>3. IsFiniteSet(CollectedAs(o)) /\ Count(o) = Cardinality(CollectedAs(o))
  BY CountOne
<1>4. WithOutcome(o) \in SUBSET Streams
  BY DEF WithOutcome
<1>5. IsFiniteSet(WithOutcome(o))
  BY <1>4, StreamsAssumption, FS_Subset
<1> QED BY <1>1, <1>2, <1>3, <1>5, DisjointUnion

\* What tallying does to the sums.
LEMMA TallySums ==
  ASSUME TypeOK, ClientTypeOK, PlaceInv, NEW timed_out \in BOOLEAN, Tally(timed_out)
  PROVE  /\ ~timed_out => Tallied' = Tallied + Cardinality(events)
         /\ completed' = completed + Cardinality(events)
<1> DEFINE S == Count("Success") R == Count("AppRejected") T == Count("Reset")
           E == Count("Error")   X == IF timed_out THEN scenario.total_requests
                                                        - (completed + Cardinality(events))
                                      ELSE 0
<1>1. /\ completed' = completed + Cardinality(events)
      /\ successes' = successes + S /\ rejected' = rejected + R
      /\ reset_count' = reset_count + T /\ errors' = errors + E + X
  BY DEF Tally
<1>2. Cardinality(events) = S + R + T + E
  BY CountsAddUp
<1>3. S \in Nat /\ R \in Nat /\ T \in Nat /\ E \in Nat
  BY CountOne
<1>4. successes \in Nat /\ rejected \in Nat /\ reset_count \in Nat /\ errors \in Int
  BY DEF ClientTypeOK
<1>5. ~timed_out => X = 0
  OBVIOUS
<1> HIDE DEF S, R, T, E, X
<1>6. ASSUME ~timed_out PROVE Tallied' = Tallied + Cardinality(events)
  BY <1>1, <1>2, <1>3, <1>4, <1>5, <1>6 DEF Tallied
<1> QED BY <1>1, <1>6

LEMMA TallyNext ==
  ASSUME TypeOK, ClientTypeOK, PlaceInv, TallyInv, [OverloadNext]_overloadVars
  PROVE  TallyInv'
<1>0. scenario' = scenario
  BY ScenarioFixed
<1>1. CASE Rest /\ (InLoop' => InLoop)
  BY <1>0, <1>1 DEF Rest, tallies, TallyInv, Tallied, WithOutcome
<1>2. CASE OpenRequest \/ OpenRequestFlushFails \/ OpenRequestFails
  <2>1. /\ UNCHANGED <<successes, rejected, reset_count, outcome>> /\ progress' = TRUE
        /\ InLoop
        /\ \/ completed' = completed + 1 /\ errors' = errors + 1
           \/ UNCHANGED <<completed, errors>>
    BY <1>2 DEF OpenRequest, OpenRequestFlushFails, OpenRequestFails, Opens, Fill, InLoop
  <2>2. Tallied' = completed'
    BY <2>1 DEF TallyInv, Tallied, ClientTypeOK
  <2>3. \A o \in Outcomes : WithOutcome(o)' = WithOutcome(o)
    BY <2>1 DEF WithOutcome
  <2> QED BY <2>1, <2>2, <2>3 DEF TallyInv, Outcomes
<1>3. CASE FlushPendingRequests \/ ReadResponses
  <2>1. UNCHANGED <<successes, rejected, reset_count, errors, completed, progress, outcome>>
        /\ InLoop
    BY <1>3 DEF FlushPendingRequests, ReadResponses, tallies, InLoop
  <2> QED BY <1>0, <2>1 DEF TallyInv, Tallied, WithOutcome
<1>4. CASE TallyEvents \/ Watchdog
  <2>1. PICK timed_out \in BOOLEAN : Tally(timed_out)
    BY <1>4 DEF TallyEvents, Watchdog
  <2>2. /\ successes' = successes + Count("Success")
        /\ rejected' = rejected + Count("AppRejected")
        /\ reset_count' = reset_count + Count("Reset")
    BY <2>1 DEF Tally
  <2>3. /\ successes' = Cardinality(WithOutcome("Success")')
        /\ rejected' = Cardinality(WithOutcome("AppRejected")')
        /\ reset_count' = Cardinality(WithOutcome("Reset")')
    BY <2>1, <2>2, TallyAdds DEF TallyInv, Outcomes
  <2>4. cpc' = IF timed_out \/ Over(completed + Cardinality(events)) THEN "stop" ELSE "fill"
    BY <2>1 DEF Tally
  <2>5. ASSUME InLoop'
        PROVE  ~timed_out /\ ~Over(completed + Cardinality(events))
    BY <2>4, <2>5 DEF InLoop
  <2>6. InLoop
    BY <2>1 DEF Tally, InLoop
  <2>7. InLoop' => Tallied' = completed'
    BY <2>1, <2>5, <2>6, TallySums DEF TallyInv
  <2>8. InLoop' => completed' < scenario'.total_requests
    <3>1. completed \in Nat /\ Cardinality(events) \in Nat /\ scenario.total_requests \in Nat
      BY EventsFinite, TotalFacts DEF ClientTypeOK
    <3>2. completed' = completed + Cardinality(events)
      BY <2>1, TallySums
    <3> QED BY <1>0, <2>5, <3>1, <3>2 DEF Over
  <2> QED BY <2>3, <2>7, <2>8 DEF TallyInv
<1> QED BY <1>1, <1>2, <1>3, <1>4, StepKinds

(***************************************************************************)
(* Without faults.                                                         *)
(***************************************************************************)
LEMMA NoFaultInit == OverloadInit => NoFaultInv
BY DEF OverloadInit, ClientInit, NoFaultInv, AtEnd

LEMMA EmptyCard == \A S : IsFiniteSet(S) /\ Cardinality(S) = 0 => S = {}
BY FS_EmptySet

\* The loop ends only when everything asked for was sent and tallied.
LEMMA OverMeansAll ==
  ASSUME TypeOK, ClientTypeOK, IdsInv, PlaceInv, Conservation, flush_faults = 0,
         Over(completed + Cardinality(events))
  PROVE  /\ completed + Cardinality(events) = scenario.total_requests
         /\ pending = {}
<1> DEFINE now == completed + Cardinality(events)
           n == scenario.total_requests
           p == Cardinality(pending)
<1>1. /\ now \in Nat /\ n \in Nat /\ p \in Nat /\ sent \in Nat /\ sent <= n
  BY PendingCard, EventsFinite, TotalFacts DEF ClientTypeOK, IdsInv
<1>2. now + p = sent
  <2>1. completed \in Nat /\ Cardinality(events) \in Nat
    BY EventsFinite DEF ClientTypeOK
  <2> QED BY <1>1, <2>1 DEF Conservation
<1>3. now >= n \/ (pending = {} /\ sent >= n)
  BY DEF Over
<1>4. IsFiniteSet(pending)
  <2>1. pending \in SUBSET Streams
    BY DEF ClientTypeOK
  <2> QED BY <2>1, StreamsAssumption, FS_Subset
<1>5. pending = {} => p = 0
  BY FS_EmptySet
<1> HIDE DEF now, n, p
<1>6. now = n /\ p = 0
  BY <1>1, <1>2, <1>3, <1>5
<1> USE DEF now, n, p
<1> QED BY <1>4, <1>6, EmptyCard

LEMMA NoFaultNext ==
  ASSUME TypeOK, ClientTypeOK, IdsInv, PlaceInv, Conservation, TallyInv, NoFaultInv,
         [OverloadNext]_overloadVars
  PROVE  NoFaultInv'
<1> SUFFICES ASSUME ~Faults PROVE NoFaultInv'
  BY DEF NoFaultInv
<1>0. scenario' = scenario
  BY ScenarioFixed
<1>1. CASE /\ Rest /\ (AtEnd' => AtEnd)
           /\ (cpc' = "failed" => cpc = "failed" \/ Faults)
  BY <1>0, <1>1 DEF Rest, tallies, requests, NoFaultInv, Tallied
<1>2. CASE OpenRequest
  <2>1. /\ UNCHANGED <<flush_faults, errors, events, outcome, cpc>> /\ cpc = "fill"
        /\ next_stream_id' = next_stream_id + 4 /\ sent' = sent + 1
    BY <1>2 DEF OpenRequest, Opens, Fill
  <2>2. next_stream_id' = 4 * sent'
    BY <2>1 DEF NoFaultInv, ClientTypeOK
  <2> QED BY <2>1, <2>2 DEF NoFaultInv, AtEnd
<1>3. CASE FlushPendingRequests
  <2>1. PICK failing \in SUBSET pending :
          FlushPending(failing) /\ (Faults \/ failing = {})
    BY <1>3 DEF FlushPendingRequests
  <2>2. events' = events /\ UNCHANGED <<next_stream_id, sent>>
    BY <1>3, <2>1 DEF FlushPending, Failed, FlushPendingRequests, tallies
  <2>3. UNCHANGED <<flush_faults, errors, outcome>> /\ cpc' \in {"poll", "tally"}
    BY <1>3 DEF FlushPendingRequests, tallies
  <2> QED BY <2>2, <2>3 DEF NoFaultInv, AtEnd
<1>4. CASE ReadResponses
  <2>1. /\ UNCHANGED <<flush_faults, errors, outcome, next_stream_id, sent>>
        /\ cpc' = "flush2"
    BY <1>4 DEF ReadResponses, tallies
  <2>2. events' = events \cup EndEvents
    BY <1>4 DEF ReadResponses, EndEvents, Resetting, Ending
  <2>3. \A e \in EndEvents : e.outcome # "Error"
    BY DEF EndEvents, Event, classify_raw_response
  <2> QED BY <2>1, <2>2, <2>3 DEF NoFaultInv, AtEnd
<1>5. CASE TallyEvents
  <2>1. Tally(FALSE) /\ FALSE \in BOOLEAN
    BY <1>5 DEF TallyEvents
  <2>2. Count("Error") = 0
    <3>1. EventsAs("Error") = {}
      BY DEF NoFaultInv, EventsAs
    <3> QED BY <3>1, CountOne, FS_EmptySet
  <2>3. flush_faults' = 0 /\ errors' = 0 /\ cpc' # "failed"
    BY <2>1, <2>2 DEF Tally, NoFaultInv
  <2>4. events' = {} /\ UNCHANGED <<pending, next_stream_id, sent>>
    BY <2>1 DEF Tally, requests
  <2>5. \A s \in Streams : outcome'[s] # "Error"
    <3>1. ASSUME NEW s \in Streams PROVE outcome'[s] # "Error"
      <4>1. CASE s \in Collected
        <5>1. PICK e \in events : e.stream = s
          BY <4>1 DEF Collected
        <5>2. outcome'[s] = e.outcome
          BY <2>1, <5>1, TallyOutcome
        <5> QED BY <5>2 DEF NoFaultInv
      <4>2. CASE s \notin Collected
        BY <2>1, <4>2, TallyOutcome DEF NoFaultInv
      <4> QED BY <4>1, <4>2
    <3> QED BY <3>1
  <2>6. ASSUME AtEnd'
        PROVE  Tallied' = scenario'.total_requests /\ pending' = {}
    <3>1. Over(completed + Cardinality(events))
      BY <2>1, <2>6 DEF Tally, AtEnd
    <3>2. completed + Cardinality(events) = scenario.total_requests /\ pending = {}
      BY <3>1, OverMeansAll DEF NoFaultInv
    <3>3. Tallied' = Tallied + Cardinality(events)
      BY <2>1, TallySums
    <3>4. Tallied = completed
      BY <2>1 DEF Tally, TallyInv, InLoop
    <3> QED BY <1>0, <2>4, <3>2, <3>3, <3>4
  <2> QED BY <2>3, <2>4, <2>5, <2>6 DEF NoFaultInv
<1>6. ~OpenRequestFlushFails /\ ~OpenRequestFails /\ ~Watchdog
  BY DEF OpenRequestFlushFails, OpenRequestFails, Watchdog
<1> QED BY <1>1, <1>2, <1>3, <1>4, <1>5, <1>6, StepKinds

(***************************************************************************)
(* The client's books, with and without faults.                            *)
(***************************************************************************)
ClientBooks ==
  ClientTypeOK /\ IdsInv /\ PlaceInv /\ Conservation /\ TallyInv /\ NoFaultInv

LEMMA ClientBooksCorrect == OverloadSafety => []ClientBooks
<1>1. OverloadInit => ClientBooks
  BY ClientTypeInit, IdsInit, PlaceInit, ConservationInit, TallyInit, NoFaultInit
  DEF ClientBooks
<1>2. TypeOK /\ ClientBooks /\ [OverloadNext]_overloadVars => ClientBooks'
  <2> SUFFICES ASSUME TypeOK, ClientBooks, [OverloadNext]_overloadVars
               PROVE  ClientBooks'
    OBVIOUS
  <2>1. /\ ClientTypeOK /\ IdsInv /\ PlaceInv /\ Conservation /\ TallyInv /\ NoFaultInv
    BY DEF ClientBooks
  <2>2. ClientTypeOK' /\ IdsInv' /\ PlaceInv'
    BY <2>1, ClientTypeNext, IdsNext, PlaceNext
  <2>3. Conservation' /\ TallyInv' /\ NoFaultInv'
    BY <2>1, <2>2, ConservationNext, TallyNext, NoFaultNext
  <2> QED BY <2>2, <2>3 DEF ClientBooks
<1>3. OverloadSafety => []TypeOK
  BY ServerRefined, TypeCorrect, PTL
<1> QED BY <1>1, <1>2, <1>3, PTL DEF OverloadSafety

\* The state of the client thread is well typed, however many requests fail
\* and wherever drive returns an Err.
THEOREM ClientTypeCorrect == OverloadSafety => []ClientTypeOK
BY ClientBooksCorrect, PTL DEF ClientBooks

\* For any number of requests, any window and any failures, no request is
\* lost or counted twice, and the four tallies add up (overload.rs:243, 786).
THEOREM AccountedCorrect == OverloadSafety => []Accounted
<1>1. ClientBooks => Accounted
  <2> SUFFICES ASSUME ClientBooks PROVE Accounted
    OBVIOUS
  <2>1. cpc \notin {"stop", "join", "done", "failed"} => Tallied = completed
    BY DEF ClientBooks, ClientTypeOK, TallyInv, InLoop
  <2>2. ~Faults /\ cpc = "done" => Tallied = scenario.total_requests /\ errors = 0
    BY DEF ClientBooks, NoFaultInv, AtEnd
  <2>3. Conservation
    BY DEF ClientBooks
  <2> QED BY <2>1, <2>2, <2>3 DEF Accounted, TalliesAddUp
<1> QED BY <1>1, ClientBooksCorrect, PTL

\* The subtraction of the watchdog never underflows (overload.rs:270, 274).
THEOREM WatchdogSafe == OverloadSafety => []WatchdogNeverUnderflows
<1>1. TypeOK /\ ClientBooks => WatchdogNeverUnderflows
  BY TotalFacts DEF ClientBooks, TallyInv, ClientTypeOK, InLoop, WatchdogNeverUnderflows
<1>2. OverloadSafety => []TypeOK
  BY ServerRefined, TypeCorrect, PTL
<1> QED BY <1>1, <1>2, ClientBooksCorrect, PTL

(***************************************************************************)
(* What passes between the threads.                                        *)
(***************************************************************************)
LEMMA GrowsHere ==
  ASSUME TypeOK, Lifecycle, [OverloadNext]_overloadVars
  PROVE  Grows
BY StepsAsAlone, ServerGrows

LEMMA ServerArrivals ==
  ASSUME TypeOK, ServerStep
  PROVE  /\ peer_reset' = peer_reset
         /\ arrived' = arrived \/ \A s \in Streams : arrived'[s] <= written[s]
<1>1. CASE ServerReceives
  <2>1. PICK f \in Arrivals :
          (\A s \in Streams : f[s] <= written[s]) /\ RecvDatagram(f, peer_reset)
    BY <1>1 DEF ServerReceives
  <2> QED BY <2>1 DEF RecvDatagram
<1>2. CASE Loop \/ LoopFails \/ HandleFails
  BY <1>2
  DEF Loop, LoopTop, PollTimeout, PollReadable, RecvWouldBlock, LoopFails, HandleFails,
      unchangedButControl, recvSide
<1>3. CASE RetryDone \/ FirstDueDone \/ ReadDone \/ SecondDueDone
  BY <1>3
  DEF RetryDone, FirstDueDone, ReadDone, SecondDueDone, unchangedButControl, recvSide
<1>4. ASSUME NEW s \in Streams,
             \/ RetryResponse(s) \/ FinishStream(s) \/ RejectApp503(s) \/ RejectReset(s)
             \/ AcceptStream(s) \/ ReadMore(s) \/ FinishStreamFails(s) \/ RejectApp503Fails(s)
             \/ AcceptStreamFails(s)
      PROVE  UNCHANGED <<arrived, peer_reset>>
  BY <1>4
  DEF RetryResponse, FinishStream, RejectApp503, RejectReset, AcceptStream, ReadMore,
      FinishStreamFails, RejectApp503Fails, AcceptStreamFails, recvSide
<1> QED BY <1>1, <1>2, <1>3, <1>4 DEF ServerStep, Handler, Failure

\* The client thread only adds to what it has written, and only for requests
\* that are opened.
LEMMA ClientWrites ==
  ASSUME TypeOK, ClientTypeOK, IdsInv, ArrivalInv, [OverloadNext]_overloadVars
  PROVE  /\ \A s \in Streams : written[s] <= written'[s]
         /\ \A s \in Streams : IsOpen(s) => IsOpen(s)'
         /\ \A s \in Streams : written'[s] > written[s] => IsOpen(s)'
<1>0. \A s \in Streams : written[s] \in Nat /\ written[s] <= written[s]
  BY TotalFacts DEF ClientTypeOK
<1>1. CASE UNCHANGED <<next_stream_id, written>>
  BY <1>0, <1>1 DEF IsOpen
<1>2. CASE OpenRequest \/ OpenRequestFlushFails
  <2>1. PICK n \in 1 .. ChunkEnd(0) : Opens(n)
    BY <1>2 DEF OpenRequest, OpenRequestFlushFails
  <2>2. WantsMore
    BY <1>2 DEF OpenRequest, OpenRequestFlushFails, Fill
  <2>3. /\ written' = [written EXCEPT ![next_stream_id] = n]
        /\ next_stream_id' = next_stream_id + 4
    BY <2>1 DEF Opens
  <2>4. \A s \in Streams : IsOpen(s)' <=> IsOpen(s) \/ s = next_stream_id
    BY <2>3, OpensOne
  <2>5. \A s \in Streams : s # next_stream_id => written'[s] = written[s]
    BY <2>3 DEF ClientTypeOK
  <2>6. next_stream_id \in Streams /\ ~IsOpen(next_stream_id)
    BY <2>2, NextIsStream
  <2>7. written[next_stream_id] = 0
    BY <1>0, <2>6 DEF ArrivalInv
  <2>8. written'[next_stream_id] = n /\ n >= 0
    BY <2>3, <2>6 DEF ClientTypeOK
  <2> HIDE DEF IsOpen
  <2>9. \A s \in Streams : written[s] <= written'[s]
    BY <1>0, <2>5, <2>7, <2>8
  <2>10. \A s \in Streams : written'[s] > written[s] => IsOpen(s)'
    BY <1>0, <2>4, <2>5
  <2> QED BY <2>4, <2>9, <2>10
<1>3. CASE FlushPendingRequests
  <2>1. PICK failing \in SUBSET pending : FlushPending(failing)
    BY <1>3 DEF FlushPendingRequests
  <2>2. UNCHANGED next_stream_id
    BY <2>1 DEF FlushPending
  <2>3. ASSUME NEW s \in Streams
        PROVE  /\ written[s] <= written'[s]
               /\ written'[s] > written[s] => s \in pending
    <3>1. CASE s \in pending /\ written'[s] \in written[s] .. ChunkEnd(written[s])
      <4>1. ChunkEnd(written[s]) \in Int
        BY <1>0, TotalFacts, RawStreamChunkAssumption DEF ChunkEnd
      <4> QED BY <1>0, <3>1, <4>1
    <3>2. CASE written'[s] = written[s]
      BY <1>0, <3>2
    <3> QED BY <2>1, <3>1, <3>2 DEF FlushPending
  <2> QED BY <2>2, <2>3 DEF IdsInv, IsOpen
<1>4. UNCHANGED <<next_stream_id, written>> \/ OpenRequest \/ OpenRequestFlushFails
      \/ FlushPendingRequests
  BY StepKinds DEF Rest, OpenRequestFails, ReadResponses, TallyEvents, Watchdog, Tally, requests
<1> QED BY <1>1, <1>2, <1>3, <1>4

LEMMA ArrivalInit == OverloadInit => ArrivalInv
<1> SUFFICES ASSUME OverloadInit PROVE ArrivalInv
  OBVIOUS
<1>1. /\ peer_reset = {} /\ arrived = [s \in Streams |-> 0]
      /\ verdict = [s \in Streams |-> "none"] /\ written = [s \in Streams |-> 0]
  BY DEF OverloadInit, ServerInit, ClientInit
<1> QED BY <1>1 DEF ArrivalInv

LEMMA ArrivalNext ==
  ASSUME TypeOK, Lifecycle, ClientTypeOK, IdsInv, ArrivalInv, [OverloadNext]_overloadVars,
         TypeOK', ClientTypeOK'
  PROVE  ArrivalInv'
<1>1. Grows
  BY GrowsHere
<1>2. /\ peer_reset' = peer_reset
      /\ arrived' = arrived \/ \A s \in Streams : arrived'[s] <= written[s]
  <2>1. ServerStep \/ UNCHANGED <<arrived, peer_reset>>
    BY DEF OverloadNext, ClientStep, StopServer, RequestShutdown, Join, Halted,
           overloadVars, serverVars, recvSide
  <2> QED BY <2>1, ServerArrivals
<1>3. /\ \A s \in Streams : written[s] <= written'[s]
      /\ \A s \in Streams : IsOpen(s) => IsOpen(s)'
      /\ \A s \in Streams : written'[s] > written[s] => IsOpen(s)'
  BY ClientWrites
<1>4. \A s \in Streams : /\ arrived[s] \in Nat /\ consumed[s] \in Nat /\ arrived'[s] \in Nat
                         /\ written[s] \in Nat /\ written'[s] \in Nat
  BY TotalFacts, ScenarioFixed DEF TypeOK, ReceiveType, ClientTypeOK
<1>5. ASSUME NEW s \in Streams
      PROVE  /\ arrived'[s] <= written'[s]
             /\ written'[s] > 0 => IsOpen(s)'
             /\ verdict'[s] # "none" => arrived'[s] > 0
  <2>1. arrived'[s] <= written[s] /\ arrived[s] <= arrived'[s]
    BY <1>1, <1>2 DEF ArrivalInv, Grows
  <2>2. arrived'[s] <= written'[s]
    BY <1>3, <1>4, <2>1
  <2>3. written'[s] > 0 => IsOpen(s)'
    <3>1. written'[s] > 0 => written[s] > 0 \/ written'[s] > written[s]
      BY <1>4
    <3> QED BY <1>3, <3>1 DEF ArrivalInv
  <2>4. ASSUME verdict'[s] # "none" PROVE arrived'[s] > 0
    <3>1. CASE verdict[s] # "none"
      BY <1>4, <2>1, <3>1 DEF ArrivalInv
    <3>2. CASE verdict[s] = "none"
      <4>1. Readable(s)
        BY <1>1, <2>4, <3>2 DEF Grows
      <4>2. arrived[s] > consumed[s]
        BY <4>1 DEF Readable, ArrivalInv
      <4> QED BY <1>4, <2>1, <4>2
    <3> QED BY <3>1, <3>2
  <2> QED BY <2>2, <2>3, <2>4
<1> QED BY <1>2, <1>5 DEF ArrivalInv

LEMMA WireInit == OverloadInit => WireInv
<1> SUFFICES ASSUME OverloadInit PROVE WireInv
  OBVIOUS
<1>1. /\ flushed = Outgoing /\ reply = [s \in Streams |-> NothingSent]
      /\ read_shut = {} /\ reset_streams = {}
      /\ got = [resp |-> [s \in Streams |-> 0], stop |-> {}, reset |-> {}]
  BY DEF OverloadInit, ServerInit, ClientInit
<1> QED BY <1>1 DEF WireInv, Outgoing, NothingSent

LEMMA WireNext ==
  ASSUME TypeOK, Lifecycle, ClientTypeOK, WireInv, [OverloadNext]_overloadVars,
         TypeOK', ClientTypeOK'
  PROVE  WireInv'
<1>1. Grows
  BY GrowsHere
<1>2. \A s \in Streams :
        /\ got.resp[s] \in Nat /\ got'.resp[s] \in Nat
        /\ flushed.reply[s].len \in Nat /\ flushed'.reply[s].len \in Nat
        /\ reply[s].len \in Nat /\ reply'[s].len \in Nat
  BY RespLenAssumption DEF TypeOK, SendType, ReplyType, ClientTypeOK
<1>3. /\ got'.stop \subseteq flushed.stop /\ got'.reset \subseteq flushed.reset
      /\ \A s \in Streams : got'.resp[s] <= flushed.reply[s].len
  <2>1. CASE Poll
    <3>1. got' \in Received
      BY <2>1 DEF Poll
    <3> QED BY <1>2, <3>1 DEF Received
  <2>2. CASE UNCHANGED got
    BY <2>2 DEF WireInv
  <2>3. Poll \/ UNCHANGED got
    BY DEF OverloadNext, overloadVars, clientVars, wire, ServerStep, ClientStep, Connected,
           ConnectFails, OpenRequest, OpenRequestFlushFails, OpenRequestFails, Opens,
           FillEnds, FlushPendingRequests, PollIdleClose, ReadResponses, DriveFails,
           TallyEvents, Watchdog, Tally, StopServer, Join, Halted
  <2> QED BY <2>1, <2>2, <2>3
<1>4. /\ flushed'.stop \subseteq read_shut' /\ flushed.stop \subseteq flushed'.stop
      /\ flushed'.reset \subseteq reset_streams' /\ flushed.reset \subseteq flushed'.reset
      /\ \A s \in Streams : /\ flushed'.reply[s].len <= reply'[s].len
                            /\ flushed.reply[s].len <= flushed'.reply[s].len
  <2>1. CASE flushed' = flushed
    <3>1. \A s \in Streams : /\ flushed.reply[s].len <= reply[s].len
                             /\ reply[s].len <= reply'[s].len
      BY <1>1 DEF WireInv, Grows
    <3> QED BY <1>1, <1>2, <2>1, <3>1 DEF WireInv, Grows
  <2>2. CASE flushed' = Outgoing /\ UNCHANGED <<reply, read_shut, reset_streams>>
    <3>1. /\ flushed'.reply = reply /\ flushed'.stop = read_shut
          /\ flushed'.reset = reset_streams
      BY <2>2 DEF Outgoing
    <3> QED BY <1>2, <2>2, <3>1 DEF WireInv
  <2> QED BY <1>1, <2>1, <2>2 DEF Grows
<1>5. ASSUME NEW s \in Streams PROVE got'.resp[s] <= flushed'.reply[s].len
  <2>1. got'.resp[s] <= flushed.reply[s].len /\ flushed.reply[s].len <= flushed'.reply[s].len
    BY <1>3, <1>4
  <2> QED BY <1>2, <2>1
<1> QED BY <1>3, <1>4, <1>5 DEF WireInv

(***************************************************************************)
(* Outcomes and verdicts.                                                  *)
(***************************************************************************)
LEMMA FitInit == OverloadInit => FitInv
BY DEF OverloadInit, ClientInit, FitInv, Fits

\* What fits goes on fitting.
LEMMA FitsStays ==
  ASSUME Grows, TypeOK', ReplyBounded', NEW s \in Streams, NEW o,
         Fits(s, o)
  PROVE  Fits(s, o)'
<1>1. verdict[s] # "none" => verdict'[s] = verdict[s]
  BY DEF Grows
<1>2. scenario' = scenario
  BY DEF Grows
<1>3. reply[s].len = RespLen => reply'[s].len = RespLen
  <2>1. reply[s].len <= reply'[s].len /\ reply'[s].len <= RespLen
    BY DEF Grows, ReplyBounded
  <2>2. reply'[s].len \in Nat
    BY DEF TypeOK, SendType, ReplyType
  <2> QED BY <2>1, <2>2, RespLenAssumption
<1> QED BY <1>1, <1>2, <1>3 DEF Fits

\* The events of read_responses fit what the server has done.
LEMMA EndEventsFit ==
  ASSUME TypeOK, Lifecycle, ReplyBounded, ClientTypeOK, WireInv,
         NEW e \in EndEvents
  PROVE  e.stream \in Streams /\ Fits(e.stream, e.outcome)
<1>1. ASSUME NEW s \in Resetting, e = Event(s, "Reset")
      PROVE  e.stream \in Streams /\ Fits(e.stream, e.outcome)
  <2>1. e.stream = s /\ e.outcome = "Reset" /\ s \in Streams
    BY <1>1, EventFields DEF Resetting, ClientTypeOK
  <2>2. s \in reset_streams
    BY DEF Resetting, WireInv
  <2>3. verdict[s] = "reject" /\ scenario.mode = "Reset"
    BY <2>2 DEF Lifecycle, Rejected
  <2> QED BY <2>1, <2>3 DEF Fits
<1>2. ASSUME NEW s \in Ending, e = Event(s, classify_raw_response(s))
      PROVE  e.stream \in Streams /\ Fits(e.stream, e.outcome)
  <2>1. e.stream = s /\ e.outcome = classify_raw_response(s) /\ s \in Streams
    BY <1>2, EventFields DEF Ending, ClientTypeOK
  <2>2. reply[s].len = RespLen
    <3>1. got.resp[s] = RespLen
      BY DEF Ending
    <3>2. got.resp[s] <= flushed.reply[s].len /\ flushed.reply[s].len <= reply[s].len
      BY <2>1 DEF WireInv
    <3>3. reply[s].len <= RespLen
      BY <2>1 DEF ReplyBounded
    <3>4. reply[s].len \in Nat /\ flushed.reply[s].len \in Nat
      BY <2>1 DEF TypeOK, SendType, ReplyType
    <3> QED BY <3>1, <3>2, <3>3, <3>4, RespLenAssumption
  <2>3. Owed(s) /\ reply[s].data = Text(s)
    BY <2>1, <2>2 DEF ReplyBounded
  <2>4. CASE verdict[s] = "accept"
    BY <2>1, <2>2, <2>3, <2>4 DEF Fits, Text, classify_raw_response
  <2>5. CASE verdict[s] # "accept"
    <3>1. verdict[s] = "reject" /\ scenario.mode = "App503"
      BY <2>3, <2>5 DEF Owed, Accepted, Rejected
    <3>2. e.outcome = "AppRejected"
      BY <2>1, <2>3, <2>5 DEF Text, classify_raw_response
    <3> QED BY <2>1, <3>1, <3>2 DEF Fits
  <2> QED BY <2>4, <2>5
<1> QED BY <1>1, <1>2 DEF EndEvents

LEMMA FitNext ==
  ASSUME TypeOK, Lifecycle, ReplyBounded, ClientTypeOK, PlaceInv, WireInv, FitInv,
         [OverloadNext]_overloadVars, TypeOK', ReplyBounded', ClientTypeOK'
  PROVE  FitInv'
<1>1. Grows
  BY GrowsHere
<1>2. ASSUME \A e \in events' : e.stream \in Streams /\ Fits(e.stream, e.outcome),
             \A s \in Streams : Fits(s, outcome'[s])
      PROVE  FitInv'
  <2>1. ASSUME NEW e \in events' PROVE Fits(e.stream, e.outcome)'
    BY <1>1, <1>2, FitsStays
  <2>2. ASSUME NEW s \in Streams PROVE Fits(s, outcome[s])'
    <3>1. Fits(s, outcome'[s])
      BY <1>2
    <3>2. PICK o : o = outcome'[s]
      OBVIOUS
    <3>3. Fits(s, o)
      BY <3>1, <3>2
    <3>4. Fits(s, o)'
      BY <1>1, <3>3, FitsStays
    <3> QED BY <3>2, <3>4 DEF Fits
  <2> QED BY <2>1, <2>2 DEF FitInv
<1>3. \A e \in events : e.stream \in Streams /\ Fits(e.stream, e.outcome)
  BY DEF ClientTypeOK, FitInv
<1>4. \A s \in Streams : Fits(s, outcome[s])
  BY DEF FitInv
<1>5. CASE UNCHANGED <<events, outcome>>
  BY <1>2, <1>3, <1>4, <1>5
<1>6. CASE FlushPendingRequests
  <2>1. PICK failing \in SUBSET pending : FlushPending(failing)
    BY <1>6 DEF FlushPendingRequests
  <2>2. /\ events' = events \cup {Event(s, "Error") : s \in failing}
        /\ UNCHANGED outcome
    BY <1>6, <2>1 DEF FlushPendingRequests, FlushPending, Failed
  <2>3. ASSUME NEW s \in failing, NEW e, e = Event(s, "Error")
        PROVE  e.stream \in Streams /\ Fits(e.stream, e.outcome)
    <3>1. e.stream = s /\ e.outcome = "Error" /\ s \in Streams
      BY <2>3, EventFields DEF ClientTypeOK
    <3> QED BY <3>1 DEF Fits
  <2>4. \A e \in events' : e.stream \in Streams /\ Fits(e.stream, e.outcome)
    BY <1>3, <2>2, <2>3
  <2> QED BY <1>2, <1>4, <2>2, <2>4
<1>7. CASE ReadResponses
  <2>1. events' = events \cup EndEvents /\ UNCHANGED outcome
    BY <1>7 DEF ReadResponses, EndEvents, Resetting, Ending
  <2>2. \A e \in EndEvents : e.stream \in Streams /\ Fits(e.stream, e.outcome)
    BY EndEventsFit
  <2> QED BY <1>2, <1>3, <1>4, <2>1, <2>2
<1>8. CASE TallyEvents \/ Watchdog
  <2>1. PICK timed_out \in BOOLEAN : Tally(timed_out)
    BY <1>8 DEF TallyEvents, Watchdog
  <2>2. events' = {}
    BY <2>1 DEF Tally
  <2>3. ASSUME NEW s \in Streams PROVE Fits(s, outcome'[s])
    <3>1. CASE s \in Collected
      <4>1. PICK e \in events : e.stream = s
        BY <3>1 DEF Collected
      <4>2. outcome'[s] = e.outcome
        BY <2>1, <4>1, TallyOutcome
      <4>3. Fits(e.stream, e.outcome)
        BY <1>3
      <4> QED BY <4>1, <4>2, <4>3
    <3>2. CASE s \notin Collected
      <4>1. outcome'[s] = outcome[s]
        BY <2>1, <3>2, TallyOutcome
      <4> QED BY <1>4, <4>1
    <3> QED BY <3>1, <3>2
  <2> QED BY <1>2, <2>2, <2>3
<1>9. UNCHANGED <<events, outcome>> \/ FlushPendingRequests \/ ReadResponses
      \/ TallyEvents \/ Watchdog
  BY StepKinds DEF Rest, OpenRequest, OpenRequestFlushFails, OpenRequestFails, Opens
<1> QED BY <1>5, <1>6, <1>7, <1>8, <1>9

(***************************************************************************)
(* Without faults a request that has left pending is finished with.        *)
(***************************************************************************)
\* The invariants that tie the two threads together.
LinkInv == ArrivalInv /\ WireInv /\ FitInv /\ ReplyBounded

LEMMA JudgedIsOpen ==
  ASSUME TypeOK, ClientTypeOK, ArrivalInv, NEW s \in Streams,
         verdict[s] # "none" \/ Readable(s)
  PROVE  IsOpen(s)
<1>1. arrived[s] \in Nat /\ consumed[s] \in Nat /\ written[s] \in Nat
  BY TotalFacts DEF TypeOK, ReceiveType, ClientTypeOK
<1>2. arrived[s] > 0
  BY <1>1 DEF ArrivalInv, Readable
<1>3. written[s] > 0
  BY <1>1, <1>2 DEF ArrivalInv
<1> QED BY <1>3 DEF ArrivalInv

\* Left pending: the stream has a real outcome, and that fits its verdict.
LEMMA LeftPending ==
  ASSUME ~Faults, TypeOK, ClientTypeOK, PlaceInv, NoFaultInv, LinkInv,
         NEW s \in Streams, IsOpen(s), s \notin pending
  PROVE  \E o \in {"Success", "AppRejected", "Reset"} :
           /\ Fits(s, o)
           /\ s \notin Collected => outcome[s] = o
           /\ \A e \in events : e.stream = s => e.outcome = o
<1>1. CASE s \in Collected
  <2>1. PICK e \in events : e.stream = s
    BY <1>1 DEF Collected
  <2>2. e.outcome \in {"Success", "AppRejected", "Reset"}
    BY <2>1 DEF NoFaultInv, ClientTypeOK, Outcomes
  <2>3. Fits(s, e.outcome)
    BY <2>1 DEF LinkInv, FitInv
  <2>4. \A f \in events : f.stream = s => f = e
    BY <2>1 DEF PlaceInv
  <2> QED BY <1>1, <2>2, <2>3, <2>4
<1>2. CASE s \notin Collected
  <2>1. outcome[s] # "none"
    BY <1>2 DEF PlaceInv
  <2>2. outcome[s] \in {"Success", "AppRejected", "Reset"}
    BY <2>1 DEF NoFaultInv, ClientTypeOK, Outcomes
  <2>3. Fits(s, outcome[s])
    BY DEF LinkInv, FitInv
  <2>4. ~ \E e \in events : e.stream = s
    BY <1>2 DEF Collected
  <2> QED BY <1>2, <2>2, <2>3, <2>4
<1> QED BY <1>1, <1>2

\* A stream without a verdict, or one being served, is still pending.
LEMMA UnfinishedIsPending ==
  ASSUME ~Faults, TypeOK, Lifecycle, ClientTypeOK, PlaceInv, NoFaultInv, LinkInv,
         NEW s \in Streams, IsOpen(s), verdict[s] = "none" \/ s \in streams
  PROVE  s \in pending
<1> SUFFICES ASSUME s \notin pending PROVE FALSE
  OBVIOUS
<1>1. PICK o \in {"Success", "AppRejected", "Reset"} : Fits(s, o)
  BY LeftPending
<1>2. verdict[s] # "none"
  BY <1>1 DEF Fits
<1>3. s \in streams /\ s \in Accepted
  BY <1>2 DEF Lifecycle
<1>4. o = "Success" /\ reply[s].len = RespLen
  BY <1>1, <1>3 DEF Fits, Accepted
<1>5. Owed(s)
  BY <1>4 DEF LinkInv, ReplyBounded
<1> QED BY <1>3, <1>5 DEF Owed, Accepted, Rejected

LEMMA ServedPending ==
  ASSUME ~Faults, TypeOK, Lifecycle, ClientTypeOK, PlaceInv, NoFaultInv, LinkInv
  PROVE  streams \subseteq pending
<1>1. ASSUME NEW s \in streams PROVE s \in pending
  <2>1. s \in Streams /\ verdict[s] # "none"
    BY DEF Lifecycle, Accepted
  <2>2. IsOpen(s)
    BY <2>1, JudgedIsOpen DEF LinkInv
  <2> QED BY <2>1, <2>2, UnfinishedIsPending
<1> QED BY <1>1

LEMMA RoomInit == OverloadInit => RoomInv
BY DEF OverloadInit, ServerInit, RoomInv, Rejected

\* A stream seen for the first time finds the server less loaded than the
\* window is wide.
LEMMA RoomLeft ==
  ASSUME ~Faults, TypeOK, Lifecycle, InflightExact, ClientTypeOK, IdsInv, PlaceInv,
         NoFaultInv, LinkInv, NEW s \in Streams, FirstSight(s)
  PROVE  in_flight < scenario.concurrency
<1>1. verdict[s] = "none" /\ Readable(s) /\ s \notin streams
  BY FirstSightIsFresh
<1>2. IsOpen(s)
  BY <1>1, JudgedIsOpen DEF LinkInv
<1>3. s \in pending
  BY <1>1, <1>2, UnfinishedIsPending
<1>4. streams \cup {s} \subseteq pending
  BY <1>3, ServedPending
<1>5. Cardinality(streams \cup {s}) <= Cardinality(pending)
  BY <1>4, PendingCard
<1>6. Cardinality(streams \cup {s}) = Cardinality(streams) + 1
  BY <1>1, Card DEF TypeOK, ClientType
<1>7. /\ Cardinality(pending) <= scenario.concurrency /\ Cardinality(pending) \in Nat
      /\ scenario.concurrency \in Nat
  BY PendingCard, TotalFacts DEF IdsInv
<1>8. in_flight = Cardinality(streams) /\ in_flight \in Nat
  BY DEF InflightExact, TypeOK, ClientType
<1> HIDE DEF IsOpen
<1> QED BY <1>5, <1>6, <1>7, <1>8

LEMMA RoomNext ==
  ASSUME TypeOK, Lifecycle, InflightExact, ClientTypeOK, IdsInv, PlaceInv, NoFaultInv,
         LinkInv, RoomInv, [OverloadNext]_overloadVars
  PROVE  RoomInv'
<1> SUFFICES ASSUME ~Faults, scenario.reject_percent = 0,
                    scenario.concurrency <= scenario.threshold
             PROVE  Rejected' = {}
  BY ScenarioFixed DEF RoomInv
<1>1. Rejected = {}
  BY DEF RoomInv
<1>2. CASE verdict' = verdict
  BY <1>1, <1>2 DEF Rejected
<1>3. ASSUME NEW s \in Streams, FirstSight(s), RejectsNow
      PROVE  FALSE
  <2>1. in_flight >= scenario.threshold
    BY <1>3 DEF RejectsNow
  <2>2. in_flight < scenario.concurrency
    BY <1>3, RoomLeft
  <2> QED BY <2>1, <2>2, TotalFacts, ScenarioFacts DEF TypeOK, ClientType
<1>4. ASSUME NEW s \in Streams, AcceptStream(s) \/ AcceptStreamFails(s)
      PROVE  Rejected' = {}
  <2>1. verdict' = [verdict EXCEPT ![s] = "accept"]
    BY <1>4 DEF AcceptStream, AcceptStreamFails
  <2> QED BY <1>1, <2>1 DEF Rejected, TypeOK, ReceiveType
<1>5. \/ verdict' = verdict
      \/ \E s \in Streams : \/ AcceptStream(s) \/ AcceptStreamFails(s)
                            \/ FirstSight(s) /\ RejectsNow
  <2>1. CASE Loop \/ Receive \/ LoopFails \/ HandleFails \/ RequestShutdown
             \/ UNCHANGED serverVars
    BY <2>1
    DEF Loop, LoopTop, PollTimeout, PollReadable, RecvWouldBlock, Receive, RecvDatagram,
        LoopFails, HandleFails, RequestShutdown, serverVars, unchangedButControl
  <2>2. CASE RetryDone \/ FirstDueDone \/ ReadDone \/ SecondDueDone
    BY <2>2 DEF RetryDone, FirstDueDone, ReadDone, SecondDueDone, unchangedButControl
  <2>3. ASSUME NEW s \in Streams,
               RetryResponse(s) \/ FinishStream(s) \/ FinishStreamFails(s) \/ ReadMore(s)
        PROVE  verdict' = verdict
    BY <2>3 DEF RetryResponse, FinishStream, FinishStreamFails, ReadMore
  <2>4. ASSUME NEW s \in Streams,
               RejectApp503(s) \/ RejectApp503Fails(s) \/ RejectReset(s)
        PROVE  FirstSight(s) /\ RejectsNow
    BY <2>4 DEF RejectApp503, RejectApp503Fails, RejectReset
  <2> QED
    BY StepsAsAlone, <2>1, <2>2, <2>3, <2>4 DEF ServerNext, Handler, Failure, Ended
<1> QED BY <1>2, <1>3, <1>4, <1>5

(***************************************************************************)
(* The whole invariant of the scenario.                                    *)
(***************************************************************************)
ServerBooks ==
  TypeOK /\ Lifecycle /\ Counts /\ Policy /\ ResponseInv /\ ReplyBounded /\ BooksInv

Links == ArrivalInv /\ WireInv /\ FitInv /\ RoomInv

LEMMA ServerBooksCorrect == OverloadSafety => []ServerBooks
<1>1. ServerSafety => []ServerBooks
  BY TypeCorrect, LifecycleCorrect, CountsCorrect, PolicyCorrect, ResponseInvCorrect,
     ReplyBoundedCorrect, BooksCorrect, PTL DEF ServerBooks
<1> QED BY <1>1, ServerRefined, PTL

LEMMA LinksCorrect == OverloadSafety => []Links
<1>1. OverloadInit => Links
  BY ArrivalInit, WireInit, FitInit, RoomInit DEF Links
<1>2. ServerBooks /\ ServerBooks' /\ ClientBooks /\ ClientBooks' /\ Links
        /\ [OverloadNext]_overloadVars => Links'
  <2> SUFFICES ASSUME ServerBooks, ServerBooks', ClientBooks, ClientBooks', Links,
                      [OverloadNext]_overloadVars
               PROVE  Links'
    OBVIOUS
  <2>1. /\ TypeOK /\ Lifecycle /\ ReplyBounded /\ InflightExact
        /\ ClientTypeOK /\ IdsInv /\ PlaceInv /\ NoFaultInv
        /\ ArrivalInv /\ WireInv /\ FitInv /\ RoomInv
    BY DEF ServerBooks, ClientBooks, Links, Counts
  <2>2. TypeOK' /\ ReplyBounded' /\ ClientTypeOK'
    BY DEF ServerBooks, ClientBooks
  <2>3. ArrivalInv'
    BY <2>1, <2>2, ArrivalNext
  <2>4. WireInv'
    BY <2>1, <2>2, WireNext
  <2>5. FitInv'
    BY <2>1, <2>2, FitNext
  <2>6. RoomInv'
    BY <2>1, RoomNext DEF LinkInv
  <2> QED BY <2>3, <2>4, <2>5, <2>6 DEF Links
<1> QED BY <1>1, <1>2, ServerBooksCorrect, ClientBooksCorrect, PTL DEF OverloadSafety

(***************************************************************************)
(* The two threads agree.                                                  *)
(***************************************************************************)
\* At the end of a run without faults every request seen has the outcome of
\* its verdict.
LEMMA EndOutcomes ==
  ASSUME ~Faults, cpc = "done", ServerBooks, ClientBooks, Links
  PROVE  /\ streams = {} /\ aborted = {}
         /\ WithOutcome("Success") = Accepted
         /\ WithOutcome("AppRejected") = IF scenario.mode = "App503" THEN Rejected ELSE {}
         /\ WithOutcome("Reset") = IF scenario.mode = "App503" THEN {} ELSE Rejected
<1>1. /\ TypeOK /\ Lifecycle /\ ClientTypeOK /\ PlaceInv /\ NoFaultInv /\ LinkInv
      /\ ArrivalInv /\ FitInv
  BY DEF ServerBooks, ClientBooks, Links, LinkInv
<1>2. pending = {} /\ events = {}
  BY <1>1 DEF NoFaultInv, AtEnd
<1>3. streams = {}
  BY <1>1, <1>2, ServedPending
<1>4. aborted = {}
  BY <1>1 DEF Lifecycle, ArrivalInv
<1>5. ASSUME NEW s \in Streams, verdict[s] # "none"
      PROVE  outcome[s] \in {"Success", "AppRejected", "Reset"}
  <2>1. IsOpen(s)
    BY <1>1, <1>5, JudgedIsOpen
  <2>2. s \notin Collected
    BY <1>2 DEF Collected
  <2> QED BY <1>1, <1>2, <2>1, <2>2, LeftPending
<1>6. \A s \in Streams : Fits(s, outcome[s])
  BY <1>1 DEF FitInv
<1>7. scenario.mode \in {"App503", "Reset"}
  BY <1>1, ScenarioFacts
<1>8. WithOutcome("Success") = Accepted
  BY <1>5, <1>6 DEF WithOutcome, Accepted, Fits
<1>9. WithOutcome("AppRejected") = IF scenario.mode = "App503" THEN Rejected ELSE {}
  BY <1>5, <1>6 DEF WithOutcome, Rejected, Fits
<1>10. WithOutcome("Reset") = IF scenario.mode = "App503" THEN {} ELSE Rejected
  BY <1>5, <1>6, <1>7 DEF WithOutcome, Rejected, Fits
<1> QED BY <1>3, <1>4, <1>8, <1>9, <1>10

\* What the two reports then say.
LEMMA EndNumbers ==
  ASSUME ~Faults, cpc = "done", ServerBooks, ClientBooks, Links
  PROVE  /\ successes = Cardinality(Accepted) /\ rejected + reset_count = Cardinality(Rejected)
         /\ stats.accepted_requests = successes
         /\ stats.successful_requests = successes
         /\ stats.app_rejections = rejected /\ stats.reset_rejections = reset_count
         /\ Cardinality(Accepted) + Cardinality(Rejected) = scenario.total_requests
<1>1. /\ TypeOK /\ Lifecycle /\ Counts /\ BooksInv /\ TallyInv /\ NoFaultInv
  BY DEF ServerBooks, ClientBooks
<1>2. Cardinality({}) = 0
  BY FS_EmptySet
<1>3. Cardinality(Accepted) \in Nat /\ Cardinality(Rejected) \in Nat
  BY VerdictSets, Card
<1>4. /\ successes = Cardinality(Accepted)
      /\ IF scenario.mode = "App503"
         THEN rejected = Cardinality(Rejected) /\ reset_count = 0
         ELSE rejected = 0 /\ reset_count = Cardinality(Rejected)
  BY <1>1, <1>2, EndOutcomes DEF TallyInv
<1>5. in_flight = 0 /\ Cardinality(aborted) = 0
  BY <1>1, <1>2, EndOutcomes DEF Counts, InflightExact
<1>6. /\ stats.accepted_requests = Cardinality(Accepted)
      /\ stats.accepted_requests = in_flight + stats.successful_requests + Cardinality(aborted)
      /\ stats.app_rejections + stats.reset_rejections = Cardinality(Rejected)
  BY <1>1 DEF Counts, JudgedOnce, AcceptedAccounted, Rejections
<1>7. /\ stats.app_rejections \in Nat /\ stats.reset_rejections \in Nat
      /\ stats.successful_requests \in Nat
  BY <1>1 DEF TypeOK, ClientType, StatsType
<1>8. IF scenario.mode = "App503" THEN stats.reset_rejections = 0
                                  ELSE stats.app_rejections = 0
  BY <1>1 DEF BooksInv, ModeCounts
<1>9. successes + rejected + reset_count + errors = scenario.total_requests /\ errors = 0
  BY <1>1 DEF NoFaultInv, AtEnd, Tallied
<1> QED BY <1>3, <1>4, <1>5, <1>6, <1>7, <1>8, <1>9

LEMMA EndBytes ==
  ASSUME ~Faults, cpc = "done", ServerBooks, ClientBooks, Links
  PROVE  stats.bytes_read = scenario.payload_size * Cardinality(Accepted)
<1>1. /\ TypeOK /\ Lifecycle /\ BooksInv
  BY DEF ServerBooks
<1>2. scenario.payload_size \in Nat
  BY <1>1, ScenarioFacts
<1>3. \A s \in Streams : consumed[s] = IF s \in Accepted THEN scenario.payload_size ELSE 0
  BY <1>1, EndOutcomes DEF Lifecycle
<1> DEFINE units == 1 .. scenario.payload_size
<1>4. UnitsRead = Accepted \X units
  <2>1. ASSUME NEW s \in Streams, NEW k \in units
        PROVE  k <= consumed[s] <=> s \in Accepted
    BY <1>2, <1>3
  <2>2. Accepted \subseteq Streams
    BY DEF Accepted
  <2> HIDE DEF units
  <2>3. UnitsRead = {u \in Streams \X units : u[2] <= consumed[u[1]]}
    BY DEF UnitsRead, units
  <2> QED BY <2>1, <2>2, <2>3
<1>5. IsFiniteSet(units) /\ Cardinality(units) = scenario.payload_size
  <2>1. /\ IsFiniteSet(1 .. scenario.payload_size)
        /\ Cardinality(1 .. scenario.payload_size)
             = IF 1 > scenario.payload_size THEN 0 ELSE scenario.payload_size - 1 + 1
    BY <1>2, FS_Interval
  <2> QED BY <1>2, <2>1
<1>6. IsFiniteSet(Accepted)
  BY VerdictSets, StreamsAssumption, FS_Subset
<1> HIDE DEF units
<1>7. Cardinality(Accepted \X units) = Cardinality(Accepted) * Cardinality(units)
  BY <1>5, <1>6, FS_Product
<1>8. Cardinality(Accepted) \in Nat
  BY VerdictSets, Card
<1> QED BY <1>1, <1>2, <1>4, <1>5, <1>7, <1>8 DEF BooksInv

LEMMA SidesAgreeState ==
  ASSUME ServerBooks, ClientBooks, Links
  PROVE  SidesAgree
<1>1. OutcomeMatchesVerdict
  <2>1. ASSUME NEW s \in Streams, outcome[s] = "Success"
        PROVE  verdict[s] = "accept" /\ reply[s].data = "200"
    <3>1. verdict[s] = "accept" /\ reply[s].len = RespLen
      BY <2>1 DEF Links, FitInv, Fits
    <3> QED BY <3>1 DEF ServerBooks, ReplyBounded, Text
  <2>2. \A s \in Streams :
          /\ outcome[s] = "AppRejected" => verdict[s] = "reject" /\ scenario.mode = "App503"
          /\ outcome[s] = "Reset" => verdict[s] = "reject" /\ scenario.mode = "Reset"
    BY DEF Links, FitInv, Fits
  <2> QED BY <2>1, <2>2 DEF OutcomeMatchesVerdict
<1>2. ReportsAgree
  BY EndNumbers, EndBytes DEF ReportsAgree
<1>3. ReportedShareExact
  <2> SUFFICES ASSUME ~Faults, cpc = "done", scenario.reject_percent > 0
               PROVE  rejected + reset_count
                        = Quota(scenario.total_requests, scenario.reject_percent)
    BY DEF ReportedShareExact
  <2>1. /\ Rejections = Quota(seen_requests, scenario.reject_percent)
        /\ seen_requests = Cardinality(Accepted) + Cardinality(Rejected)
        /\ Rejections = Cardinality(Rejected)
    BY DEF ServerBooks, Policy, QuotaExact, Counts, JudgedOnce
  <2>2. /\ rejected + reset_count = Cardinality(Rejected)
        /\ Cardinality(Accepted) + Cardinality(Rejected) = scenario.total_requests
    BY EndNumbers
  <2> QED BY <2>1, <2>2
<1>4. ServedArePending
  <2>1. ~Faults => streams \subseteq pending
    BY ServedPending DEF ServerBooks, ClientBooks, Links, LinkInv
  <2> QED BY <2>1 DEF ServedArePending, Links, RoomInv
<1> QED BY <1>1, <1>2, <1>3, <1>4 DEF SidesAgree

\* For any number of requests, any window, threshold, percentage and response
\* length: what the client counts is what the server decided, and both sides
\* of the report agree (overload.rs:277, 892).
THEOREM SidesAgreeCorrect == OverloadSafety => []SidesAgree
<1>1. ServerBooks /\ ClientBooks /\ Links => SidesAgree
  BY SidesAgreeState
<1> QED BY <1>1, ServerBooksCorrect, ClientBooksCorrect, LinksCorrect, PTL

-----------------------------------------------------------------------------
(***************************************************************************)
(* The run keeps the promise: without faults Overload implements           *)
(* OverloadPromise, under the mapping of phaseOf and resultOf.             *)
(***************************************************************************)
\* What phaseOf and resultOf are, in terms of the invariants.
PhaseShape ==
  \A s \in Streams :
    /\ phaseOf(s) \in {"idle", "open", "serving", "answered", "refused", "closed"}
    /\ phaseOf(s) = "idle" <=> ~IsOpen(s)
    /\ phaseOf(s) = "open" <=> s \in pending /\ verdict[s] = "none"
    /\ phaseOf(s) = "serving" <=> s \in streams
    /\ phaseOf(s) = "answered" <=> s \in pending /\ verdict[s] = "accept" /\ s \notin streams
    /\ phaseOf(s) = "refused" <=> s \in pending /\ verdict[s] = "reject"
    /\ phaseOf(s) = "closed" <=> IsOpen(s) /\ s \notin pending

ResultShape ==
  \A s \in Streams :
    /\ \A e \in events : e.stream = s => resultOf(s) = e.outcome
    /\ s \notin Collected => resultOf(s) = outcome[s]

Ready == ServerBooks /\ ClientBooks /\ Links /\ PhaseShape /\ ResultShape

LEMMA PhaseFacts ==
  ASSUME ~Faults, ServerBooks, ClientBooks, Links
  PROVE  PhaseShape
<1>1. /\ TypeOK /\ Lifecycle /\ ClientTypeOK /\ IdsInv /\ PlaceInv /\ NoFaultInv /\ LinkInv
  BY DEF ServerBooks, ClientBooks, Links, LinkInv
<1>2. streams \subseteq pending
  BY <1>1, ServedPending
<1>3. \A s \in streams : verdict[s] = "accept"
  BY <1>1 DEF Lifecycle, Accepted
<1>4. \A s \in Streams : verdict[s] \in {"none", "accept", "reject"}
  BY <1>1 DEF TypeOK, ReceiveType
<1>5. \A s \in Streams : s >= next_stream_id <=> ~IsOpen(s)
  BY <1>1, StreamIdAssumption DEF IsOpen, ClientTypeOK
<1>6. \A s \in pending : IsOpen(s)
  BY <1>1 DEF IdsInv
<1> HIDE DEF IsOpen
<1>7. ASSUME NEW s \in Streams
      PROVE  phaseOf(s) = IF ~IsOpen(s) THEN "idle"
                          ELSE IF s \notin pending THEN "closed"
                          ELSE IF verdict[s] = "none" THEN "open"
                          ELSE IF verdict[s] = "reject" THEN "refused"
                          ELSE IF s \in streams THEN "serving" ELSE "answered"
  BY <1>5 DEF phaseOf
<1> QED BY <1>2, <1>3, <1>4, <1>6, <1>7 DEF PhaseShape

LEMMA ResultFacts ==
  ASSUME ClientBooks
  PROVE  ResultShape
<1>1. \A e, f \in events : e.stream = f.stream => e = f
  BY DEF ClientBooks, PlaceInv
<1>2. ASSUME NEW s \in Streams, NEW e \in events, e.stream = s
      PROVE  resultOf(s) = e.outcome
  <2>1. eventOf(s) = {e}
    BY <1>1, <1>2 DEF eventOf
  <2>2. (CHOOSE f \in eventOf(s) : TRUE) = e
    BY <2>1
  <2> QED BY <2>1, <2>2 DEF resultOf
<1>3. ASSUME NEW s \in Streams, s \notin Collected
      PROVE  resultOf(s) = outcome[s]
  <2>1. eventOf(s) = {}
    BY <1>3 DEF eventOf, Collected
  <2> QED BY <2>1 DEF resultOf
<1> QED BY <1>2, <1>3 DEF ResultShape

(***************************************************************************)
(* The sets OverloadPromise counts.                                        *)
(***************************************************************************)
LEMMA PromiseIn ==
  ASSUME NEW p
  PROVE  Promise!In(p) = {s \in Streams : phaseOf(s) = p}
BY DEF Promise!In

LEMMA PromiseSets ==
  ASSUME ~Faults, Ready
  PROVE  /\ Promise!Opened = {s \in Streams : IsOpen(s)}
         /\ Promise!In("closed") = {s \in Streams : IsOpen(s)} \ pending
         /\ Promise!Opened \ Promise!In("closed") = pending
         /\ Promise!Judged = Accepted \cup Rejected
         /\ Promise!In("serving") = streams
<1>1. /\ TypeOK /\ Lifecycle /\ ClientTypeOK /\ IdsInv /\ PlaceInv /\ NoFaultInv /\ LinkInv
      /\ ArrivalInv
  BY DEF Ready, ServerBooks, ClientBooks, Links, LinkInv
<1>2. /\ pending \subseteq Streams /\ streams \subseteq Streams
      /\ \A s \in pending : IsOpen(s)
  BY <1>1 DEF ClientTypeOK, IdsInv, TypeOK, ClientType
<1>3. PhaseShape
  BY DEF Ready
<1>4. Promise!Opened = {s \in Streams : IsOpen(s)}
  <2>1. Promise!Opened = Streams \ Promise!In("idle")
    BY DEF Promise!Opened
  <2>2. Promise!In("idle") = {s \in Streams : ~IsOpen(s)}
    BY <1>3, PromiseIn DEF PhaseShape
  <2> QED BY <2>1, <2>2
<1>5. Promise!In("closed") = {s \in Streams : IsOpen(s)} \ pending
  BY <1>3, PromiseIn DEF PhaseShape
<1>6. Promise!In("serving") = streams
  BY <1>2, <1>3, PromiseIn DEF PhaseShape
<1>7. Promise!Judged = Accepted \cup Rejected
  <2>1. Promise!Judged = Promise!Opened \ Promise!In("open")
    BY DEF Promise!Judged
  <2>2. Promise!In("open") = {s \in pending : verdict[s] = "none"}
    BY <1>2, <1>3, PromiseIn DEF PhaseShape
  <2>3. ASSUME NEW s \in Streams
        PROVE  IsOpen(s) /\ ~(s \in pending /\ verdict[s] = "none") <=> verdict[s] # "none"
    <3>1. verdict[s] # "none" => IsOpen(s)
      BY <1>1, JudgedIsOpen
    <3>2. IsOpen(s) /\ verdict[s] = "none" => s \in pending
      BY <1>1, UnfinishedIsPending
    <3> QED BY <3>1, <3>2
  <2>4. Accepted \cup Rejected = {s \in Streams : verdict[s] # "none"}
    BY <1>1 DEF Accepted, Rejected, TypeOK, ReceiveType
  <2> HIDE DEF IsOpen
  <2> QED BY <1>4, <2>1, <2>2, <2>3, <2>4
<1> HIDE DEF IsOpen
<1> QED BY <1>2, <1>4, <1>5, <1>6, <1>7

\* Ids are given out without a gap: without faults as many streams are opened
\* as requests were sent.
LEMMA OpenedCard ==
  ASSUME ~Faults, TypeOK, ClientTypeOK, IdsInv, NoFaultInv
  PROVE  Cardinality({s \in Streams : IsOpen(s)}) = sent
<1> DEFINE S == 0 .. (sent - 1)
           T == {s \in Streams : IsOpen(s)}
           f == [k \in S |-> 4 * k]
<1>1. next_stream_id = 4 * sent /\ sent \in Nat /\ sent <= scenario.total_requests
  BY DEF NoFaultInv, ClientTypeOK, IdsInv
<1>2. \A k \in S : 4 * k \in Streams /\ IsOpen(4 * k)
  <2>1. \A k \in 0 .. (scenario.total_requests - 1) : 4 * k \in Streams
    BY TotalFacts, StreamIdAssumption
  <2>2. S \subseteq 0 .. (scenario.total_requests - 1)
    BY <1>1, TotalFacts
  <2>3. \A k \in S : 4 * k < 4 * sent
    BY <1>1
  <2> QED BY <1>1, <2>1, <2>2, <2>3 DEF IsOpen
<1>3. \A s \in T : \E k \in S : s = 4 * k
  <2>1. ASSUME NEW s \in T PROVE s \div 4 \in S /\ s = 4 * (s \div 4)
    <3>1. s \in Nat /\ s % 4 = 0 /\ s < 4 * sent
      BY <1>1, StreamIdAssumption DEF IsOpen
    <3> QED BY <1>1, <3>1
  <2> QED BY <2>1
<1>4. f \in [S -> T]
  BY <1>2
<1>5. \A j, k \in S : f[j] = f[k] => j = k
  OBVIOUS
<1>6. \A s \in T : \E k \in S : f[k] = s
  BY <1>3
<1>7. IsFiniteSet(S) /\ Cardinality(S) = sent
  <2>1. /\ IsFiniteSet(0 .. (sent - 1))
        /\ Cardinality(0 .. (sent - 1)) = IF 0 > sent - 1 THEN 0 ELSE sent - 1 - 0 + 1
    BY <1>1, FS_Interval
  <2> QED BY <1>1, <2>1
<1> HIDE DEF S, T, f
<1>8. f \in Injection(S, T) /\ f \in Surjection(S, T)
  BY <1>4, <1>5, <1>6 DEF Injection, IsInjective, Surjection
<1>9. ExistsBijection(S, T)
  BY <1>8 DEF ExistsBijection, Bijection
<1>10. Cardinality(T) = Cardinality(S)
  BY <1>7, <1>9, FS_Bijection
<1> QED BY <1>7, <1>10 DEF T

\* The promise counts and judges with the operators of its own modules.
LEMMA SameCard == ASSUME NEW S PROVE Promise!Cardinality(S) = Cardinality(S)
BY DEF Promise!Cardinality, Cardinality

LEMMA SameQuota ==
  ASSUME NEW n, NEW p
  PROVE  Promise!should_reject_by_percent(n, p) = should_reject_by_percent(n, p)
BY DEF Promise!should_reject_by_percent, should_reject_by_percent, Promise!RejectsAt,
       RejectsAt, Promise!BasisPoints, BasisPoints, Promise!Scale, Scale

\* The promise's policy is the server's.
LEMMA SameVerdict ==
  ASSUME ~Faults, Ready
  PROVE  Promise!MustRefuse <=> RejectsNow
<1>1. TypeOK /\ Counts
  BY DEF Ready, ServerBooks
<1>2. Cardinality(Promise!In("serving")) = in_flight
  BY <1>1, PromiseSets DEF Counts, InflightExact
<1>3. Cardinality(Promise!Judged) = seen_requests
  <2>1. Accepted \cap Rejected = {}
    BY DEF Accepted, Rejected
  <2>2. IsFiniteSet(Accepted) /\ IsFiniteSet(Rejected)
    BY VerdictSets, StreamsAssumption, FS_Subset
  <2>3. Cardinality(Accepted \cup Rejected) = Cardinality(Accepted) + Cardinality(Rejected)
    BY <2>1, <2>2, DisjointUnion
  <2> QED BY <1>1, <2>3, PromiseSets DEF Counts, JudgedOnce
<1>4. /\ Promise!Cardinality(Promise!In("serving")) = in_flight
      /\ Promise!Cardinality(Promise!Judged) = seen_requests
  BY <1>2, <1>3, SameCard
<1> QED BY <1>4, SameQuota DEF Promise!MustRefuse, RejectsNow

(***************************************************************************)
(* Steps.                                                                  *)
(***************************************************************************)
LEMMA MoveMeans ==
  ASSUME NEW s \in Streams, NEW p, phaseOf(s)' = p,
         \A t \in Streams \ {s} : phaseOf(t)' = phaseOf(t),
         \A t \in Streams : resultOf(t)' = resultOf(t),
         UNCHANGED <<scenario, cpc>>
  PROVE  Promise!Move(s, p)
BY DEF Promise!Move

LEMMA StutterMeans ==
  ASSUME \A t \in Streams : phaseOf(t)' = phaseOf(t),
         \A t \in Streams : resultOf(t)' = resultOf(t),
         scenario' = scenario, AtEnd' <=> AtEnd
  PROVE  UNCHANGED Promise!promiseVars
BY DEF Promise!promiseVars, AtEnd

LEMMA ResultKept ==
  ASSUME UNCHANGED <<events, outcome>>
  PROVE  \A t \in Streams : resultOf(t)' = resultOf(t)
BY DEF resultOf, eventOf

LEMMA PhaseKept ==
  ASSUME NEW t, t \in pending' <=> t \in pending, verdict'[t] = verdict[t],
         t \in streams' <=> t \in streams, next_stream_id' = next_stream_id
  PROVE  phaseOf(t)' = phaseOf(t)
BY DEF phaseOf

\* What a step of the server thread does to verdicts and streams.
LEMMA ServerMoves ==
  ASSUME ~Faults, TypeOK, Lifecycle, peer_reset = {}, [ServerNext]_serverVars
  PROVE  \/ UNCHANGED <<verdict, streams>>
         \/ \E s \in Streams :
              /\ FirstSight(s) /\ RejectsNow
              /\ verdict' = [verdict EXCEPT ![s] = "reject"] /\ UNCHANGED streams
         \/ \E s \in Streams :
              /\ FirstSight(s) /\ ~RejectsNow
              /\ verdict' = [verdict EXCEPT ![s] = "accept"]
              /\ streams' = streams \cup {s}
         \/ \E s \in streams : streams' = streams \ {s} /\ UNCHANGED verdict
<1>1. CASE Loop \/ Receive \/ RequestShutdown \/ UNCHANGED serverVars
  BY <1>1
  DEF Loop, LoopTop, PollTimeout, PollReadable, RecvWouldBlock, Receive, RecvDatagram,
      RequestShutdown, serverVars, unchangedButControl, clientMap
<1>2. CASE RetryDone \/ FirstDueDone \/ ReadDone \/ SecondDueDone
  BY <1>2
  DEF RetryDone, FirstDueDone, ReadDone, SecondDueDone, unchangedButControl, clientMap
<1>3. ~Failure
  BY DEF Failure, LoopFails, HandleFails, FinishStreamFails, RejectApp503Fails,
         AcceptStreamFails
<1>4. ASSUME NEW s \in Streams, RetryResponse(s) PROVE UNCHANGED <<verdict, streams>>
  BY <1>4 DEF RetryResponse, clientMap
<1>5. ASSUME NEW s \in Streams, FinishStream(s)
      PROVE  s \in streams /\ streams' = streams \ {s} /\ UNCHANGED verdict
  BY <1>5 DEF FinishStream, finish_raw_server_stream, Lifecycle
<1>6. ASSUME NEW s \in Streams, RejectApp503(s) \/ RejectReset(s)
      PROVE  /\ FirstSight(s) /\ RejectsNow
             /\ verdict' = [verdict EXCEPT ![s] = "reject"] /\ UNCHANGED streams
  BY <1>6 DEF RejectApp503, RejectReset
<1>7. ASSUME NEW s \in Streams, AcceptStream(s)
      PROVE  /\ FirstSight(s) /\ ~RejectsNow
             /\ verdict' = [verdict EXCEPT ![s] = "accept"]
             /\ streams' = streams \cup {s}
  BY <1>7 DEF AcceptStream, ReadBody
<1>8. ASSUME NEW s \in Streams, ReadMore(s) PROVE UNCHANGED <<verdict, streams>>
  BY <1>8 DEF ReadMore, ReadBody
<1> QED
  BY <1>1, <1>2, <1>3, <1>4, <1>5, <1>6, <1>7, <1>8 DEF ServerNext, Handler, Ended

LEMMA PromiseServer ==
  ASSUME ~Faults, Ready, Ready', ServerStep
  PROVE  Promise!Next \/ UNCHANGED Promise!promiseVars
<1>1. /\ TypeOK /\ Lifecycle /\ ClientTypeOK /\ PlaceInv /\ NoFaultInv /\ LinkInv
      /\ ArrivalInv /\ PhaseShape
  BY DEF Ready, ServerBooks, ClientBooks, Links, LinkInv
<1>2. UNCHANGED <<next_stream_id, pending, events, outcome, cpc>>
  BY DEF ServerStep, clientVars, requests
<1>3. [OverloadNext]_overloadVars
  BY DEF OverloadNext
<1>4. scenario' = scenario
  BY <1>1, <1>3, ScenarioFixed
<1>5. \A t \in Streams : resultOf(t)' = resultOf(t)
  BY <1>2, ResultKept
<1>6. PhaseShape'
  BY DEF Ready
<1>7. CASE UNCHANGED <<verdict, streams>>
  <2>1. \A t \in Streams : phaseOf(t)' = phaseOf(t)
    BY <1>2, <1>7, PhaseKept
  <2> QED BY <1>2, <1>4, <1>5, <2>1, StutterMeans DEF AtEnd
<1>8. ASSUME NEW s \in Streams, FirstSight(s)
      PROVE  phaseOf(s) = "open" /\ s \in pending /\ s \notin streams
  <2>1. verdict[s] = "none" /\ Readable(s) /\ s \notin streams
    BY <1>1, <1>8, FirstSightIsFresh
  <2>2. IsOpen(s)
    BY <1>1, <2>1, JudgedIsOpen
  <2>3. s \in pending
    BY <1>1, <2>1, <2>2, UnfinishedIsPending
  <2> QED BY <1>1, <2>1, <2>3 DEF PhaseShape
<1>9. ASSUME NEW s \in Streams, NEW p, phaseOf(s)' = p,
             \A t \in Streams \ {s} : /\ verdict'[t] = verdict[t]
                                      /\ t \in streams' <=> t \in streams
      PROVE  Promise!Move(s, p)
  <2>1. \A t \in Streams \ {s} : phaseOf(t)' = phaseOf(t)
    BY <1>2, <1>9, PhaseKept
  <2> QED BY <1>2, <1>4, <1>5, <1>9, <2>1, MoveMeans
<1>10. ASSUME NEW s \in Streams, FirstSight(s), RejectsNow,
              verdict' = [verdict EXCEPT ![s] = "reject"], UNCHANGED streams
       PROVE  Promise!Refuse(s)
  <2>1. verdict'[s] = "reject" /\ \A t \in Streams \ {s} : verdict'[t] = verdict[t]
    BY <1>1, <1>10 DEF TypeOK, ReceiveType
  <2>2. phaseOf(s)' = "refused"
    BY <1>2, <1>6, <1>8, <1>10, <2>1 DEF PhaseShape
  <2>3. Promise!Move(s, "refused")
    BY <1>9, <1>10, <2>1, <2>2
  <2> QED BY <1>8, <1>10, <2>3, SameVerdict DEF Promise!Refuse
<1>11. ASSUME NEW s \in Streams, FirstSight(s), ~RejectsNow,
              verdict' = [verdict EXCEPT ![s] = "accept"], streams' = streams \cup {s}
       PROVE  Promise!Serve(s)
  <2>1. \A t \in Streams \ {s} : verdict'[t] = verdict[t]
    BY <1>1, <1>11 DEF TypeOK, ReceiveType
  <2>2. phaseOf(s)' = "serving"
    BY <1>6, <1>11 DEF PhaseShape
  <2>3. Promise!Move(s, "serving")
    BY <1>9, <1>11, <2>1, <2>2
  <2> QED BY <1>8, <1>11, <2>3, SameVerdict DEF Promise!Serve
<1>12. ASSUME NEW s \in streams, streams' = streams \ {s}, UNCHANGED verdict
       PROVE  Promise!Answer(s) /\ s \in Streams
  <2>1. s \in Streams /\ phaseOf(s) = "serving"
    BY <1>1, <1>12 DEF PhaseShape, TypeOK, ClientType
  <2>2. s \in pending /\ verdict[s] = "accept"
    BY <1>1, <1>12, ServedPending DEF Lifecycle, Accepted
  <2>3. phaseOf(s)' = "answered"
    BY <1>2, <1>6, <1>12, <2>1, <2>2 DEF PhaseShape
  <2>4. Promise!Move(s, "answered")
    BY <1>9, <1>12, <2>1, <2>3
  <2> QED BY <2>1, <2>4 DEF Promise!Answer
<1>13. [ServerNext]_serverVars
  BY <1>1, <1>3, StepsAsAlone
<1>14. peer_reset = {}
  BY <1>1 DEF ArrivalInv
<1>15. \/ UNCHANGED <<verdict, streams>>
       \/ \E s \in Streams : Promise!Refuse(s) \/ Promise!Serve(s) \/ Promise!Answer(s)
  BY <1>1, <1>10, <1>11, <1>12, <1>13, <1>14, ServerMoves
<1> QED BY <1>7, <1>15 DEF Promise!Next

(***************************************************************************)
(* The steps of the client thread.                                         *)
(***************************************************************************)
LEMMA PhaseSame ==
  ASSUME PhaseShape, PhaseShape', NEW t \in Streams,
         IsOpen(t)' <=> IsOpen(t), t \in pending' <=> t \in pending,
         UNCHANGED <<verdict, streams>>
  PROVE  phaseOf(t)' = phaseOf(t)
<1> HIDE DEF IsOpen
<1> QED BY DEF PhaseShape

LEMMA PromiseOpens ==
  ASSUME ~Faults, Ready, Ready', scenario' = scenario, OpenRequest,
         UNCHANGED <<verdict, streams>>
  PROVE  Promise!Next
<1>1. /\ TypeOK /\ ClientTypeOK /\ IdsInv /\ NoFaultInv /\ ArrivalInv
      /\ PhaseShape /\ PhaseShape'
  BY DEF Ready, ServerBooks, ClientBooks, Links
<1>2. /\ WantsMore /\ next_stream_id' = next_stream_id + 4 /\ sent' = sent + 1
      /\ pending' = pending \cup {next_stream_id} /\ UNCHANGED <<events, outcome, cpc>>
  BY DEF OpenRequest, Opens, Fill
<1>3. PICK n \in Streams : n = next_stream_id /\ ~IsOpen(n) /\ n \notin pending
  BY <1>1, <1>2, NextIsStream
<1>4. \A t \in Streams : IsOpen(t)' <=> IsOpen(t) \/ t = n
  BY <1>1, <1>2, <1>3, OpensOne
<1>5. verdict[n] = "none"
  BY <1>1, <1>3, JudgedIsOpen
<1>6. phaseOf(n)' = "open"
  BY <1>1, <1>2, <1>3, <1>5 DEF PhaseShape
<1>7. \A t \in Streams \ {n} : phaseOf(t)' = phaseOf(t)
  BY <1>1, <1>2, <1>3, <1>4, PhaseSame
<1>8. Promise!Move(n, "open")
  BY <1>2, <1>3, <1>6, <1>7, MoveMeans, ResultKept
<1>9. /\ Promise!Cardinality(Promise!Opened) = sent
      /\ Promise!Cardinality(Promise!Opened \ Promise!In("closed")) = Cardinality(pending)
  BY <1>1, PromiseSets, OpenedCard, SameCard
<1>10. /\ n = 4 * sent /\ sent < scenario.total_requests
       /\ Cardinality(pending) < scenario.concurrency
  BY <1>1, <1>2, <1>3 DEF NoFaultInv, WantsMore
<1>11. Promise!Open(n)
  BY <1>8, <1>9, <1>10 DEF Promise!Open
<1> QED BY <1>3, <1>11 DEF Promise!Next

\* A request found complete was answered or refused, and the client classifies
\* it as the promise says.
LEMMA ClosedAsDue ==
  ASSUME ~Faults, Ready, NEW e \in EndEvents
  PROVE  /\ e.stream \in Streams
         /\ phaseOf(e.stream) \in {"answered", "refused"}
         /\ e.outcome = Promise!Due(e.stream)
<1> DEFINE s == e.stream
<1>1. /\ TypeOK /\ Lifecycle /\ ReplyBounded /\ ClientTypeOK /\ WireInv /\ PhaseShape
  BY DEF Ready, ServerBooks, ClientBooks, Links
<1>2. s \in Streams /\ Fits(s, e.outcome)
  BY <1>1, EndEventsFit
<1>3. s \in pending
  <2>1. \A t \in Resetting \cup Ending : t \in pending
    BY DEF Resetting, Ending
  <2>2. s \in Resetting \cup Ending
    BY EventFields DEF EndEvents
  <2> QED BY <2>1, <2>2
<1>4. e.outcome \in {"Success", "AppRejected", "Reset"}
  BY DEF EndEvents, Event, classify_raw_response
<1>5. Promise!Due(s) = IF phaseOf(s) = "answered" THEN "Success"
                       ELSE IF scenario.mode = "App503" THEN "AppRejected" ELSE "Reset"
  BY <1>2 DEF Promise!Due
<1>6. CASE e.outcome = "Success"
  <2>1. verdict[s] = "accept" /\ reply[s].len = RespLen
    BY <1>2, <1>6 DEF Fits
  <2>2. Owed(s)
    BY <1>1, <1>2, <2>1 DEF ReplyBounded
  <2>3. s \notin streams
    BY <2>1, <2>2 DEF Owed, Accepted, Rejected
  <2> QED BY <1>1, <1>2, <1>3, <1>5, <1>6, <2>1, <2>3 DEF PhaseShape
<1>7. CASE e.outcome \in {"AppRejected", "Reset"}
  <2>1. verdict[s] = "reject" /\ (e.outcome = "AppRejected" => scenario.mode = "App503")
                              /\ (e.outcome = "Reset" => scenario.mode = "Reset")
    BY <1>2, <1>7 DEF Fits
  <2>2. phaseOf(s) = "refused"
    BY <1>1, <1>2, <1>3, <2>1 DEF PhaseShape
  <2> QED BY <1>2, <1>5, <1>7, <2>1, <2>2
<1> QED BY <1>4, <1>6, <1>7

LEMMA PromiseCloses ==
  ASSUME ~Faults, Ready, Ready', scenario' = scenario, ReadResponses,
         UNCHANGED <<verdict, streams>>
  PROVE  Promise!Next \/ UNCHANGED Promise!promiseVars
<1> DEFINE C == Resetting \cup Ending
<1>1. /\ ClientTypeOK /\ IdsInv /\ PhaseShape /\ PhaseShape' /\ ResultShape /\ ResultShape'
  BY DEF Ready, ClientBooks
<1>2. Collects(C, EndEvents)
  BY ReadCollects
<1>3. AtEnd' <=> AtEnd
  BY DEF ReadResponses, AtEnd
<1>4. C \subseteq pending /\ pending \subseteq Streams
  BY <1>1, <1>2 DEF Collects, ClientTypeOK
<1> HIDE DEF C
<1>5. /\ \A e \in EndEvents : e.stream \in C
      /\ \A s \in C : \E e \in EndEvents : e.stream = s
      /\ pending' = pending \ C
      /\ events' = events \cup EndEvents
      /\ UNCHANGED <<next_stream_id, outcome>>
  BY <1>2 DEF Collects
<1>6. \A t \in Streams : IsOpen(t)' <=> IsOpen(t)
  BY <1>5 DEF IsOpen
<1>7. \A t \in Streams \ C : phaseOf(t)' = phaseOf(t)
  BY <1>1, <1>5, <1>6, PhaseSame
<1>8. \A t \in Streams \ C : resultOf(t)' = resultOf(t)
  <2>1. ASSUME NEW t \in Streams \ C, NEW e \in events, e.stream = t
        PROVE  resultOf(t)' = resultOf(t)
    BY <1>1, <1>5, <2>1 DEF ResultShape
  <2>2. ASSUME NEW t \in Streams \ C, t \notin Collected
        PROVE  resultOf(t)' = resultOf(t)
    <3>1. t \notin Collected'
      BY <1>5, <2>2 DEF Collected
    <3> QED BY <1>1, <1>5, <2>2, <3>1 DEF ResultShape
  <2> QED BY <2>1, <2>2 DEF Collected
<1>9. CASE C = {}
  <2>1. \A t \in Streams : phaseOf(t)' = phaseOf(t) /\ resultOf(t)' = resultOf(t)
    BY <1>7, <1>8, <1>9
  <2> QED BY <1>3, <2>1, StutterMeans
<1>10. CASE C # {}
  <2>1. ASSUME NEW s \in C
        PROVE  /\ phaseOf(s) \in {"answered", "refused"}
               /\ phaseOf(s)' = "closed"
               /\ resultOf(s)' = Promise!Due(s)
    <3>1. PICK e \in EndEvents : e.stream = s
      BY <1>5
    <3>2. phaseOf(s) \in {"answered", "refused"} /\ e.outcome = Promise!Due(s)
      BY <3>1, ClosedAsDue
    <3>3. resultOf(s)' = e.outcome
      BY <1>1, <1>4, <1>5, <3>1 DEF ResultShape
    <3>4. IsOpen(s)' /\ s \notin pending'
      BY <1>1, <1>4, <1>5, <1>6 DEF IdsInv
    <3>5. phaseOf(s)' = "closed"
      BY <1>1, <1>4, <3>4 DEF PhaseShape
    <3> QED BY <3>2, <3>3, <3>5
  <2>2. C \subseteq Promise!In("answered") \cup Promise!In("refused")
    BY <1>4, <2>1, PromiseIn
  <2>3. Promise!Close(C)
    <3>1. \A s \in Streams :
            phaseOf(s)' = IF s \in C THEN "closed" ELSE phaseOf(s)
      BY <1>7, <2>1
    <3>2. \A s \in Streams :
            resultOf(s)' = IF s \in C THEN Promise!Due(s) ELSE resultOf(s)
      BY <1>8, <2>1
    <3>3. (cpc' \in {"stop", "join", "done"}) = (cpc \in {"stop", "join", "done"})
      BY <1>3 DEF AtEnd
    <3> QED BY <1>10, <2>2, <3>1, <3>2, <3>3 DEF Promise!Close
  <2>4. C \in SUBSET Streams
    BY <1>4
  <2> QED BY <2>3, <2>4 DEF Promise!Next
<1> QED BY <1>9, <1>10

\* Tallying moves the result of a request from its event to outcome; the last
\* tally stops the run.
LEMMA PromiseTallies ==
  ASSUME ~Faults, Ready, Ready', scenario' = scenario, TallyEvents,
         UNCHANGED <<verdict, streams>>
  PROVE  Promise!Next \/ UNCHANGED Promise!promiseVars
<1>1. /\ TypeOK /\ ClientTypeOK /\ IdsInv /\ PlaceInv /\ Conservation /\ NoFaultInv
      /\ ResultShape /\ ResultShape'
  BY DEF Ready, ServerBooks, ClientBooks
<1>2. /\ events' = {} /\ UNCHANGED <<next_stream_id, pending, sent>> /\ cpc = "tally"
      /\ cpc' = IF Over(completed + Cardinality(events)) THEN "stop" ELSE "fill"
  BY DEF TallyEvents, Tally, requests
<1>3. \A t \in Streams : phaseOf(t)' = phaseOf(t)
  BY <1>2, PhaseKept
<1>4. ASSUME NEW t \in Streams PROVE resultOf(t)' = resultOf(t)
  <2>1. t \notin Collected'
    BY <1>2 DEF Collected
  <2>2. resultOf(t)' = outcome'[t]
    BY <1>1, <2>1 DEF ResultShape
  <2>3. Tally(FALSE)
    BY DEF TallyEvents
  <2>4. CASE t \in Collected
    <3>1. PICK e \in events : e.stream = t
      BY <2>4 DEF Collected
    <3>2. outcome'[t] = e.outcome
      BY <1>1, <2>3, <3>1, TallyOutcome
    <3>3. resultOf(t) = e.outcome
      BY <1>1, <3>1 DEF ResultShape
    <3> QED BY <2>2, <3>2, <3>3
  <2>5. CASE t \notin Collected
    <3>1. outcome'[t] = outcome[t]
      BY <1>1, <2>3, <2>5, TallyOutcome
    <3>2. resultOf(t) = outcome[t]
      BY <1>1, <2>5 DEF ResultShape
    <3> QED BY <2>2, <3>1, <3>2
  <2> QED BY <2>4, <2>5
<1>5. CASE ~Over(completed + Cardinality(events))
  <2>1. AtEnd' <=> AtEnd
    BY <1>2, <1>5 DEF AtEnd
  <2> QED BY <1>3, <1>4, <2>1, StutterMeans
<1>6. CASE Over(completed + Cardinality(events))
  <2>1. /\ completed + Cardinality(events) = scenario.total_requests /\ pending = {}
    BY <1>1, <1>6, OverMeansAll DEF NoFaultInv
  <2>2. sent = scenario.total_requests
    <3>1. Cardinality(pending) = 0
      BY <2>1, FS_EmptySet
    <3>2. /\ completed \in Nat /\ Cardinality(events) \in Nat /\ sent \in Nat
          /\ flush_faults = 0
      BY <1>1, EventsFinite DEF ClientTypeOK, NoFaultInv
    <3> QED BY <1>1, <2>1, <3>1, <3>2 DEF Conservation
  <2>3. Promise!In("closed") = {s \in Streams : IsOpen(s)}
    BY <2>1, PromiseSets
  <2>4. Promise!Cardinality(Promise!In("closed")) = scenario.total_requests
    BY <1>1, <2>2, <2>3, OpenedCard, SameCard
  <2>5. Promise!Stop
    BY <1>2, <1>3, <1>4, <1>6, <2>4 DEF Promise!Stop
  <2> QED BY <2>5 DEF Promise!Next
<1> QED BY <1>5, <1>6

(***************************************************************************)
(* The refinement.                                                         *)
(***************************************************************************)
LEMMA PromiseInit == OverloadInit => Promise!Init
<1> SUFFICES ASSUME OverloadInit PROVE Promise!Init
  OBVIOUS
<1>1. /\ scenario \in Scenarios /\ cpc = "connect" /\ next_stream_id = 0
      /\ events = {} /\ outcome = [s \in Streams |-> "none"]
  BY DEF OverloadInit, ServerInit, ClientInit
<1>2. \A s \in Streams : phaseOf(s) = "idle"
  BY <1>1, StreamIdAssumption DEF phaseOf
<1>3. \A s \in Streams : resultOf(s) = "none"
  BY <1>1 DEF resultOf, eventOf
<1> QED BY <1>1, <1>2, <1>3 DEF Promise!Init

LEMMA PromiseNext ==
  ASSUME ~Faults, Ready, Ready', [OverloadNext]_overloadVars
  PROVE  Promise!Next \/ UNCHANGED Promise!promiseVars
<1>1. TypeOK /\ NoFaultInv
  BY DEF Ready, ServerBooks, ClientBooks
<1>2. scenario' = scenario
  BY <1>1, ScenarioFixed
<1>3. CASE ServerStep
  BY <1>3, PromiseServer
<1>4. CASE OpenRequest /\ UNCHANGED serverVars
  BY <1>2, <1>4, PromiseOpens DEF serverVars, clientMap
<1>5. CASE ReadResponses /\ UNCHANGED serverVars
  BY <1>2, <1>5, PromiseCloses DEF serverVars, clientMap
<1>6. CASE TallyEvents /\ UNCHANGED serverVars
  BY <1>2, <1>6, PromiseTallies DEF serverVars, clientMap
<1>7. ASSUME UNCHANGED <<next_stream_id, pending, events, outcome, verdict, streams>>,
             AtEnd' <=> AtEnd
      PROVE  UNCHANGED Promise!promiseVars
  BY <1>2, <1>7, PhaseKept, ResultKept, StutterMeans
<1>8. CASE FlushPendingRequests /\ UNCHANGED serverVars
  <2>1. FlushPending({})
    BY <1>8 DEF FlushPendingRequests
  <2>2. UNCHANGED <<next_stream_id, pending, events>>
    BY <2>1 DEF FlushPending, Failed
  <2>3. UNCHANGED <<outcome, verdict, streams>> /\ (AtEnd' <=> AtEnd)
    BY <1>8 DEF FlushPendingRequests, AtEnd, serverVars, clientMap
  <2> QED BY <1>7, <2>2, <2>3
<1>9. CASE (Connected \/ FillEnds \/ Poll \/ PollIdleClose) /\ UNCHANGED serverVars
  <2>1. UNCHANGED <<requests, events, outcome, verdict, streams>> /\ (AtEnd' <=> AtEnd)
    BY <1>9 DEF Connected, FillEnds, Poll, PollIdleClose, AtEnd, serverVars, clientMap
  <2> QED BY <1>7, <2>1 DEF requests
<1>10. CASE StopServer \/ Join \/ Halted \/ UNCHANGED overloadVars
  <2>1. UNCHANGED <<requests, events, outcome, verdict, streams>> /\ (AtEnd' <=> AtEnd)
    BY <1>10
    DEF StopServer, RequestShutdown, Join, Halted, AtEnd, overloadVars, clientVars,
        serverVars, clientMap
  <2> QED BY <1>7, <2>1 DEF requests
<1>11. /\ ~ConnectFails /\ ~OpenRequestFlushFails /\ ~OpenRequestFails
       /\ ~DriveFails /\ ~Watchdog
  BY DEF ConnectFails, OpenRequestFlushFails, OpenRequestFails, DriveFails, Watchdog
<1> QED
  BY <1>3, <1>4, <1>5, <1>6, <1>8, <1>9, <1>10, <1>11 DEF OverloadNext, ClientStep

\* Without faults a whole scenario, threads, chunks, lost and reordered
\* datagrams and all, is a run of OverloadPromise: every request is judged
\* once by the policy and closed with the outcome that belongs to its verdict,
\* and the run stops when all are closed (overload.rs:213, 892).
THEOREM PromiseKept == ASSUME ~Faults PROVE OverloadSafety => KeepsPromise
<1>1. ServerBooks /\ ClientBooks /\ Links => Ready
  BY PhaseFacts, ResultFacts DEF Ready
<1>2. Ready /\ Ready' /\ [OverloadNext]_overloadVars
        => Promise!Next \/ UNCHANGED Promise!promiseVars
  BY PromiseNext
<1>3. OverloadSafety => []Ready
  BY <1>1, ServerBooksCorrect, ClientBooksCorrect, LinksCorrect, PTL
<1> QED
  BY <1>2, <1>3, PromiseInit, PTL DEF OverloadSafety, KeepsPromise, Promise!Spec
=============================================================================
