----------------------------- MODULE RawServer -----------------------------
(***************************************************************************)
(* The raw QUIC server thread of the overload experiment, src/src/         *)
(* overload.rs: run_raw_server_loop and every function it calls, serving   *)
(* one connection in an environment that sends any request data in any     *)
(* order and asks for shutdown at any moment.                              *)
(*                                                                         *)
(* The thread is sequential, so its state has a program counter: spc is    *)
(* the place in run_raw_server_loop ("top", "poll", "recv") or in          *)
(* handle_raw_server_events ("retry", "due1", "read", "due2"), todo what   *)
(* is left of the Vec the current for-loop iterates over, and last whether *)
(* the running call of handle_raw_server_events is the one that ends the   *)
(* iteration.  A Vec collected from a HashMap or from quiche has no order  *)
(* the code relies on, so a loop takes its elements in any order.          *)
(*                                                                         *)
(* Data is counted in units: a request body is payload_size units, a       *)
(* response RespLen units.  Time is abstracted: at each look at the clock  *)
(* any of the processing streams may be due.                               *)
(***************************************************************************)
EXTENDS Integers, FiniteSets, RejectPolicy

CONSTANTS
  Streams,        \* stream ids the peer may open
  Scenarios,      \* the OverloadScenario values a run may be started with
  RespLen,        \* units of a response
  PeerMayReset,   \* whether the peer may abandon a request (RESET_STREAM)
  Faults          \* whether quiche and socket calls may fail with an Err
                  \* that the code propagates with `?`

\* The fields of OverloadScenario; the parser accepts positive numbers only.
ScenarioType ==
  [mode : {"App503", "Reset"}, total_requests : Nat \ {0},
   concurrency : Nat \ {0}, payload_size : Nat \ {0},
   threshold : Nat \ {0}, reject_percent : Percents]

ASSUME StreamsAssumption == IsFiniteSet(Streams)
ASSUME ScenariosAssumption == Scenarios \subseteq ScenarioType
ASSUME RespLenAssumption == RespLen \in Nat \ {0}
ASSUME SwitchesAssumption == PeerMayReset \in BOOLEAN /\ Faults \in BOOLEAN

VARIABLES
  \* control
  scenario,             \* the parameters the thread was started with
  shutdown,             \* the AtomicBool shared with the client thread
  spc, todo, last,
  \* RawServerClient
  has_client,           \* client.is_some()
  streams,              \* keys of streams: accepted and not finished
  reset_streams,
  pending_responses,    \* stream -> what is left to write, or NoResponse
  processing_streams,   \* fully read, waiting for SIMULATED_PROCESSING_DELAY
  in_flight,
  seen_requests,
  stats,                \* OverloadServerStats without its durations
  \* quiche, server side, as the thread sees it
  arrived,              \* contiguous request units received, per stream
  consumed,             \* of these, the units stream_recv has returned
  peer_reset,           \* streams with a RESET_STREAM received
  aborted,              \* ... whose reset stream_recv has returned
  read_shut,            \* stream_shutdown(Read) done: STOP_SENDING queued
  reply,                \* what stream_send has queued on the stream
  flushed,              \* what flush_quiche has handed to the socket
  \* history
  verdict               \* what was decided for the stream

control   == <<spc, todo, last>>
clientMap == <<streams, reset_streams, processing_streams, in_flight,
               seen_requests>>
recvSide  == <<arrived, consumed, peer_reset, aborted, read_shut>>
sendSide  == <<pending_responses, reply>>
serverVars == <<scenario, shutdown, control, has_client, clientMap, stats,
                recvSide, sendSide, flushed, verdict>>

-----------------------------------------------------------------------------
NoResponse == [data |-> "none", written |-> 0]
NothingSent == [data |-> "none", len |-> 0]

\* What the connection has for the peer: responses, STOP_SENDING, RESET_STREAM.
Outgoing == [reply |-> reply, stop |-> read_shut, reset |-> reset_streams]

Pending == {s \in Streams : pending_responses[s] # NoResponse}

\* What conn.readable() yields.  A stream shut for reading drains its input
\* silently, and one whose reset or FIN was read has nothing more to give.
Readable(s) ==
  /\ s \notin read_shut
  /\ s \notin aborted
  /\ arrived[s] > consumed[s] \/ s \in peer_reset

ServerInit ==
  /\ scenario \in Scenarios
  /\ shutdown = FALSE
  /\ spc = "top" /\ todo = {} /\ last = FALSE
  /\ has_client = FALSE
  /\ streams = {} /\ reset_streams = {} /\ processing_streams = {}
  /\ in_flight = 0 /\ seen_requests = 0
  /\ pending_responses = [s \in Streams |-> NoResponse]
  /\ stats = [accepted_requests |-> 0, successful_requests |-> 0,
              app_rejections |-> 0, reset_rejections |-> 0,
              bytes_read |-> 0, peak_inflight |-> 0]
  /\ arrived = [s \in Streams |-> 0]
  /\ consumed = [s \in Streams |-> 0]
  /\ peer_reset = {} /\ aborted = {} /\ read_shut = {}
  /\ reply = [s \in Streams |-> NothingSent]
  /\ flushed = Outgoing
  /\ verdict = [s \in Streams |-> "none"]

-----------------------------------------------------------------------------
(***************************************************************************)
(* run_raw_server_loop                                                     *)
(***************************************************************************)
unchangedButControl ==
  UNCHANGED <<scenario, shutdown, has_client, clientMap, stats, recvSide,
              sendSide, flushed, verdict>>

\* handle_raw_server_events starts with the streams that are writable; only
\* those with a pending response matter to retry_raw_response.
EnterHandle(final) ==
  /\ spc' = "retry"
  /\ todo' \in SUBSET Pending
  /\ last' = final

\* Mutated: the flag is looked at only while there is no connection.
LoopTop_Busy ==
  /\ spc = "top"
  /\ spc' = IF shutdown /\ ~has_client THEN "dead" ELSE "poll"
  /\ UNCHANGED <<todo, last>>
  /\ unchangedButControl

LoopTop ==
  /\ spc = "top"
  /\ spc' = IF shutdown THEN "dead" ELSE "poll"
  /\ UNCHANGED <<todo, last>>
  /\ unchangedButControl

\* poll returned no event: on_timeout, then the final call of the handler.
\* Every timeout the loop computes is finite.
PollTimeout ==
  /\ spc = "poll"
  /\ IF has_client THEN EnterHandle(TRUE)
                   ELSE spc' = "top" /\ UNCHANGED <<todo, last>>
  /\ unchangedButControl

PollReadable ==
  /\ spc = "poll"
  /\ spc' = "recv"
  /\ UNCHANGED <<todo, last>>
  /\ unchangedButControl

\* The first Initial packet creates the connection (quiche::accept); a
\* datagram that is no Initial, or that conn.recv refuses, changes nothing.
RecvDatagram(new_arrived, new_reset) ==
  /\ spc = "recv"
  /\ has_client' = TRUE
  /\ arrived' = new_arrived
  /\ peer_reset' = new_reset
  /\ EnterHandle(FALSE)
  /\ UNCHANGED <<scenario, shutdown, clientMap, stats, consumed, aborted,
                 read_shut, sendSide, flushed, verdict>>

RecvWouldBlock ==
  /\ spc = "recv"
  /\ IF has_client THEN EnterHandle(TRUE)
                   ELSE spc' = "top" /\ UNCHANGED <<todo, last>>
  /\ unchangedButControl

\* `?` on poll, recv_from, accept or flush_quiche: the thread ends and the
\* `let _ =` of RawQuicServer::start discards the error.
LoopFails ==
  /\ Faults
  /\ \/ spc \in {"poll", "recv"}
     \/ spc = "due2" /\ todo = {} /\ last
  /\ spc' = "dead"
  /\ UNCHANGED <<todo, last>>
  /\ unchangedButControl

-----------------------------------------------------------------------------
(***************************************************************************)
(* Responses: send_raw_response and retry_raw_response.                    *)
(***************************************************************************)
\* stream_send accepted n units of text, continuing what the stream holds.
Queue(s, text, n) ==
  reply' = IF n = 0 THEN reply
           ELSE [reply EXCEPT ![s] = [data |-> text, len |-> @.len + n]]

\* Mutated: what did not fit is forgotten.
send_raw_response_Lossy(s, text, n) ==
  Queue(s, text, n) /\ UNCHANGED pending_responses

\* A response that fits is gone; of any other the rest is remembered, also
\* when stream_send took nothing (Err(Done)).
send_raw_response(s, text, n) ==
  /\ Queue(s, text, n)
  /\ pending_responses' =
       IF n = RespLen THEN pending_responses
       ELSE [pending_responses EXCEPT ![s] = [data |-> text, written |-> n]]

\* n units go out over all the rounds of the while-loop.
retry_raw_response(s) ==
  LET response == pending_responses[s] IN
  \E n \in 0 .. (RespLen - response.written) :
     /\ Queue(s, response.data, n)
     /\ pending_responses' =
          [pending_responses EXCEPT ![s] =
             IF response.written + n = RespLen THEN NoResponse
             ELSE [response EXCEPT !.written = @ + n]]

RetryResponse(s) ==
  /\ spc = "retry" /\ s \in todo
  /\ todo' = todo \ {s}
  /\ retry_raw_response(s)
  /\ UNCHANGED <<scenario, shutdown, spc, last, has_client, clientMap, stats,
                 recvSide, flushed, verdict>>

\* finish_due_raw_server_streams collects the streams whose time has come.
RetryDone ==
  /\ spc = "retry" /\ todo = {}
  /\ spc' = "due1"
  /\ todo' \in SUBSET processing_streams
  /\ UNCHANGED last
  /\ unchangedButControl

-----------------------------------------------------------------------------
(***************************************************************************)
(* finish_raw_server_stream, from finish_due_raw_server_streams.           *)
(* The 503 branch is not here: `overloaded` is never set to true.          *)
(***************************************************************************)
\* usize::saturating_sub(1), and a mutated form that subtracts twice.
minus_one_Twice(n) == n - 2
minus_one(n) == IF n = 0 THEN 0 ELSE n - 1

finish_raw_server_stream(s) ==
  /\ processing_streams' = processing_streams \ {s}
  /\ IF s \in streams
     THEN /\ streams' = streams \ {s}
          /\ in_flight' = minus_one(in_flight)
          /\ stats' = [stats EXCEPT !.successful_requests = @ + 1]
          /\ \E n \in 0 .. RespLen : send_raw_response(s, "200", n)
     ELSE UNCHANGED <<streams, in_flight, stats, sendSide>>

FinishStream(s) ==
  /\ spc \in {"due1", "due2"} /\ s \in todo
  /\ todo' = todo \ {s}
  /\ finish_raw_server_stream(s)
  /\ UNCHANGED <<scenario, shutdown, spc, last, has_client, reset_streams,
                 seen_requests, recvSide, flushed, verdict>>

\* stream_send failed inside finish_raw_server_stream: the books are already
\* closed on the stream, and no response will follow.
FinishStreamFails(s) ==
  /\ Faults
  /\ spc \in {"due1", "due2"} /\ s \in todo \cap streams
  /\ spc' = "dead" /\ UNCHANGED <<todo, last>>
  /\ processing_streams' = processing_streams \ {s}
  /\ streams' = streams \ {s}
  /\ in_flight' = minus_one(in_flight)
  /\ stats' = [stats EXCEPT !.successful_requests = @ + 1]
  /\ UNCHANGED <<scenario, shutdown, has_client, reset_streams,
                 seen_requests, recvSide, sendSide, flushed, verdict>>

\* The streams the loop below skips.  Handling one stream makes no other one
\* handled, so they are left out when the loop starts.
Handled == reset_streams \cup processing_streams

FirstDueDone ==
  /\ spc = "due1" /\ todo = {}
  /\ spc' = "read"
  /\ todo' = {s \in Streams \ Handled : Readable(s)}
  /\ UNCHANGED last
  /\ unchangedButControl

\* The end of handle_raw_server_events: back to recv_from or, after the
\* final call, through flush_quiche to the top of the loop.
SecondDueDone ==
  /\ spc = "due2" /\ todo = {}
  /\ IF last THEN spc' = "top" /\ flushed' = Outgoing
             ELSE spc' = "recv" /\ UNCHANGED flushed
  /\ UNCHANGED <<scenario, shutdown, todo, last, has_client, clientMap, stats,
                 recvSide, sendSide, verdict>>

-----------------------------------------------------------------------------
(***************************************************************************)
(* The loop over the readable streams.                                     *)
(***************************************************************************)
Visit(s) ==
  /\ spc = "read" /\ s \in todo
  /\ todo' = todo \ {s}
  /\ UNCHANGED <<scenario, shutdown, last, has_client>>

\* Mutated: the position before the increment, a strict comparison.
RejectsNow_Late ==
  IF scenario.reject_percent > 0
  THEN should_reject_by_percent(seen_requests, scenario.reject_percent)
  ELSE in_flight > scenario.threshold

\* The verdict on a stream seen for the first time: by position when a
\* percentage is set, else by load.
RejectsNow ==
  IF scenario.reject_percent > 0
  THEN should_reject_by_percent(seen_requests + 1, scenario.reject_percent)
  ELSE in_flight >= scenario.threshold

FirstSight(s) ==
  /\ Visit(s) /\ s \notin Handled /\ s \notin streams
  /\ seen_requests' = seen_requests + 1

RejectApp503(s) ==
  /\ FirstSight(s) /\ RejectsNow /\ scenario.mode = "App503"
  /\ verdict' = [verdict EXCEPT ![s] = "reject"]
  /\ read_shut' = read_shut \cup {s}
  /\ stats' = [stats EXCEPT !.app_rejections = @ + 1]
  /\ \E n \in 0 .. RespLen : send_raw_response(s, "503", n)
  /\ UNCHANGED <<spc, streams, reset_streams, processing_streams, in_flight,
                 arrived, consumed, peer_reset, aborted, flushed>>

\* stream_send failed: counted and shut for reading, never answered.
RejectApp503Fails(s) ==
  /\ Faults
  /\ FirstSight(s) /\ RejectsNow /\ scenario.mode = "App503"
  /\ verdict' = [verdict EXCEPT ![s] = "reject"]
  /\ read_shut' = read_shut \cup {s}
  /\ stats' = [stats EXCEPT !.app_rejections = @ + 1]
  /\ spc' = "dead"
  /\ UNCHANGED <<streams, reset_streams, processing_streams, in_flight,
                 arrived, consumed, peer_reset, aborted, sendSide, flushed>>

\* Mutated: without the `continue`, the body of the refused stream is read.
RejectReset_ReadsOn(s) ==
  /\ FirstSight(s) /\ RejectsNow /\ scenario.mode = "Reset"
  /\ verdict' = [verdict EXCEPT ![s] = "reject"]
  /\ read_shut' = read_shut \cup {s}
  /\ reset_streams' = reset_streams \cup {s}
  /\ stats' = [stats EXCEPT !.reset_rejections = @ + 1,
                           !.bytes_read = @ + arrived[s]]
  /\ consumed' = [consumed EXCEPT ![s] = arrived[s]]
  /\ UNCHANGED <<spc, streams, processing_streams, in_flight, arrived,
                 peer_reset, aborted, sendSide, flushed>>

\* Both directions are shut; the stream is remembered as reset.
RejectReset(s) ==
  /\ FirstSight(s) /\ RejectsNow /\ scenario.mode = "Reset"
  /\ verdict' = [verdict EXCEPT ![s] = "reject"]
  /\ read_shut' = read_shut \cup {s}
  /\ reset_streams' = reset_streams \cup {s}
  /\ stats' = [stats EXCEPT !.reset_rejections = @ + 1]
  /\ UNCHANGED <<spc, streams, processing_streams, in_flight, arrived,
                 consumed, peer_reset, aborted, sendSide, flushed>>

\* stream_recv reports FIN; mutated: any data is taken for the whole body.
Fin_AnyData(s) == arrived[s] > 0
Fin(s) == arrived[s] = scenario.payload_size

\* Mutated: units read before are counted again, and a reset stream stays in
\* flight.
ReadBody_Recount(s, open, load, books) ==
  /\ IF s \in peer_reset
     THEN /\ aborted' = aborted \cup {s}
          /\ streams' = open \ {s}
          /\ stats' = books
          /\ UNCHANGED <<consumed, processing_streams>>
     ELSE /\ consumed' = [consumed EXCEPT ![s] = arrived[s]]
          /\ stats' = [books EXCEPT !.bytes_read = @ + arrived[s]]
          /\ processing_streams' = IF Fin(s) THEN processing_streams \cup {s}
                                   ELSE processing_streams
          /\ streams' = open /\ UNCHANGED aborted
  /\ in_flight' = load

\* The stream_recv loop: everything that has arrived is read; a FIN makes
\* the stream wait for its processing time, a RESET_STREAM drops it.
\* open and load are the streams and in_flight the loop starts with.
ReadBody(s, open, load, books) ==
  IF s \in peer_reset
  THEN /\ aborted' = aborted \cup {s}
       /\ streams' = open \ {s}
       /\ in_flight' = minus_one(load)
       /\ stats' = books
       /\ UNCHANGED <<consumed, processing_streams>>
  ELSE /\ consumed' = [consumed EXCEPT ![s] = arrived[s]]
       /\ stats' = [books EXCEPT !.bytes_read = @ + arrived[s] - consumed[s]]
       /\ processing_streams' = IF Fin(s) THEN processing_streams \cup {s}
                                       ELSE processing_streams
       /\ streams' = open
       /\ in_flight' = load
       /\ UNCHANGED aborted

AcceptStream(s) ==
  /\ FirstSight(s) /\ ~RejectsNow
  /\ verdict' = [verdict EXCEPT ![s] = "accept"]
  /\ ReadBody(s, streams \cup {s}, in_flight + 1,
              [stats EXCEPT !.accepted_requests = @ + 1,
                            !.peak_inflight = IF @ > in_flight THEN @
                                              ELSE in_flight + 1])
  /\ UNCHANGED <<spc, reset_streams, arrived, peer_reset, read_shut,
                 sendSide, flushed>>

\* The first stream_recv of a stream just accepted fails: it is counted and
\* in the map, and none of it is read.
AcceptStreamFails(s) ==
  /\ Faults
  /\ FirstSight(s) /\ ~RejectsNow
  /\ verdict' = [verdict EXCEPT ![s] = "accept"]
  /\ streams' = streams \cup {s}
  /\ in_flight' = in_flight + 1
  /\ stats' = [stats EXCEPT !.accepted_requests = @ + 1,
                           !.peak_inflight = IF @ > in_flight THEN @
                                             ELSE in_flight + 1]
  /\ spc' = "dead"
  /\ UNCHANGED <<reset_streams, processing_streams, recvSide, sendSide, flushed>>

ReadMore(s) ==
  /\ Visit(s) /\ s \notin Handled /\ s \in streams
  /\ ReadBody(s, streams, in_flight, stats)
  /\ UNCHANGED <<spc, reset_streams, seen_requests, arrived, peer_reset,
                 read_shut, sendSide, flushed, verdict>>

\* finish_due_raw_server_streams runs a second time.
ReadDone ==
  /\ spc = "read" /\ todo = {}
  /\ spc' = "due2"
  /\ todo' \in SUBSET processing_streams
  /\ UNCHANGED last
  /\ unchangedButControl

\* stream_send in retry_raw_response failed, or the first stream_recv of a
\* stream that an earlier visit accepted.
HandleFails ==
  /\ Faults
  /\ spc \in {"retry", "read"} /\ todo # {}
  /\ spc' = "dead" /\ UNCHANGED <<todo, last>>
  /\ unchangedButControl

-----------------------------------------------------------------------------
(***************************************************************************)
(* The environment and the specification.                                  *)
(***************************************************************************)
\* The thread that owns the client stores TRUE.
RequestShutdown ==
  /\ shutdown = FALSE
  /\ shutdown' = TRUE
  /\ UNCHANGED <<scenario, control, has_client, clientMap, stats, recvSide,
                 sendSide, flushed, verdict>>

\* What one datagram can change: more units of streams still being received,
\* or the peer's reset of one whose end it has not sent.
Arrivals ==
  {f \in [Streams -> 0 .. scenario.payload_size] :
     \A s \in Streams :
        f[s] >= arrived[s] /\ (s \in read_shut \cup peer_reset => f[s] = arrived[s])}
Resets(f) ==
  IF PeerMayReset
  THEN {R \in SUBSET Streams :
          /\ peer_reset \subseteq R
          /\ \A s \in R \ peer_reset : f[s] < scenario.payload_size}
  ELSE {peer_reset}

Handler ==
  \/ RetryDone \/ FirstDueDone \/ ReadDone \/ SecondDueDone
  \/ \E s \in Streams :
       \/ RetryResponse(s) \/ FinishStream(s)
       \/ RejectApp503(s) \/ RejectReset(s) \/ AcceptStream(s) \/ ReadMore(s)

Failure ==
  \/ LoopFails \/ HandleFails
  \/ \E s \in Streams :
       FinishStreamFails(s) \/ RejectApp503Fails(s) \/ AcceptStreamFails(s)

Loop == LoopTop \/ PollTimeout \/ PollReadable \/ RecvWouldBlock

Receive == \E f \in Arrivals : \E R \in Resets(f) : RecvDatagram(f, R)

\* A thread that has ended stays ended.
Ended == spc = "dead" /\ UNCHANGED serverVars

ServerNext ==
  Loop \/ Receive \/ Handler \/ Failure \/ RequestShutdown \/ Ended

ServerSafety == ServerInit /\ [][ServerNext]_serverVars

(***************************************************************************)
(* The thread is scheduled and every poll is bounded (WF on its steps).    *)
(* The clock advances, so while streams are being processed some are found *)
(* due again and again; the peer's datagrams run out for a moment (SF on   *)
(* WouldBlock); its acknowledgements make room again for what is queued    *)
(* (SF on finding a stream writable, and on its retry taking some units).  *)
(***************************************************************************)
SomeDue == (RetryDone \/ ReadDone) /\ todo' # {}
SomeWritable == (PollTimeout \/ RecvWouldBlock) /\ todo' # {}
RetryProgress == (\E s \in Streams : RetryResponse(s)) /\ reply' # reply

ServerFairness ==
  /\ WF_serverVars(Loop \/ Handler)
  /\ SF_serverVars(RecvWouldBlock)
  /\ SF_serverVars(SomeDue)
  /\ SF_serverVars(SomeWritable)
  /\ SF_serverVars(RetryProgress)

ServerSpec == ServerSafety /\ ServerFairness

-----------------------------------------------------------------------------
(***************************************************************************)
(* Properties.                                                             *)
(***************************************************************************)
Accepted == {s \in Streams : verdict[s] = "accept"}
Rejected == {s \in Streams : verdict[s] = "reject"}
Rejections == stats.app_rejections + stats.reset_rejections

\* The response the verdict calls for.
Text(s) == IF verdict[s] = "accept" THEN "200" ELSE "503"

\* Streams the server owes a response: accepted ones whose whole body was
\* read and processed, and in App503 mode every rejected one.
Owed(s) ==
  \/ s \in Accepted /\ s \notin streams /\ s \notin aborted
  \/ s \in Rejected /\ scenario.mode = "App503"

StatsType ==
  [accepted_requests : Nat, successful_requests : Nat, app_rejections : Nat,
   reset_rejections : Nat, bytes_read : Int, peak_inflight : Nat]

Texts == {"none", "200", "503"}
ReplyType == [Streams -> [data : Texts, len : Nat]]

ControlType ==
  /\ scenario \in Scenarios
  /\ shutdown \in BOOLEAN
  /\ spc \in {"top", "poll", "recv", "retry", "due1", "read", "due2", "dead"}
  /\ todo \in SUBSET Streams
  /\ last \in BOOLEAN

ClientType ==
  /\ has_client \in BOOLEAN
  /\ streams \in SUBSET Streams
  /\ reset_streams \in SUBSET Streams
  /\ processing_streams \in SUBSET Streams
  /\ in_flight \in Nat
  /\ seen_requests \in Nat
  /\ stats \in StatsType

ReceiveType ==
  /\ arrived \in [Streams -> Nat]
  /\ consumed \in [Streams -> Nat]
  /\ peer_reset \in SUBSET Streams
  /\ aborted \in SUBSET Streams
  /\ read_shut \in SUBSET Streams
  /\ verdict \in [Streams -> {"none", "accept", "reject"}]

SendType ==
  /\ pending_responses \in [Streams -> [data : Texts, written : 0 .. RespLen]]
  /\ reply \in ReplyType
  /\ flushed \in [reply : ReplyType, stop : SUBSET Streams, reset : SUBSET Streams]

\* Every variable has its type; the loop variables range over streams.
TypeOK == ControlType /\ ClientType /\ ReceiveType /\ SendType

\* The counter in_flight, kept beside the streams map by += 1 and
\* saturating_sub, never drifts from the map, whether streams end by a
\* response or by the peer's reset (overload.rs:523, 558, 613).
InflightExact == in_flight = Cardinality(streams)

\* In threshold mode the load never exceeds the threshold, nor does the peak
\* the report prints (overload.rs:489, 536).
ThresholdRespected ==
  scenario.reject_percent = 0 =>
    in_flight <= scenario.threshold /\ stats.peak_inflight <= scenario.threshold

\* In percentage mode the refused share of the requests seen is exact at
\* every moment, whatever the order of arrival (overload.rs:485, 572).
QuotaExact ==
  scenario.reject_percent > 0 =>
    Rejections = Quota(seen_requests, scenario.reject_percent)

\* Each stream is judged once: however often it becomes readable again, it
\* is counted as seen, accepted or refused a single time.  App503 leaves the
\* refused stream in no set (overload.rs:492), so this rests on the read
\* side being shut.
JudgedOnce ==
  /\ seen_requests = Cardinality(Accepted) + Cardinality(Rejected)
  /\ stats.accepted_requests = Cardinality(Accepted)
  /\ Rejections = Cardinality(Rejected)

\* Every accepted request is in flight, was answered, or was abandoned by
\* the peer (overload.rs:523, 556, 613).
AcceptedAccounted ==
  stats.accepted_requests =
    in_flight + stats.successful_requests + Cardinality(aborted)

\* The counters tell what happened to the streams: the conjunction of the
\* above (overload.rs:485, 523, 613).
Counts == InflightExact /\ JudgedOnce /\ AcceptedAccounted

\* Both admission policies keep their word at every moment (overload.rs:486).
Policy == ThresholdRespected /\ QuotaExact

\* The body of a refused request is never read, in either mode: the premise
\* of the comparison of server bytes between the modes (overload.rs:494).
RejectedNeverRead == \A s \in Rejected : consumed[s] = 0

\* Where a stream can be: the maps agree with the verdicts, the read side of
\* exactly the refused streams is shut, what is being processed or is already
\* answered was read to its end, and no loop holds a stale stream: what
\* finish_due or the readable loop is about to visit still is due or readable
\* (overload.rs:466, 473, 583).
Lifecycle ==
  /\ processing_streams \subseteq streams
  /\ streams \subseteq Accepted
  /\ aborted \subseteq (Accepted \cap peer_reset) \ streams
  /\ read_shut = Rejected
  /\ reset_streams = IF scenario.mode = "Reset" THEN Rejected ELSE {}
  /\ \A s \in Streams :
       /\ consumed[s] <= arrived[s] /\ arrived[s] <= scenario.payload_size
       /\ s \in peer_reset => arrived[s] < scenario.payload_size
       /\ s \notin Accepted => consumed[s] = 0
       /\ s \in processing_streams \/ s \in Accepted \ (streams \cup aborted)
            => consumed[s] = scenario.payload_size
  /\ spc \in {"due1", "due2"} => todo \subseteq processing_streams
  /\ spc = "read" => \A s \in todo : Readable(s)

\* A response is written once and in order: what a stream holds is a prefix
\* of the one response its verdict calls for, it is complete exactly when
\* nothing is remembered for a retry, and a stream that is owed none (still
\* being read or processed, abandoned, reset) holds none
\* (overload.rs:626, 657).
ResponseBooks ==
  spc # "dead" =>
    \A s \in Streams :
      LET p == pending_responses[s] IN
      IF ~Owed(s) THEN p = NoResponse /\ reply[s] = NothingSent
      ELSE IF p = NoResponse THEN reply[s] = [data |-> Text(s), len |-> RespLen]
      ELSE /\ p.data = Text(s)
           /\ p.written = reply[s].len /\ p.written < RespLen
           /\ p.written > 0 => reply[s].data = Text(s)

\* A request read to its end is answered in full, unless the thread ends
\* first: neither the delay nor a full send buffer strands it
\* (overload.rs:376, 583, 657).
EventuallyAnswered ==
  \A s \in Streams :
    (s \in processing_streams) ~> (reply[s].len = RespLen \/ spc = "dead")
=============================================================================
