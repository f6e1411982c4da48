------------------------------ MODULE Overload ------------------------------
(***************************************************************************)
(* One measured overload scenario, run_overload_scenario of src/src/       *)
(* overload.rs: the raw QUIC server thread of RawServer together with the  *)
(* thread that owns RawQuicClient, opens the requests, collects their      *)
(* outcomes and stops the server.                                          *)
(*                                                                         *)
(* The two threads share the shutdown flag and, after the join, the        *)
(* statistics; everything else passes through quiche and UDP.  QUIC        *)
(* retransmits, so a lost or delayed datagram is a frame that is delivered *)
(* later: what the peer has flushed becomes visible in any order, each     *)
(* stream's bytes in sequence.                                             *)
(*                                                                         *)
(* cpc is the client thread's place: the steps of one iteration of the     *)
(* while-loop in run_overload_scenario ("fill", "tally") and of drive      *)
(* ("flush", "poll", "read", "flush2").                                    *)
(***************************************************************************)
EXTENDS RawServer

CONSTANT RawStreamChunk   \* RAW_STREAM_CHUNK_SIZE, in units

ASSUME RawStreamChunkAssumption == RawStreamChunk \in Nat \ {0}

\* Client-initiated bidirectional streams are numbered 0, 4, 8, ...
ASSUME StreamIdAssumption ==
  /\ \A s \in Streams : s \in Nat /\ s % 4 = 0
  /\ \A sc \in Scenarios : \A k \in 0 .. (sc.total_requests - 1) : 4 * k \in Streams

VARIABLES
  cpc,
  next_stream_id,
  pending,              \* keys of pending: opened, not completed
  written,              \* RawPendingRequest.written
  stopped_sending,      \* streams with stopped_sending set
  read,                 \* units of response read, per stream
  events,               \* the completions drive is collecting
  sent, completed, successes, rejected, reset_count, errors,
  progress,             \* last_progress was set in this iteration
  \* quiche, client side, as the thread sees it
  conn_open,            \* the connection has not been closed
  got,                  \* frames received: responses, stops, resets
  \* history
  outcome,              \* the outcome counted for the stream
  flush_faults          \* requests opened whose flush_quiche failed

tallies == <<sent, completed, successes, rejected, reset_count, errors>>
requests == <<next_stream_id, pending, written, stopped_sending, read>>
wire == <<conn_open, got>>
clientVars == <<cpc, tallies, requests, events, progress, wire, outcome, flush_faults>>
overloadVars == <<serverVars, clientVars>>

ClientInit ==
  /\ cpc = "connect"
  /\ next_stream_id = 0
  /\ pending = {} /\ stopped_sending = {} /\ events = {}
  /\ written = [s \in Streams |-> 0]
  /\ read = [s \in Streams |-> 0]
  /\ sent = 0 /\ completed = 0 /\ successes = 0 /\ rejected = 0
  /\ reset_count = 0 /\ errors = 0
  /\ progress = FALSE
  /\ conn_open = TRUE
  /\ got = [resp |-> [s \in Streams |-> 0], stop |-> {}, reset |-> {}]
  /\ outcome = [s \in Streams |-> "none"]
  /\ flush_faults = 0

-----------------------------------------------------------------------------
(***************************************************************************)
(* The server in this company: it receives what the client has written.    *)
(***************************************************************************)
\* The first datagram is the handshake; after it come request units.
ServerReceives ==
  \E f \in Arrivals :
    /\ \A s \in Streams : f[s] <= written[s]
    /\ RecvDatagram(f, peer_reset)

ServerStep ==
  /\ Loop \/ ServerReceives \/ Handler \/ Failure
  /\ UNCHANGED clientVars

-----------------------------------------------------------------------------
(***************************************************************************)
(* RawQuicClient::connect and the filling of the window.                   *)
(***************************************************************************)
\* conn.is_established(): the server has answered the handshake.
Connected ==
  /\ cpc = "connect" /\ has_client
  /\ cpc' = "fill"
  /\ UNCHANGED <<tallies, requests, events, progress, wire, outcome, flush_faults>>

\* No handshake within five seconds: connect returns an Err, and so does
\* run_overload_scenario, without storing shutdown.
ConnectFails ==
  /\ Faults /\ cpc = "connect"
  /\ cpc' = "failed"
  /\ UNCHANGED <<tallies, requests, events, progress, wire, outcome, flush_faults>>

WantsMore ==
  sent < scenario.total_requests /\ Cardinality(pending) < scenario.concurrency

Fill == cpc = "fill" /\ WantsMore

\* What write_request_chunk may leave written of a body of which w units are:
\* at most one chunk more.
ChunkEnd_Unbounded(w) == w + RawStreamChunk   \* mutated: no .min(len)
ChunkEnd(w) ==
  IF w + RawStreamChunk < scenario.payload_size THEN w + RawStreamChunk
                                                ELSE scenario.payload_size

\* The first chunk went into quiche: the request is pending from here on.
Opens(n) ==
  /\ written' = [written EXCEPT ![next_stream_id] = n]
  /\ pending' = pending \cup {next_stream_id}
  /\ next_stream_id' = next_stream_id + 4
  /\ sent' = sent + 1
  /\ progress' = TRUE
  /\ UNCHANGED <<cpc, successes, rejected, reset_count, stopped_sending, read,
                 events, wire, outcome>>

OpenRequest ==
  /\ Fill
  /\ \E n \in 1 .. ChunkEnd(0) : Opens(n)
  /\ UNCHANGED <<completed, errors, flush_faults>>

\* flush_quiche failed after the insertion: open_request returns Err, the
\* caller counts the request as completed, and it stays pending.
OpenRequestFlushFails ==
  /\ Faults /\ Fill
  /\ \E n \in 1 .. ChunkEnd(0) : Opens(n)
  /\ completed' = completed + 1
  /\ errors' = errors + 1
  /\ flush_faults' = flush_faults + 1

\* Mutated: a failed open is not noted as progress.
OpenRequestFails_Silent ==
  /\ Faults /\ Fill
  /\ sent' = sent + 1 /\ completed' = completed + 1 /\ errors' = errors + 1
  /\ UNCHANGED <<cpc, successes, rejected, reset_count, requests, events, wire,
                 progress, outcome, flush_faults>>

\* stream_send failed: the request counts as sent and failed, its stream id
\* is used again.
OpenRequestFails ==
  /\ Faults /\ Fill
  /\ sent' = sent + 1 /\ completed' = completed + 1 /\ errors' = errors + 1
  /\ progress' = TRUE
  /\ UNCHANGED <<cpc, successes, rejected, reset_count, requests, events, wire,
                 outcome, flush_faults>>

\* The window is full, or quiche has no room (Done, StreamLimit).
FillEnds ==
  /\ cpc = "fill"
  /\ cpc' = "flush"
  /\ UNCHANGED <<tallies, requests, events, progress, wire, outcome, flush_faults>>

-----------------------------------------------------------------------------
(***************************************************************************)
(* RawQuicClient::drive                                                    *)
(***************************************************************************)
Event(s, result) == [stream |-> s, outcome |-> result]

\* The completions of requests whose write failed; mutated: none.
Failed_Silent(failing) == {}
Failed(failing) == {Event(s, "Error") : s \in failing}

\* flush_pending_requests: one more chunk of every body that is not stopped;
\* a peer's STOP_SENDING ends the sending, any other error the request.
FlushPending(failing) ==
  LET open == {s \in pending \ stopped_sending : written[s] < scenario.payload_size}
      halted == open \cap got.stop
  IN /\ failing \subseteq open \ halted
     /\ stopped_sending' = stopped_sending \cup halted
     /\ written' \in [Streams -> 0 .. scenario.payload_size]
     /\ \A s \in Streams :
          IF s \in open \ (halted \cup failing)
          THEN written'[s] \in written[s] .. ChunkEnd(written[s])
          ELSE written'[s] = written[s]
     /\ pending' = pending \ failing
     /\ events' = events \cup Failed(failing)
     /\ UNCHANGED <<next_stream_id, read>>

FlushPendingRequests ==
  /\ cpc \in {"flush", "flush2"}
  /\ cpc' = IF cpc = "flush" THEN "poll" ELSE "tally"
  /\ \E failing \in SUBSET pending :
       (Faults \/ failing = {}) /\ FlushPending(failing)
  /\ UNCHANGED <<tallies, progress, wire, outcome, flush_faults>>

\* What may have been received of what the server has flushed so far.
Received ==
  {g \in [resp : [Streams -> 0 .. RespLen], stop : SUBSET flushed.stop,
          reset : SUBSET flushed.reset] :
     /\ got.stop \subseteq g.stop /\ got.reset \subseteq g.reset
     /\ \A s \in Streams : g.resp[s] \in got.resp[s] .. flushed.reply[s].len}

\* poll returned, with datagrams (recv_quiche) or at the timeout.
Poll ==
  /\ cpc = "poll" /\ conn_open
  /\ got' \in Received
  /\ cpc' = "read"
  /\ UNCHANGED <<tallies, requests, events, progress, conn_open, outcome, flush_faults>>

\* After five seconds without a packet on_timeout closes the connection; the
\* server, as long as it lives, does not stay silent for that long.
PollIdleClose ==
  /\ cpc = "poll" /\ conn_open /\ spc = "dead"
  /\ conn_open' = FALSE
  /\ cpc' = "read"
  /\ UNCHANGED <<tallies, requests, events, progress, got, outcome, flush_faults>>

\* The response of s: complete and readable.  Mutated: the text is ignored.
classify_raw_response_AnyText(s) == "Success"
classify_raw_response(s) ==
  IF reply[s].data = "200" THEN "Success" ELSE "AppRejected"

\* read_responses: every readable stream is read to its end; a reset or a FIN
\* completes the request.
ReadResponses ==
  /\ cpc = "read"
  /\ cpc' = "flush2"
  /\ LET resets == pending \cap got.reset
         ended == {s \in pending \ resets : got.resp[s] = RespLen}
     IN /\ read' = [s \in Streams |-> IF s \in pending \ resets THEN got.resp[s]
                                      ELSE read[s]]
        /\ pending' = pending \ (resets \cup ended)
        /\ events' = events \cup {Event(s, "Reset") : s \in resets}
                            \cup {Event(s, classify_raw_response(s)) : s \in ended}
  /\ UNCHANGED <<tallies, next_stream_id, written, stopped_sending, progress,
                 wire, outcome, flush_faults>>

\* `?` on flush_quiche, poll, recv_quiche or read_responses: drive returns an
\* Err and run_overload_scenario with it, without storing shutdown.
DriveFails ==
  /\ Faults /\ cpc \in {"flush", "poll", "read", "flush2"}
  /\ cpc' = "failed"
  /\ UNCHANGED <<tallies, requests, events, progress, wire, outcome, flush_faults>>

-----------------------------------------------------------------------------
(***************************************************************************)
(* The rest of the iteration, and the end of the scenario.                 *)
(***************************************************************************)
\* How many events have the outcome.
Count(result) == Cardinality({e \in events : e.outcome = result})

\* The loop ends by its condition or by the early break, which is taken only
\* when the last opens failed and the condition would end it next.  Mutated: everything sent is taken for everything completed.
Over_WhenSent(now) == sent >= scenario.total_requests
Over(now) ==
  \/ now >= scenario.total_requests
  \/ events = {} /\ pending = {} /\ sent >= scenario.total_requests

\* The for-loop over the events; timed_out is the 30 second watchdog, which
\* needs an iteration without progress.
Tally(timed_out) ==
  LET now == completed + Cardinality(events) IN
  /\ cpc = "tally"
  /\ completed' = now
  /\ successes' = successes + Count("Success")
  /\ rejected' = rejected + Count("AppRejected")
  /\ reset_count' = reset_count + Count("Reset")
  /\ errors' = errors + Count("Error")
                 + (IF timed_out THEN scenario.total_requests - now ELSE 0)
  /\ outcome' = [s \in Streams |->
                   IF \E e \in events : e.stream = s
                   THEN (CHOOSE e \in events : e.stream = s).outcome
                   ELSE outcome[s]]
  /\ events' = {}
  /\ progress' = FALSE
  /\ cpc' = IF timed_out \/ Over(now) THEN "stop" ELSE "fill"
  /\ UNCHANGED <<sent, requests, wire, flush_faults>>

TallyEvents == Tally(FALSE)

Watchdog == Faults /\ events = {} /\ ~progress /\ Tally(TRUE)

ClientStep ==
  /\ \/ Connected \/ ConnectFails
     \/ OpenRequest \/ OpenRequestFlushFails \/ OpenRequestFails \/ FillEnds
     \/ FlushPendingRequests \/ Poll \/ PollIdleClose \/ ReadResponses
     \/ DriveFails \/ TallyEvents \/ Watchdog
  /\ UNCHANGED serverVars

\* shutdown.store(true), seen by the server at the top of its loop.
StopServer ==
  /\ cpc = "stop" /\ RequestShutdown
  /\ cpc' = "join"
  /\ UNCHANGED <<tallies, requests, events, progress, wire, outcome, flush_faults>>

\* server.handle.join() returned; the statistics are read after it.
Join ==
  /\ cpc = "join" /\ spc = "dead"
  /\ cpc' = "done"
  /\ UNCHANGED <<serverVars, tallies, requests, events, progress, wire, outcome,
                 flush_faults>>

\* The scenario is over, or the client thread waits in a poll that has
\* neither a datagram nor a timeout to wake it.
Halted ==
  /\ spc = "dead"
  /\ cpc \in {"done", "failed"} \/ (cpc = "poll" /\ ~conn_open)
  /\ UNCHANGED overloadVars

OverloadInit == ServerInit /\ ClientInit
OverloadNext == ServerStep \/ ClientStep \/ StopServer \/ Join \/ Halted
OverloadSafety == OverloadInit /\ [][OverloadNext]_overloadVars

(***************************************************************************)
(* Fairness.  Both threads are scheduled and, without faults, nothing they *)
(* call blocks forever.  quiche retransmits until what was flushed has     *)
(* arrived (SF on receiving something new, on either side) and makes room  *)
(* again for what is to be sent (SF on opening and on writing more).       *)
(***************************************************************************)
Unheard ==
  ~has_client \/ \E s \in Streams \ read_shut : arrived[s] < written[s]

DatagramWaits == PollReadable /\ Unheard
ServerHears == ServerReceives /\ (~has_client \/ arrived' # arrived)
ClientHears == Poll /\ got' # got
ChunksGoOut == FlushPendingRequests /\ written' # written

OverloadFairness ==
  /\ ServerFairness
  /\ WF_overloadVars(ClientStep \/ StopServer \/ Join)
  /\ SF_serverVars(DatagramWaits)
  /\ SF_serverVars(ServerHears)
  /\ SF_clientVars(OpenRequest)
  /\ SF_clientVars(ClientHears)
  /\ SF_clientVars(ChunksGoOut)

OverloadSpec == OverloadSafety /\ OverloadFairness

-----------------------------------------------------------------------------
(***************************************************************************)
(* Properties.                                                             *)
(***************************************************************************)
Outcomes == {"Success", "AppRejected", "Reset", "Error"}

\* Every variable of the client thread has its type.
ClientTypeOK ==
  /\ cpc \in {"connect", "fill", "flush", "poll", "read", "flush2", "tally",
              "stop", "join", "done", "failed"}
  /\ next_stream_id \in Nat
  /\ pending \subseteq Streams /\ stopped_sending \subseteq Streams
  /\ written \in [Streams -> 0 .. scenario.payload_size]
  /\ read \in [Streams -> 0 .. RespLen]
  /\ events \subseteq [stream : Streams, outcome : Outcomes]
  /\ {sent, completed, successes, rejected, reset_count, flush_faults} \subseteq Nat
  /\ errors \in Int
  /\ progress \in BOOLEAN /\ conn_open \in BOOLEAN
  /\ got \in [resp : [Streams -> 0 .. RespLen], stop : SUBSET Streams,
              reset : SUBSET Streams]
  /\ outcome \in [Streams -> Outcomes \cup {"none"}]

Tallied == successes + rejected + reset_count + errors

\* No request is lost or counted twice: at every moment those completed,
\* still pending and just collected are those sent, except that a request
\* whose flush failed is counted as completed while it stays pending
\* (overload.rs:243, 786).
Conservation ==
  completed + Cardinality(pending) + Cardinality(events) = sent + flush_faults

\* Up to the watchdog the four tallies add up to completed; at the end
\* without faults they add up to the requests asked for, none an error.
TalliesAddUp ==
  /\ cpc \notin {"stop", "join", "done", "failed"} => Tallied = completed
  /\ ~Faults /\ cpc = "done" => Tallied = scenario.total_requests /\ errors = 0

\* The client's counters account for every request (overload.rs:243, 786).
Accounted == Conservation /\ TalliesAddUp

\* When the watchdog may fire, usize subtraction total_requests - completed
\* cannot underflow: an iteration that pushed completed past the total made
\* progress (overload.rs:270, 274).
WatchdogNeverUnderflows ==
  cpc = "tally" /\ events = {} /\ ~progress => completed <= scenario.total_requests

\* What the client counted for a stream is what the server decided for it,
\* in the form the mode gives a refusal; no frame order makes a 503 look like
\* a reset or a refused request like a served one (overload.rs:892, 936).
OutcomeMatchesVerdict ==
  \A s \in Streams :
    /\ outcome[s] = "Success" => verdict[s] = "accept" /\ reply[s].data = "200"
    /\ outcome[s] = "AppRejected" => verdict[s] = "reject" /\ scenario.mode = "App503"
    /\ outcome[s] = "Reset" => verdict[s] = "reject" /\ scenario.mode = "Reset"

\* Both sides of the report agree when the threads are joined: every success,
\* 503 and reset of the client is one of the server's, and the bytes the
\* server read are the full bodies of the accepted requests and nothing else,
\* so they depend on how many were accepted, not on the mode
\* (overload.rs:277-300, 1094).
ReportsAgree ==
  ~Faults /\ cpc = "done" =>
    /\ successes = stats.successful_requests
    /\ rejected = stats.app_rejections
    /\ reset_count = stats.reset_rejections
    /\ stats.accepted_requests = successes
    /\ stats.bytes_read = scenario.payload_size * successes

\* In percentage mode the reported refusals are the quota of the whole run,
\* however the requests overlapped (overload.rs:486).
ReportedShareExact ==
  ~Faults /\ cpc = "done" /\ scenario.reject_percent > 0 =>
    rejected + reset_count = Quota(scenario.total_requests, scenario.reject_percent)

\* The client never gives up a request the server is still serving, so the
\* load of the server is bounded by the client's concurrency and a threshold
\* that concurrency does not exceed refuses nobody (overload.rs:235, 489).
ServedArePending ==
  ~Faults =>
    /\ streams \subseteq pending
    /\ scenario.reject_percent = 0 /\ scenario.concurrency <= scenario.threshold
         => Rejected = {}

\* The two threads never disagree, neither request by request nor in the
\* numbers they report: the conjunction of the above (overload.rs:277, 892).
SidesAgree ==
  OutcomeMatchesVerdict /\ ReportsAgree /\ ReportedShareExact /\ ServedArePending

\* Every run without faults ends: all requests complete, the server sees the
\* flag, the join returns.
Terminates == <>(cpc = "done")

-----------------------------------------------------------------------------
(***************************************************************************)
(* The run keeps the promise.                                              *)
(***************************************************************************)
eventOf(s) == {e \in events : e.stream = s}

phaseOf(s) ==
  IF s >= next_stream_id THEN "idle"
  ELSE IF s \notin pending THEN "closed"
  ELSE IF verdict[s] = "none" THEN "open"
  ELSE IF verdict[s] = "reject" THEN "refused"
  ELSE IF s \in streams THEN "serving" ELSE "answered"

resultOf(s) ==
  IF eventOf(s) = {} THEN outcome[s] ELSE (CHOOSE e \in eventOf(s) : TRUE).outcome

Promise ==
  INSTANCE OverloadPromise WITH
    phase <- [s \in Streams |-> phaseOf(s)],
    result <- [s \in Streams |-> resultOf(s)],
    stopped <- cpc \in {"stop", "join", "done"}

\* Seen from outside, a run without faults is a run of OverloadPromise: one
\* judgement per request, by the policy's order or load, and the outcome that
\* belongs to it.
KeepsPromise == Promise!Spec
=============================================================================
