----------------------------- MODULE H3Exchange -----------------------------
(***************************************************************************)
(* One measured HTTP/3 scenario, src/src/h3.rs: the thread that runs       *)
(* run_h3_scenario with its H3Client, and the thread of H3Server, over a   *)
(* QUIC connection that delivers each stream's bytes in order and every    *)
(* stream at its own pace (a lost datagram is a late one).                 *)
(*                                                                         *)
(* Streams are numbered in the order they are opened.  A body is BodyLen   *)
(* units, the last one with FIN; a response is its HEADERS frame with FIN, *)
(* one unit, always 204.  cpc and spc are the threads' places in the code; *)
(* what a thread does between two calls that wait or share is one action.  *)
(***************************************************************************)
EXTENDS Integers, FiniteSets

CONSTANTS
  Users,            \* Scenario.users
  MessagesPerUser,  \* Scenario.messages_per_user
  WarmUps,          \* requests sent before the measurement
  BodyLen,          \* units of a request body
  Faults            \* whether calls may fail with an Err the code propagates

ASSUME CountsAssumption ==
  Users \in Nat \ {0} /\ MessagesPerUser \in Nat \ {0} /\ WarmUps \in Nat
ASSUME BodyLenAssumption == BodyLen \in Nat \ {0}
ASSUME FaultsAssumption == Faults \in BOOLEAN

UserIds == 0 .. (Users - 1)
Total == Users * MessagesPerUser
Streams == 0 .. (WarmUps + Total - 1)

VARIABLES
  \* run_h3_scenario
  cpc,
  warm,               \* warm-up requests to go
  measuring,          \* the warm-up is over
  user,               \* where the for-loop over the users is
  user_next, user_inflight, completed, latencies, errors,
  progress,           \* last_progress was set in this iteration
  \* H3Client
  opened,             \* streams opened so far
  starts,             \* keys of starts, and of stream_users
  stream_users,
  pending_bodies,
  written,            \* body units quiche has taken
  events,             \* the completions drive returns
  conn_open,
  got,                \* streams whose response has been received
  \* H3Server
  shutdown,
  spc,
  has_client,
  arrived,            \* body units received
  finished, pending_responses,
  responded,          \* streams whose response quiche has taken
  flushed             \* ... and sent

tally == <<user_next, user_inflight, completed, latencies, errors, progress>>
registers == <<opened, starts, stream_users, pending_bodies, written>>
clientVars == <<cpc, warm, measuring, user, tally, registers, events, conn_open, got>>
serverVars == <<spc, has_client, arrived, finished, pending_responses, responded,
                flushed>>
h3Vars == <<clientVars, serverVars, shutdown>>

Init ==
  /\ cpc = "connect" /\ warm = WarmUps /\ measuring = FALSE /\ user = 0
  /\ user_next = [u \in UserIds |-> 0] /\ user_inflight = {}
  /\ completed = 0 /\ latencies = 0 /\ errors = 0 /\ progress = FALSE
  /\ opened = 0 /\ starts = {} /\ stream_users = [s \in Streams |-> 0]
  /\ pending_bodies = {} /\ written = [s \in Streams |-> 0]
  /\ events = {} /\ conn_open = TRUE /\ got = {}
  /\ shutdown = FALSE /\ spc = "top" /\ has_client = FALSE
  /\ arrived = [s \in Streams |-> 0]
  /\ finished = {} /\ pending_responses = {} /\ responded = {} /\ flushed = {}

-----------------------------------------------------------------------------
(***************************************************************************)
(* The server thread: run_h3_server_loop.                                  *)
(***************************************************************************)
\* Mutated: a response that was blocked is not remembered.
Answer_Forgets(done, blocked, retried) ==
  /\ finished' = finished \cup done
  /\ pending_responses' = pending_responses \ retried
  /\ responded' = responded \cup retried \cup (done \ blocked)

\* Responses go to the streams that finished, and to those among the pending
\* ones that are writable and not blocked again.
Answer(done, blocked, retried) ==
  /\ finished' = finished \cup done
  /\ pending_responses' = (pending_responses \ retried) \cup blocked
  /\ responded' = responded \cup retried \cup (done \ blocked)

\* h3.poll reports Finished for the streams whose FIN has arrived.
handle_h3_server_events ==
  LET done == {s \in Streams : arrived'[s] = BodyLen} \ finished IN
  \E blocked \in SUBSET done : \E retried \in SUBSET pending_responses :
    Answer(done, blocked, retried)

\* The end of an iteration: one more call of the handler, and the flush.
EndIteration ==
  /\ spc' = "top"
  /\ IF has_client THEN handle_h3_server_events /\ flushed' = responded'
     ELSE UNCHANGED <<finished, pending_responses, responded, flushed>>

LoopTop ==
  /\ spc = "top"
  /\ spc' = IF shutdown THEN "dead" ELSE "poll"
  /\ UNCHANGED <<has_client, arrived, finished, pending_responses, responded, flushed>>

\* No event within conn.timeout(), which is never more than the idle timeout.
PollTimeout == spc = "poll" /\ UNCHANGED <<has_client, arrived>> /\ EndIteration

PollReadable ==
  /\ spc = "poll"
  /\ spc' = "recv"
  /\ UNCHANGED <<has_client, arrived, finished, pending_responses, responded, flushed>>

\* The first datagram creates the connection, later ones carry body units.
RecvDatagram ==
  /\ spc = "recv"
  /\ has_client' = TRUE
  /\ arrived' \in [Streams -> 0 .. BodyLen]
  /\ \A s \in Streams : arrived'[s] \in arrived[s] .. written[s]
  /\ handle_h3_server_events
  /\ UNCHANGED <<spc, flushed>>

RecvWouldBlock == spc = "recv" /\ UNCHANGED <<has_client, arrived>> /\ EndIteration

\* `?` anywhere in the loop; H3Server::start_on discards the error.  What the
\* failing call had noted in the maps is dropped with the thread.
ServerFails ==
  /\ Faults /\ spc \in {"poll", "recv"}
  /\ spc' = "dead"
  /\ UNCHANGED <<has_client, arrived, finished, pending_responses, responded, flushed>>

ServerLoop ==
  LoopTop \/ PollTimeout \/ PollReadable \/ RecvDatagram \/ RecvWouldBlock

ServerStep == (ServerLoop \/ ServerFails) /\ UNCHANGED <<clientVars, shutdown>>

-----------------------------------------------------------------------------
(***************************************************************************)
(* H3Client                                                                *)
(***************************************************************************)
\* The inserts of send_request, once h3.send_request gave a stream id.
Register(u, n) ==
  /\ opened' = opened + 1
  /\ starts' = starts \cup {opened}
  /\ stream_users' = [stream_users EXCEPT ![opened] = u]
  /\ written' = [written EXCEPT ![opened] = n]

\* Ok(true): send_body took n units, none when Done or StreamBlocked; a rest
\* is kept for flush_pending_bodies.
send_request(u) ==
  \E n \in 0 .. BodyLen :
    /\ Register(u, n)
    /\ pending_bodies' = IF n < BodyLen THEN pending_bodies \cup {opened}
                         ELSE pending_bodies

\* Err: before the inserts; after them, from send_body, so that the body is
\* never continued; or from flush_quiche, with the body in good order.
send_request_fails(u) ==
  \/ UNCHANGED registers
  \/ Register(u, 0) /\ UNCHANGED pending_bodies
  \/ send_request(u)

\* What flush_pending_bodies may leave in the map; mutated: everything.
Unwritten_All(bodies) == bodies
Unwritten(bodies) == {s \in bodies : written'[s] < BodyLen}

flush_pending_bodies(bodies) ==
  /\ written' \in [Streams -> 0 .. BodyLen]
  /\ \A s \in Streams :
       IF s \in bodies THEN written'[s] >= written[s] ELSE written'[s] = written[s]
  /\ pending_bodies' = Unwritten(bodies)

Connected ==
  /\ cpc = "connect" /\ has_client
  /\ cpc' = "fill"
  /\ UNCHANGED <<warm, measuring, user, tally, registers, events, conn_open, got>>

\* drive_with_max_timeout up to the poll.
Drive ==
  /\ cpc = "drive"
  /\ cpc' = "poll"
  /\ flush_pending_bodies(pending_bodies)
  /\ UNCHANGED <<warm, measuring, user, tally, opened, starts, stream_users, events,
                 conn_open, got>>

\* poll returned: what was received, the Finished events of streams still in
\* starts, and the second flush_pending_bodies.
Poll ==
  /\ cpc = "poll" /\ conn_open
  /\ \E responses \in SUBSET (flushed \ got) :
       /\ got' = got \cup responses
       /\ events' = responses \cap starts
       /\ starts' = starts \ responses
       /\ flush_pending_bodies(pending_bodies \ responses)
  /\ cpc' = "tally"
  /\ UNCHANGED <<warm, measuring, user, tally, opened, stream_users, conn_open>>

\* After five seconds of silence on_timeout closes the connection; a server
\* that lives does not stay silent.
PollIdleClose ==
  /\ cpc = "poll" /\ conn_open /\ spc = "dead"
  /\ conn_open' = FALSE
  /\ cpc' = "tally"
  /\ UNCHANGED <<warm, measuring, user, tally, registers, events, got>>

-----------------------------------------------------------------------------
(***************************************************************************)
(* run_h3_scenario                                                         *)
(***************************************************************************)
\* H3Client::request: send, driving while quiche has no room, then drive
\* until nothing is in flight.
WarmUp ==
  /\ cpc = "fill" /\ ~measuring /\ starts = {} /\ warm > 0
  /\ warm' = warm - 1 /\ cpc' = "drive"
  /\ send_request(0)
  /\ UNCHANGED <<measuring, user, tally, events, conn_open, got>>

WarmUpDrives ==
  /\ cpc = "fill" /\ ~measuring /\ (starts # {} \/ warm > 0)
  /\ cpc' = "drive"
  /\ UNCHANGED <<warm, measuring, user, tally, registers, events, conn_open, got>>

\* Mutated: the last warm-up request is not waited for.
WarmUpEnds_Early ==
  /\ cpc = "fill" /\ ~measuring /\ warm = 0
  /\ measuring' = TRUE
  /\ UNCHANGED <<cpc, warm, user, tally, registers, events, conn_open, got>>

WarmUpEnds ==
  /\ cpc = "fill" /\ ~measuring /\ warm = 0 /\ starts = {}
  /\ measuring' = TRUE
  /\ UNCHANGED <<cpc, warm, user, tally, registers, events, conn_open, got>>

\* The users the for-loop does not skip; mutated: those in flight as well.
Ready_Busy(from) == {u \in from .. (Users - 1) : user_next[u] < MessagesPerUser}
Ready(from) ==
  {u \in from .. (Users - 1) : u \notin user_inflight /\ user_next[u] < MessagesPerUser}

\* u is the next of them.
Fill(u) ==
  cpc = "fill" /\ measuring /\ u \in Ready(user) /\ \A v \in Ready(user) : u <= v

Sends(u) ==
  /\ Fill(u)
  /\ send_request(u)
  /\ user_inflight' = user_inflight \cup {u}
  /\ progress' = TRUE
  /\ user' = u + 1
  /\ UNCHANGED <<cpc, warm, measuring, user_next, completed, latencies, errors, events,
                 conn_open, got>>

Send == \E u \in UserIds : Sends(u)

\* The user is given up: all its remaining messages are errors.
GivesUp(u) ==
  LET remaining == MessagesPerUser - user_next[u] IN
  /\ Faults /\ Fill(u)
  /\ send_request_fails(u)
  /\ errors' = errors + remaining
  /\ completed' = completed + remaining
  /\ user_next' = [user_next EXCEPT ![u] = MessagesPerUser]
  /\ user' = u + 1
  /\ UNCHANGED <<cpc, warm, measuring, user_inflight, latencies, progress, events, conn_open,
                 got>>

SendFails == \E u \in UserIds : GivesUp(u)

\* Every user was visited, or quiche has no room (Ok(false), break).
FillEnds ==
  /\ cpc = "fill" /\ measuring
  /\ cpc' = "drive" /\ user' = 0
  /\ UNCHANGED <<warm, measuring, tally, registers, events, conn_open, got>>

\* The user part of the loop over the events; mutated: a user that was given
\* up is not counted on.
Advance_Capped(u) ==
  IF user_next[u] = MessagesPerUser THEN user_next[u]
  ELSE user_next[u] + Cardinality({s \in events : stream_users[s] = u})
Advance(u) == user_next[u] + Cardinality({s \in events : stream_users[s] = u})

\* The events of a warm-up drive are dropped; the others are counted.  All
\* are ok: the server answers 204 and nothing else.  Total - now may be
\* below zero: a release build wraps twice and ends with the same sum.
Tally(timed_out) ==
  LET now == completed + Cardinality(events) IN
  /\ cpc = "tally"
  /\ events' = {}
  /\ IF ~measuring THEN cpc' = "fill" /\ UNCHANGED tally
     ELSE /\ user_inflight' = user_inflight \ {stream_users[s] : s \in events}
          /\ user_next' = [u \in UserIds |-> Advance(u)]
          /\ completed' = now
          /\ latencies' = latencies + Cardinality(events)
          /\ errors' = errors + (IF timed_out THEN Total - now ELSE 0)
          /\ progress' = FALSE
          /\ cpc' = IF timed_out \/ now >= Total THEN "stop" ELSE "fill"
  /\ UNCHANGED <<warm, measuring, user, registers, conn_open, got>>

TallyEvents == Tally(FALSE)

\* Thirty seconds without progress.
Watchdog == Faults /\ measuring /\ events = {} /\ ~progress /\ Tally(TRUE)

\* An Err of connect, of a warm-up or of drive ends the scenario; nobody
\* tells the server.
ClientFails ==
  /\ Faults
  /\ cpc \in {"connect", "drive", "poll"} \/ (cpc = "fill" /\ ~measuring)
  /\ cpc' = "failed"
  /\ UNCHANGED <<warm, measuring, user, tally, registers, events, conn_open, got>>

ClientLoop ==
  \/ Connected \/ WarmUp \/ WarmUpDrives \/ WarmUpEnds \/ Send \/ FillEnds
  \/ Drive \/ Poll \/ PollIdleClose \/ TallyEvents

ClientStep ==
  (ClientLoop \/ SendFails \/ Watchdog \/ ClientFails) /\ UNCHANGED <<serverVars, shutdown>>

StopServer ==
  /\ cpc = "stop"
  /\ cpc' = "join" /\ shutdown' = TRUE
  /\ UNCHANGED <<warm, measuring, user, tally, registers, events, conn_open, got, serverVars>>

Join ==
  /\ cpc = "join" /\ spc = "dead"
  /\ cpc' = "done"
  /\ UNCHANGED <<warm, measuring, user, tally, registers, events, conn_open, got, serverVars,
                 shutdown>>

\* Over; or waiting in a poll that has no timeout, on a closed connection.
Halted ==
  /\ spc = "dead"
  /\ cpc \in {"done", "failed"} \/ (cpc = "poll" /\ ~conn_open)
  /\ UNCHANGED h3Vars

Next == ServerStep \/ ClientStep \/ StopServer \/ Join \/ Halted
Safety == Init /\ [][Next]_h3Vars

(***************************************************************************)
(* Both threads are scheduled; datagrams come and run out; acknowledgements *)
(* make room for bodies and responses again.                               *)
(***************************************************************************)
Unheard == ~has_client \/ arrived # written
ServerHears == RecvDatagram /\ (~has_client \/ arrived' # arrived)
ServerRetries == (PollTimeout \/ RecvWouldBlock) /\ responded' # responded

Fairness ==
  /\ WF_h3Vars(ServerLoop /\ UNCHANGED <<clientVars, shutdown>>)
  /\ WF_h3Vars(ClientStep \/ StopServer \/ Join)
  /\ SF_serverVars(PollReadable /\ Unheard)
  /\ SF_serverVars(ServerHears)
  /\ SF_serverVars(RecvWouldBlock)
  /\ SF_serverVars(ServerRetries)
  /\ SF_clientVars(WarmUp) /\ SF_clientVars(Send)
  /\ SF_clientVars(Poll /\ got' # got)
  /\ SF_clientVars(Drive /\ written' # written)

Spec == Safety /\ Fairness

-----------------------------------------------------------------------------
(***************************************************************************)
(* Properties.                                                             *)
(***************************************************************************)
\* Every variable has its type.
TypeOK ==
  /\ cpc \in {"connect", "fill", "drive", "poll", "tally", "stop", "join", "done",
              "failed"}
  /\ warm \in 0 .. WarmUps /\ measuring \in BOOLEAN /\ user \in 0 .. Users
  /\ user_next \in [UserIds -> Nat] /\ user_inflight \subseteq UserIds
  /\ completed \in Nat /\ latencies \in Nat /\ errors \in Int
  /\ progress \in BOOLEAN
  /\ opened \in 0 .. (WarmUps + Total)
  /\ starts \subseteq Streams /\ events \subseteq Streams
  /\ pending_bodies \subseteq Streams
  /\ stream_users \in [Streams -> UserIds]
  /\ written \in [Streams -> 0 .. BodyLen] /\ arrived \in [Streams -> 0 .. BodyLen]
  /\ conn_open \in BOOLEAN /\ shutdown \in BOOLEAN /\ has_client \in BOOLEAN
  /\ spc \in {"top", "poll", "recv", "dead"}
  /\ finished \subseteq Streams /\ pending_responses \subseteq Streams
  /\ responded \subseteq Streams /\ flushed \subseteq Streams /\ got \subseteq Streams

OwnedBy(u) == {s \in starts \cup events : stream_users[s] = u}

\* A user never has two requests outstanding, and user_inflight agrees with
\* the client's maps, which are kept apart from it: a user without the flag
\* that still has a request was given up and asks for nothing more
\* (h3.rs:23, 31, 47, 422).
OneOutstanding ==
  measuring =>
    \A u \in UserIds :
      /\ Cardinality(OwnedBy(u)) <= 1
      /\ u \in user_inflight => OwnedBy(u) # {}
      /\ OwnedBy(u) # {} /\ u \notin user_inflight => user_next[u] >= MessagesPerUser

\* The messages the users have behind them, by number.
Behind == {m \in UserIds \X (0 .. MessagesPerUser) : m[2] < user_next[m[1]]}

\* The three counts of the scenario agree: completed is what the users have
\* behind them, latencies and errors divide it until the watchdog fills up
\* the total, and a user is counted beyond its messages at most once, by the
\* answer to a request that was already given up as failed (h3.rs:38, 50, 59).
CountsAgree ==
  /\ completed = Cardinality(Behind)
  /\ \/ latencies + errors = completed
     \/ cpc \in {"stop", "join", "done"} /\ latencies + errors = Total
  /\ \A u \in UserIds : user_next[u] <= MessagesPerUser + 1
  /\ ~Faults => \A u \in UserIds : user_next[u] <= MessagesPerUser

\* pending_bodies holds the requests whose body is not yet all written, and
\* only such; without failures every one of them, so that backpressure is
\* retried and never strands a body (h3.rs:424, 515).
BodiesRemembered ==
  /\ \A s \in pending_bodies : s \in starts /\ written[s] < BodyLen
  /\ ~Faults => \A s \in starts : written[s] < BodyLen => s \in pending_bodies

\* The server answers a stream once, after its whole body, and remembers
\* each answer that was blocked (h3.rs:260, 281).
AnsweredOnce ==
  /\ finished = responded \cup pending_responses
  /\ responded \cap pending_responses = {}
  /\ \A s \in finished : arrived[s] = BodyLen
  /\ got \subseteq flushed /\ flushed \subseteq responded

\* Neither side forgets what the other waits for, nor repeats it: the
\* conjunction of the two (h3.rs:260, 424).
NothingForgotten == BodiesRemembered /\ AnsweredOnce

\* The report of a run without failures: every message of every user has its
\* latency, nothing is an error, neither backpressure nor a warm-up request
\* is in the numbers, and nothing is left behind (h3.rs:7, 21, 45).
ReportComplete ==
  ~Faults /\ cpc \in {"stop", "join", "done"} =>
    /\ \A u \in UserIds : user_next[u] = MessagesPerUser
    /\ latencies = Total /\ errors = 0
    /\ starts = {} /\ pending_bodies = {} /\ pending_responses = {}

\* Every run without failures ends, with the server joined.
Terminates == <>(cpc = "done")

Loop ==
  INSTANCE ClosedLoop WITH
    answered <- [u \in UserIds |-> IF measuring THEN Advance(u) ELSE 0],
    waiting <- IF measuring THEN {stream_users[s] : s \in starts} ELSE {},
    gone <- {},
    over <- cpc \in {"join", "done"}

\* Seen from outside, a run without failures is a run of ClosedLoop, the
\* workload the README states (h3.rs:21-62).
KeepsClosedLoop == Loop!Spec
=============================================================================
