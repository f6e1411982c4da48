----------------------------- MODULE H2Scenario -----------------------------
(***************************************************************************)
(* One measured HTTP/2 scenario, src/src/h2.rs: the task that runs         *)
(* run_h2_scenario, one task per user, the task that drives the client's   *)
(* connection, the server's accept task, and the task that serves the      *)
(* accepted connection.  tokio runs them on two threads, so that any of    *)
(* them may make the next step between two awaits.                         *)
(*                                                                         *)
(* A request is where it is on its way: in the client's connection         *)
(* ("sent"), a future in active ("active"), on the way back ("answered").  *)
(* h2 and TLS are external: a connection delivers in order or fails.       *)
(***************************************************************************)
EXTENDS Integers, FiniteSets

CONSTANTS
  Users, MessagesPerUser,   \* Scenario.users, Scenario.messages_per_user
  WarmUps                   \* requests before the measurement

ASSUME CountsAssumption ==
  Users \in Nat \ {0} /\ MessagesPerUser \in Nat \ {0} /\ WarmUps \in Nat

UserIds == 0 .. (Users - 1)
Total == Users * MessagesPerUser
Main == Users          \* the main task, as the sender of warm-up requests
Senders == 0 .. Users

VARIABLES
  mpc,            \* the main task: connect, warm, join, abort, stop, done, failed
  warm,           \* warm-up requests to go
  joined,         \* user tasks awaited
  latencies, errors,
  upc,            \* a user task: none, send, wait, ended
  i,              \* its loop index
  user_latencies, user_errors,
  conn_task,      \* none, running, aborted, ended
  accept_task,    \* running, aborted, ended
  serve_task,     \* none, running, draining, ended
  request         \* per sender: none, sent, active, answered

main == <<mpc, warm, joined, latencies, errors>>
users == <<upc, i, user_latencies, user_errors>>
tasks == <<conn_task, accept_task, serve_task>>
h2Vars == <<main, users, tasks, request>>

Init ==
  /\ mpc = "connect" /\ warm = WarmUps /\ joined = 0 /\ latencies = 0 /\ errors = 0
  /\ upc = [u \in UserIds |-> "none"] /\ i = [u \in UserIds |-> 0]
  /\ user_latencies = [u \in UserIds |-> 0] /\ user_errors = [u \in UserIds |-> 0]
  /\ conn_task = "none" /\ accept_task = "running" /\ serve_task = "none"
  /\ request = [s \in Senders |-> "none"]

Moves(s, from, to) == request[s] = from /\ request' = [request EXCEPT ![s] = to]

-----------------------------------------------------------------------------
(***************************************************************************)
(* The server's tasks.                                                     *)
(***************************************************************************)
\* The accept loop; the task it spawns has no handle.
Accept ==
  /\ accept_task = "running" /\ mpc = "connect" /\ serve_task = "none"
  /\ serve_task' = "running"
  /\ UNCHANGED <<main, users, conn_task, accept_task, request>>

\* connection.accept() yields a request, and active takes its future.
ServeAccepts(s) ==
  /\ serve_task = "running" /\ Moves(s, "sent", "active")
  /\ UNCHANGED <<main, users, tasks>>

\* handle_h2_request read the body to its end and sent the 204.
ServeResponds(s) ==
  /\ serve_task \in {"running", "draining"} /\ Moves(s, "active", "answered")
  /\ UNCHANGED <<main, users, tasks>>

\* The client's end is gone: accept() is None and what is active is awaited,
\* or it is an Err, which drops it.
ServeEnds ==
  /\ serve_task = "running" /\ conn_task = "ended"
  /\ serve_task' \in {"draining", "ended"}
  /\ UNCHANGED <<main, users, conn_task, accept_task, request>>

ServeDrained ==
  /\ serve_task = "draining" /\ \A s \in Senders : request[s] # "active"
  /\ serve_task' = "ended"
  /\ UNCHANGED <<main, users, conn_task, accept_task, request>>

\* An aborted task ends at its next await; dropping the connection future
\* closes the socket.
AbortedEnd ==
  \/ /\ conn_task = "aborted" /\ conn_task' = "ended"
     /\ UNCHANGED <<main, users, accept_task, serve_task, request>>
  \/ /\ accept_task = "aborted" /\ accept_task' = "ended"
     /\ UNCHANGED <<main, users, conn_task, serve_task, request>>

\* The connection fails under the scenario.
ConnectionFails ==
  /\ conn_task = "running"
  /\ conn_task' = "ended"
  /\ UNCHANGED <<main, users, accept_task, serve_task, request>>

-----------------------------------------------------------------------------
(***************************************************************************)
(* A user task: its for-loop and h2_post.                                  *)
(***************************************************************************)
Post(u) ==
  /\ upc[u] = "send" /\ conn_task = "running"
  /\ Moves(u, "none", "sent")
  /\ upc' = [upc EXCEPT ![u] = "wait"]
  /\ UNCHANGED <<main, i, user_latencies, user_errors, tasks>>

\* An answer that arrived before the connection ended may still be read.
Response(u) ==
  /\ upc[u] = "wait"
  /\ Moves(u, "answered", "none")
  /\ i' = [i EXCEPT ![u] = @ + 1]
  /\ user_latencies' = [user_latencies EXCEPT ![u] = @ + 1]
  /\ upc' = [upc EXCEPT ![u] = IF i'[u] = MessagesPerUser THEN "ended" ELSE "send"]
  /\ UNCHANGED <<main, user_errors, tasks>>

\* per_user - i; mutated: without the request that failed, and one too many.
Remaining_Others(u) == MessagesPerUser - i[u] - 1
Remaining_OneMore(u) == MessagesPerUser - i[u] + 1
Remaining(u) == MessagesPerUser - i[u]

\* h2_post returned Err: this request and all the remaining ones are errors,
\* and this one has a latency all the same.
PostFails(u) ==
  /\ upc[u] \in {"send", "wait"}
  /\ user_errors' = [user_errors EXCEPT ![u] = @ + Remaining(u)]
  /\ user_latencies' = [user_latencies EXCEPT ![u] = @ + 1]
  /\ upc' = [upc EXCEPT ![u] = "ended"]
  /\ request' = [request EXCEPT ![u] = "none"]
  /\ UNCHANGED <<main, i, tasks>>

-----------------------------------------------------------------------------
(***************************************************************************)
(* The main task.                                                          *)
(***************************************************************************)
\* The TLS handshake needs the server's task; then the connection is driven
\* by a task of its own.
Connect ==
  /\ mpc = "connect" /\ serve_task = "running"
  /\ mpc' = "warm" /\ conn_task' = "running"
  /\ UNCHANGED <<warm, joined, latencies, errors, users, accept_task, serve_task,
                 request>>

WarmUp ==
  /\ mpc = "warm" /\ conn_task = "running" /\ warm > 0
  /\ \/ Moves(Main, "none", "sent") /\ UNCHANGED warm
     \/ Moves(Main, "answered", "none") /\ warm' = warm - 1
  /\ UNCHANGED <<mpc, joined, latencies, errors, users, tasks>>

Spawn ==
  /\ mpc = "warm" /\ warm = 0
  /\ mpc' = "join"
  /\ upc' = [u \in UserIds |-> "send"]
  /\ UNCHANGED <<warm, joined, latencies, errors, i, user_latencies, user_errors,
                 tasks, request>>

\* `?` in connect or warm-up; the server's tasks go on.
MainFails ==
  /\ mpc \in {"connect", "warm"}
  /\ mpc' = "failed"
  /\ UNCHANGED <<warm, joined, latencies, errors, users, tasks, request>>

\* handle.await, in the order of the users.
JoinUser ==
  /\ mpc = "join" /\ joined < Users /\ upc[joined] = "ended"
  /\ joined' = joined + 1
  /\ latencies' = latencies + user_latencies[joined]
  /\ errors' = errors + user_errors[joined]
  /\ UNCHANGED <<mpc, warm, users, tasks, request>>

\* Mutated: the last user task is not awaited.
AbortConnection_Early ==
  /\ mpc = "join" /\ joined >= Users - 1
  /\ mpc' = "abort"
  /\ conn_task' = IF conn_task = "ended" THEN "ended" ELSE "aborted"
  /\ UNCHANGED <<warm, joined, latencies, errors, users, accept_task, serve_task,
                 request>>

AbortConnection ==
  /\ mpc = "join" /\ joined = Users
  /\ mpc' = "abort"
  /\ conn_task' = IF conn_task = "ended" THEN "ended" ELSE "aborted"
  /\ UNCHANGED <<warm, joined, latencies, errors, users, accept_task, serve_task,
                 request>>

\* conn_task.await, then server.task.abort(); mutated: the abort is missing.
AbortServer_Waits ==
  /\ mpc = "abort" /\ conn_task = "ended"
  /\ mpc' = "stop"
  /\ UNCHANGED <<warm, joined, latencies, errors, users, tasks, request>>
AbortServer ==
  /\ mpc = "abort" /\ conn_task = "ended"
  /\ mpc' = "stop" /\ accept_task' = "aborted"
  /\ UNCHANGED <<warm, joined, latencies, errors, users, conn_task, serve_task,
                 request>>

Finish ==
  /\ mpc = "stop" /\ accept_task = "ended"
  /\ mpc' = "done"
  /\ UNCHANGED <<warm, joined, latencies, errors, users, tasks, request>>

Ended ==
  /\ mpc \in {"done", "failed"}
  /\ UNCHANGED h2Vars

MainStep == Connect \/ WarmUp \/ Spawn \/ JoinUser \/ AbortConnection \/ AbortServer \/ Finish
ServeStep ==
  ServeEnds \/ ServeDrained \/ \E s \in Senders : ServeAccepts(s) \/ ServeResponds(s)
UserStep(u) == Post(u) \/ Response(u)

Next ==
  \/ MainStep \/ Accept \/ ServeStep \/ AbortedEnd
  \/ \E u \in UserIds : UserStep(u) \/ PostFails(u)
  \/ ConnectionFails \/ MainFails \/ Ended

Safety == Init /\ [][Next]_h2Vars

\* tokio polls every task that can go on, and h2 fails every request, also
\* the waiting ones, whose connection is gone.
Spec ==
  /\ Safety
  /\ WF_h2Vars(MainStep) /\ WF_h2Vars(Accept) /\ WF_h2Vars(ServeStep)
  /\ WF_h2Vars(AbortedEnd)
  /\ WF_h2Vars(MainFails /\ conn_task = "ended")
  /\ \A u \in UserIds : WF_h2Vars(UserStep(u) \/ (PostFails(u) /\ conn_task = "ended"))

-----------------------------------------------------------------------------
(***************************************************************************)
(* Properties.                                                             *)
(***************************************************************************)
\* Every variable has its type.
TypeOK ==
  /\ mpc \in {"connect", "warm", "join", "abort", "stop", "done", "failed"}
  /\ warm \in 0 .. WarmUps /\ joined \in 0 .. Users
  /\ latencies \in Nat /\ errors \in Nat
  /\ upc \in [UserIds -> {"none", "send", "wait", "ended"}]
  /\ i \in [UserIds -> 0 .. MessagesPerUser]
  /\ user_latencies \in [UserIds -> Nat]
  /\ user_errors \in [UserIds -> 0 .. MessagesPerUser]
  /\ conn_task \in {"none", "running", "aborted", "ended"}
  /\ accept_task \in {"running", "aborted", "ended"}
  /\ serve_task \in {"none", "running", "draining", "ended"}
  /\ request \in [Senders -> {"none", "sent", "active", "answered"}]

GaveUp == {u \in UserIds : user_errors[u] > 0}

\* The messages that got no answer, by number.
Unanswered == {m \in UserIds \X (0 .. (MessagesPerUser - 1)) : m[2] >= i[m[1]]}

\* The report accounts for every request of every user: it has a latency or
\* is an error, and the one at which a user gave up is both (h2.rs:33, 40).
ErrorsCounted ==
  mpc \in {"abort", "stop", "done"} =>
    /\ latencies + errors = Total + Cardinality(GaveUp)
    /\ errors = Cardinality(Unanswered)

\* A report without errors is complete whatever failed on the way: every
\* request of every user was answered and the server has nothing left of this
\* scenario, so the abort of the connection cannot cut off a request
\* (h2.rs:53, 61, 167).
NothingLeft ==
  mpc \in {"abort", "stop", "done"} /\ errors = 0 =>
    latencies = Total /\ \A s \in Senders : request[s] = "none"

\* The report says what became of every request: the conjunction of the two
\* (h2.rs:33, 53).
AllAccounted == ErrorsCounted /\ NothingLeft

\* The tasks of a scenario are aborted and awaited when it returns, as the
\* test report says (reports/TRANSPORT_RUST_QUICHE_TEST_REPORT.md:21, 179).
TasksAwaited ==
  mpc = "done" => {conn_task, accept_task, serve_task} = {"ended"}

\* Every run ends, whatever fails: it returns an error before the measurement
\* or a report, and then the task nobody awaits ends too (h2.rs:39, 127, 158).
Terminates == <>(mpc = "failed" \/ (mpc = "done" /\ serve_task = "ended"))

Loop ==
  INSTANCE ClosedLoop WITH
    answered <- i,
    waiting <- {u \in UserIds : request[u] # "none"},
    gone <- GaveUp,
    over <- mpc \in {"abort", "stop", "done"}

\* Seen from outside, a run is a run of ClosedLoop, the workload HTTP/3 has
\* as well, and a failure ends one user's requests only (h2.rs:26-48).
KeepsClosedLoop == Loop!Spec
=============================================================================
