# Verification of transportbench

transportbench (`src/`) measures HTTP/2, HTTP/3 and raw QUIC under load: every
command starts a server and a client, drives a fixed number of requests through
them, and reports counts, latencies and resources. The results are only worth
something if the accounting is right, whatever the order in which datagrams,
timeouts, refusals and failures arrive. This directory holds TLA+ models of that
machinery, TLC runs that check them on small instances, and TLAPS proofs that
carry the safety properties and the refinements to every instance.

Line numbers refer to the files under `src/src/`.

## 1. Inventory

### 1.1 Overload experiment (`overload.rs`)

| Component | State | Operations | Interacts with |
| --- | --- | --- | --- |
| Reject policy | none (pure) | `should_reject_by_percent` (572), `parse_percent` (87) | asked by the server for each new request |
| Raw QUIC server thread | `streams`, `reset_streams`, `pending_responses`, `processing_streams`, `in_flight`, `seen_requests`, `OverloadServerStats` | `run_raw_server_loop` (364), `handle_raw_server_events` (464), `finish_due_raw_server_streams` (583), `finish_raw_server_stream` (600), `send_raw_response` (626), `retry_raw_response` (657) | the client by QUIC streams; the scenario by the `shutdown` flag and the mutex around the statistics |
| Raw QUIC client | `pending`, `next_stream_id` | `connect` (731), `open_request` (781), `drive` (830), `flush_pending_requests` (846), `read_responses` (892), `classify_raw_response` (936) | the server by QUIC; returns completions to the scenario |
| Scenario loop | `sent`, `completed`, `successes`, `rejected`, `reset_streams`, `errors`, `last_progress` | `run_overload_scenario` (213) | owns the client, stops and joins the server, reads its statistics |
| Command, matrix, report | the configuration, the rows so far | `OverloadConfig::from_args`, `run_overload_cli` (166), `overload_comparisons` (1094), `overload_claim_supported` (1145), CSV and charts | calls the scenario for each cell, writes files |

Hard: two threads and a network that reorders frames of different streams; the
refusal of a stream whose body is still being written; partial writes in both
directions; the clock that ends the simulated processing; `?` on nearly every
call. Correct means: each request is judged exactly once and by the policy; the
load counter is the number of accepted requests; every request gets exactly the
outcome that belongs to its verdict; both sides of the report agree; the run ends.

### 1.2 HTTP/3 scenario (`h3.rs`)

State: the client's `starts`, `stream_users`, `pending_bodies`, the users' next
message and outstanding set; the server's responses and partial bodies.
Operations: `run_h3_scenario`, `send_request`, `drive_with_max_timeout`,
`flush_pending_bodies`, the server thread. Client and server meet through
quiche and UDP, the scenario joins the server thread at the end. Hard: a request
is registered before its body is accepted by quiche, so an error in between
leaves it registered; a stream reset is ignored; one `poll` has no bound once the
connection is closed. Correct means: at most one outstanding request per user,
messages of a user in order, every request completes once.

### 1.3 HTTP/2 scenario (`h2.rs`)

State: per user a task with its loop index and errors; a connection task; the
server's accept task and one detached task per connection. Operations:
`run_h2_scenario`, `h2_post`, `serve_h2_connection`, `H2Server::start_on` and its
stop. Hard: the task of a user ends at the first failure and adds the rest of
its requests to the errors; the tasks of accepted connections survive the
abort of the accept loop. Correct means: latencies and errors account for every
request of every user.

### 1.4 Commands, matrices and network emulation (`main.rs`, `cli.rs`, `netem_csv.rs`, and the head of each command's file)

State: the configuration, the loop variables and the rows of a process; beyond the
process the queueing discipline of the loopback interface and the files in the log
directory. Operations: `main` chooses the command, `from_args` of each command reads
the arguments in any order, nested loops measure one cell after the other, the
report is written at the end; `netem.apply` and `netem.clear` around the rounds of
`bench`. Hard: an `Err` or a kill leaves the impairment in place for whatever runs
next; `-netem` may follow the option it is needed for; rows live in memory until
the last one. Correct means: each cell is measured once, under the impairment its
row names, the transports of a load interleaved; the verdict of the overload
summary is the one its rows give.

### 1.5 Fixed-PPS senders (`rust_pps.rs`, `nginx_pps.rs`)

State: scheduled, sent, completed, errors and the time of the last progress.
Operations: the paced loops over both protocols, against the built-in server or
an external nginx; around them a server, a warm-up or a sampler, and their end. Hard: the watchdog subtracts completions from the schedule
after failed sends were counted already; the H2 loop has no watchdog. Correct means: no
request before its slot, never more than the window in flight, every scheduled
request in the row; the trial ends and leaves nothing running.

### 1.6 h2load runner and docker sampler (`h2load_rate.rs`)

State: a child process and its pipes, the log file it writes, the server of the
trial, the capabilities found in `h2load --help`; the sampler thread's flag and
samples. Operations: the sweep, `run_h2load_against_addr`, `parse_h2load_log`, the
sampler's loop and its join. Hard: the pipes are read after the child's end only;
the log is parsed whatever wrote it; the sampler runs beside the trial and may be in
the middle of a sample when it is told to stop. Correct means: a row counts its own
child's lines, an average takes in every sample, the trial ends.

### 1.7 Latency summary (`cli.rs`), tests and reports

`summarize_latencies` sorts and interpolates; no state. Correct means: each number
is the order statistic it is named for. `tests.rs` and the reports are
documentation of the intent.

## 2. Plan

The order of work, most important behaviour first; all but the last item is done.

1. **RejectPolicy, RawServer, Overload, OverloadPromise** with their runs, and
   **RejectPolicyProofs, RawServerProofs, OverloadProofs**.
2. **H3Exchange** and **H2Scenario**, the two transports of the benchmark,
   **ClosedLoop**, the workload that both implement, and **H3ExchangeProofs,
   H2ScenarioProofs**.
3. **PacedSender**, the paced loop with its watchdog, **PacedTrial** around it, from
   the server to the row, and **PacedTrialProofs** about both.
4. **LatencySummary** and RejectPolicy at work in **Algorithms**, with
   **AlgorithmsProofs**.
5. **CommandLine**, **RunMatrix**, **OverloadReport**, **H2LoadTrial**, and
   **CommandRun** which composes them, with **CommandRunProofs**.
6. Left: the figures of a row from docker and `/proc` (section 6).

## 3. Modules

| Module | Models | Extends |
| --- | --- | --- |
| `RejectPolicy` | `should_reject_by_percent` | |
| `RawServer` | the server thread | `RejectPolicy` |
| `Overload` | client, scenario loop, and their composition with the server | `RawServer` |
| `OverloadPromise` | what a scenario promises, seen from outside | `RejectPolicy` |
| `H3Exchange` | one HTTP/3 scenario: client, its loop, the server thread | |
| `H2Scenario` | one HTTP/2 scenario: the tasks on both sides | |
| `ClosedLoop` | the workload of both, seen from outside | |
| `PacedSender` | the loop of a fixed-PPS trial, over either transport | |
| `PacedTrial` | the trial around it: server, warm-up, sampler, shutdown | `PacedSender` |
| `LatencySummary` | `summarize_latencies`, `percentile` | |
| `Algorithms` | a policy that judges request after request, a scenario that records latencies | `RejectPolicy`, `LatencySummary` |
| `CommandLine` | the arguments of the five commands | |
| `RunMatrix` | their nested loops | |
| `OverloadReport` | the comparison of the two modes and its verdict | |
| `H2LoadTrial` | a trial of h2load-rate: server, child process, log file | |
| `CommandRun` | the processes of the five commands, one after the other, on one machine | the four above |
| `MC_Algorithms`, `MC_RawServer`, `MC_Overload`, `MC_H3Exchange`, `MC_H2Scenario`, `MC_PacedTrial`, `MC_CommandRun` | finite instances for TLC | |
| `RejectPolicyProofs`, `RawServerProofs`, `OverloadProofs`, `H3ExchangeProofs`, `H2ScenarioProofs`, `PacedTrialProofs`, `AlgorithmsProofs`, `CommandRunProofs` | theorems and proofs | |

### 3.1 RawServer

The thread is sequential, so its position is part of the state: `spc` is the place
in the code and `todo` what is left of the vector a `for` iterates over. Between
two iterations of such a loop the client thread can do something, but the
variables of the server cannot change; the interleaving therefore matters at the
flag, at the network and nowhere else, and the model has it there. One action is one
iteration, with everything it calls:

| Action | Code |
| --- | --- |
| `LoopTop`, `PollTimeout`, `PollReadable`, `RecvDatagram`, `RecvWouldBlock` | 384-459 |
| `RetryResponse`, `RetryDone` | 464-472, 657-676 |
| `FinishStream`, `FirstDueDone`, `SecondDueDone` | 583-655, 473, 568 |
| `RejectApp503`, `RejectReset`, `AcceptStream`, `ReadMore`, `ReadDone` | 477-568 |
| `LoopFails`, `HandleFails`, `FinishStreamFails`, `RejectApp503Fails`, `AcceptStreamFails` | every `?` of the thread; `start` discards the error (346-355). The last three leave the statistics as the failing call had them: counted before it failed |

What stands for data: bodies and responses are counted in units, a response text
is `"200"` or `"503"`, and the server's statistics leave out the durations. Time is a
choice: wherever the code looks at the clock, any subset of the streams being
processed may be due. quiche is external and modelled by what the code
relies on: each stream delivers its bytes in order, `readable` yields streams with
something to read, `stream_send` takes any part of what it is given, a shutdown of
the read side drains silently, and the connection sends what was queued at the
next `flush_quiche`.

`finish_raw_server_stream` has a branch that answers 503 when the stream is
`overloaded`; nothing sets that field to true, so the branch is not in the model.
The `continue` for streams that are reset or being processed (478-482) is a filter of
the vector when the loop starts (`Handled` in `FirstDueDone`): handling one stream
does not make another one handled. quiche does not yield such streams anyway, as
`Lifecycle` shows.

### 3.2 Overload

`cpc` is the client thread's position: the two loops of one iteration of
`run_overload_scenario` and the four parts of `drive`. `pending`, `written`,
`stopped_sending` are the fields of `RawQuicClient` and `RawPendingRequest`.
The server's actions are those of `RawServer`, except that it receives what
this client has written. The client receives any part of what the server has
flushed, each stream's bytes in order: a lost datagram is one delivered
late, since quiche retransmits. The iterations of `flush_pending_requests` and of
`read_responses` touch one stream each and meet no other thread's state, so each
loop is one action that treats its streams together.

The early `break` (253) is taken when everything is sent, nothing is pending and no
completion has come. With every request accounted for (`Accounted`) that is only when
`completed` has reached the total: without faults the loop has ended before, and when the
opens fail that were left to send, the loop's own condition would end it next. `Over` stands
for both. After a failure the client may end
in `Halted`: its connection is closed by the idle timeout, `conn.timeout()` is `None`
(834), and the `poll` has nothing that could end it.

### 3.3 OverloadPromise

Requests are opened within the concurrency, judged once, served or refused, and
closed with the outcome that belongs to the verdict; the run stops when all are
closed. `Overload` implements it (`KeepsPromise`): a request's phase is computed
from `next_stream_id`, `pending`, the server's `verdict` and `streams`. The promise
states the policy over phases, without the counters `in_flight` and
`seen_requests`; the refinement shows that the counters compute it.

### 3.4 H3Exchange

Two threads again: `cpc` walks through `run_h3_scenario` and `H3Client`, `spc`
through `run_h3_server_loop`. Streams are numbered as they are opened.

| Action | Code |
| --- | --- |
| `Connected`, `WarmUp`, `WarmUpDrives`, `WarmUpEnds` | 5-9, 331-397 |
| `Send`, `SendFails`, `FillEnds` | 22-43, 404-457 |
| `Drive`, `Poll`, `PollIdleClose` | 459-513 |
| `TallyEvents`, `Watchdog`, `StopServer`, `Join` | 45-67 |
| `LoopTop`, `PollTimeout`, `PollReadable`, `RecvDatagram`, `RecvWouldBlock` | 165-233; each calls `handle_h3_server_events` (238) where the code does |
| `ServerFails`, `ClientFails` | every `?`; 139-141 discards the server's |

`starts` and `stream_users` have the same keys (422-423, 489-491), so the keys are
one variable. A body is units, taken by quiche in any portions; a response is one
unit, because it is a HEADERS frame with FIN and nothing else. The handler of
the server is one action: it shares nothing while it runs. `Fill(u)` is the iteration of
the `for` loop that has something to do: `u` is the first user from `user` on that the
loop does not skip; `Sends(u)` and `GivesUp(u)` are its two ends. `Send` may find no room
(`FillEnds`), `send_request` may fail before it registers the stream, after, or after
it has handed over the body; the three differ in what they leave behind.

`Watchdog` may find `completed` above `total` (59): the answer to a request that was
given up is counted in addition. A release build wraps in the subtraction and
back in the addition, as the integers of the model do; a debug build panics. No
document says anything about this case, and it is listed as a hazard.

After a failure the client can wait for ever, as in `Overload`: the idle timeout
has closed its connection and its `poll` has no timeout left (`Halted`).

### 3.5 H2Scenario

Each tokio task has its position: `mpc` the scenario, `upc[u]` a user, `conn_task`,
`accept_task`, `serve_task` the three that drive something. Between awaits a task
is atomic. A request is where it is on its way, since a sender awaits its answer
before it does anything else. An `abort` takes effect at a later step
(`AbortedEnd`), which is what the `await` after it waits for. The task that serves
the accepted connection (127) has no handle, so nothing awaits it; it ends when it
notices the end of its peer.

### 3.6 ClosedLoop

Per user the number of answers and whether a request is outstanding; a request
is made only when none is, and the measurement ends when all are answered. For
H3 the answers are `user_next` plus the events not yet tallied, and the
outstanding are the users of `starts`; for H2 they are the loop indices and the
requests on their way. The comparison the benchmark makes between the transports
presupposes that both carry this one workload.

### 3.7 PacedSender

The same two loops stand in `rust_pps.rs` (178-227 for H2, 285-329 for H3) and
in `nginx_pps.rs` (252-304, 379-422); `protocol` chooses, and the actions that only
one of them has say so. `Send`, `SendFails` and `SendEnds` are the inner loop,
`Drive` the rest of an iteration over H3, `Result` and `Wake` the branches of the
`select` over H2. The second test for the end, before the `select` (271), repeats the
loop's condition on the same values and is part of `Continue`.

Time is counted in slots (`slot`, for the schedule) and in parts of the watchdog's
thirty seconds (`silence`); `Tick` may come between any two steps, so a sender
can be as late as it likes. `SendEnds` is also quiche without room, which
leaves the slot to the next iteration. What a transport does with a request in
flight is left open: it is answered, well or badly, or fails, in any order, and
over H3 it may never be answered.

A send that fails is an error at once. When the watchdog ends the run, it adds
all that was not completed, such a send included, which `Ledger` states as it is.

### 3.8 PacedTrial

`phase` is the place in the trial, `alive` the set of tasks and threads it has
started and that have not ended, `sampler` the position of the sampler thread. The
steps of `PacedSender` are those of phase `run`; all others leave its variables alone.

| Action | Code |
| --- | --- |
| `StartServer`, `Connect`, `WarmUp`, `SetupFails` | `rust_pps.rs` 149-163, 263-269; `nginx_pps.rs` 198-240 |
| `Sampler` | `h2load_rate.rs` 432-447: look at the flag, ask docker, push the sample |
| `LoopEnds`, `StopSampler`, `JoinSampler`, `Close` | `nginx_pps.rs` 305-308, 221-223; `h2load_rate.rs` 455-472 |
| `Shutdown`, `ServerStopped` | `rust_pps.rs` 234-235 and 333-334: abort and await of the accept task; flag and join of the thread |
| `ConnectionEnds`, `ServingEnds`, `ThreadEnds` | what may end by itself |

Between taking a sample and pushing it the sampler can be interrupted (`sampled`),
so a trial that took the average without the join would miss it. A trial that
fails in the loop returns at once and leaves the sampler and the server running; the
properties are about trials that return `Ok`. The serving task of the own H2
server is detached, as in `H2Scenario`.

`Waits` names the four places in which a trial waits without a bound: the HTTP/3
warm-up once the server thread has ended (`h3.rs:390` loops on `drive`, which looks at no
clock of its own, and after the idle timeout its `poll` has no timeout, 471); connecting
to nginx over H2 (`nginx_pps.rs:198`); the H2 loop with a request that nginx does not
answer (282); the join of a sampler that is in `docker stats` (`h2load_rate.rs:457`). The
handshake of HTTP/3 has a deadline (`h3.rs:358`) and the H3 loops have the watchdog.
`Terminates` excepts these four and nothing else; it is violated when any one of them is
taken out of the exception.

### 3.9 LatencySummary and Algorithms

The percentiles are linear interpolations between neighbours of a sorted vector. The
model computes exactly, in natural numbers, and rounds down once at the end, as
the conversion of the `f64` does; rounding errors of `f64` are not modelled.
The library's sort is modelled by the place each value gets, and the sum by the fold of
the code. `Algorithms` gives the two pure algorithms a state: a behaviour either judges one
request after another by a percentage, as the server does, or records one latency
after another, as a scenario does.

### 3.10 CommandLine, RunMatrix, OverloadReport

A value on the command line is the sequence of its parts between commas, and a part
is a word whose parse is given by a table: what the parsers distinguish (empty
parts, zero, a number out of range, NaN, aliases of one name, a name repeated) has a
word of its own. All values of an option are lists; an `Err` is the empty one, which no
parser accepts. `OptionsOf` names the options of each command and their kinds.
`split_csv`, `Parsed` and `Distinct` are the loops of the code, which push one value
after the other, as functions on how many values the loop has seen.

`Loops` are the `for` loops of a command inside the outermost (`Rounds`), and
`Point(loops, k)` the values of the loop variables at the k-th measurement, by the
strides of the loops. `overload_comparisons` keeps, like the two maps of the code, the
last row of each key, and joins them; `overload_claim_supported` is the verdict.

### 3.11 H2LoadTrial and CommandRun

`CommandRun` is the life of a process: `stage` is its place in `main` and the
command, `config` the configuration, `round` and `done` the loop variables, `rows`
what was measured. `Exit` ends it by success, `Err`, help or kill and resets what was
in memory; `qdisc` and the log files (`stale`) remain, and `Start` runs any of the
commands next, with any arguments. The first process finds any of both.

| Action | Code |
| --- | --- |
| `ReadArgument`, `ArgumentStops`, `EndArguments`, `NetemMissing` | the five `from_args`, `cli.rs:58` |
| `Setup` | what a command does before its first loop |
| `BeginRound`, `ApplyFails`, `WriteReport`, `ReportFails` | `cli.rs` 275-310, `netem_csv.rs` 7-77, the report of each command |
| `MeasureBench`, `MeasureOverload`, `MeasurePps`, `EndRound` | the body of the innermost loop |
| `SpawnH2Load`, `Sample`, `SampleEnds`, `Reap`, `StopServer`, `ServerEnds`, `Joined`; `ChildLogs`, `ChildExits`, `ChildQuits`, `ChildBlocks` | `h2load_rate.rs` 195-241, 254-356, and the child |
| `Fails`, `TrialFails`, `Killed` | every `?`; any end from outside |

The scenarios inside a cell are one step here, because they share no state with
the matrix but their result; the modules above are about them. A bench row holds
the impairment of its moment, an overload row the three numbers that the verdict
compares, each either as the claim expects or not. That a cell is one step says nothing
about the time it takes: `Waits` counts the places where a process waits without a bound,
and a cell of `bench`, `overload`, `rust-pps` or `nginx-pps` is one (sections 3.2, 3.4 and
3.8 say where it can stay). The other two are a call of `docker stats` between two looks
at the child (`Sample`, `h2load_rate.rs:338`) and a child that has filled a pipe. `Ends`
excepts these and is a claim about the rest: arguments, matrix, report, and a
trial of h2load with its child, log, server and join.

`clear` ignores what `tc` answers (`netem_csv.rs:27`), so the profile `none` is measured
under a leftover impairment when `tc` does not work; `UnderItsImpairment` says
so. A log file that an earlier process left may be parsed as this trial's; `OwnLog` is
stated for a directory without any.

## 4. Runs

| Run | Instance | Question |
| --- | --- | --- |
| `algorithms` | 700 requests, 14 percentages; up to 101 latencies, the last three arbitrary | is the refused share right at every moment, are the refusals evenly spread; has each number of a summary its rank |
| `server` | 3 streams, bodies and responses of 2 units, threshold 1 in both modes and 66.667 %, peer resets, every call may fail | do the counters, the maps, the verdicts and the responses agree in every state, do both policies hold, also up to the moment a failure ends the thread |
| `server_live` | 2 streams, threshold 1 | is every complete request answered |
| `overload` | window 2 over threshold 1: 3 requests of 2 chunks refused by reset, of 1 chunk by a 503, 2 of 2 chunks by a 503; 2 requests with window = threshold; 2 at 50 % | do client and server agree request by request and in what they report, is the reported share the quota, is `OverloadPromise` implemented |
| `overload_faults` | the same window with 2 requests, 3 requests one after the other, a single one; every `Err` possible on both sides | is every request still accounted for |
| `overload_live` | 2 requests, the second over the threshold; 1 request of 2 chunks, accepted or refused | does a run end |
| `h3` | 2 users with 2 messages, 1 warm-up, bodies of 2 units | bodies and answers never forgotten, report complete, `ClosedLoop` implemented, does a scenario end |
| `h3_faults` | the same, every `Err` and the watchdog possible | one request per user; do the registers and the three counts stay related |
| `h2` | 3 users with 2 messages, 1 warm-up, requests and connection may fail | is every request a latency or an error, is a report without errors complete, `ClosedLoop` implemented, does the run end, and the serving task after it |
| `paced` | 4 requests, window of 2, patience 2, both transports and both servers, 2 samples | is the schedule kept when slots are missed, does the row account for every request, do the averages take in every sample, does a trial end wherever the code sets a bound, without answers too, and leave nothing |
| `commands` | all commands, up to 2 arguments, processes without bound | is a report complete, are transports interleaved, is a row measured under its impairment, is the verdict that of the rows, does a row count its own child, does a process end wherever something bounds its waits |
| `h2_leak` | 2 users with 2 messages; expected to be violated | is every task awaited when the scenario returns |

`h2_leak` records a disagreement. The test report says that the client and server
tasks of H2 are cancelled and awaited after each scenario
(`reports/TRANSPORT_RUST_QUICHE_TEST_REPORT.md:21`, `:179`); the task spawned in
`h2.rs:127` is not, and can still run when the next repeat starts. `Terminates`
shows that it ends by itself.

A property that names others is their conjunction: `SidesAgree` is
`OutcomeMatchesVerdict`, `ReportsAgree`, `ReportedShareExact` and `ServedArePending`;
`Accounted` is `Conservation` and `TalliesAddUp`; `NothingForgotten` is
`BodiesRemembered` and `AnsweredOnce`; `AllAccounted` is `ErrorsCounted` and
`NothingLeft`. Each is stated and commented on its own in its module.

Bounds. Two units are the least that let a body be read, or a response written, in
part; with the peer free to stop in the middle, every order of partial read,
verdict, reset and retry occurs. Three streams over a threshold of one give an
accepted, a refused and a third request that is judged before or after the first
one's slot is free. In `Overload` a response is one unit, since partial responses
are the subject of the server's runs; the bodies of two chunks are there so that a
refusal can overtake the second. 66.667 % refuses the second and third of
three, 50 % the second of two. A percentage is an integer of thousandths of a percent.
The transports need two users to confuse and two messages for a user to have a
next one; a body of two units can be interrupted. The code warms up with 8
requests, one after the other; one shows what the last of them leaves to the
measurement.
A paced trial with four requests and a window of two fills the window, misses slots,
and still has something to catch up with; a patience of two lets an answer come
between one unit of silence and the watchdog. Two samples (`MaxSamples`) let one be
counted and another be under way at the end. The trial warms up eight times, as the
code does.

In `commands` two arguments (`MaxArguments`) suffice for each pair of options that
depend on each other, in both orders: `-netem` and `-failures`, `-repeats` and a list,
an option given twice. The words of `CommandLine` stand for the spellings they are
examples of, three failure profiles (none and two with arguments for `tc`) for the eight,
and one default load (`DefaultLoads`) for the longer lists of defaults; lists of two and
three values, with and without a repeated one, come in by the arguments. One surprise
(`MaxSurprises`), a measurement that is not what the claim expects or a child that ends
before it opens its log, is what it takes to refute a verdict or to leave a log that
is not one's own. The number of processes is not bounded.

For the summary, 19 to 21 and 99 to 101 values are where the ranks of p95 and p99 pass
from between two neighbours to one; one to three arbitrary values, some below, among
and above the others, are sorted in.

Faults. `Faults` switches on every path on which the code propagates an `Err`; then
a request may be counted twice (`open_request` inserts before it
flushes, 796) and the run may end with `Err` and a server nobody stops. `Accounted`
says by how much the tallies may then differ, exactly: by the
number of opens whose flush failed. Liveness and the equality of the reports are
stated without faults; the code promises neither with them.

In `H3Exchange` the same: `OneOutstanding` and `CountsAgree` hold with faults, the
complete report and `ClosedLoop` are about runs without. `H2Scenario` has no such
switch: each request and the connection may fail in every run, a user that fails
leaves the closed loop, and the run ends nevertheless. Neither do `PacedTrial` and
`CommandRun`: every `?` may fail in every run, a process may be killed at any moment,
and what it leaves is what the next one finds.

Fairness. The server thread is scheduled and each of its polls has a finite bound
(385-404): weak fairness on its steps. While streams are being processed the
clock advances, so that some are found due again and again; datagrams run out
at times, so that `WouldBlock` is reached; acknowledged data makes room, so that
retries advance: strong fairness on each, since each is enabled only at
certain positions of the loop. For the client: its steps are scheduled, quiche
retransmits until delivery, and flow control opens again. `H3Exchange` assumes the
same of its two threads. `H2Scenario` assumes that tokio polls every task that
can go on, and that h2 fails what waits on a connection that is gone: weak
fairness for each.

`PacedTrial` assumes that its thread is scheduled and that time passes; that the own
server answers a warm-up as long as it is there; that over H2 against it the task of a
request ends, with an answer or with the end of the connection (strong fairness, as the
loop looks at results and at the clock in turn); that a serving task whose peer is gone
ends, and the H3 server thread once it is told to. Nothing is assumed of nginx, of
`docker stats`, or of a server thread that has ended: in a state of `Waits` no step of the
trial is fair.

`CommandRun` assumes that the process is scheduled, that a server that was told to stop
stops, and that a child that is not blocked goes on. Again no step is fair in `Waits`: not
the measurement of a cell, not a `docker stats`, not a child with a full pipe. The
short calls are assumed to return: `tc`, `h2load --help`, the chart generator, writing a
file, and reading the pipes of a child that has exited.

Deadlock is checked in all runs but `algorithms`, whose bounds stop it, and `paced`,
since a trial is over once.

## 5. Proofs

Eight modules hold theorems. What each states, by module:

| Theorem | Says |
| --- | --- |
| **RejectPolicyProofs** | |
| `QuotaStep` | the policy refuses request n exactly when the quota grows from n - 1 to n |
| **RawServerProofs** | |
| `TypeCorrect` | `TypeOK` of the server |
| `LifecycleCorrect` | maps, verdicts, read sides and loop variables agree |
| `RejectedNeverReadCorrect` | no unit of a refused body is read |
| `CountsCorrect` | `Counts`: `in_flight` is the size of the map; each stream is judged once; accepted = in flight + answered + abandoned |
| `PolicyCorrect` | `Policy`: the threshold holds, the quota is exact |
| `ResponseBooksCorrect` | a response is written once and in order, to whom it is owed, and a cut one is remembered at its offset |
| **OverloadProofs** | |
| `ServerRefined` | a run of `Overload` is, for the server, a run of `RawServer` |
| `ServerKeepsItsWord` | the server's theorems in the whole scenario |
| `ClientTypeCorrect` | `ClientTypeOK` |
| `AccountedCorrect` | no request is lost or counted twice, but for the flushes that failed |
| `WatchdogSafe` | the watchdog's subtraction never underflows |
| `SidesAgreeCorrect` | what the client counts is what the server decided, in both reports |
| `PromiseKept` | without faults `Overload` implements `OverloadPromise` |
| **H3ExchangeProofs** | |
| `TypeCorrect`, `OneOutstandingCorrect`, `CountsCorrect`, `NothingForgottenCorrect`, `ReportCompleteCorrect` | `TypeOK`, `OneOutstanding`, `CountsAgree`, `NothingForgotten`, `ReportComplete` |
| `ClosedLoopKept` | without faults `H3Exchange` implements `ClosedLoop` |
| **H2ScenarioProofs** | |
| `TypeCorrect`, `AllAccountedCorrect` | `TypeOK`, `AllAccounted` |
| `ClosedLoopKept` | `H2Scenario` implements `ClosedLoop`, whatever fails |
| **PacedTrialProofs** | |
| `PacedCorrect` | `TypeOK`, `OnSchedule` and `Ledger` of the loop of a fixed-PPS trial |
| `TrialRow` | `OnSchedule` and `Ledger` in the whole trial |
| `TrialTypeCorrect`, `TrialStops`, `TrialAverages` | `TrialTypeOK`, `OkLeavesNothing`, `AverageExact` |
| **AlgorithmsProofs** | |
| `ShareCorrect`, `SpreadCorrect` | `ShareWithinRounding`, `EvenlySpread` (a step property) |
| `SummaryOrdered`, `SummaryCorrect` | the numbers of a summary are in order; `SummaryRight`, for any latencies in any order |
| **CommandRunProofs** | |
| `TypeCorrect` | `TypeOK`: every configuration that is run has a value for each option, no list is empty, no number zero |
| `ImpairmentCorrect` | `UnderItsImpairment`, through any sequence of processes |
| `WholeMatrixCorrect` | a complete report has a row for each turn of the loops and no other |
| `InterleavedCorrect` | no transport of a load is ever more than one measurement ahead of another |
| `VerdictCorrect` | the verdict is that of the rows |
| `OwnLogCorrect` | a row counts its own child's lines |

Those about the overload experiment hold for any finite set of streams, any
scenarios, any response length, with and without peer resets and faults (the
refinement without faults, which is what the promise is about); those about HTTP/2 and
HTTP/3 for any number of users, messages and warm-ups and any length of a body;
those about trials for any schedule, window and patience, any number of samples, over
either transport and against either server; those about the policy for every
percentage and any number of requests, the ones about the summary for every
sequence of naturals; those about the commands for any inputs, any loads,
any lists and any sequence of processes. The assumptions are those named in the
modules:

- `RawServer`: the stream set is finite; a scenario has positive sizes and a percentage
  up to 100 (what the parser admits); a response is not empty.
- `Overload`: a chunk is not empty; ids are multiples of four and there is one for each
  request of a scenario (`StreamIdAssumption`): QUIC has 2^62 of them, and
  `open_request` counts up in steps of four.
- `H3Exchange`, `H2Scenario`: at least one user and one message (what the parser admits),
  a body of at least one unit.
- `PacedSender`, `PacedTrial`: a request to send, a window, a patience.
- `CommandRun`: the default loads are a nonempty list of positive numbers, as each is in
  the code, and an argument is a sequence of words (`InputsAssumption`).
- Bounds are naturals.

### 5.1 The overload server

None of the properties is inductive alone. `in_flight` follows the
map only if a stream that is accepted was not in it, and one that is finished was;
a stream is judged once only if it is in some set or cannot become readable
again. Both come from `Lifecycle`: where a stream can be, given its verdict. Its
central clause is `read_shut = Rejected`, which takes the place of the set App503
does not keep (492), and its last two say that what a loop has collected is
still valid when its turn comes, because handling one stream changes nothing for
another. On top of `TypeOK /\ Lifecycle`, the counters (`Counts`) are inductive,
and with them the policy (`Policy`), where `QuotaStep` supplies the arithmetic:
`(n * bp) % 10000 < bp` exactly when `(n * bp) / 10000` is larger than
`((n - 1) * bp) / 10000`.

`ResponseBooks` becomes inductive (`ResponseInv`) when it says in addition what the
loop of the retries has collected, and what a thread may leave unsent that ends
because `stream_send` failed. `BooksInv` adds that `bytes_read` counts each unit
of a body once.

### 5.2 The overload scenario

`ServerRefined` brings the server's invariants into the scenario. The client's own
(`ClientInv`) say where a request is: ids are given out without a gap (`IdsInv`); an
opened stream is pending, in exactly one collected event, or has its outcome
(`PlaceInv`); the tallies are the numbers of streams by outcome, plus the flushes
that failed (`TallyInv`). `ClientTypeCorrect`, `AccountedCorrect` and `WatchdogSafe`
follow. Both sides are tied together along the way of a request: what arrived was
written (`ArrivalInv`), what the client got was sent (`WireInv`), an outcome fits what
the server did (`FitInv`), and a window within the threshold finds room (`RoomInv`).
`FitInv` is where the reordering of frames matters: a reset may overtake the
response of another stream, never take its place.

For `PromiseKept` each step is mapped: opening to the promise's opening, judging and
finishing to the server's two steps, collecting an event to closing, the last tally to
the stop; every other step is a stutter. `PhaseFacts` and `ResultFacts` restate the
refinement mapping in terms of the invariants first.

### 5.3 The two transports

`H3Exchange`: `OpenedInv` says that one stream was opened for each warm-up and each
message asked for, and that it stays registered until its answer; `UsersInv` who has a
request outstanding, a user in flight or one that was given up; `SumInv` that
`completed` is the number of messages the users have behind them, where one that was
given up may be counted once more. A stream that an error left registered is the
reason for the last clause, and for `UsersInv` to speak of owners. Together with
`TypeOK` and `NothingForgotten` they are inductive (`HInv`), with faults.
For the refinement the steps fall into the three of `ClosedLoop` or are not seen
(`StepIsSeen`); the events collected but not yet tallied count as answered.

`H2Scenario`: `UserInv` says how far a task is and what it owes, `MainInv` that of
the warm-up nothing is left, `ReportInv` that the totals are those of the tasks joined so
far. The message at which a user gives up is both a latency and an error; `ReportInv` counts
the messages without an answer and the users that gave up.

### 5.4 Trials

`OnSchedule` follows from `next_send = sent_requests` (every branch that
advances one advances the other) and `Ledger` from the fact that the requests
attempted so far are exactly those answered, in flight or refused, where the
first two never meet: that is what makes each completion count once. The trial
around the loop is shown to implement it (`LoopRefined`: every step of `PacedTrial` is a
step of `PacedSender` or leaves its variables alone), and `TrialRow` follows.
The others rest on `TInv`: the samples taken are those pushed, plus one exactly while
the sampler is between the two (`Books`), from phase to phase fewer of the tasks
can be alive (`Survivors`), and the loop runs in one phase only (`Places`).

### 5.5 Algorithms

`PolicyInv` says that the quota is exact and that each request accepted since the last
refusal has taken the remainder (`Way`) one share further; the remainder stays below
10000, so two gaps can differ by one at most. `SummaryOrdered` is `PercentileBounds`
and `PercentileMonotonic`, which rest on `PercentileBetween` (a percentile lies between
its neighbours) and on cases whether the ranks of two percentiles lie between the same
neighbours. `SummaryCorrect` adds, by counting the indices on either side, that each
percentile of sorted latencies has its rank, and carries it over to the latencies as
they arrived: places are a bijection (`PlacesDiffer`, `PlacesTaken`) that keeps each
value (`Sorted`), so it keeps the counts (`SameRanks`) and, as the sum is the number of
units of all values (`TotalUnits`), the mean (`SameTotal`).

### 5.6 Commands

The functions of `CommandLine` and `RunMatrix` are recursive, as is the sum of 5.5, and the induction theorems
of the library take an operator the provers cannot instantiate. The proofs go through
sets: a nonempty set of naturals has a least element (`NatLeast`), so what holds at 0 and
goes from n to n + 1 below N holds up to N (`Climb`). That each function exists, and that
its loop invariant holds, is proved once per function in this way (`Pushes`, `Splits`,
`Keeps`, `Strides`).

- `ConfigInv`: each option has a value of its kind, by induction over the loops of the
  parsers. With it the loops of a command run over nonempty lists (`LoopsListed`).
- `IInv`: no rows before the measurements of a process begin, trials of h2load in
  their own command only, and in a round with `-netem` the profile of the round is on
  the interface, unless it is `none` and `tc` does not work. That an exit of any kind
  forgets the rows (`ExitKeeps`) is what carries it over to the next process.
- `MatrixInv`: the rows are those of the first `Taken` measurements, one each (`Booked`).
- `TypeInv`, `LogInv` (a log holds lines of the child whose measurement it is named
  for) and `EndInv` (a verdict is that of the rows the report was written from).

`WholeMatrix` and `Interleaved` are statements about numerals in a mixed radix. The
k-th measurement stands at digit `(k \div Stride(i)) % Len(list i)` of loop i; two
measurements with the same digits are the same (`TurnsDiffer`), and each choice of
digits occurs (`TurnsCome`). So rows and turns of the loops are in bijection, also when
a list names a value twice. For `Interleaved` each row has a mate (`Mate`), the
measurement of the other transport in the same turn of the other loops; of two rows of a
transport, the mate of one comes before the other (`MatesBefore`), so all but one
of them already have theirs (`OneMore`). `PathsDiffer`, for the logs, and `OneRow`, for
the verdict, use the same digits: where no value is named twice, different measurements
have different names.

### 5.7 Only model-checked

- Liveness (`EventuallyAnswered`, `Terminates`, `Ends`): it rests on fairness and
  ENABLED, which the prover does not handle.
- `h2_leak`, which is a counterexample.

## 6. Not modelled

- Of `h2load_rate.rs`: the figures of a row from docker and `/proc` (that asking docker takes
  time is modelled), and what the timing script contains. They are numbers copied from elsewhere, and no property
  here relates them to anything.
- Durations, latencies as time, resource snapshots: they are in no decision of the
  code. Where the clock decides (processing delay, schedule, watchdog), it is a choice.
- The columns of the CSV files, the drawing of the charts (which group rows without
  the repeat, `overload.rs:1191`, so that repeats of one load overplot), messages:
  layout.
- What nothing can observe: the entries that the HTTP/3 server thread makes in its maps
  before a call of it fails (`h3.rs:260`), since the maps end with the thread; and the
  rounding of the `f64` product in `overload.rs:573`, where a decimal half such as 1.005 %
  may give 100 basis points and the model has 101. `ShareWithinRounding` allows for both.
- TLS configuration, certificates, QUIC transport parameters: constants.
- `tests.rs`, the reports and the scripts: read as documentation of the intent.
- quiche, hyper, tokio, `tc`, docker, h2load and the operating system are external. The
  server accepts one connection, as the code does for its lifetime; datagrams of
  other peers are not in the model. nginx answers or not, but resets no stream: a
  `Reset` event, which the HTTP/3 client ignores (`h3.rs:503`), and the `Err` of a body
  that the peer has stopped (`h3.rs:530`) occur only as requests never answered
  and as `ClientFails`.
