----------------------------- MODULE PacedTrial -----------------------------
(***************************************************************************)
(* One fixed-PPS trial from its first line to its row: against the server  *)
(* of the program itself (rust_pps.rs) or against nginx in a container     *)
(* (nginx_pps.rs), whose load a sampler thread measures meanwhile          *)
(* (h2load_rate.rs).  The loop in its middle is PacedSender.               *)
(***************************************************************************)
EXTENDS PacedSender

CONSTANT MaxSamples    \* bound: samples the container's statistics give

ASSUME SamplesAssumption == MaxSamples \in Nat

VARIABLES
  peer,           \* own, nginx
  phase,          \* server, connect, warmup, run, finish, join, close,
                  \* shutdown, stopping, done, failed
  warm,           \* warm-up requests answered
  alive,          \* the tasks and threads of the trial that are running:
                  \* server (H2 task or H3 thread), serving, connection
  sampler,        \* none, top, sampling, sampled, over
  stop,           \* its flag
  taken, samples, \* the samples docker gave, and those in the shared vector
  averaged        \* those the row's averages were taken over

samplerVars == <<sampler, taken, samples>>
restVars == <<peer, warm, stop, averaged>>
trialVars == <<pacedVars, phase, alive, samplerVars, restVars>>

WarmUps == 8
Over == phase \in {"done", "failed"}

TrialInit ==
  /\ Init
  /\ peer \in {"own", "nginx"} /\ phase = IF peer = "own" THEN "server" ELSE "connect"
  /\ warm = 0 /\ alive = {} /\ averaged = 0
  /\ sampler = "none" /\ stop = FALSE /\ taken = 0 /\ samples = 0

Become(next) == phase' = next /\ UNCHANGED <<pacedVars, samplerVars, restVars>>

-----------------------------------------------------------------------------
(***************************************************************************)
(* Before the loop.                                                        *)
(***************************************************************************)
StartServer == phase = "server" /\ Become("connect") /\ alive' = alive \cup {"server"}

\* The own server of H2 has a task for each connection, which nobody keeps a
\* handle of; against nginx the sampler starts here.
Connect ==
  /\ phase = "connect"
  /\ alive' = alive \cup (IF protocol = "H3" THEN {}
                          ELSE IF peer = "own" THEN {"connection", "serving"}
                          ELSE {"connection"})
  /\ IF peer = "own" THEN phase' = "warmup" /\ UNCHANGED sampler
     ELSE phase' = "run" /\ sampler' = "top"
  /\ UNCHANGED <<pacedVars, taken, samples, restVars>>

\* An answer may be on its way when the thread of the H3 server ends.
WarmUp ==
  /\ phase = "warmup"
  /\ IF warm < WarmUps THEN warm' = warm + 1 /\ UNCHANGED phase
     ELSE phase' = "run" /\ UNCHANGED warm
  /\ UNCHANGED <<pacedVars, alive, samplerVars, peer, stop, averaged>>

\* Any `?` before the loop, in the middle of connecting included.
SetupFails ==
  /\ phase \in {"server", "connect", "warmup"} /\ Become("failed")
  /\ \/ UNCHANGED alive
     \/ phase = "connect" /\ protocol = "H2" /\ peer = "own" /\ alive' = alive \cup {"serving"}

-----------------------------------------------------------------------------
(***************************************************************************)
(* The loop, and what goes on beside it.                                   *)
(***************************************************************************)
InLoop(step) ==
  /\ phase = "run" /\ step
  /\ UNCHANGED <<phase, alive, samplerVars, restVars>>
Loop == InLoop(Send \/ SendEnds \/ Drive \/ Wake)
LoopResult == InLoop(Result)
LoopErrs == InLoop(SendFails \/ DriveFails)
Clock == InLoop(Tick)

LoopEnds ==
  /\ phase = "run" /\ pc = "done" /\ UNCHANGED alive
  /\ Become(IF peer = "nginx" THEN "finish" ELSE "close")

\* `?` of drive: nothing is stopped, the sampler included.
TrialFails == phase = "run" /\ pc = "failed" /\ Become("failed") /\ UNCHANGED alive

\* The sampler thread: docker stats takes its time and may give nothing.
Sampler ==
  /\ \/ sampler = "top" /\ sampler' = (IF stop THEN "over" ELSE "sampling")
        /\ UNCHANGED <<taken, samples>>
     \/ /\ sampler = "sampling" /\ UNCHANGED samples
        /\ \/ sampler' = "sampled" /\ taken < MaxSamples /\ taken' = taken + 1
           \/ sampler' = "top" /\ UNCHANGED taken
     \/ sampler = "sampled" /\ sampler' = "top" /\ samples' = samples + 1 /\ UNCHANGED taken
  /\ UNCHANGED <<pacedVars, phase, alive, restVars>>

\* The task of an H2 connection ends when the connection does.
ConnectionEnds ==
  /\ ~Over /\ "connection" \in alive /\ alive' = alive \ {"connection"}
  /\ UNCHANGED <<pacedVars, phase, samplerVars, restVars>>

\* The serving task, with its connection; the thread of the H3 server, at an
\* Err or at the flag.
ServingEnds ==
  /\ "serving" \in alive /\ "connection" \notin alive /\ alive' = alive \ {"serving"}
  /\ UNCHANGED <<pacedVars, phase, samplerVars, restVars>>
ThreadEnds ==
  /\ protocol = "H3" /\ "server" \in alive /\ alive' = alive \ {"server"}
  /\ UNCHANGED <<pacedVars, phase, samplerVars, restVars>>

-----------------------------------------------------------------------------
(***************************************************************************)
(* After the loop.                                                         *)
(***************************************************************************)
\* finish_docker_stats_sampler: store, join, then the average over a clone.
StopSampler ==
  /\ phase = "finish" /\ phase' = "join" /\ stop' = TRUE
  /\ UNCHANGED <<pacedVars, alive, samplerVars, peer, warm, averaged>>

\* Mutated: the samples are cloned without the join.
SamplerJoined_Early == TRUE
SamplerJoined == sampler = "over"

JoinSampler ==
  /\ phase = "join" /\ SamplerJoined
  /\ averaged' = samples /\ phase' = "close"
  /\ UNCHANGED <<pacedVars, alive, samplerVars, peer, warm, stop>>

\* H2: abort the connection task and await it.
Close ==
  /\ phase = "close" /\ alive' = alive \ {"connection"}
  /\ Become(IF peer = "own" THEN "shutdown" ELSE "done")

\* Mutated: the join of the server thread is left out.
ServerJoined_Early == TRUE
ServerJoined == protocol = "H3" => "server" \notin alive

\* H2: abort the accept task and await it.  H3: set the flag, join.
Shutdown == phase = "shutdown" /\ Become("stopping") /\ UNCHANGED alive
ServerStopped ==
  /\ phase = "stopping" /\ ServerJoined
  /\ alive' = IF protocol = "H2" THEN alive \ {"server"} ELSE alive
  /\ Become("done")

-----------------------------------------------------------------------------
Trial ==
  \/ StartServer \/ Connect \/ WarmUp \/ LoopEnds \/ TrialFails
  \/ StopSampler \/ JoinSampler \/ Close \/ Shutdown \/ ServerStopped

TrialNext ==
  \/ Trial \/ SetupFails \/ Loop \/ LoopResult \/ LoopErrs \/ Clock
  \/ Sampler \/ ConnectionEnds \/ ServingEnds \/ ThreadEnds

TrialSafety == TrialInit /\ [][TrialNext]_trialVars

\* The four places without a bound.  H3Client::request looks at no clock: when
\* its server has ended the answer may never come, and once the connection has
\* timed out no poll ends.  Connecting to nginx over H2, and the loop over H2,
\* wait as long as nginx does, the join of the sampler as long as docker stats.
Waits ==
  \/ phase = "warmup" /\ protocol = "H3" /\ "server" \notin alive /\ warm < WarmUps
  \/ phase = "connect" /\ protocol = "H2" /\ peer = "nginx"
  \/ phase = "run" /\ protocol = "H2" /\ peer = "nginx" /\ inflight # {}
  \/ phase = "join" /\ sampler = "sampling"

\* Everywhere else the trial is scheduled and time passes.  The own server, as
\* long as it is there, answers, or its connection fails, so that the task of a
\* request ends: its result is then among the steps that can be taken.
TrialSpec ==
  /\ TrialSafety
  /\ WF_trialVars(~Waits /\ Trial) /\ WF_trialVars(Loop) /\ WF_trialVars(Clock)
  /\ SF_trialVars(~Waits /\ LoopResult)
  /\ WF_trialVars(sampler # "sampling" /\ Sampler)
  /\ WF_trialVars(ServingEnds) /\ WF_trialVars(phase = "stopping" /\ ThreadEnds)

-----------------------------------------------------------------------------
(***************************************************************************)
(* Properties.                                                             *)
(***************************************************************************)
\* Every variable has its type, those of the loop included.
TrialTypeOK ==
  /\ TypeOK
  /\ peer \in {"own", "nginx"}
  /\ phase \in {"server", "connect", "warmup", "run", "finish", "join", "close",
                "shutdown", "stopping", "done", "failed"}
  /\ warm \in 0 .. WarmUps /\ alive \subseteq {"server", "serving", "connection"}
  /\ sampler \in {"none", "top", "sampling", "sampled", "over"} /\ stop \in BOOLEAN
  /\ taken \in 0 .. MaxSamples /\ samples \in 0 .. taken /\ averaged \in 0 .. samples

\* A trial that returns Ok leaves no thread and no task to disturb the next
\* one, but for the serving task of the own H2 server, which ends by itself
\* (rust_pps.rs:231, 333; nginx_pps.rs:221, 307).
OkLeavesNothing ==
  phase = "done" => alive \subseteq {"serving"} /\ sampler \in {"none", "over"}

\* The averages of an nginx row are taken over all that the sampler has
\* measured, a sample begun before the end and given after it included
\* (h2load_rate.rs:441, 455).
AverageExact == phase = "done" => averaged = taken /\ samples = taken

\* A trial ends unless it waits for ever where the code sets no bound: the loop
\* over H3 ends also when no answer ever comes, by the watchdog, the one of the
\* own H2 server because each task does, and the threads are joined.  What a
\* trial that returns Ok leaves behind is gone some time (rust_pps.rs:185, 268,
\* 325; nginx_pps.rs:198, 282; h2load_rate.rs:457).
Terminates ==
  /\ <>Over \/ <>[]Waits
  /\ phase = "done" ~> alive = {}
=============================================================================
