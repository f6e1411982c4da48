---------------------------- MODULE PacedSender ----------------------------
(***************************************************************************)
(* The loop of a fixed-PPS trial, that of run_h3_rust_pps_trial            *)
(* (rust_pps.rs) and that of run_h2_fixed_pps_sender (nginx_pps.rs), which *)
(* each of the two files repeats for the other transport; PacedTrial has   *)
(* what surrounds it.  A request is due at its slot, started + k *         *)
(* interval, and is sent then or, when the window is full or quiche has no *)
(* room, as soon as possible after.                                        *)
(*                                                                         *)
(* Time is counted in slots and in units of the watchdog's patience; it    *)
(* passes anywhere.  Requests are numbered as they are attempted.  The     *)
(* peer answers any of those in flight, or for H3 none for ever.           *)
(***************************************************************************)
EXTENDS Integers, FiniteSets

CONSTANTS
  Protocols,      \* the transports a trial may have
  Scheduled,      \* scheduled_requests = target_pps * duration
  MaxInflight,    \* max_inflight
  Patience        \* the 30 seconds without progress, in units of Tick

ASSUME ProtocolsAssumption == Protocols \subseteq {"H2", "H3"}
ASSUME PositiveAssumption == {Scheduled, MaxInflight, Patience} \subseteq Nat \ {0}

Requests == 0 .. (Scheduled - 1)

VARIABLES
  protocol,
  pc,             \* send, wait, done, failed
  slot,           \* slots elapsed since the start, up to Scheduled
  silence,        \* elapsed since last_progress, up to just over Patience
  sent_requests, next_send, completed_requests, successes, errors,
  inflight,       \* keys of client.starts, or the tasks of the FuturesUnordered
  answered, refused,   \* what became of them: completed, and Err of send_request
  gave_up         \* the watchdog ended the loop

counts == <<sent_requests, next_send, completed_requests, successes, errors>>
fates == <<inflight, answered, refused, gave_up>>
pacedVars == <<protocol, pc, slot, silence, counts, fates>>

Init ==
  /\ protocol \in Protocols /\ pc = "send" /\ slot = 0 /\ silence = 0
  /\ sent_requests = 0 /\ next_send = 0
  /\ completed_requests = 0 /\ successes = 0 /\ errors = 0
  /\ inflight = {} /\ answered = {} /\ refused = {} /\ gave_up = FALSE

Running == pc \in {"send", "wait"}

\* The clock, read by Instant::now() and elapsed().
Tick ==
  /\ Running
  /\ slot' = IF slot < Scheduled THEN slot + 1 ELSE slot
  /\ silence' = IF silence <= Patience THEN silence + 1 ELSE silence
  /\ UNCHANGED <<protocol, pc, counts, fates>>

-----------------------------------------------------------------------------
(***************************************************************************)
(* The inner loop: send what is due while the window has room.             *)
(***************************************************************************)
\* Mutated: without the end of the schedule; without the window.
Due_Endless == slot >= next_send /\ Cardinality(inflight) < MaxInflight
Due_AnyWindow == sent_requests < Scheduled /\ slot >= next_send
Due ==
  /\ sent_requests < Scheduled
  /\ slot >= next_send
  /\ Cardinality(inflight) < MaxInflight

\* Each attempt takes the next slot, also one that comes late.
Attempt ==
  /\ pc = "send" /\ Due
  /\ sent_requests' = sent_requests + 1
  /\ next_send' = next_send + 1
  /\ UNCHANGED <<protocol, pc, slot, completed_requests, successes, answered, gave_up>>

Send ==
  /\ Attempt
  /\ inflight' = inflight \cup {sent_requests}
  /\ silence' = IF protocol = "H3" THEN 0 ELSE silence
  /\ UNCHANGED <<errors, refused>>

\* Err of send_request, before or after it registered the stream.
SendFails ==
  /\ protocol = "H3" /\ Attempt
  /\ inflight' \in {inflight, inflight \cup {sent_requests}}
  /\ refused' = refused \cup {sent_requests}
  /\ errors' = errors + 1
  /\ silence' = 0

\* Nothing is due; or, for H3, Ok(false): quiche has no room.
SendEnds ==
  /\ pc = "send" /\ (~Due \/ protocol = "H3")
  /\ pc' = "wait"
  /\ UNCHANGED <<protocol, slot, silence, counts, fates>>

-----------------------------------------------------------------------------
(***************************************************************************)
(* The rest of an iteration.                                               *)
(***************************************************************************)
\* The condition of the outer loop, after this iteration.  The break of H2
\* before its select repeats it.
Continue == IF sent_requests < Scheduled \/ inflight' # {} THEN "send" ELSE "done"

\* Completions, and the bad ones among them: a status out of 2xx, for H2 also
\* a connection that failed.
Complete(done, bad) ==
  /\ inflight' = inflight \ done
  /\ answered' = answered \cup done
  /\ completed_requests' = completed_requests + Cardinality(done)
  /\ successes' = successes + Cardinality(done \ bad)

TimedOut(done) == done = {} /\ silence > Patience

\* The requests the watchdog writes off, by saturating_sub; mutated: those
\* that were sent.
WrittenOff_Sent == sent_requests - completed_requests
WrittenOff ==
  IF completed_requests < Scheduled THEN Scheduled - completed_requests ELSE 0

\* client.drive_with_max_timeout: the poll is bounded by the next slot or a
\* millisecond, so that it returns also when nothing comes.
Drive ==
  /\ protocol = "H3" /\ pc = "wait"
  /\ \E done \in SUBSET inflight : \E bad \in SUBSET done :
       /\ Complete(done, bad)
       /\ silence' = IF done = {} THEN silence ELSE 0
       /\ gave_up' = TimedOut(done)
       /\ errors' = errors + Cardinality(bad) + (IF gave_up' THEN WrittenOff ELSE 0)
       /\ pc' = IF gave_up' THEN "done" ELSE Continue
  /\ UNCHANGED <<protocol, slot, sent_requests, next_send, refused>>

\* `?` of drive_with_max_timeout.
DriveFails ==
  /\ protocol = "H3" /\ pc = "wait"
  /\ pc' = "failed"
  /\ UNCHANGED <<protocol, slot, silence, counts, fates>>

\* select: the next result of inflight.
Result ==
  /\ protocol = "H2" /\ pc = "wait"
  /\ \E r \in inflight : \E bad \in SUBSET {r} :
       /\ Complete({r}, bad)
       /\ errors' = errors + Cardinality(bad)
       /\ pc' = Continue
  /\ UNCHANGED <<protocol, slot, silence, sent_requests, next_send, refused, gave_up>>

\* select, or the branch without requests in flight: the sleep ends, at the
\* next slot or after the millisecond of a full window.
Wake ==
  /\ protocol = "H2" /\ pc = "wait" /\ sent_requests < Scheduled
  /\ slot >= next_send \/ Cardinality(inflight) >= MaxInflight
  /\ pc' = "send"
  /\ UNCHANGED <<protocol, slot, silence, counts, fates>>

Next == Send \/ SendFails \/ SendEnds \/ Drive \/ DriveFails \/ Result \/ Wake \/ Tick
Safety == Init /\ [][Next]_pacedVars

-----------------------------------------------------------------------------
(***************************************************************************)
(* Properties.                                                             *)
(***************************************************************************)
\* Every variable has its type.
TypeOK ==
  /\ protocol \in Protocols /\ pc \in {"send", "wait", "done", "failed"}
  /\ slot \in 0 .. Scheduled /\ silence \in 0 .. (Patience + 1)
  /\ sent_requests \in 0 .. Scheduled /\ next_send \in 0 .. Scheduled
  /\ {completed_requests, successes, errors} \subseteq Nat
  /\ inflight \subseteq Requests /\ answered \subseteq Requests
  /\ refused \subseteq Requests /\ gave_up \in BOOLEAN

\* No request leaves before its slot, whichever branch the ones before it
\* took, so the rate is never above the target, and the window is respected
\* (rust_pps.rs:286, 293, 300; nginx_pps.rs:253, 268).
OnSchedule ==
  /\ sent_requests > 0 => sent_requests - 1 <= slot
  /\ Cardinality(inflight) <= MaxInflight

\* The row accounts for every scheduled request.  Successes and errors are
\* the completions and the sends that failed; a watchdog run writes off the
\* rest and so counts a failed send a second time, and a run that ends by
\* itself has sent all and waits for none (rust_pps.rs:285, 299, 326).
Ledger ==
  /\ completed_requests = Cardinality(answered)
  /\ answered \cup inflight \cup refused = 0 .. (sent_requests - 1)
  /\ answered \cap inflight = {}
  /\ successes + errors =
       Cardinality(refused) + (IF gave_up THEN Scheduled ELSE completed_requests)
  /\ pc = "done" /\ ~gave_up => sent_requests = Scheduled /\ inflight = {}
=============================================================================
