-------------------------- MODULE PacedTrialProofs --------------------------
(***************************************************************************)
(* What is proved of a fixed-PPS trial, for any schedule, window and       *)
(* patience, any number of samples and over either transport: of the loop  *)
(* (PacedSender) first, then of the trial around it.                       *)
(***************************************************************************)
EXTENDS PacedTrial, FiniteSetTheorems, TLAPS

-----------------------------------------------------------------------------
(***************************************************************************)
(* The loop.                                                               *)
(***************************************************************************)
\* The slot of the next request is its number, and the watchdog ends the loop.
Pace ==
  /\ next_send = sent_requests
  /\ Running => ~gave_up
  /\ OnSchedule

IInv == TypeOK /\ Ledger /\ Pace

LEMMA Positive == Scheduled \in Nat \ {0} /\ MaxInflight \in Nat \ {0} /\ Patience \in Nat \ {0}
BY PositiveAssumption

LEMMA RequestSets ==
  ASSUME NEW R \in SUBSET Requests
  PROVE  IsFiniteSet(R) /\ Cardinality(R) \in Nat /\ Cardinality(R) <= Scheduled
<1>1. IsFiniteSet(Requests) /\ Cardinality(Requests) = Scheduled
  BY Positive, FS_Interval DEF Requests
<1> QED BY <1>1, FS_Subset, FS_CardinalityType

LEMMA IInvInit == Init => IInv
<1> SUFFICES ASSUME Init PROVE IInv
  OBVIOUS
<1> USE Positive DEF Init
<1>1. TypeOK
  <2>1. /\ slot \in 0 .. Scheduled /\ silence \in 0 .. (Patience + 1)
        /\ sent_requests \in 0 .. Scheduled /\ next_send \in 0 .. Scheduled
        /\ {completed_requests, successes, errors} \subseteq Nat
    OBVIOUS
  <2> QED BY <2>1 DEF TypeOK
<1>2. Ledger
  BY FS_EmptySet DEF Ledger
<1>3. Pace
  BY FS_EmptySet DEF Pace, OnSchedule, Running
<1> QED BY <1>1, <1>2, <1>3 DEF IInv

\* A request is attempted: with or without a place in flight, refused or not.
LEMMA AttemptKeeps ==
  ASSUME IInv, Attempt,
         inflight' \in {inflight, inflight \cup {sent_requests}},
         silence' \in 0 .. (Patience + 1),
         \/ /\ sent_requests \in inflight' /\ UNCHANGED <<errors, refused>>
         \/ /\ refused' = refused \cup {sent_requests} /\ errors' = errors + 1
  PROVE  IInv'
<1> USE Positive DEF IInv, Attempt, Due
<1>1. sent_requests \in Requests /\ slot >= sent_requests
  BY DEF TypeOK, Pace, Requests
<1>2. sent_requests \notin answered \cup inflight \cup refused
  BY DEF TypeOK, Ledger
<1>3. TypeOK'
  <2>1. /\ sent_requests' \in 0 .. Scheduled /\ next_send' \in 0 .. Scheduled
        /\ {completed_requests', successes', errors'} \subseteq Nat
    BY <1>1 DEF TypeOK, Pace
  <2>2. inflight' \subseteq Requests /\ refused' \subseteq Requests
    BY <1>1 DEF TypeOK
  <2>3. gave_up' \in BOOLEAN /\ protocol' \in Protocols /\ pc' = "send"
    BY DEF TypeOK
  <2> QED BY <2>1, <2>2, <2>3 DEF TypeOK
<1>4. Cardinality(inflight') <= MaxInflight
  <2>1. /\ Cardinality(inflight \cup {sent_requests}) = Cardinality(inflight) + 1
        /\ Cardinality(inflight) \in Nat
    BY <1>2, RequestSets, FS_AddElement DEF TypeOK
  <2> QED BY <2>1
<1>5. Cardinality(refused \cup {sent_requests}) = Cardinality(refused) + 1
      /\ Cardinality(refused) \in Nat
  BY <1>2, RequestSets, FS_AddElement DEF TypeOK
<1>6. Pace'
  BY <1>1, <1>4 DEF Pace, OnSchedule, TypeOK, Running
<1>7. (answered \cup inflight \cup refused)' = 0 .. (sent_requests' - 1)
  BY <1>1 DEF TypeOK, Ledger
<1>8. ~gave_up /\ pc' # "done"
  BY DEF Pace, Running
<1>9. successes \in Nat /\ errors \in Nat /\ completed_requests \in Nat
  BY DEF TypeOK
<1>10. (successes + errors)' = Cardinality(refused') + completed_requests'
  <2>1. successes + errors = Cardinality(refused) + completed_requests
    BY <1>8 DEF Ledger
  <2>2. successes' = successes /\ completed_requests' = completed_requests
    OBVIOUS
  <2>3. errors' - errors = Cardinality(refused') - Cardinality(refused)
        /\ errors' \in Nat /\ Cardinality(refused') \in Nat
    BY <1>5, <1>9
  <2> QED BY <1>5, <1>9, <2>1, <2>2, <2>3
<1>11. (answered \cap inflight)' = {}
  BY <1>2 DEF Ledger
<1>12. Ledger'
  BY <1>7, <1>8, <1>10, <1>11 DEF Ledger
<1> QED BY <1>3, <1>6, <1>12

\* Some requests in flight complete, a part of them badly.
LEMMA CompleteKeeps ==
  ASSUME IInv, NEW done \in SUBSET inflight, NEW bad \in SUBSET done,
         Complete(done, bad)
  PROVE  /\ inflight' \subseteq inflight /\ answered' \subseteq Requests
         /\ Cardinality(inflight') <= MaxInflight
         /\ completed_requests' = Cardinality(answered')
         /\ completed_requests' \in Nat /\ completed_requests \in Nat
         /\ completed_requests' <= Scheduled
         /\ successes' \in Nat /\ successes \in Nat /\ Cardinality(bad) \in Nat
         /\ successes' + Cardinality(bad) - successes =
              completed_requests' - completed_requests
         /\ answered' \cup inflight' = answered \cup inflight
         /\ answered' \cap inflight' = {}
<1> USE DEF IInv, Complete
<1>1. done \in SUBSET Requests /\ bad \in SUBSET Requests /\ answered \in SUBSET Requests
  BY DEF TypeOK
<1>2. Cardinality(done \ bad) = Cardinality(done) - Cardinality(bad)
  <2>1. done \cap bad = bad
    OBVIOUS
  <2> QED BY <1>1, <2>1, RequestSets, FS_Difference
<1>3. Cardinality(answered \cup done) = Cardinality(answered) + Cardinality(done)
  <2>1. answered \cap done = {}
    BY DEF Ledger
  <2> QED BY <1>1, <2>1, RequestSets, FS_Union, FS_EmptySet
<1>4. /\ Cardinality(done) \in Nat /\ Cardinality(bad) \in Nat
      /\ Cardinality(answered) \in Nat
      /\ Cardinality(bad) <= Cardinality(done)
      /\ Cardinality(answered \cup done) <= Scheduled
  <2>1. Cardinality(bad) <= Cardinality(done)
    BY <1>1, RequestSets, FS_Subset
  <2>2. answered \cup done \in SUBSET Requests
    BY <1>1
  <2> QED BY <1>1, <2>1, <2>2, RequestSets
<1>5. Cardinality(inflight') <= MaxInflight
  <2>1. inflight' \in SUBSET inflight /\ inflight \in SUBSET Requests
    BY DEF TypeOK
  <2>2. /\ Cardinality(inflight') <= Cardinality(inflight)
        /\ Cardinality(inflight') \in Nat /\ Cardinality(inflight) \in Nat
    BY <2>1, RequestSets, FS_Subset
  <2> QED BY <2>2, Positive DEF Pace, OnSchedule
<1>6. completed_requests = Cardinality(answered) /\ answered \cap inflight = {}
  BY DEF Ledger
<1>7. successes \in Nat
  BY DEF TypeOK
<1>8. successes' = successes + Cardinality(done) - Cardinality(bad)
  BY <1>2, <1>4, <1>7
<1>9. completed_requests' = Cardinality(answered) + Cardinality(done)
  BY <1>6
<1> QED BY <1>1, <1>3, <1>4, <1>5, <1>6, <1>7, <1>8, <1>9, Positive

LEMMA DriveKeeps == IInv /\ Drive => IInv'
<1> SUFFICES ASSUME IInv, Drive PROVE IInv'
  OBVIOUS
<1> USE Positive
<1>1. PICK done, bad :
        /\ done \in SUBSET inflight /\ bad \in SUBSET done
        /\ Complete(done, bad)
        /\ silence' = IF done = {} THEN silence ELSE 0
        /\ gave_up' = TimedOut(done)
        /\ errors' = errors + Cardinality(bad) + (IF gave_up' THEN WrittenOff ELSE 0)
        /\ pc' = IF gave_up' THEN "done" ELSE Continue
  BY DEF Drive
<1>2. UNCHANGED <<protocol, slot, sent_requests, next_send, refused>>
  BY DEF Drive
<1>3. ~gave_up /\ pc = "wait"
  BY DEF Drive, IInv, Pace, Running
<1> DEFINE Cb == Cardinality(bad)
<1>4. /\ inflight' \subseteq inflight /\ answered' \subseteq Requests
      /\ Cardinality(inflight') <= MaxInflight
      /\ completed_requests' = Cardinality(answered')
      /\ completed_requests' \in Nat /\ completed_requests \in Nat
      /\ completed_requests' <= Scheduled
      /\ successes' \in Nat /\ successes \in Nat /\ Cb \in Nat
      /\ successes' + Cb - successes = completed_requests' - completed_requests
      /\ answered' \cup inflight' = answered \cup inflight
      /\ answered' \cap inflight' = {}
  BY <1>1, CompleteKeeps
<1>5. gave_up' \in BOOLEAN /\ (gave_up' => done = {})
  BY <1>1 DEF TimedOut
<1>6. WrittenOff \in Nat /\ (done = {} => WrittenOff = Scheduled - completed_requests')
  <2>1. done = {} => completed_requests' = completed_requests
    <3>1. Cardinality({}) = 0
      BY FS_EmptySet
    <3> QED BY <1>1, <1>4, <3>1 DEF Complete
  <2> QED BY <1>4, <2>1 DEF WrittenOff
<1>7. errors \in Nat /\ errors' = errors + Cb + (IF gave_up' THEN WrittenOff ELSE 0)
  BY <1>1 DEF IInv, TypeOK
<1>8. pc' \in {"send", "done"} /\ (gave_up' => pc' = "done")
      /\ (pc' = "done" /\ ~gave_up' => sent_requests' >= Scheduled /\ inflight' = {})
  BY <1>1, <1>2 DEF Continue, IInv, TypeOK
<1> HIDE DEF Cb
<1>9. TypeOK'
  BY <1>1, <1>2, <1>4, <1>5, <1>6, <1>7, <1>8 DEF IInv, TypeOK
<1>10. successes + errors = Cardinality(refused) + completed_requests
  BY <1>3 DEF IInv, Ledger
<1>11. Cardinality(refused) \in Nat
  BY RequestSets DEF IInv, TypeOK
<1>12. (successes + errors)' =
         Cardinality(refused) + (IF gave_up' THEN Scheduled ELSE completed_requests')
  BY <1>4, <1>5, <1>6, <1>7, <1>10, <1>11
<1>13. Ledger'
  BY <1>2, <1>4, <1>8, <1>9, <1>12 DEF IInv, Ledger, TypeOK
<1>14. Pace'
  BY <1>2, <1>4, <1>8 DEF IInv, Pace, OnSchedule, Running
<1> QED BY <1>9, <1>13, <1>14 DEF IInv

LEMMA ResultKeeps == IInv /\ Result => IInv'
<1> SUFFICES ASSUME IInv, Result PROVE IInv'
  OBVIOUS
<1> USE Positive
<1>1. PICK r, bad :
        /\ r \in inflight /\ bad \in SUBSET {r}
        /\ Complete({r}, bad)
        /\ errors' = errors + Cardinality(bad)
        /\ pc' = Continue
  BY DEF Result
<1>2. UNCHANGED <<protocol, slot, silence, sent_requests, next_send, refused, gave_up>>
  BY DEF Result
<1>3. ~gave_up
  BY DEF Result, IInv, Pace, Running
<1> DEFINE Cb == Cardinality(bad)
<1>4. /\ inflight' \subseteq inflight /\ answered' \subseteq Requests
      /\ Cardinality(inflight') <= MaxInflight
      /\ completed_requests' = Cardinality(answered')
      /\ completed_requests' \in Nat /\ completed_requests \in Nat
      /\ successes' \in Nat /\ successes \in Nat /\ Cb \in Nat
      /\ successes' + Cb - successes = completed_requests' - completed_requests
      /\ answered' \cup inflight' = answered \cup inflight
      /\ answered' \cap inflight' = {}
  <2>1. {r} \in SUBSET inflight
    BY <1>1
  <2> QED BY <1>1, <2>1, CompleteKeeps
<1>5. errors \in Nat /\ errors' = errors + Cb
  BY <1>1 DEF IInv, TypeOK
<1>6. pc' \in {"send", "done"}
      /\ (pc' = "done" => sent_requests' >= Scheduled /\ inflight' = {})
  BY <1>1, <1>2 DEF Continue, IInv, TypeOK
<1> HIDE DEF Cb
<1>7. TypeOK'
  BY <1>2, <1>4, <1>5, <1>6 DEF IInv, TypeOK
<1>8. successes + errors = Cardinality(refused) + completed_requests
      /\ Cardinality(refused) \in Nat
  BY <1>3, RequestSets DEF IInv, Ledger, TypeOK
<1>9. (successes + errors)' = Cardinality(refused) + completed_requests'
  BY <1>4, <1>5, <1>8
<1>10. Ledger'
  BY <1>2, <1>3, <1>4, <1>6, <1>7, <1>9 DEF IInv, Ledger, TypeOK
<1>11. Pace'
  BY <1>2, <1>3, <1>4 DEF IInv, Pace, OnSchedule, Running
<1> QED BY <1>7, <1>10, <1>11 DEF IInv

LEMMA IInvNext == IInv /\ [Next]_pacedVars => IInv'
<1> SUFFICES ASSUME IInv, [Next]_pacedVars PROVE IInv'
  OBVIOUS
<1> USE Positive
<1>1. CASE Send
  <2>1. silence' \in 0 .. (Patience + 1)
    BY <1>1 DEF Send, IInv, TypeOK
  <2> QED BY <1>1, <2>1, AttemptKeeps DEF Send
<1>2. CASE SendFails
  <2>1. silence' \in 0 .. (Patience + 1)
    BY <1>2 DEF SendFails
  <2> QED BY <1>2, <2>1, AttemptKeeps DEF SendFails
<1>3. CASE Drive
  BY <1>3, DriveKeeps
<1>4. CASE Result
  BY <1>4, ResultKeeps
<1>5. CASE Tick
  <2>1. slot' \in 0 .. Scheduled /\ slot' >= slot /\ silence' \in 0 .. (Patience + 1)
    BY <1>5 DEF Tick, IInv, TypeOK
  <2>2. UNCHANGED <<protocol, pc, counts, fates>>
    BY <1>5 DEF Tick
  <2>3. TypeOK'
    BY <2>1, <2>2 DEF IInv, TypeOK, counts, fates
  <2>4. Ledger'
    BY <2>2 DEF IInv, Ledger, counts, fates
  <2>5. Pace'
    BY <2>1, <2>2 DEF IInv, TypeOK, Pace, OnSchedule, Running, counts, fates
  <2> QED BY <2>3, <2>4, <2>5 DEF IInv
<1>6. CASE SendEnds \/ Wake \/ DriveFails
  <2>1. /\ UNCHANGED <<protocol, slot, silence, counts, fates>>
        /\ Running /\ pc' \in {"send", "wait", "failed"}
    BY <1>6 DEF SendEnds, Wake, DriveFails, Running
  <2>2. TypeOK'
    BY <2>1 DEF IInv, TypeOK, counts, fates
  <2>3. Ledger'
    BY <2>1 DEF IInv, Ledger, counts, fates
  <2>4. Pace'
    BY <2>1 DEF IInv, Pace, OnSchedule, Running, counts, fates
  <2> QED BY <2>2, <2>3, <2>4 DEF IInv
<1>7. CASE UNCHANGED pacedVars
  BY <1>7 DEF IInv, TypeOK, Ledger, Pace, OnSchedule, Running, pacedVars, counts, fates
<1> QED
  BY <1>1, <1>2, <1>3, <1>4, <1>5, <1>6, <1>7 DEF Next

\* Whatever is late, blocked, refused or never answered: no request is early
\* and the row accounts for every scheduled one (rust_pps.rs:285, 326;
\* nginx_pps.rs:252).
THEOREM PacedCorrect == Safety => [](TypeOK /\ OnSchedule /\ Ledger)
<1>1. IInv => TypeOK /\ OnSchedule /\ Ledger
  BY DEF IInv, Pace
<1> QED BY <1>1, IInvInit, IInvNext, PTL DEF Safety

-----------------------------------------------------------------------------
(***************************************************************************)
(* The loop inside a trial is the loop of PacedSender.                     *)
(***************************************************************************)
LEMMA LoopRefined == [TrialNext]_trialVars => [Next]_pacedVars
<1> SUFFICES ASSUME [TrialNext]_trialVars PROVE [Next]_pacedVars
  OBVIOUS
<1>1. CASE Loop \/ LoopResult \/ LoopErrs \/ Clock
  BY <1>1 DEF Loop, LoopResult, LoopErrs, Clock, InLoop, Next
<1>2. CASE Trial
  BY <1>2 DEF Trial, StartServer, Connect, WarmUp, LoopEnds, TrialFails, StopSampler,
     JoinSampler, Close, Shutdown, ServerStopped, Become
<1>3. CASE SetupFails \/ Sampler \/ ConnectionEnds \/ ServingEnds \/ ThreadEnds
  BY <1>3 DEF SetupFails, Sampler, ConnectionEnds, ServingEnds, ThreadEnds, Become
<1>4. CASE UNCHANGED trialVars
  BY <1>4 DEF trialVars
<1> QED BY <1>1, <1>2, <1>3, <1>4 DEF TrialNext

LEMMA TrialLoop == TrialSafety => Safety
<1>1. TrialInit => Init
  BY DEF TrialInit
<1> QED BY <1>1, LoopRefined, PTL DEF TrialSafety, Safety

\* What surrounds the loop takes nothing from what is proved of it: no request
\* of a trial is early, and its row accounts for every scheduled one
\* (rust_pps.rs:285; nginx_pps.rs:252).
THEOREM TrialRow == TrialSafety => [](OnSchedule /\ Ledger)
BY TrialLoop, PacedCorrect, PTL

-----------------------------------------------------------------------------
(***************************************************************************)
(* What a trial that returns Ok leaves, and what it averages.              *)
(***************************************************************************)
Stopped == {"close", "shutdown", "stopping", "done"}

\* The sampler's books; who may still run, phase by phase.
Books ==
  /\ samples \in Nat /\ taken <= MaxSamples
  /\ taken = samples + (IF sampler = "sampled" THEN 1 ELSE 0)
  /\ peer = "own" \/ phase \in {"server", "connect"} => sampler = "none"
  /\ sampler = "none" => samples = 0
  /\ averaged \in Nat /\ averaged <= samples /\ (peer = "own" => averaged = 0)
  /\ phase \in Stopped => sampler \in {"none", "over"} /\ averaged = samples

Survivors ==
  /\ alive \subseteq {"server", "serving", "connection"}
  /\ peer \in {"own", "nginx"} /\ protocol \in Protocols
  /\ peer = "nginx" => "server" \notin alive /\ phase \notin {"server", "shutdown", "stopping"}
  /\ phase \in Stopped \ {"close"} => "connection" \notin alive
  /\ phase = "done" => "server" \notin alive

Places ==
  /\ phase \in {"server", "connect", "warmup", "run", "finish", "join", "close",
                "shutdown", "stopping", "done", "failed"}
  /\ warm \in 0 .. WarmUps
  /\ sampler \in {"none", "top", "sampling", "sampled", "over"} /\ stop \in BOOLEAN

TInv == Books /\ Survivors /\ Places

LEMMA TInvInit == TrialInit => TInv
<1>1. TrialInit => Books /\ Survivors
  BY SamplesAssumption DEF TrialInit, Init, Books, Survivors, Stopped
<1>2. ASSUME TrialInit PROVE Places
  <2>1. /\ warm = 0 /\ sampler = "none" /\ stop = FALSE
        /\ phase = "server" \/ phase = "connect"
    BY <1>2 DEF TrialInit
  <2>2. 0 \in 0 .. WarmUps
    BY DEF WarmUps
  <2> QED BY <2>1, <2>2 DEF Places
<1> QED BY <1>1, <1>2 DEF TInv

LEMMA PlacesNext ==
  ASSUME Places, [TrialNext]_trialVars
  PROVE  Places'
<1> USE DEF Places
<1>1. CASE StartServer \/ LoopEnds \/ TrialFails \/ SetupFails \/ Close \/ Shutdown
           \/ ServerStopped
  BY <1>1
  DEF StartServer, LoopEnds, TrialFails, SetupFails, Close, Shutdown, ServerStopped, Become,
      samplerVars, restVars
<1>2. CASE Connect \/ WarmUp
  BY <1>2 DEF Connect, WarmUp, WarmUps, samplerVars, restVars
<1>3. CASE StopSampler \/ JoinSampler
  BY <1>3 DEF StopSampler, JoinSampler, samplerVars
<1>4. CASE Loop \/ LoopResult \/ LoopErrs \/ Clock
  BY <1>4 DEF Loop, LoopResult, LoopErrs, Clock, InLoop, samplerVars, restVars
<1>5. CASE Sampler \/ ConnectionEnds \/ ServingEnds \/ ThreadEnds
  BY <1>5 DEF Sampler, ConnectionEnds, ServingEnds, ThreadEnds, samplerVars, restVars
<1>6. CASE UNCHANGED trialVars
  BY <1>6 DEF trialVars, samplerVars, restVars
<1> QED BY <1>1, <1>2, <1>3, <1>4, <1>5, <1>6 DEF TrialNext, Trial

LEMMA TInvNext == TInv /\ [TrialNext]_trialVars => TInv'
<1> SUFFICES ASSUME TInv, [TrialNext]_trialVars PROVE Books' /\ Survivors'
  BY PlacesNext DEF TInv
<1>0. UNCHANGED protocol
  BY LoopRefined DEF Next, Send, SendFails, Attempt, SendEnds, Drive, DriveFails, Result,
     Wake, Tick, pacedVars
<1> USE DEF TInv, Stopped
<1>1. CASE StartServer
  BY <1>0, <1>1 DEF StartServer, Become, Books, Survivors, samplerVars, restVars
<1>2. CASE Connect
  BY <1>0, <1>2 DEF Connect, Books, Survivors, restVars
<1>3. CASE WarmUp
  BY <1>0, <1>3 DEF WarmUp, Books, Survivors, samplerVars
<1>4. CASE LoopEnds
  BY <1>0, <1>4 DEF LoopEnds, Become, Books, Survivors, samplerVars, restVars
<1>5. CASE TrialFails \/ SetupFails
  BY <1>0, <1>5 DEF TrialFails, SetupFails, Become, Books, Survivors, samplerVars, restVars
<1>6. CASE StopSampler
  BY <1>0, <1>6 DEF StopSampler, Books, Survivors, samplerVars
<1>7. CASE JoinSampler
  BY <1>0, <1>7 DEF JoinSampler, SamplerJoined, Books, Survivors, samplerVars
<1>8. CASE Close
  BY <1>0, <1>8 DEF Close, Become, Books, Survivors, samplerVars, restVars
<1>9. CASE Shutdown
  BY <1>0, <1>9 DEF Shutdown, Become, Books, Survivors, samplerVars, restVars
<1>10. CASE ServerStopped
  BY <1>0, <1>10, ProtocolsAssumption
  DEF ServerStopped, ServerJoined, Become, Books, Survivors, samplerVars, restVars
<1>11. CASE Loop \/ LoopResult \/ LoopErrs \/ Clock
  <2>1. UNCHANGED <<phase, alive, samplerVars, restVars>>
    BY <1>11 DEF Loop, LoopResult, LoopErrs, Clock, InLoop
  <2> QED BY <1>0, <2>1 DEF Books, Survivors, samplerVars, restVars
<1>12. CASE Sampler
  <2>1. UNCHANGED <<peer, phase, alive, averaged>>
    BY <1>12 DEF Sampler, restVars
  <2>2. Survivors'
    BY <1>0, <2>1 DEF Survivors
  <2>3. /\ samples' \in Nat /\ taken' <= MaxSamples /\ samples <= samples'
        /\ taken' = samples' + (IF sampler' = "sampled" THEN 1 ELSE 0)
    BY <1>12, SamplesAssumption DEF Sampler, Books
  <2>4. sampler \in {"top", "sampling", "sampled"}
        /\ sampler' \in {"top", "sampling", "sampled", "over"}
    BY <1>12 DEF Sampler
  <2>5. averaged' <= samples'
    BY <2>1, <2>3 DEF Books
  <2>6. Books'
    BY <2>1, <2>3, <2>4, <2>5 DEF Books
  <2> QED BY <2>2, <2>6
<1>13. CASE ConnectionEnds \/ ServingEnds \/ ThreadEnds
  BY <1>0, <1>13 DEF ConnectionEnds, ServingEnds, ThreadEnds, Books, Survivors,
     samplerVars, restVars
<1>14. CASE UNCHANGED trialVars
  BY <1>0, <1>14 DEF trialVars, Books, Survivors, samplerVars, restVars
<1> QED
  BY <1>1, <1>2, <1>3, <1>4, <1>5, <1>6, <1>7, <1>8, <1>9, <1>10, <1>11, <1>12, <1>13,
     <1>14 DEF TrialNext, Trial

LEMMA TrialInvariant == TrialSafety => []TInv
BY TInvInit, TInvNext, PTL DEF TrialSafety

\* Every variable of a trial has its type; no row is averaged over more than
\* was sampled (rust_pps.rs:254; nginx_pps.rs:184; h2load_rate.rs:441).
THEOREM TrialTypeCorrect == TrialSafety => []TrialTypeOK
<1>1. TInv /\ TypeOK => TrialTypeOK
  <2> SUFFICES ASSUME TInv, TypeOK PROVE TrialTypeOK
    OBVIOUS
  <2>1. taken \in 0 .. MaxSamples /\ samples \in 0 .. taken /\ averaged \in 0 .. samples
    BY SamplesAssumption DEF TInv, Books
  <2> QED BY <2>1 DEF TInv, Places, Survivors, TrialTypeOK
<1> QED BY <1>1, TrialInvariant, TrialLoop, PacedCorrect, PTL

\* Whatever ends by itself: a trial that returns Ok has stopped all it started,
\* but for the serving task (rust_pps.rs:231, 333; nginx_pps.rs:221, 307).
THEOREM TrialStops == TrialSafety => []OkLeavesNothing
<1>1. TInv => OkLeavesNothing
  BY DEF TInv, Books, Survivors, Stopped, OkLeavesNothing
<1> QED BY <1>1, TrialInvariant, PTL

\* However the sampler is interleaved with the end of the trial, the row is
\* averaged over exactly what was measured (h2load_rate.rs:441, 455).
THEOREM TrialAverages == TrialSafety => []AverageExact
<1>1. TInv => AverageExact
  BY DEF TInv, Books, Stopped, AverageExact
<1> QED BY <1>1, TrialInvariant, PTL
=============================================================================
