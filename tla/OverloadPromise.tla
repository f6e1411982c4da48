-------------------------- MODULE OverloadPromise --------------------------
(***************************************************************************)
(* What one overload scenario promises, without threads, buffers, chunks   *)
(* or datagrams: requests are opened within the concurrency, each is       *)
(* judged once by the scenario's policy, served or refused accordingly,    *)
(* and closed with the outcome that belongs to the verdict; the run stops  *)
(* when all of them are closed.  (src/src/overload.rs: run_overload_       *)
(* scenario and handle_raw_server_events seen from outside.)               *)
(***************************************************************************)
EXTENDS Integers, FiniteSets, RejectPolicy

CONSTANTS Streams, Scenarios

VARIABLES
  scenario,
  phase,     \* where the request of a stream is
  result,    \* the outcome it was closed with
  stopped    \* the run is over

promiseVars == <<scenario, phase, result, stopped>>

In(p) == {s \in Streams : phase[s] = p}
Opened == Streams \ In("idle")
Judged == Opened \ In("open")

Init ==
  /\ scenario \in Scenarios
  /\ phase = [s \in Streams |-> "idle"]
  /\ result = [s \in Streams |-> "none"]
  /\ stopped = FALSE

Move(s, p) ==
  /\ phase' = [phase EXCEPT ![s] = p]
  /\ UNCHANGED <<scenario, result, stopped>>

\* The requests are opened in the order of their stream ids.
Open(s) ==
  /\ s = 4 * Cardinality(Opened)
  /\ Cardinality(Opened) < scenario.total_requests
  /\ Cardinality(Opened \ In("closed")) < scenario.concurrency
  /\ Move(s, "open")

\* The policy in one line: by position in the order of judgement, or by the
\* number of requests in service.
MustRefuse ==
  IF scenario.reject_percent > 0
  THEN should_reject_by_percent(Cardinality(Judged) + 1, scenario.reject_percent)
  ELSE Cardinality(In("serving")) >= scenario.threshold

Serve(s) == phase[s] = "open" /\ ~MustRefuse /\ Move(s, "serving")
Refuse(s) == phase[s] = "open" /\ MustRefuse /\ Move(s, "refused")
Answer(s) == phase[s] = "serving" /\ Move(s, "answered")

Due(s) ==
  IF phase[s] = "answered" THEN "Success"
  ELSE IF scenario.mode = "App503" THEN "AppRejected" ELSE "Reset"

\* Several requests may be found complete at once.
Close(closing) ==
  /\ closing # {} /\ closing \subseteq In("answered") \cup In("refused")
  /\ phase' = [s \in Streams |-> IF s \in closing THEN "closed" ELSE phase[s]]
  /\ result' = [s \in Streams |-> IF s \in closing THEN Due(s) ELSE result[s]]
  /\ UNCHANGED <<scenario, stopped>>

Stop ==
  /\ ~stopped
  /\ Cardinality(In("closed")) = scenario.total_requests
  /\ stopped' = TRUE
  /\ UNCHANGED <<scenario, phase, result>>

Next ==
  \/ \E s \in Streams : Open(s) \/ Serve(s) \/ Refuse(s) \/ Answer(s)
  \/ \E closing \in SUBSET Streams : Close(closing)
  \/ Stop

Spec == Init /\ [][Next]_promiseVars
=============================================================================
