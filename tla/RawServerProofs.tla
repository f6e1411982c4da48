-------------------------- MODULE RawServerProofs --------------------------
(***************************************************************************)
(* Theorems about RawServer, for every set of streams, every scenario and  *)
(* every response length, with and without faults and peer resets.         *)
(***************************************************************************)
EXTENDS RawServer, RejectPolicyProofs, FiniteSetTheorems, TLAPS

USE DEF minus_one, Fin

(***************************************************************************)
(* Type correctness.                                                       *)
(***************************************************************************)
LEMMA TypeInit == ServerInit => TypeOK
<1> SUFFICES ASSUME ServerInit PROVE TypeOK
  OBVIOUS
<1>1. ControlType
  BY DEF ServerInit, ControlType
<1>2. ClientType
  <2>1. stats \in StatsType
    BY DEF ServerInit, StatsType
  <2> QED BY <2>1 DEF ServerInit, ClientType
<1>3. ReceiveType
  BY DEF ServerInit, ReceiveType
<1>4. reply \in ReplyType
  BY DEF ServerInit, ReplyType, NothingSent, Texts
<1>5. flushed \in [reply : ReplyType, stop : SUBSET Streams, reset : SUBSET Streams]
  BY <1>4 DEF ServerInit, Outgoing
<1>6. pending_responses \in [Streams -> [data : Texts, written : 0 .. RespLen]]
  BY RespLenAssumption DEF ServerInit, NoResponse, Texts
<1> QED BY <1>1, <1>2, <1>3, <1>4, <1>5, <1>6 DEF TypeOK, SendType

\* Steps that move only the program counter and the loop variables.
LEMMA TypeControl ==
  ASSUME TypeOK, unchangedButControl,
         spc' \in {"top", "poll", "recv", "retry", "due1", "read", "due2", "dead"},
         todo' \in SUBSET Streams, last' \in BOOLEAN
  PROVE  TypeOK'
<1>1. ControlType'
  BY DEF TypeOK, ControlType, unchangedButControl
<1>2. ClientType'
  BY DEF TypeOK, ClientType, unchangedButControl, clientMap
<1>3. ReceiveType'
  BY DEF TypeOK, ReceiveType, unchangedButControl, recvSide
<1>4. SendType'
  BY DEF TypeOK, SendType, unchangedButControl, sendSide
<1> QED BY <1>1, <1>2, <1>3, <1>4 DEF TypeOK

LEMMA TypeSend ==
  ASSUME TypeOK, NEW s \in Streams, NEW text \in {"200", "503"},
         NEW n \in 0 .. RespLen, send_raw_response(s, text, n)
  PROVE  /\ reply' \in ReplyType
         /\ pending_responses' \in [Streams -> [data : Texts, written : 0 .. RespLen]]
<1>1. reply' \in ReplyType
  BY RespLenAssumption
  DEF TypeOK, SendType, send_raw_response, Queue, ReplyType, Texts
<1>2. pending_responses' \in [Streams -> [data : Texts, written : 0 .. RespLen]]
  BY DEF TypeOK, SendType, send_raw_response, Texts
<1> QED BY <1>1, <1>2

LEMMA StatsUpdate ==
  ASSUME NEW st \in StatsType, NEW a \in Nat, NEW p \in Nat
  PROVE  [st EXCEPT !.accepted_requests = a, !.peak_inflight = p] \in StatsType
BY DEF StatsType

LEMMA TypeRead ==
  ASSUME TypeOK, NEW s \in Streams, NEW open \in SUBSET Streams,
         NEW load \in Nat, NEW books \in StatsType,
         ReadBody(s, open, load, books)
  PROVE  /\ aborted' \in SUBSET Streams /\ streams' \in SUBSET Streams
         /\ processing_streams' \in SUBSET Streams
         /\ in_flight' \in Nat /\ stats' \in StatsType
         /\ consumed' \in [Streams -> Nat]
<1>1. CASE s \in peer_reset
  BY <1>1 DEF TypeOK, ClientType, ReceiveType, ReadBody
<1>2. CASE s \notin peer_reset
  BY <1>2 DEF TypeOK, ClientType, ReceiveType, ReadBody, StatsType
<1> QED BY <1>1, <1>2

\* One step per action, those that move control only together.
LEMMA TypeNext == TypeOK /\ ServerNext => TypeOK'
<1> SUFFICES ASSUME TypeOK, ServerNext PROVE TypeOK'
  OBVIOUS
<1> USE DEF TypeOK
<1>1. CASE Loop
  <2>1. Pending \in SUBSET Streams
    BY DEF Pending
  <2>2. CASE LoopTop
    BY <2>2, TypeControl DEF LoopTop, ControlType
  <2>3. CASE PollTimeout
    BY <2>1, <2>3, TypeControl DEF PollTimeout, EnterHandle, ControlType
  <2>4. CASE PollReadable
    BY <2>4, TypeControl DEF PollReadable, ControlType
  <2>5. CASE RecvWouldBlock
    BY <2>1, <2>5, TypeControl DEF RecvWouldBlock, EnterHandle, ControlType
  <2> QED BY <1>1, <2>2, <2>3, <2>4, <2>5 DEF Loop
<1>2. CASE Receive
  <2>1. PICK f \in Arrivals : \E R \in Resets(f) : RecvDatagram(f, R)
    BY <1>2 DEF Receive
  <2>2. PICK R \in Resets(f) : RecvDatagram(f, R)
    BY <2>1
  <2>3. f \in [Streams -> Nat]
    <3>1. scenario.payload_size \in Nat
      BY ScenariosAssumption DEF ControlType, ScenarioType
    <3> QED BY <3>1 DEF Arrivals
  <2>4. R \in SUBSET Streams
    BY DEF Resets, ReceiveType
  <2>5. ControlType'
    BY <2>2 DEF RecvDatagram, EnterHandle, Pending, ControlType
  <2>6. ClientType'
    BY <2>2 DEF RecvDatagram, ClientType, clientMap
  <2>7. ReceiveType'
    BY <2>2, <2>3, <2>4 DEF RecvDatagram, ReceiveType
  <2>8. SendType'
    BY <2>2 DEF RecvDatagram, SendType, sendSide
  <2> QED BY <2>5, <2>6, <2>7, <2>8
<1>3. CASE RetryDone \/ FirstDueDone \/ ReadDone
  BY <1>3, TypeControl
  DEF RetryDone, FirstDueDone, ReadDone, ControlType, ClientType
<1>4. CASE SecondDueDone
  <2>1. ControlType'
    BY <1>4 DEF SecondDueDone, ControlType
  <2>2. ClientType' /\ ReceiveType'
    BY <1>4 DEF SecondDueDone, ClientType, ReceiveType, clientMap, recvSide
  <2>3. SendType'
    BY <1>4 DEF SecondDueDone, SendType, ClientType, ReceiveType, sendSide, Outgoing
  <2> QED BY <2>1, <2>2, <2>3
<1>5. ASSUME NEW s \in Streams, RetryResponse(s) PROVE TypeOK'
  <2>1. ControlType' /\ ClientType' /\ ReceiveType'
    BY <1>5 DEF RetryResponse, ControlType, ClientType, ReceiveType, clientMap, recvSide
  <2>2. PICK n \in 0 .. (RespLen - pending_responses[s].written) :
          /\ Queue(s, pending_responses[s].data, n)
          /\ pending_responses' =
               [pending_responses EXCEPT ![s] =
                  IF pending_responses[s].written + n = RespLen THEN NoResponse
                  ELSE [pending_responses[s] EXCEPT !.written = @ + n]]
    BY <1>5 DEF RetryResponse, retry_raw_response
  <2>3. /\ pending_responses[s].data \in Texts
        /\ pending_responses[s].written \in 0 .. RespLen
    BY DEF SendType
  <2>4. reply' \in ReplyType
    BY <2>2, <2>3, RespLenAssumption DEF Queue, SendType, ReplyType
  <2>5. pending_responses[s].written + n \in 0 .. RespLen
    BY <2>3, RespLenAssumption
  <2>6. pending_responses' \in [Streams -> [data : Texts, written : 0 .. RespLen]]
    BY <2>2, <2>3, <2>5, RespLenAssumption DEF SendType, NoResponse, Texts
  <2>7. UNCHANGED flushed
    BY <1>5 DEF RetryResponse
  <2> QED BY <2>1, <2>4, <2>6, <2>7 DEF SendType
<1>6. ASSUME NEW s \in Streams, FinishStream(s) PROVE TypeOK'
  <2>1. ControlType' /\ ReceiveType'
    BY <1>6 DEF FinishStream, ControlType, ReceiveType, recvSide
  <2>2. ClientType'
    BY <1>6 DEF FinishStream, finish_raw_server_stream, ClientType, StatsType
  <2>3. SendType'
    <3>1. CASE s \in streams
      BY <1>6, <3>1, TypeSend DEF FinishStream, finish_raw_server_stream, SendType
    <3>2. CASE s \notin streams
      BY <1>6, <3>2 DEF FinishStream, finish_raw_server_stream, SendType, sendSide
    <3> QED BY <3>1, <3>2
  <2> QED BY <2>1, <2>2, <2>3
<1>8. ASSUME NEW s \in Streams, RejectApp503(s) PROVE TypeOK'
  <2>1. ControlType' /\ ReceiveType'
    BY <1>8 DEF RejectApp503, FirstSight, Visit, ControlType, ReceiveType
  <2>2. ClientType'
    BY <1>8 DEF RejectApp503, FirstSight, Visit, ClientType, StatsType
  <2>3. SendType'
    BY <1>8, TypeSend DEF RejectApp503, SendType
  <2> QED BY <2>1, <2>2, <2>3
<1>9. ASSUME NEW s \in Streams, RejectReset(s) \/ RejectApp503Fails(s) PROVE TypeOK'
  <2>1. ControlType' /\ ReceiveType'
    BY <1>9 DEF RejectReset, RejectApp503Fails, FirstSight, Visit, ControlType, ReceiveType
  <2>2. ClientType'
    BY <1>9 DEF RejectReset, RejectApp503Fails, FirstSight, Visit, ClientType, StatsType
  <2>3. SendType'
    BY <1>9 DEF RejectReset, RejectApp503Fails, SendType, sendSide
  <2> QED BY <2>1, <2>2, <2>3
<1>10. ASSUME NEW s \in Streams, AcceptStream(s) PROVE TypeOK'
  <2> DEFINE peak == IF stats.peak_inflight > in_flight THEN stats.peak_inflight
                     ELSE in_flight + 1
             books == [stats EXCEPT !.accepted_requests = @ + 1,
                                    !.peak_inflight = peak]
  <2>1. books \in StatsType
    <3>1. peak \in Nat
      BY DEF ClientType, StatsType
    <3>2. stats \in StatsType /\ stats.accepted_requests + 1 \in Nat
      BY DEF ClientType, StatsType
    <3> HIDE DEF peak
    <3> QED BY <3>1, <3>2, StatsUpdate
  <2>2. ReadBody(s, streams \cup {s}, in_flight + 1, books)
    BY <1>10 DEF AcceptStream
  <2>3. streams \cup {s} \in SUBSET Streams /\ in_flight + 1 \in Nat
    BY DEF ClientType
  <2> HIDE DEF books
  <2>4. /\ aborted' \in SUBSET Streams /\ streams' \in SUBSET Streams
        /\ processing_streams' \in SUBSET Streams
        /\ in_flight' \in Nat /\ stats' \in StatsType
        /\ consumed' \in [Streams -> Nat]
    BY <2>1, <2>2, <2>3, TypeRead
  <2>5. ControlType' /\ SendType'
    BY <1>10 DEF AcceptStream, FirstSight, Visit, ControlType, SendType, sendSide
  <2>6. /\ seen_requests' = seen_requests + 1
        /\ verdict' = [verdict EXCEPT ![s] = "accept"]
        /\ UNCHANGED <<has_client, reset_streams, arrived, peer_reset, read_shut>>
    BY <1>10 DEF AcceptStream, FirstSight, Visit
  <2>7. ClientType'
    BY <2>4, <2>6 DEF ClientType
  <2>8. ReceiveType'
    BY <2>4, <2>6 DEF ReceiveType
  <2> QED BY <2>5, <2>7, <2>8
<1>11. ASSUME NEW s \in Streams, ReadMore(s) PROVE TypeOK'
  <2>1. /\ aborted' \in SUBSET Streams /\ streams' \in SUBSET Streams
        /\ processing_streams' \in SUBSET Streams
        /\ in_flight' \in Nat /\ stats' \in StatsType
        /\ consumed' \in [Streams -> Nat]
    BY <1>11, TypeRead DEF ReadMore, ClientType
  <2>2. ControlType' /\ SendType'
    BY <1>11 DEF ReadMore, Visit, ControlType, SendType, sendSide
  <2>3. ClientType' /\ ReceiveType'
    BY <1>11, <2>1 DEF ReadMore, Visit, ClientType, ReceiveType
  <2> QED BY <2>2, <2>3
<1>12. ASSUME NEW s \in Streams, FinishStreamFails(s) PROVE TypeOK'
  <2>1. ControlType' /\ ReceiveType' /\ SendType'
    BY <1>12 DEF FinishStreamFails, ControlType, ReceiveType, SendType, recvSide, sendSide
  <2>2. ClientType'
    BY <1>12 DEF FinishStreamFails, ClientType, StatsType
  <2> QED BY <2>1, <2>2
<1>16. ASSUME NEW s \in Streams, AcceptStreamFails(s) PROVE TypeOK'
  <2> DEFINE peak == IF stats.peak_inflight > in_flight THEN stats.peak_inflight
                     ELSE in_flight + 1
             books == [stats EXCEPT !.accepted_requests = @ + 1,
                                    !.peak_inflight = peak]
  <2>1. ControlType' /\ ReceiveType' /\ SendType'
    BY <1>16
    DEF AcceptStreamFails, FirstSight, Visit, ControlType, ReceiveType, SendType,
        recvSide, sendSide
  <2>2. stats' = books
    BY <1>16 DEF AcceptStreamFails
  <2>3. peak \in Nat /\ stats \in StatsType /\ stats.accepted_requests + 1 \in Nat
    BY DEF ClientType, StatsType
  <2>4. /\ streams' \in SUBSET Streams /\ in_flight' \in Nat
        /\ seen_requests' \in Nat
        /\ UNCHANGED <<has_client, reset_streams, processing_streams>>
    BY <1>16 DEF AcceptStreamFails, FirstSight, Visit, ClientType
  <2> HIDE DEF peak
  <2>5. stats' \in StatsType
    BY <2>2, <2>3, StatsUpdate
  <2>6. ClientType'
    BY <2>4, <2>5 DEF ClientType
  <2> QED BY <2>1, <2>6
<1>13. CASE LoopFails \/ HandleFails
  BY <1>13, TypeControl DEF LoopFails, HandleFails, ControlType
<1>14. CASE RequestShutdown
  BY <1>14
  DEF RequestShutdown, control, ControlType, ClientType, ReceiveType, SendType,
      clientMap, recvSide, sendSide
<1>15. CASE UNCHANGED serverVars
  BY <1>15
  DEF serverVars, control, ControlType, ClientType, ReceiveType, SendType,
      clientMap, recvSide, sendSide
<1> QED
  BY <1>1, <1>2, <1>3, <1>4, <1>5, <1>6, <1>8, <1>9, <1>10, <1>11, <1>12,
     <1>13, <1>14, <1>15, <1>16
  DEF ServerNext, Handler, Failure, Ended

\* The state of the server thread is well typed in every reachable state of
\* every instance.
THEOREM TypeCorrect == ServerSafety => []TypeOK
<1>1. TypeOK /\ UNCHANGED serverVars => TypeOK'
  BY DEF TypeOK, serverVars, control, ControlType, ClientType, ReceiveType,
         SendType, clientMap, recvSide, sendSide
<1> QED BY <1>1, TypeInit, TypeNext, PTL DEF ServerSafety

(***************************************************************************)
(* The life of a stream.                                                   *)
(***************************************************************************)
LEMMA ScenarioFacts ==
  ASSUME TypeOK
  PROVE  /\ scenario.payload_size \in Nat \ {0}
         /\ scenario.threshold \in Nat \ {0}
         /\ scenario.reject_percent \in Percents
         /\ scenario.mode \in {"App503", "Reset"}
<1>1. scenario \in ScenarioType
  BY ScenariosAssumption DEF TypeOK, ControlType
<1> QED BY <1>1 DEF ScenarioType

LEMMA LifecycleInit == ServerInit => Lifecycle
<1> SUFFICES ASSUME ServerInit PROVE Lifecycle
  OBVIOUS
<1>1. Accepted = {} /\ Rejected = {}
  BY DEF ServerInit, Accepted, Rejected
<1>2. scenario.payload_size \in Nat \ {0}
  BY TypeInit, ScenarioFacts
<1> QED BY <1>1, <1>2 DEF ServerInit, Lifecycle

\* A stream visited for the first time has not been judged: a refused one is
\* shut for reading, an accepted one outside the maps is read to its end.
LEMMA FirstSightIsFresh ==
  ASSUME TypeOK, Lifecycle, NEW s \in Streams, FirstSight(s)
  PROVE  /\ verdict[s] = "none"
         /\ Readable(s)
         /\ s \notin Accepted /\ s \notin Rejected
         /\ s \notin streams /\ s \notin processing_streams /\ s \notin aborted
<1>1. s \in todo /\ spc = "read" /\ s \notin streams
  BY DEF FirstSight, Visit
<1>2. Readable(s)
  BY <1>1 DEF Lifecycle
<1>3. s \notin Rejected
  BY <1>2 DEF Readable, Lifecycle
<1>4. s \notin Accepted
  <2>1. SUFFICES ASSUME s \in Accepted PROVE FALSE
    OBVIOUS
  <2>2. consumed[s] = scenario.payload_size
    BY <1>1, <1>2, <2>1 DEF Lifecycle, Readable
  <2>3. arrived[s] = consumed[s] /\ s \notin peer_reset
    BY <2>2, ScenarioFacts DEF Lifecycle, TypeOK, ReceiveType
  <2> QED BY <1>2, <2>3, ScenarioFacts DEF Readable, TypeOK, ReceiveType
<1> QED
  BY <1>1, <1>2, <1>3, <1>4
  DEF Accepted, Rejected, Lifecycle, TypeOK, ReceiveType

\* Steps that leave the maps and the quiche state alone.
LEMMA LifecycleControl ==
  ASSUME TypeOK, Lifecycle,
         UNCHANGED <<scenario, streams, reset_streams, processing_streams,
                     arrived, consumed, peer_reset, aborted, read_shut, verdict>>,
         \/ spc' \notin {"due1", "due2", "read"}
         \/ spc' \in {"due1", "due2"} /\ todo' \subseteq processing_streams
         \/ spc' = "read" /\ \A s \in todo' : Readable(s)
  PROVE  Lifecycle'
BY DEF Lifecycle, Accepted, Rejected, Readable

\* Refusing s: verdict and read side together, the reset map only in Reset mode.
LEMMA LifecycleReject ==
  ASSUME TypeOK, Lifecycle, NEW s \in Streams, FirstSight(s),
         verdict' = [verdict EXCEPT ![s] = "reject"],
         read_shut' = read_shut \cup {s},
         reset_streams' = IF scenario.mode = "Reset" THEN reset_streams \cup {s}
                          ELSE reset_streams,
         spc' \in {spc, "dead"},
         UNCHANGED <<streams, processing_streams, arrived, consumed, peer_reset,
                     aborted>>
  PROVE  Lifecycle'
<1>1. verdict[s] = "none" /\ spc = "read" /\ todo' = todo \ {s} /\ scenario' = scenario
  BY FirstSightIsFresh DEF FirstSight, Visit
<1>2. Accepted' = Accepted /\ Rejected' = Rejected \cup {s}
  BY <1>1 DEF Accepted, Rejected, TypeOK, ReceiveType
<1>3. spc' = "read" => \A r \in todo' : Readable(r)'
  BY <1>1 DEF Lifecycle, Readable, TypeOK, ControlType
<1> QED BY <1>1, <1>2, <1>3 DEF Lifecycle

\* Reading s, when its verdict is (or just became) to accept.
LEMMA LifecycleRead ==
  ASSUME TypeOK, Lifecycle, NEW s \in Streams, spc = "read", s \in todo,
         s \notin Handled,
         NEW load, NEW books, ReadBody(s, streams \cup {s}, load, books),
         s \in streams \/ (s \notin Accepted /\ s \notin Rejected),
         verdict' = [verdict EXCEPT ![s] = "accept"],
         todo' = todo \ {s},
         UNCHANGED <<scenario, spc, reset_streams, arrived, peer_reset, read_shut>>
  PROVE  Lifecycle'
<1>1. Readable(s) /\ s \notin aborted /\ s \notin read_shut /\ s \notin processing_streams
  BY DEF Lifecycle, Readable, Handled
<1>2. Accepted' = Accepted \cup {s} /\ Rejected' = Rejected
  BY <1>1 DEF Accepted, Rejected, TypeOK, ReceiveType, Lifecycle
<1>3. \A r \in Streams : consumed[r] \in Nat /\ arrived[r] \in Nat
  BY DEF TypeOK, ReceiveType
<1>4. CASE s \in peer_reset
  <2>1. /\ aborted' = aborted \cup {s} /\ streams' = streams \ {s}
        /\ UNCHANGED <<consumed, processing_streams>>
    BY <1>4 DEF ReadBody
  <2>2. \A r \in todo' : Readable(r)'
    BY <2>1 DEF Lifecycle, Readable
  <2> QED BY <1>1, <1>2, <1>3, <1>4, <2>1, <2>2 DEF Lifecycle
<1>5. CASE s \notin peer_reset
  <2>1. /\ consumed' = [consumed EXCEPT ![s] = arrived[s]]
        /\ processing_streams' = IF arrived[s] = scenario.payload_size
                                 THEN processing_streams \cup {s}
                                 ELSE processing_streams
        /\ streams' = streams \cup {s} /\ UNCHANGED aborted
    BY <1>5 DEF ReadBody
  <2>2. \A r \in todo' : Readable(r)'
    BY <2>1 DEF Lifecycle, Readable, TypeOK, ReceiveType, ControlType
  <2>3. \A r \in Streams : consumed'[r] = IF r = s THEN arrived[s] ELSE consumed[r]
    BY <2>1 DEF TypeOK, ReceiveType
  <2> HIDE DEF Readable
  <2>4. /\ processing_streams' \subseteq streams' /\ streams' \subseteq Accepted'
        /\ aborted' \subseteq (Accepted' \cap peer_reset') \ streams'
    BY <1>1, <1>2, <2>1 DEF Lifecycle
  <2>5. read_shut' = Rejected'
        /\ reset_streams' = IF scenario'.mode = "Reset" THEN Rejected' ELSE {}
    BY <1>2 DEF Lifecycle
  <2>6. \A r \in Streams :
          /\ consumed'[r] <= arrived'[r] /\ arrived'[r] <= scenario'.payload_size
          /\ r \in peer_reset' => arrived'[r] < scenario'.payload_size
          /\ r \notin Accepted' => consumed'[r] = 0
    BY <1>2, <1>3, <2>3 DEF Lifecycle
  <2>7. ASSUME NEW r \in Streams,
               r \in processing_streams' \/ r \in Accepted' \ (streams' \cup aborted')
        PROVE  consumed'[r] = scenario'.payload_size
    BY <1>1, <1>2, <2>1, <2>3, <2>7 DEF Lifecycle
  <2> QED BY <2>2, <2>4, <2>5, <2>6, <2>7 DEF Lifecycle
<1> QED BY <1>4, <1>5

LEMMA LifecycleNext == TypeOK /\ Lifecycle /\ ServerNext => Lifecycle'
<1> SUFFICES ASSUME TypeOK, Lifecycle, ServerNext PROVE Lifecycle'
  OBVIOUS
<1>1. CASE Loop
  BY <1>1, LifecycleControl
  DEF Loop, LoopTop, PollTimeout, PollReadable, RecvWouldBlock, EnterHandle,
      unchangedButControl, clientMap, recvSide
<1>2. CASE Receive
  <2>1. PICK f \in Arrivals : \E R \in Resets(f) : RecvDatagram(f, R)
    BY <1>2 DEF Receive
  <2>2. PICK R \in Resets(f) : RecvDatagram(f, R)
    BY <2>1
  <2>3. /\ arrived' = f /\ peer_reset' = R /\ spc' = "retry"
        /\ UNCHANGED <<scenario, streams, reset_streams, processing_streams,
                       consumed, aborted, read_shut, verdict>>
    BY <2>2 DEF RecvDatagram, EnterHandle, clientMap
  <2>4. \A s \in Streams :
          /\ f[s] \in Nat /\ consumed[s] \in Nat /\ arrived[s] \in Nat
          /\ arrived[s] <= f[s] /\ f[s] <= scenario.payload_size
          /\ s \in peer_reset => f[s] = arrived[s]
    BY ScenarioFacts DEF Arrivals, TypeOK, ReceiveType
  <2>5. peer_reset \subseteq R
        /\ \A s \in Streams : s \in R \ peer_reset => f[s] < scenario.payload_size
    BY DEF Resets
  <2>6. Accepted' = Accepted /\ Rejected' = Rejected
    BY <2>3 DEF Accepted, Rejected
  <2>7. \A s \in Streams :
          /\ consumed[s] <= f[s] /\ f[s] <= scenario.payload_size
          /\ s \in R => f[s] < scenario.payload_size
    BY <2>4, <2>5, ScenarioFacts DEF Lifecycle
  <2> QED BY <2>3, <2>5, <2>6, <2>7 DEF Lifecycle
<1>3. CASE RetryDone \/ FirstDueDone \/ ReadDone
  BY <1>3, LifecycleControl
  DEF RetryDone, FirstDueDone, ReadDone, unchangedButControl, clientMap, recvSide
<1>4. CASE SecondDueDone
  BY <1>4, LifecycleControl DEF SecondDueDone, clientMap, recvSide
<1>5. ASSUME NEW s \in Streams, RetryResponse(s) PROVE Lifecycle'
  BY <1>5, LifecycleControl DEF RetryResponse, clientMap, recvSide
<1>6. ASSUME NEW s \in Streams, FinishStream(s) \/ FinishStreamFails(s)
      PROVE  Lifecycle'
  <2>1. /\ s \in todo /\ spc \in {"due1", "due2"} /\ s \in streams
        /\ s \in processing_streams /\ s \in Accepted
    BY <1>6 DEF FinishStream, FinishStreamFails, Lifecycle
  <2>2. /\ processing_streams' = processing_streams \ {s}
        /\ streams' = streams \ {s}
        /\ UNCHANGED <<scenario, reset_streams, recvSide, verdict>>
        /\ spc' = "dead" \/ (spc' = spc /\ todo' = todo \ {s})
    BY <1>6, <2>1 DEF FinishStream, FinishStreamFails, finish_raw_server_stream
  <2>3. Accepted' = Accepted /\ Rejected' = Rejected
    BY <2>2 DEF Accepted, Rejected
  <2> QED BY <2>1, <2>2, <2>3 DEF Lifecycle, recvSide
<1>8. ASSUME NEW s \in Streams, RejectApp503(s) \/ RejectApp503Fails(s)
      PROVE  Lifecycle'
  BY <1>8, LifecycleReject
  DEF RejectApp503, RejectApp503Fails, FirstSight, Visit
<1>9. ASSUME NEW s \in Streams, RejectReset(s) PROVE Lifecycle'
  BY <1>9, LifecycleReject DEF RejectReset, FirstSight, Visit
<1>10. ASSUME NEW s \in Streams, AcceptStream(s) PROVE Lifecycle'
  <2>1. s \notin Accepted /\ s \notin Rejected
    BY <1>10, FirstSightIsFresh DEF AcceptStream
  <2> QED BY <1>10, <2>1, LifecycleRead DEF AcceptStream, FirstSight, Visit
<1>11. ASSUME NEW s \in Streams, ReadMore(s) PROVE Lifecycle'
  <2>1. streams \cup {s} = streams /\ s \in streams
    BY <1>11 DEF ReadMore
  <2>2. verdict' = [verdict EXCEPT ![s] = "accept"]
    BY <1>11, <2>1 DEF ReadMore, Lifecycle, Accepted, TypeOK, ReceiveType
  <2>3. ReadBody(s, streams \cup {s}, in_flight, stats)
    BY <1>11, <2>1 DEF ReadMore
  <2> QED BY <1>11, <2>1, <2>2, <2>3, LifecycleRead DEF ReadMore, Visit
<1>14. ASSUME NEW s \in Streams, AcceptStreamFails(s) PROVE Lifecycle'
  <2>1. s \notin Accepted /\ s \notin Rejected
    BY <1>14, FirstSightIsFresh DEF AcceptStreamFails
  <2>2. /\ verdict' = [verdict EXCEPT ![s] = "accept"]
        /\ streams' = streams \cup {s} /\ spc' = "dead"
        /\ UNCHANGED <<scenario, reset_streams, processing_streams, recvSide>>
    BY <1>14 DEF AcceptStreamFails, FirstSight, Visit
  <2>3. Accepted' = Accepted \cup {s} /\ Rejected' = Rejected
    BY <2>1, <2>2 DEF Accepted, Rejected, TypeOK, ReceiveType
  <2> QED BY <2>1, <2>2, <2>3 DEF Lifecycle, recvSide
<1>12. CASE LoopFails \/ HandleFails
  BY <1>12, LifecycleControl
  DEF LoopFails, HandleFails, unchangedButControl, clientMap, recvSide
<1>13. CASE RequestShutdown \/ Ended
  BY <1>13
  DEF RequestShutdown, Ended, serverVars, control, clientMap, recvSide,
      Lifecycle, Accepted, Rejected, Readable
<1> QED
  BY <1>1, <1>2, <1>3, <1>4, <1>5, <1>6, <1>8, <1>9, <1>10, <1>11, <1>12,
     <1>13, <1>14
  DEF ServerNext, Handler, Failure

\* The maps, the verdicts and the read sides of the streams agree in every
\* reachable state.
THEOREM LifecycleCorrect == ServerSafety => []Lifecycle
<1>1. TypeOK /\ Lifecycle /\ [ServerNext]_serverVars => Lifecycle'
  <2>1. Lifecycle /\ UNCHANGED serverVars => Lifecycle'
    BY DEF serverVars, control, clientMap, recvSide, Lifecycle, Accepted,
           Rejected, Readable
  <2> QED BY <2>1, LifecycleNext
<1> QED BY <1>1, LifecycleInit, TypeCorrect, PTL DEF ServerSafety

\* In either mode, no unit of a refused request is ever read.
THEOREM RejectedNeverReadCorrect == ServerSafety => []RejectedNeverRead
<1>1. TypeOK /\ Lifecycle => RejectedNeverRead
  BY DEF Lifecycle, RejectedNeverRead, Accepted, Rejected
<1> QED BY <1>1, LifecycleCorrect, TypeCorrect, PTL

(***************************************************************************)
(* The counters.                                                           *)
(***************************************************************************)
LEMMA Card ==
  ASSUME NEW S \in SUBSET Streams
  PROVE  /\ Cardinality(S) \in Nat
         /\ \A s \in Streams \ S : Cardinality(S \cup {s}) = Cardinality(S) + 1
         /\ \A s \in S : Cardinality(S \ {s}) = Cardinality(S) - 1 /\ Cardinality(S) > 0
<1>1. IsFiniteSet(S)
  BY StreamsAssumption, FS_Subset
<1>2. Cardinality(S) \in Nat
  BY <1>1, FS_CardinalityType
<1>3. ASSUME NEW s \in Streams \ S PROVE Cardinality(S \cup {s}) = Cardinality(S) + 1
  BY <1>1, FS_AddElement
<1>4. ASSUME NEW s \in S PROVE Cardinality(S \ {s}) = Cardinality(S) - 1 /\ Cardinality(S) > 0
  <2>1. Cardinality(S \ {s}) = Cardinality(S) - 1
    BY <1>1, FS_RemoveElement
  <2>2. Cardinality(S \ {s}) \in Nat
    BY <1>1, FS_RemoveElement, FS_CardinalityType
  <2> QED BY <1>2, <2>1, <2>2
<1> QED BY <1>2, <1>3, <1>4

LEMMA VerdictSets == Accepted \in SUBSET Streams /\ Rejected \in SUBSET Streams
BY DEF Accepted, Rejected

LEMMA CountsInit == ServerInit => Counts
<1> SUFFICES ASSUME ServerInit PROVE Counts
  OBVIOUS
<1>1. Accepted = {} /\ Rejected = {}
  BY DEF ServerInit, Accepted, Rejected
<1> QED
  BY <1>1, FS_EmptySet
  DEF ServerInit, Counts, InflightExact, JudgedOnce, AcceptedAccounted, Rejections

LEMMA CountsSame ==
  ASSUME Counts,
         UNCHANGED <<streams, in_flight, seen_requests, stats, aborted, verdict>>
  PROVE  Counts'
BY DEF Counts, InflightExact, JudgedOnce, AcceptedAccounted, Rejections, Accepted,
       Rejected

\* One more refusal, counted under either heading.
LEMMA CountsReject ==
  ASSUME TypeOK, Lifecycle, Counts, NEW s \in Streams, FirstSight(s),
         verdict' = [verdict EXCEPT ![s] = "reject"],
         \/ stats' = [stats EXCEPT !.app_rejections = @ + 1]
         \/ stats' = [stats EXCEPT !.reset_rejections = @ + 1],
         UNCHANGED <<streams, in_flight, aborted>>
  PROVE  Counts'
<1>1. Accepted' = Accepted /\ Rejected' = Rejected \cup {s}
  BY FirstSightIsFresh DEF Accepted, Rejected, TypeOK, ReceiveType
<1>2. Cardinality(Rejected') = Cardinality(Rejected) + 1
  BY <1>1, FirstSightIsFresh, VerdictSets, Card
<1>3. seen_requests' = seen_requests + 1
  BY DEF FirstSight
<1>4. /\ stats'.accepted_requests = stats.accepted_requests
      /\ stats'.successful_requests = stats.successful_requests
      /\ Rejections' = Rejections + 1
  BY DEF Rejections, TypeOK, ClientType, StatsType
<1>5. Cardinality(Accepted) \in Nat /\ Cardinality(Rejected) \in Nat
  BY VerdictSets, Card
<1>6. InflightExact' /\ AcceptedAccounted'
  BY <1>4 DEF Counts, InflightExact, AcceptedAccounted
<1>7. JudgedOnce'
  BY <1>1, <1>2, <1>3, <1>4, <1>5 DEF Counts, JudgedOnce
<1> QED BY <1>6, <1>7 DEF Counts

\* Reading an accepted stream moves it out of flight only by abandoning it.
LEMMA CountsRead ==
  ASSUME TypeOK, NEW s \in Streams, s \notin aborted,
         NEW open \in SUBSET Streams, s \in open, NEW load, load = Cardinality(open),
         NEW books \in StatsType, ReadBody(s, open, load, books)
  PROVE  /\ in_flight' = Cardinality(streams')
         /\ in_flight' + Cardinality(aborted') = load + Cardinality(aborted)
         /\ stats'.accepted_requests = books.accepted_requests
         /\ stats'.successful_requests = books.successful_requests
         /\ stats'.app_rejections = books.app_rejections
         /\ stats'.reset_rejections = books.reset_rejections
         /\ stats'.peak_inflight = books.peak_inflight
         /\ in_flight' \in Nat /\ in_flight' <= load
<1>1. aborted \in SUBSET Streams
  BY DEF TypeOK, ReceiveType
<1>2. /\ Cardinality(open) \in Nat /\ Cardinality(open) > 0
      /\ Cardinality(open \ {s}) = Cardinality(open) - 1
      /\ Cardinality(aborted) \in Nat
      /\ Cardinality(aborted \cup {s}) = Cardinality(aborted) + 1
  BY <1>1, Card
<1>3. CASE s \in peer_reset
  <2>1. /\ aborted' = aborted \cup {s} /\ streams' = open \ {s} /\ stats' = books
        /\ in_flight' = IF load = 0 THEN 0 ELSE load - 1
    BY <1>3 DEF ReadBody
  <2>2. in_flight' = load - 1
    BY <1>2, <2>1
  <2> QED BY <1>2, <2>1, <2>2
<1>4. CASE s \notin peer_reset
  <2>1. /\ streams' = open /\ in_flight' = load /\ UNCHANGED aborted
        /\ stats' = [books EXCEPT !.bytes_read = @ + arrived[s] - consumed[s]]
    BY <1>4 DEF ReadBody
  <2>2. /\ stats'.accepted_requests = books.accepted_requests
        /\ stats'.successful_requests = books.successful_requests
        /\ stats'.app_rejections = books.app_rejections
        /\ stats'.reset_rejections = books.reset_rejections
        /\ stats'.peak_inflight = books.peak_inflight
    BY <2>1 DEF StatsType
  <2> QED BY <1>2, <2>1, <2>2
<1> QED BY <1>3, <1>4

LEMMA CountsFinish ==
  ASSUME TypeOK, Counts, NEW s \in streams,
         streams' = streams \ {s},
         in_flight' = IF in_flight = 0 THEN 0 ELSE in_flight - 1,
         stats' = [stats EXCEPT !.successful_requests = @ + 1],
         UNCHANGED <<seen_requests, aborted, verdict>>
  PROVE  Counts'
<1>1. /\ Cardinality(streams) \in Nat /\ Cardinality(streams) > 0
      /\ Cardinality(streams \ {s}) = Cardinality(streams) - 1
  BY Card DEF TypeOK, ClientType
<1>2. /\ stats'.accepted_requests = stats.accepted_requests
      /\ stats'.successful_requests = stats.successful_requests + 1
      /\ Rejections' = Rejections
      /\ stats.successful_requests \in Nat
  BY DEF Rejections, TypeOK, ClientType, StatsType
<1>3. Cardinality(aborted) \in Nat
  BY Card DEF TypeOK, ReceiveType
<1>4. Accepted' = Accepted /\ Rejected' = Rejected
  BY DEF Accepted, Rejected
<1>5. in_flight' = in_flight - 1 /\ in_flight \in Nat
  BY <1>1 DEF Counts, InflightExact
<1>6. InflightExact'
  BY <1>1, <1>5 DEF Counts, InflightExact
<1>7. AcceptedAccounted'
  BY <1>2, <1>3, <1>5 DEF Counts, AcceptedAccounted
<1>8. JudgedOnce'
  BY <1>2, <1>4 DEF Counts, JudgedOnce
<1> QED BY <1>6, <1>7, <1>8 DEF Counts

\* What accepting a stream, whether it can then be read or not, and reading
\* on do to the books, in terms of CountsRead.
LEMMA AcceptReads ==
  ASSUME TypeOK, Lifecycle, InflightExact, NEW s \in Streams,
         AcceptStream(s) \/ AcceptStreamFails(s)
  PROVE  /\ in_flight' = Cardinality(streams')
         /\ in_flight' + Cardinality(aborted') = in_flight + 1 + Cardinality(aborted)
         /\ stats'.accepted_requests = stats.accepted_requests + 1
         /\ stats'.successful_requests = stats.successful_requests
         /\ Rejections' = Rejections
         /\ stats'.peak_inflight = IF stats.peak_inflight > in_flight
                                   THEN stats.peak_inflight ELSE in_flight + 1
         /\ in_flight' \in Nat /\ in_flight' <= in_flight + 1
         /\ seen_requests' = seen_requests + 1
         /\ Accepted' = Accepted \cup {s} /\ s \notin Accepted
         /\ Rejected' = Rejected
<1> DEFINE peak == IF stats.peak_inflight > in_flight THEN stats.peak_inflight
                   ELSE in_flight + 1
           books == [stats EXCEPT !.accepted_requests = @ + 1, !.peak_inflight = peak]
           open == streams \cup {s}
<1>1. /\ s \notin aborted /\ s \notin streams /\ s \notin Accepted /\ verdict[s] = "none"
  BY FirstSightIsFresh DEF AcceptStream, AcceptStreamFails
<1>2. Cardinality(open) = in_flight + 1 /\ open \in SUBSET Streams /\ s \in open
  BY <1>1, Card DEF InflightExact, TypeOK, ClientType
<1>3. stats \in StatsType /\ stats.accepted_requests + 1 \in Nat /\ peak \in Nat
  BY DEF TypeOK, ClientType, StatsType
<1>4. \/ ReadBody(s, open, in_flight + 1, books)
      \/ /\ streams' = open /\ in_flight' = in_flight + 1
         /\ stats' = books /\ aborted' = aborted
  BY DEF AcceptStream, AcceptStreamFails, recvSide
<1> HIDE DEF peak
<1>5. books \in StatsType
  BY <1>3, StatsUpdate
<1>6. /\ books.accepted_requests = stats.accepted_requests + 1
      /\ books.successful_requests = stats.successful_requests
      /\ books.app_rejections = stats.app_rejections
      /\ books.reset_rejections = stats.reset_rejections
      /\ books.peak_inflight = peak
  BY <1>3 DEF StatsType
<1> HIDE DEF books, open
<1>7. /\ in_flight' = Cardinality(streams')
      /\ in_flight' + Cardinality(aborted') = in_flight + 1 + Cardinality(aborted)
      /\ stats'.accepted_requests = books.accepted_requests
      /\ stats'.successful_requests = books.successful_requests
      /\ stats'.app_rejections = books.app_rejections
      /\ stats'.reset_rejections = books.reset_rejections
      /\ stats'.peak_inflight = books.peak_inflight
      /\ in_flight' \in Nat /\ in_flight' <= in_flight + 1
  <2>1. in_flight + 1 = Cardinality(open)
    BY <1>2
  <2>2. CASE ReadBody(s, open, in_flight + 1, books)
    BY <1>1, <1>2, <1>5, <2>1, <2>2, CountsRead
  <2>3. CASE /\ streams' = open /\ in_flight' = in_flight + 1
             /\ stats' = books /\ aborted' = aborted
    BY <2>1, <2>3 DEF TypeOK, ClientType
  <2> QED BY <1>4, <2>2, <2>3
<1>8. seen_requests' = seen_requests + 1 /\ verdict' = [verdict EXCEPT ![s] = "accept"]
  BY DEF AcceptStream, AcceptStreamFails, FirstSight
<1>9. Accepted' = Accepted \cup {s} /\ Rejected' = Rejected
  BY <1>1, <1>8 DEF Accepted, Rejected, TypeOK, ReceiveType
<1> QED BY <1>1, <1>6, <1>7, <1>8, <1>9 DEF Rejections, peak

LEMMA MoreReads ==
  ASSUME TypeOK, Lifecycle, InflightExact, NEW s \in Streams, ReadMore(s)
  PROVE  /\ in_flight' = Cardinality(streams')
         /\ in_flight' + Cardinality(aborted') = in_flight + Cardinality(aborted)
         /\ stats'.accepted_requests = stats.accepted_requests
         /\ stats'.successful_requests = stats.successful_requests
         /\ Rejections' = Rejections
         /\ stats'.peak_inflight = stats.peak_inflight
         /\ in_flight' \in Nat /\ in_flight' <= in_flight
         /\ UNCHANGED <<seen_requests, verdict>>
<1>1. s \in streams /\ s \notin aborted
  BY DEF ReadMore, Lifecycle
<1>2. in_flight = Cardinality(streams) /\ stats \in StatsType /\ streams \in SUBSET Streams
  BY DEF InflightExact, TypeOK, ClientType
<1>3. ReadBody(s, streams, in_flight, stats) /\ UNCHANGED <<seen_requests, verdict>>
  BY DEF ReadMore
<1> QED BY <1>1, <1>2, <1>3, CountsRead DEF Rejections

LEMMA CountsNext == TypeOK /\ Lifecycle /\ Counts /\ ServerNext => Counts'
<1> SUFFICES ASSUME TypeOK, Lifecycle, Counts, ServerNext PROVE Counts'
  OBVIOUS
<1>1. CASE Loop \/ Receive
  BY <1>1, CountsSame
  DEF Loop, LoopTop, PollTimeout, PollReadable, RecvWouldBlock, Receive,
      RecvDatagram, unchangedButControl, clientMap, recvSide
<1>2. CASE RetryDone \/ FirstDueDone \/ ReadDone \/ SecondDueDone
  BY <1>2, CountsSame
  DEF RetryDone, FirstDueDone, ReadDone, SecondDueDone, unchangedButControl,
      clientMap, recvSide
<1>3. ASSUME NEW s \in Streams, RetryResponse(s) PROVE Counts'
  BY <1>3, CountsSame DEF RetryResponse, clientMap, recvSide
<1>4. ASSUME NEW s \in Streams, FinishStream(s) \/ FinishStreamFails(s)
      PROVE  Counts'
  <2>1. s \in streams
    BY <1>4 DEF FinishStream, FinishStreamFails, Lifecycle
  <2> QED
    BY <1>4, <2>1, CountsFinish
    DEF FinishStream, FinishStreamFails, finish_raw_server_stream, recvSide
<1>5. ASSUME NEW s \in Streams,
             RejectApp503(s) \/ RejectApp503Fails(s) \/ RejectReset(s)
      PROVE  Counts'
  BY <1>5, CountsReject DEF RejectApp503, RejectApp503Fails, RejectReset
<1>6. ASSUME NEW s \in Streams, AcceptStream(s) \/ AcceptStreamFails(s) PROVE Counts'
  <2>1. /\ Cardinality(Accepted) \in Nat /\ Cardinality(Rejected) \in Nat
        /\ s \in Streams \ Accepted =>
             Cardinality(Accepted \cup {s}) = Cardinality(Accepted) + 1
    BY VerdictSets, Card
  <2>2. /\ Cardinality(aborted) \in Nat /\ stats.successful_requests \in Nat
        /\ in_flight \in Nat /\ stats.accepted_requests \in Nat
    BY Card DEF TypeOK, ReceiveType, ClientType, StatsType
  <2>3. /\ InflightExact'
        /\ in_flight' + Cardinality(aborted') = in_flight + 1 + Cardinality(aborted)
        /\ stats'.accepted_requests = stats.accepted_requests + 1
        /\ stats'.successful_requests = stats.successful_requests
        /\ Rejections' = Rejections /\ seen_requests' = seen_requests + 1
        /\ Accepted' = Accepted \cup {s} /\ s \notin Accepted
        /\ Rejected' = Rejected /\ in_flight' \in Nat
    BY <1>6, AcceptReads DEF Counts, InflightExact
  <2>4. aborted' \in SUBSET Streams
    BY TypeNext DEF TypeOK, ReceiveType
  <2>5. Cardinality(aborted') \in Nat
    BY <2>4, Card
  <2>6. AcceptedAccounted'
    BY <2>2, <2>3, <2>5 DEF Counts, AcceptedAccounted
  <2>7. JudgedOnce'
    BY <2>1, <2>3 DEF Counts, JudgedOnce
  <2> QED BY <2>3, <2>6, <2>7 DEF Counts
<1>7. ASSUME NEW s \in Streams, ReadMore(s) PROVE Counts'
  <2>1. Cardinality(aborted) \in Nat /\ stats.successful_requests \in Nat /\ in_flight \in Nat
    BY Card DEF TypeOK, ReceiveType, ClientType, StatsType
  <2>2. aborted' \in SUBSET Streams
    BY TypeNext DEF TypeOK, ReceiveType
  <2>3. Cardinality(aborted') \in Nat
    BY <2>2, Card
  <2>4. /\ InflightExact' /\ in_flight' \in Nat
        /\ in_flight' + Cardinality(aborted') = in_flight + Cardinality(aborted)
        /\ stats'.accepted_requests = stats.accepted_requests
        /\ stats'.successful_requests = stats.successful_requests
        /\ Rejections' = Rejections /\ UNCHANGED <<seen_requests, verdict>>
    BY <1>7, MoreReads DEF Counts, InflightExact
  <2>5. AcceptedAccounted'
    BY <2>1, <2>3, <2>4 DEF Counts, AcceptedAccounted
  <2>6. JudgedOnce'
    BY <2>4 DEF Counts, JudgedOnce, Accepted, Rejected
  <2> QED BY <2>4, <2>5, <2>6 DEF Counts
<1>8. CASE LoopFails \/ HandleFails \/ RequestShutdown \/ Ended
  BY <1>8, CountsSame
  DEF LoopFails, HandleFails, RequestShutdown, Ended, serverVars,
      unchangedButControl, clientMap, recvSide
<1> QED
  BY <1>1, <1>2, <1>3, <1>4, <1>5, <1>6, <1>7, <1>8
  DEF ServerNext, Handler, Failure

\* The counters of the server agree with what happened to the streams, with
\* any number of streams: in_flight with the map, seen, accepted and refused
\* with the verdicts, accepted with flying, answered and abandoned.
THEOREM CountsCorrect == ServerSafety => []Counts
<1>1. Counts /\ UNCHANGED serverVars => Counts'
  BY CountsSame DEF serverVars, clientMap, recvSide
<1> QED
  BY <1>1, CountsInit, CountsNext, LifecycleCorrect, TypeCorrect, PTL DEF ServerSafety

(***************************************************************************)
(* The two admission policies.                                             *)
(***************************************************************************)
LEMMA PolicySame ==
  ASSUME TypeOK, Policy, scenario' = scenario,
         in_flight' \in Nat, in_flight' <= in_flight,
         stats'.peak_inflight = stats.peak_inflight,
         Rejections' = Rejections, seen_requests' = seen_requests
  PROVE  Policy'
BY ScenarioFacts DEF Policy, ThresholdRespected, QuotaExact, TypeOK, ClientType

LEMMA PolicyUntouched ==
  ASSUME TypeOK, Policy, UNCHANGED <<scenario, in_flight, seen_requests, stats>>
  PROVE  Policy'
BY PolicySame DEF Rejections, TypeOK, ClientType

\* A judged stream moves the quota by one exactly when it is refused.
LEMMA QuotaJudged ==
  ASSUME TypeOK, QuotaExact, scenario' = scenario,
         seen_requests' = seen_requests + 1,
         Rejections' = Rejections + (IF RejectsNow THEN 1 ELSE 0)
  PROVE  QuotaExact'
<1> SUFFICES ASSUME scenario.reject_percent > 0
             PROVE  Rejections' = Quota(seen_requests + 1, scenario.reject_percent)
  BY DEF QuotaExact
<1>1. seen_requests \in Nat /\ scenario.reject_percent \in Percents
  BY ScenarioFacts DEF TypeOK, ClientType
<1>2. RejectsNow <=> should_reject_by_percent(seen_requests + 1, scenario.reject_percent)
  BY DEF RejectsNow
<1>3. Rejections = Quota(seen_requests, scenario.reject_percent)
  BY DEF QuotaExact
<1> QED BY <1>1, <1>2, <1>3, QuotaStep

LEMMA PolicyReject ==
  ASSUME TypeOK, Policy, NEW s \in Streams, FirstSight(s), RejectsNow,
         \/ stats' = [stats EXCEPT !.app_rejections = @ + 1]
         \/ stats' = [stats EXCEPT !.reset_rejections = @ + 1],
         UNCHANGED in_flight
  PROVE  Policy'
<1>1. Rejections' = Rejections + 1 /\ stats'.peak_inflight = stats.peak_inflight
  BY DEF Rejections, TypeOK, ClientType, StatsType
<1>2. seen_requests' = seen_requests + 1 /\ scenario' = scenario
  BY DEF FirstSight, Visit
<1>3. QuotaExact'
  BY <1>1, <1>2, QuotaJudged DEF Policy
<1>4. ThresholdRespected'
  BY <1>1, <1>2 DEF Policy, ThresholdRespected
<1> QED BY <1>3, <1>4 DEF Policy

LEMMA PolicyAccept ==
  ASSUME TypeOK, Lifecycle, InflightExact, Policy, NEW s \in Streams,
         AcceptStream(s) \/ AcceptStreamFails(s)
  PROVE  Policy'
<1>1. /\ stats'.peak_inflight = IF stats.peak_inflight > in_flight
                                THEN stats.peak_inflight ELSE in_flight + 1
      /\ in_flight' \in Nat /\ in_flight' <= in_flight + 1
      /\ Rejections' = Rejections /\ seen_requests' = seen_requests + 1
  BY AcceptReads
<1>2. ~RejectsNow /\ scenario' = scenario
  BY DEF AcceptStream, AcceptStreamFails, FirstSight, Visit
<1>3. Rejections \in Nat
  BY DEF Rejections, TypeOK, ClientType, StatsType
<1>4. QuotaExact'
  BY <1>1, <1>2, <1>3, QuotaJudged DEF Policy
<1>5. scenario.threshold \in Nat /\ in_flight \in Nat /\ stats.peak_inflight \in Nat
  BY ScenarioFacts DEF TypeOK, ClientType, StatsType
<1>6. scenario.reject_percent \in Nat
  BY ScenarioFacts DEF Percents
<1>7. scenario.reject_percent = 0 => in_flight < scenario.threshold
  BY <1>2, <1>5, <1>6 DEF RejectsNow
<1>8. ThresholdRespected'
  BY <1>1, <1>2, <1>5, <1>7 DEF Policy, ThresholdRespected
<1> QED BY <1>4, <1>8 DEF Policy

LEMMA PolicyInit == ServerInit => Policy
<1> SUFFICES ASSUME ServerInit PROVE Policy
  OBVIOUS
<1>1. scenario.threshold \in Nat /\ scenario.reject_percent \in Percents
  BY TypeInit, ScenarioFacts
<1>2. Quota(0, scenario.reject_percent) = 0
  BY <1>1, QuotaZero
<1> QED
  BY <1>1, <1>2 DEF ServerInit, Policy, ThresholdRespected, QuotaExact, Rejections

LEMMA PolicyNext ==
  TypeOK /\ Lifecycle /\ Counts /\ Policy /\ ServerNext => Policy'
<1> SUFFICES ASSUME TypeOK, Lifecycle, Counts, Policy, ServerNext PROVE Policy'
  OBVIOUS
<1>1. CASE Loop \/ Receive
  BY <1>1, PolicyUntouched
  DEF Loop, LoopTop, PollTimeout, PollReadable, RecvWouldBlock, Receive,
      RecvDatagram, unchangedButControl, clientMap
<1>2. CASE RetryDone \/ FirstDueDone \/ ReadDone \/ SecondDueDone
  BY <1>2, PolicyUntouched
  DEF RetryDone, FirstDueDone, ReadDone, SecondDueDone, unchangedButControl, clientMap
<1>3. ASSUME NEW s \in Streams, RetryResponse(s) PROVE Policy'
  BY <1>3, PolicyUntouched DEF RetryResponse, clientMap
<1>4. ASSUME NEW s \in Streams, FinishStream(s) \/ FinishStreamFails(s)
      PROVE  Policy'
  <2>1. s \in streams
    BY <1>4 DEF FinishStream, FinishStreamFails, Lifecycle
  <2>2. /\ in_flight' = IF in_flight = 0 THEN 0 ELSE in_flight - 1
        /\ stats' = [stats EXCEPT !.successful_requests = @ + 1]
        /\ UNCHANGED <<scenario, seen_requests>>
    BY <1>4, <2>1 DEF FinishStream, FinishStreamFails, finish_raw_server_stream
  <2>3. stats'.peak_inflight = stats.peak_inflight /\ Rejections' = Rejections
    BY <2>2 DEF Rejections, TypeOK, ClientType, StatsType
  <2>4. in_flight' \in Nat /\ in_flight' <= in_flight
    BY <2>2 DEF TypeOK, ClientType
  <2> QED BY <2>2, <2>3, <2>4, PolicySame
<1>5. ASSUME NEW s \in Streams,
             RejectApp503(s) \/ RejectApp503Fails(s) \/ RejectReset(s)
      PROVE  Policy'
  BY <1>5, PolicyReject DEF RejectApp503, RejectApp503Fails, RejectReset
<1>6. ASSUME NEW s \in Streams, AcceptStream(s) \/ AcceptStreamFails(s) PROVE Policy'
  BY <1>6, PolicyAccept DEF Counts
<1>7. ASSUME NEW s \in Streams, ReadMore(s) PROVE Policy'
  <2>1. scenario' = scenario
    BY <1>7 DEF ReadMore, Visit
  <2> QED BY <1>7, <2>1, MoreReads, PolicySame DEF Counts
<1>8. CASE LoopFails \/ HandleFails \/ RequestShutdown \/ Ended
  BY <1>8, PolicyUntouched
  DEF LoopFails, HandleFails, RequestShutdown, Ended, serverVars,
      unchangedButControl, clientMap
<1> QED
  BY <1>1, <1>2, <1>3, <1>4, <1>5, <1>6, <1>7, <1>8
  DEF ServerNext, Handler, Failure

\* For every threshold and every percentage: the load and its reported peak
\* never exceed the threshold, and the share refused is exact at every moment.
THEOREM PolicyCorrect == ServerSafety => []Policy
<1>1. TypeOK /\ Policy /\ UNCHANGED serverVars => Policy'
  BY PolicyUntouched DEF serverVars, clientMap
<1> QED
  BY <1>1, CountsCorrect, PolicyInit, PolicyNext, LifecycleCorrect, TypeCorrect, PTL
  DEF ServerSafety

(***************************************************************************)
(* The responses.                                                          *)
(***************************************************************************)
\* Nothing was queued on s and nothing is remembered for it.
Unanswered(s) == pending_responses[s] = NoResponse /\ reply[s] = NothingSent

\* What ResponseBooks says of one stream.
ResponseOf(s) ==
  LET p == pending_responses[s] IN
  IF ~Owed(s) THEN Unanswered(s)
  ELSE IF p = NoResponse THEN reply[s] = [data |-> Text(s), len |-> RespLen]
  ELSE /\ p.data = Text(s)
       /\ p.written = reply[s].len /\ p.written < RespLen
       /\ p.written > 0 => reply[s].data = Text(s)

\* ResponseBooks with what makes it inductive: the thread that ends because
\* stream_send failed leaves a response unsent, and a retry visits streams
\* that have something to write.
ResponseInv ==
  /\ \A s \in Streams : ResponseOf(s) \/ (spc = "dead" /\ Unanswered(s))
  /\ spc = "retry" => todo \subseteq Pending

LEMMA ResponseInit == ServerInit => ResponseInv
BY DEF ServerInit, ResponseInv, ResponseOf, Unanswered, Owed, Accepted, Rejected

LEMMA ResponseKept ==
  ASSUME NEW s \in Streams, ResponseOf(s), Owed(s)' = Owed(s), Text(s)' = Text(s),
         pending_responses'[s] = pending_responses[s], reply'[s] = reply[s]
  PROVE  ResponseOf(s)'
BY DEF ResponseOf, Unanswered

\* Steps that leave the verdicts, the maps and the responses alone.
LEMMA ResponseControl ==
  ASSUME ResponseInv,
         UNCHANGED <<scenario, verdict, streams, aborted, pending_responses, reply>>,
         spc = "dead" => spc' = "dead",
         spc' = "retry" => todo' \subseteq Pending
  PROVE  ResponseInv'
<1>1. \A s \in Streams : Owed(s)' = Owed(s) /\ Text(s)' = Text(s)
  BY DEF Owed, Text, Accepted, Rejected
<1>2. \A s \in Streams : ResponseOf(s) => ResponseOf(s)'
  BY <1>1, ResponseKept
<1>3. \A s \in Streams : Unanswered(s) => Unanswered(s)'
  BY DEF Unanswered
<1>4. Pending' = Pending
  BY DEF Pending
<1> QED BY <1>2, <1>3, <1>4 DEF ResponseInv

LEMMA SendOthers ==
  ASSUME TypeOK, NEW s \in Streams, NEW text, NEW n \in 0 .. RespLen,
         send_raw_response(s, text, n), NEW r \in Streams \ {s}
  PROVE  pending_responses'[r] = pending_responses[r] /\ reply'[r] = reply[r]
BY DEF send_raw_response, Queue, TypeOK, SendType, ReplyType

\* The first response on a stream that holds none.
LEMMA SendFirst ==
  ASSUME TypeOK, NEW s \in Streams, NEW text \in {"200", "503"},
         NEW n \in 0 .. RespLen, send_raw_response(s, text, n), Unanswered(s),
         Owed(s)', Text(s)' = text
  PROVE  ResponseOf(s)'
<1>1. CASE n = RespLen
  <2>1. reply'[s] = [data |-> text, len |-> RespLen]
    BY <1>1, RespLenAssumption
    DEF send_raw_response, Queue, Unanswered, NothingSent, TypeOK, SendType, ReplyType
  <2>2. pending_responses'[s] = NoResponse
    BY <1>1 DEF send_raw_response, Unanswered
  <2> QED BY <2>1, <2>2 DEF ResponseOf
<1>2. CASE n # RespLen
  <2>1. pending_responses'[s] = [data |-> text, written |-> n]
    BY <1>2 DEF send_raw_response, TypeOK, SendType
  <2>2. reply'[s] = IF n = 0 THEN NothingSent ELSE [data |-> text, len |-> n]
    BY RespLenAssumption
    DEF send_raw_response, Queue, Unanswered, NothingSent, TypeOK, SendType, ReplyType
  <2>3. n = reply'[s].len /\ n < RespLen /\ (n > 0 => reply'[s].data = text)
    BY <1>2, <2>2, RespLenAssumption DEF NothingSent
  <2>4. pending_responses'[s] # NoResponse
    BY <2>1 DEF NoResponse
  <2> QED BY <2>1, <2>3, <2>4 DEF ResponseOf
<1> QED BY <1>1, <1>2

\* A retry continues the response where the stream stands.
LEMMA ResponseRetry ==
  ASSUME TypeOK, ResponseInv, NEW s \in Streams, RetryResponse(s)
  PROVE  ResponseInv'
<1> DEFINE p == pending_responses[s]
<1>1. PICK n \in 0 .. (RespLen - p.written) :
        /\ Queue(s, p.data, n)
        /\ pending_responses' =
             [pending_responses EXCEPT ![s] =
                IF p.written + n = RespLen THEN NoResponse
                ELSE [p EXCEPT !.written = @ + n]]
  BY DEF RetryResponse, retry_raw_response
<1>2. spc = "retry" /\ spc' = "retry" /\ todo' = todo \ {s} /\ s \in todo
  BY DEF RetryResponse
<1>3. p # NoResponse
  BY <1>2 DEF ResponseInv, Pending
<1>4. ResponseOf(s)
  BY <1>2 DEF ResponseInv
<1>5. /\ Owed(s) /\ p.data = Text(s) /\ p.written = reply[s].len /\ p.written < RespLen
      /\ p.written > 0 => reply[s].data = Text(s)
  BY <1>3, <1>4 DEF ResponseOf, Unanswered
<1>6. \A r \in Streams : Owed(r)' = Owed(r) /\ Text(r)' = Text(r)
  BY DEF RetryResponse, clientMap, recvSide, Owed, Text, Accepted, Rejected
<1>7. /\ p \in [data : Texts, written : 0 .. RespLen]
      /\ p.written \in 0 .. RespLen
      /\ reply \in ReplyType /\ reply[s] \in [data : Texts, len : Nat]
  BY DEF TypeOK, SendType, ReplyType
<1>8. ASSUME NEW r \in Streams \ {s}
      PROVE  pending_responses'[r] = pending_responses[r] /\ reply'[r] = reply[r]
  BY <1>1, <1>7 DEF TypeOK, SendType, ReplyType, Queue
<1>9. pending_responses'[s] = IF p.written + n = RespLen THEN NoResponse
                              ELSE [p EXCEPT !.written = @ + n]
  BY <1>1 DEF TypeOK, SendType
<1>10. reply'[s] = IF n = 0 THEN reply[s]
                   ELSE [data |-> Text(s), len |-> p.written + n]
  <2>1. reply'[s] = IF n = 0 THEN reply[s]
                    ELSE [data |-> p.data, len |-> reply[s].len + n]
    BY <1>1, <1>7 DEF Queue, ReplyType
  <2> QED BY <2>1, <1>5
<1>11. ResponseOf(s)'
  <2>1. Owed(s)' /\ Text(s)' = Text(s)
    BY <1>5, <1>6
  <2>2. CASE p.written + n = RespLen
    <3>1. n # 0
      BY <2>2, <1>5, <1>7, RespLenAssumption
    <3>2. reply'[s] = [data |-> Text(s), len |-> RespLen]
      BY <3>1, <2>2, <1>10
    <3>3. pending_responses'[s] = NoResponse
      BY <2>2, <1>9
    <3> QED BY <2>1, <3>2, <3>3 DEF ResponseOf
  <2>3. CASE p.written + n # RespLen
    <3>1. pending_responses'[s] = [data |-> Text(s), written |-> p.written + n]
      BY <2>3, <1>5, <1>7, <1>9
    <3>2. pending_responses'[s] # NoResponse
      <4>1. Text(s) # "none"
        BY DEF Text
      <4> QED BY <4>1, <3>1 DEF NoResponse
    <3>3. p.written + n < RespLen
      BY <2>3, <1>7, RespLenAssumption
    <3>4. reply'[s].len = p.written + n
      BY <1>5, <1>7, <1>10, RespLenAssumption
    <3>5. p.written + n > 0 => reply'[s].data = Text(s)
      BY <1>5, <1>7, <1>10, RespLenAssumption
    <3> QED BY <2>1, <3>1, <3>2, <3>3, <3>4, <3>5 DEF ResponseOf
  <2> QED BY <2>2, <2>3
<1>12. \A r \in Streams \ {s} : ResponseOf(r)'
  BY <1>2, <1>6, <1>8, ResponseKept DEF ResponseInv
<1>13. todo' \subseteq Pending'
  <2>1. todo \subseteq Pending
    BY <1>2 DEF ResponseInv
  <2> QED BY <1>2, <1>8, <2>1 DEF Pending
<1> QED BY <1>2, <1>11, <1>12, <1>13 DEF ResponseInv

\* s gets its verdict or leaves the maps, and may be sent its response; for
\* every other stream nothing changes.
LEMMA ResponseOne ==
  ASSUME ResponseInv, NEW s \in Streams, spc \notin {"dead", "retry"},
         spc' # "retry", scenario' = scenario,
         \A r \in Streams \ {s} :
            /\ verdict'[r] = verdict[r]
            /\ r \in streams' <=> r \in streams
            /\ r \in aborted' <=> r \in aborted
            /\ pending_responses'[r] = pending_responses[r]
            /\ reply'[r] = reply[r],
         ResponseOf(s)' \/ (spc' = "dead" /\ Unanswered(s)')
  PROVE  ResponseInv'
<1>1. ASSUME NEW r \in Streams \ {s} PROVE ResponseOf(r)'
  <2>1. Owed(r)' = Owed(r) /\ Text(r)' = Text(r)
    BY DEF Owed, Text, Accepted, Rejected
  <2>2. ResponseOf(r)
    BY DEF ResponseInv
  <2> QED BY <2>1, <2>2, ResponseKept
<1> QED BY <1>1 DEF ResponseInv

\* An accepted stream that is still in the maps, or one without a verdict, is
\* owed nothing and holds nothing.
LEMMA NotYetOwed ==
  ASSUME TypeOK, Lifecycle, ResponseInv, NEW s \in Streams, spc # "dead",
         s \in streams \/ verdict[s] = "none"
  PROVE  Unanswered(s)
<1>1. ~Owed(s)
  BY DEF Owed, Lifecycle, Accepted, Rejected
<1> QED BY <1>1 DEF ResponseInv, ResponseOf

\* Reading leaves s in the maps or abandoned.
LEMMA ResponseRead ==
  ASSUME TypeOK, Lifecycle, ResponseInv, NEW s \in Streams, spc = "read",
         s \in streams \/ verdict[s] = "none",
         NEW open, s \in open, \A r \in Streams \ {s} : r \in open <=> r \in streams,
         NEW load, NEW books, ReadBody(s, open, load, books),
         verdict' = [verdict EXCEPT ![s] = "accept"],
         UNCHANGED <<scenario, spc, sendSide>>
  PROVE  ResponseInv'
<1>1. Unanswered(s)
  BY NotYetOwed
<1>2. s \in aborted' \/ s \in streams'
  BY DEF ReadBody
<1>3. ~Owed(s)'
  BY <1>2 DEF Owed, Accepted, Rejected, TypeOK, ReceiveType
<1>4. ResponseOf(s)'
  BY <1>1, <1>3 DEF ResponseOf, Unanswered, sendSide
<1>5. \A r \in Streams \ {s} :
        /\ verdict'[r] = verdict[r]
        /\ r \in streams' <=> r \in streams
        /\ r \in aborted' <=> r \in aborted
        /\ pending_responses'[r] = pending_responses[r]
        /\ reply'[r] = reply[r]
  BY DEF ReadBody, sendSide, TypeOK, ReceiveType
<1> QED BY <1>4, <1>5, ResponseOne

LEMMA ResponseNext == TypeOK /\ Lifecycle /\ ResponseInv /\ ServerNext => ResponseInv'
<1> SUFFICES ASSUME TypeOK, Lifecycle, ResponseInv, ServerNext PROVE ResponseInv'
  OBVIOUS
<1>1. CASE Loop \/ Receive
  BY <1>1, ResponseControl
  DEF Loop, LoopTop, PollTimeout, PollReadable, RecvWouldBlock, Receive,
      RecvDatagram, EnterHandle, unchangedButControl, clientMap, recvSide, sendSide
<1>2. CASE RetryDone \/ FirstDueDone \/ ReadDone \/ SecondDueDone
  BY <1>2, ResponseControl
  DEF RetryDone, FirstDueDone, ReadDone, SecondDueDone, unchangedButControl,
      clientMap, recvSide, sendSide
<1>3. ASSUME NEW s \in Streams, RetryResponse(s) PROVE ResponseInv'
  BY <1>3, ResponseRetry
<1>4. ASSUME NEW s \in Streams, FinishStream(s) \/ FinishStreamFails(s)
      PROVE  ResponseInv'
  <2>1. /\ spc \in {"due1", "due2"} /\ s \in streams
        /\ s \in Accepted /\ s \notin aborted
    BY <1>4 DEF FinishStream, FinishStreamFails, Lifecycle
  <2>2. Unanswered(s)
    BY <2>1, NotYetOwed
  <2>3. /\ streams' = streams \ {s}
        /\ UNCHANGED <<scenario, aborted, verdict>>
    BY <1>4, <2>1 DEF FinishStream, FinishStreamFails, finish_raw_server_stream, recvSide
  <2>4. Owed(s)' /\ Text(s)' = "200"
    BY <2>1, <2>3 DEF Owed, Text, Accepted
  <2>5. CASE FinishStream(s)
    <3>1. PICK n \in 0 .. RespLen : send_raw_response(s, "200", n)
      BY <2>1, <2>5 DEF FinishStream, finish_raw_server_stream
    <3>2. ResponseOf(s)'
      BY <2>2, <2>4, <3>1, SendFirst
    <3>3. spc' = spc
      BY <2>5 DEF FinishStream
    <3>4. \A r \in Streams \ {s} :
             pending_responses'[r] = pending_responses[r] /\ reply'[r] = reply[r]
      BY <3>1, SendOthers
    <3> QED BY <2>1, <2>3, <3>2, <3>3, <3>4, ResponseOne
  <2>6. CASE FinishStreamFails(s)
    <3>1. spc' = "dead" /\ UNCHANGED <<pending_responses, reply>>
      BY <2>6 DEF FinishStreamFails, sendSide
    <3>2. Unanswered(s)'
      BY <2>2, <3>1 DEF Unanswered
    <3> QED BY <2>1, <2>3, <3>1, <3>2, ResponseOne
  <2> QED BY <1>4, <2>5, <2>6
<1>5. ASSUME NEW s \in Streams,
             RejectApp503(s) \/ RejectApp503Fails(s) \/ RejectReset(s)
      PROVE  ResponseInv'
  <2>1. FirstSight(s) /\ spc = "read" /\ scenario' = scenario
    BY <1>5 DEF RejectApp503, RejectApp503Fails, RejectReset, FirstSight, Visit
  <2>2. verdict[s] = "none"
    BY <2>1, FirstSightIsFresh
  <2>3. Unanswered(s)
    BY <2>1, <2>2, NotYetOwed
  <2>4. /\ verdict' = [verdict EXCEPT ![s] = "reject"]
        /\ UNCHANGED <<streams, aborted>>
    BY <1>5 DEF RejectApp503, RejectApp503Fails, RejectReset
  <2>5. /\ s \in Rejected' /\ s \notin Accepted' /\ Text(s)' = "503"
        /\ \A r \in Streams \ {s} : verdict'[r] = verdict[r]
    BY <2>4 DEF Rejected, Accepted, Text, TypeOK, ReceiveType
  <2>6. CASE RejectApp503(s)
    <3>1. PICK n \in 0 .. RespLen : send_raw_response(s, "503", n)
      BY <2>6 DEF RejectApp503
    <3>2. Owed(s)'
      BY <2>1, <2>5, <2>6 DEF Owed, RejectApp503
    <3>3. ResponseOf(s)'
      BY <2>3, <2>5, <3>1, <3>2, SendFirst
    <3>4. spc' = spc
      BY <2>6 DEF RejectApp503
    <3>5. \A r \in Streams \ {s} :
             pending_responses'[r] = pending_responses[r] /\ reply'[r] = reply[r]
      BY <3>1, SendOthers
    <3> QED BY <2>1, <2>4, <2>5, <3>3, <3>4, <3>5, ResponseOne
  <2>7. CASE RejectApp503Fails(s)
    <3>1. spc' = "dead" /\ UNCHANGED <<pending_responses, reply>>
      BY <2>7 DEF RejectApp503Fails, sendSide
    <3>2. Unanswered(s)'
      BY <2>3, <3>1 DEF Unanswered
    <3> QED BY <2>1, <2>4, <2>5, <3>1, <3>2, ResponseOne
  <2>8. CASE RejectReset(s)
    <3>1. /\ spc' = spc /\ UNCHANGED <<pending_responses, reply>>
          /\ scenario.mode = "Reset"
      BY <2>8 DEF RejectReset, sendSide
    <3>2. ~Owed(s)'
      BY <2>1, <2>5, <3>1 DEF Owed
    <3>3. ResponseOf(s)'
      BY <2>3, <3>1, <3>2 DEF ResponseOf, Unanswered
    <3> QED BY <2>1, <2>4, <2>5, <3>1, <3>3, ResponseOne
  <2> QED BY <1>5, <2>6, <2>7, <2>8
<1>6. ASSUME NEW s \in Streams, AcceptStream(s) PROVE ResponseInv'
  <2>1. verdict[s] = "none" /\ spc = "read" /\ spc' = spc /\ scenario' = scenario
    BY <1>6, FirstSightIsFresh DEF AcceptStream, FirstSight, Visit
  <2> QED BY <1>6, <2>1, ResponseRead DEF AcceptStream
<1>7. ASSUME NEW s \in Streams, ReadMore(s) PROVE ResponseInv'
  <2>1. /\ s \in streams /\ spc = "read" /\ spc' = spc /\ scenario' = scenario
        /\ ReadBody(s, streams, in_flight, stats)
        /\ UNCHANGED sendSide
    BY <1>7 DEF ReadMore, Visit
  <2>2. verdict' = [verdict EXCEPT ![s] = "accept"]
    BY <1>7, <2>1 DEF ReadMore, Lifecycle, Accepted, TypeOK, ReceiveType
  <2> QED BY <2>1, <2>2, ResponseRead
<1>9. ASSUME NEW s \in Streams, AcceptStreamFails(s) PROVE ResponseInv'
  <2>1. verdict[s] = "none"
    BY <1>9, FirstSightIsFresh DEF AcceptStreamFails
  <2>2. /\ spc' = "dead" /\ scenario' = scenario
        /\ streams' = streams \cup {s}
        /\ verdict' = [verdict EXCEPT ![s] = "accept"]
        /\ UNCHANGED <<aborted, pending_responses, reply>>
    BY <1>9 DEF AcceptStreamFails, FirstSight, Visit, recvSide, sendSide
  <2>3. Unanswered(s)'
    BY <1>9, <2>1, <2>2, NotYetOwed DEF Unanswered, AcceptStreamFails, FirstSight, Visit
  <2>4. \A r \in Streams \ {s} :
          /\ verdict'[r] = verdict[r]
          /\ r \in streams' <=> r \in streams
          /\ r \in aborted' <=> r \in aborted
          /\ pending_responses'[r] = pending_responses[r]
          /\ reply'[r] = reply[r]
    BY <2>2 DEF TypeOK, ReceiveType
  <2>5. spc = "read"
    BY <1>9 DEF AcceptStreamFails, FirstSight, Visit
  <2> QED BY <2>2, <2>3, <2>4, <2>5, ResponseOne
<1>8. CASE LoopFails \/ HandleFails \/ RequestShutdown \/ Ended
  BY <1>8, ResponseControl
  DEF LoopFails, HandleFails, RequestShutdown, Ended, serverVars, control,
      unchangedButControl, clientMap, recvSide, sendSide, ResponseInv
<1> QED
  BY <1>1, <1>2, <1>3, <1>4, <1>5, <1>6, <1>7, <1>8, <1>9
  DEF ServerNext, Handler, Failure

LEMMA ResponseInvCorrect == ServerSafety => []ResponseInv
<1>1. TypeOK /\ Lifecycle /\ ResponseInv /\ [ServerNext]_serverVars => ResponseInv'
  <2>1. ResponseInv /\ UNCHANGED serverVars => ResponseInv'
    BY ResponseControl
    DEF serverVars, control, clientMap, recvSide, sendSide, ResponseInv
  <2> QED BY <2>1, ResponseNext
<1> QED BY <1>1, ResponseInit, LifecycleCorrect, TypeCorrect, PTL DEF ServerSafety

\* For every response length and however the send buffer fills: a response is
\* written once and in order, and nobody gets one that is not owed
\* (overload.rs:626, 657).
THEOREM ResponseBooksCorrect == ServerSafety => []ResponseBooks
<1>1. ResponseInv => ResponseBooks
  BY DEF ResponseInv, ResponseBooks, ResponseOf, Unanswered
<1> QED BY <1>1, ResponseInvCorrect, PTL

\* A stream holds at most one response, and a whole one is the one it is owed.
ReplyBounded ==
  \A s \in Streams :
    /\ reply[s].len <= RespLen
    /\ reply[s].len = RespLen => Owed(s) /\ reply[s].data = Text(s)

LEMMA ReplyBoundedCorrect == ServerSafety => []ReplyBounded
<1>1. ASSUME TypeOK, ResponseInv, NEW s \in Streams
      PROVE  /\ reply[s].len <= RespLen
             /\ reply[s].len = RespLen => Owed(s) /\ reply[s].data = Text(s)
  <2>1. CASE Unanswered(s)
    BY <2>1, RespLenAssumption DEF Unanswered, NothingSent
  <2>2. CASE ~Unanswered(s)
    <3>1. ResponseOf(s) /\ Owed(s)
      BY <1>1, <2>2 DEF ResponseInv, ResponseOf
    <3>2. CASE pending_responses[s] = NoResponse
      BY <3>1, <3>2, RespLenAssumption DEF ResponseOf
    <3>3. CASE pending_responses[s] # NoResponse
      BY <1>1, <3>1, <3>3, RespLenAssumption DEF ResponseOf, TypeOK, SendType, ReplyType
    <3> QED BY <3>1, <3>2, <3>3
  <2> QED BY <2>1, <2>2
<1>2. TypeOK /\ ResponseInv => ReplyBounded
  BY <1>1 DEF ReplyBounded
<1> QED BY <1>2, ResponseInvCorrect, TypeCorrect, PTL

(***************************************************************************)
(* What no step takes back.                                                *)
(***************************************************************************)
\* Verdicts stay, responses and requests only grow, and what is flushed is
\* what the connection holds.  A verdict falls on a readable stream.
Grows ==
  /\ scenario' = scenario
  /\ \A s \in Streams :
       /\ verdict[s] # "none" => verdict'[s] = verdict[s]
       /\ verdict[s] = "none" /\ verdict'[s] # "none" => Readable(s)
       /\ reply[s].len <= reply'[s].len
       /\ arrived[s] <= arrived'[s]
  /\ read_shut \subseteq read_shut' /\ reset_streams \subseteq reset_streams'
  /\ flushed' = flushed \/ (flushed' = Outgoing /\ UNCHANGED <<reply, read_shut, reset_streams>>)

LEMMA SendGrows ==
  ASSUME TypeOK, NEW s \in Streams, NEW text, NEW n \in 0 .. RespLen, Queue(s, text, n)
  PROVE  \A r \in Streams : reply[r].len <= reply'[r].len
<1>1. n \in Nat
  BY RespLenAssumption
<1>2. ASSUME NEW r \in Streams PROVE reply[r].len <= reply'[r].len
  <2>1. reply \in ReplyType /\ reply[r].len \in Nat
    BY DEF TypeOK, SendType, ReplyType
  <2>2. reply'[r].len = reply[r].len \/ reply'[r].len = reply[r].len + n
    BY <2>1 DEF Queue, ReplyType
  <2> QED BY <1>1, <2>1, <2>2
<1> QED BY <1>2

LEMMA GrowsQuietly ==
  ASSUME TypeOK,
         UNCHANGED <<scenario, verdict, reply, arrived, read_shut, reset_streams, flushed>>
  PROVE  Grows
<1>1. \A s \in Streams : reply[s].len <= reply[s].len /\ arrived[s] <= arrived[s]
  BY DEF TypeOK, SendType, ReplyType, ReceiveType
<1> QED BY <1>1 DEF Grows

LEMMA ServerGrows ==
  ASSUME TypeOK, Lifecycle, [ServerNext]_serverVars
  PROVE  Grows
<1>1. \A s \in Streams : reply[s].len <= reply[s].len /\ arrived[s] <= arrived[s]
  BY DEF TypeOK, SendType, ReplyType, ReceiveType
<1>2. CASE Loop \/ LoopFails \/ HandleFails \/ RequestShutdown \/ UNCHANGED serverVars
  BY <1>2, GrowsQuietly
  DEF Loop, LoopTop, PollTimeout, PollReadable, RecvWouldBlock, LoopFails, HandleFails,
      RequestShutdown, serverVars, unchangedButControl, clientMap, recvSide, sendSide
<1>3. CASE RetryDone \/ FirstDueDone \/ ReadDone
  BY <1>3, GrowsQuietly
  DEF RetryDone, FirstDueDone, ReadDone, unchangedButControl, clientMap, recvSide, sendSide
<1>4. CASE SecondDueDone
  <2>1. /\ UNCHANGED <<scenario, verdict, reply, arrived, read_shut, reset_streams>>
        /\ flushed' = flushed \/ flushed' = Outgoing
    BY <1>4 DEF SecondDueDone, clientMap, recvSide, sendSide
  <2> QED BY <1>1, <2>1 DEF Grows
<1>5. CASE Receive
  <2>1. PICK f \in Arrivals : \E R \in Resets(f) : RecvDatagram(f, R)
    BY <1>5 DEF Receive
  <2>2. /\ arrived' = f
        /\ UNCHANGED <<scenario, verdict, reply, read_shut, reset_streams, flushed>>
    BY <2>1 DEF RecvDatagram, clientMap, sendSide
  <2>3. \A s \in Streams : arrived[s] <= f[s]
    BY DEF Arrivals
  <2> QED BY <1>1, <2>2, <2>3 DEF Grows
<1>6. ASSUME NEW s \in Streams, RetryResponse(s) PROVE Grows
  <2>1. PICK n \in 0 .. (RespLen - pending_responses[s].written) :
          Queue(s, pending_responses[s].data, n)
    BY <1>6 DEF RetryResponse, retry_raw_response
  <2>2. n \in 0 .. RespLen
    BY RespLenAssumption DEF TypeOK, SendType
  <2>3. \A r \in Streams : reply[r].len <= reply'[r].len
    BY <2>1, <2>2, SendGrows
  <2> QED BY <1>1, <1>6, <2>3 DEF Grows, RetryResponse, clientMap, recvSide
<1>7. ASSUME NEW s \in Streams, FinishStream(s) PROVE Grows
  <2>1. \A r \in Streams : reply[r].len <= reply'[r].len
    <3>1. CASE s \in streams
      <4>1. PICK n \in 0 .. RespLen : Queue(s, "200", n)
        BY <1>7, <3>1 DEF FinishStream, finish_raw_server_stream, send_raw_response
      <4> QED BY <4>1, SendGrows
    <3>2. CASE s \notin streams
      BY <1>1, <1>7, <3>2 DEF FinishStream, finish_raw_server_stream, sendSide
    <3> QED BY <3>1, <3>2
  <2> QED BY <1>1, <1>7, <2>1 DEF Grows, FinishStream, clientMap, recvSide
<1>8. ASSUME NEW s \in Streams, FinishStreamFails(s) PROVE Grows
  BY <1>8, GrowsQuietly DEF FinishStreamFails, clientMap, recvSide, sendSide
<1>9. ASSUME NEW s \in Streams,
             RejectApp503(s) \/ RejectApp503Fails(s) \/ RejectReset(s)
      PROVE  Grows
  <2>1. FirstSight(s) /\ scenario' = scenario
    BY <1>9 DEF RejectApp503, RejectApp503Fails, RejectReset, FirstSight, Visit
  <2>2. verdict[s] = "none" /\ Readable(s)
    BY <2>1, FirstSightIsFresh
  <2>3. /\ verdict' = [verdict EXCEPT ![s] = "reject"]
        /\ read_shut' = read_shut \cup {s} /\ reset_streams \subseteq reset_streams'
        /\ UNCHANGED <<arrived, flushed>>
    BY <1>9 DEF RejectApp503, RejectApp503Fails, RejectReset
  <2>4. \A r \in Streams \ {s} : verdict'[r] = verdict[r]
    BY <2>3 DEF TypeOK, ReceiveType
  <2>5. \A r \in Streams : reply[r].len <= reply'[r].len
    <3>1. CASE RejectApp503(s)
      <4>1. PICK n \in 0 .. RespLen : Queue(s, "503", n)
        BY <3>1 DEF RejectApp503, send_raw_response
      <4> QED BY <4>1, SendGrows
    <3>2. CASE ~RejectApp503(s)
      BY <1>1, <1>9, <3>2 DEF RejectApp503Fails, RejectReset, sendSide
    <3> QED BY <3>1, <3>2
  <2> QED BY <1>1, <2>1, <2>2, <2>3, <2>4, <2>5 DEF Grows
<1>10. ASSUME NEW s \in Streams, AcceptStream(s) PROVE Grows
  <2>1. FirstSight(s) /\ scenario' = scenario
    BY <1>10 DEF AcceptStream, FirstSight, Visit
  <2>2. verdict[s] = "none" /\ Readable(s)
    BY <2>1, FirstSightIsFresh
  <2>3. /\ verdict' = [verdict EXCEPT ![s] = "accept"]
        /\ UNCHANGED <<arrived, flushed, read_shut, reset_streams, reply>>
    BY <1>10 DEF AcceptStream, sendSide
  <2>4. \A r \in Streams \ {s} : verdict'[r] = verdict[r]
    BY <2>3 DEF TypeOK, ReceiveType
  <2> QED BY <1>1, <2>1, <2>2, <2>3, <2>4 DEF Grows
<1>12. ASSUME NEW s \in Streams, AcceptStreamFails(s) PROVE Grows
  <2>1. FirstSight(s) /\ scenario' = scenario
    BY <1>12 DEF AcceptStreamFails, FirstSight, Visit
  <2>2. verdict[s] = "none" /\ Readable(s)
    BY <2>1, FirstSightIsFresh
  <2>3. /\ verdict' = [verdict EXCEPT ![s] = "accept"]
        /\ UNCHANGED <<arrived, flushed, read_shut, reset_streams, reply>>
    BY <1>12 DEF AcceptStreamFails, recvSide, sendSide
  <2>4. \A r \in Streams \ {s} : verdict'[r] = verdict[r]
    BY <2>3 DEF TypeOK, ReceiveType
  <2> QED BY <1>1, <2>1, <2>2, <2>3, <2>4 DEF Grows
<1>11. ASSUME NEW s \in Streams, ReadMore(s) PROVE Grows
  BY <1>11, GrowsQuietly DEF ReadMore, Visit, sendSide
<1> QED
  BY <1>2, <1>3, <1>4, <1>5, <1>6, <1>7, <1>8, <1>9, <1>10, <1>11, <1>12
  DEF ServerNext, Handler, Failure, Ended

(***************************************************************************)
(* The bytes read, and refusals under the heading of the mode.             *)
(***************************************************************************)
\* The units of the request bodies that stream_recv has returned.
UnitsRead == {u \in Streams \X (1 .. scenario.payload_size) : u[2] <= consumed[u[1]]}

ModeCounts ==
  IF scenario.mode = "App503" THEN stats.reset_rejections = 0
                              ELSE stats.app_rejections = 0

\* bytes_read counts each unit once; refusals have one heading.
BooksInv == stats.bytes_read = Cardinality(UnitsRead) /\ ModeCounts

LEMMA UnitsFinite ==
  ASSUME TypeOK
  PROVE  IsFiniteSet(UnitsRead) /\ Cardinality(UnitsRead) \in Nat
<1>1. IsFiniteSet(1 .. scenario.payload_size)
  BY ScenarioFacts, FS_Interval
<1>2. IsFiniteSet(Streams \X (1 .. scenario.payload_size))
  BY <1>1, StreamsAssumption, FS_Product
<1>3. UnitsRead \in SUBSET (Streams \X (1 .. scenario.payload_size))
  BY DEF UnitsRead
<1>4. IsFiniteSet(UnitsRead)
  BY <1>2, <1>3, FS_Subset
<1> QED BY <1>4, FS_CardinalityType

LEMMA BooksInit == ServerInit => BooksInv
<1> SUFFICES ASSUME ServerInit PROVE BooksInv
  OBVIOUS
<1>1. UnitsRead = {}
  BY DEF ServerInit, UnitsRead
<1>2. Cardinality(UnitsRead) = 0
  BY <1>1, FS_EmptySet
<1> QED BY <1>2 DEF ServerInit, BooksInv, ModeCounts

LEMMA BooksSame ==
  ASSUME BooksInv, UNCHANGED <<scenario, consumed>>,
         stats'.bytes_read = stats.bytes_read,
         stats'.app_rejections = stats.app_rejections,
         stats'.reset_rejections = stats.reset_rejections
  PROVE  BooksInv'
BY DEF BooksInv, UnitsRead, ModeCounts

\* Reading s adds its units between consumed[s] and arrived[s].
LEMMA BooksRead ==
  ASSUME TypeOK, Lifecycle, BooksInv, NEW s \in Streams, NEW open, NEW load,
         NEW books \in StatsType, ReadBody(s, open, load, books),
         books.bytes_read = stats.bytes_read,
         books.app_rejections = stats.app_rejections,
         books.reset_rejections = stats.reset_rejections,
         scenario' = scenario
  PROVE  BooksInv'
<1>1. CASE s \in peer_reset
  BY <1>1, BooksSame DEF ReadBody
<1>2. CASE s \notin peer_reset
  <2> DEFINE a == arrived[s]
             c == consumed[s]
             new == {s} \X (c + 1 .. a)
  <2>1. /\ consumed' = [consumed EXCEPT ![s] = a]
        /\ stats' = [books EXCEPT !.bytes_read = @ + a - c]
    BY <1>2 DEF ReadBody
  <2>2. /\ stats'.bytes_read = stats.bytes_read + a - c
        /\ stats'.app_rejections = stats.app_rejections
        /\ stats'.reset_rejections = stats.reset_rejections
    BY <2>1 DEF StatsType
  <2>3. a \in Nat /\ c \in Nat /\ c <= a /\ a <= scenario.payload_size
        /\ scenario.payload_size \in Nat
    BY ScenarioFacts DEF TypeOK, ReceiveType, Lifecycle
  <2>4. \A r \in Streams : /\ consumed'[r] = IF r = s THEN a ELSE consumed[r]
                           /\ consumed[r] \in Nat
    BY <2>1 DEF TypeOK, ReceiveType
  <2> HIDE DEF a, c
  <2>5. UnitsRead' = UnitsRead \cup new
    <3>1. ASSUME NEW r \in Streams, NEW k \in 1 .. scenario.payload_size
          PROVE  k <= consumed'[r] <=> k <= consumed[r] \/ (r = s /\ k \in c + 1 .. a)
      BY <2>3, <2>4 DEF c
    <3>2. c + 1 .. a \subseteq 1 .. scenario.payload_size
      BY <2>3
    <3>3. new \subseteq Streams \X (1 .. scenario.payload_size)
      BY <3>2
    <3> QED BY <3>1, <3>3 DEF UnitsRead
  <2>6. UnitsRead \cap new = {}
    <3>1. \A k \in c + 1 .. a : ~(k <= c)
      BY <2>3
    <3> QED BY <3>1 DEF UnitsRead, c
  <2>7. IsFiniteSet(new) /\ Cardinality(new) = a - c
    <3>1. IsFiniteSet({s}) /\ Cardinality({s}) = 1
      BY FS_Singleton
    <3>2. IsFiniteSet(c + 1 .. a) /\ Cardinality(c + 1 .. a) = a - c
      <4>1. c + 1 \in Int /\ a \in Int
        BY <2>3
      <4>2. /\ IsFiniteSet(c + 1 .. a)
            /\ Cardinality(c + 1 .. a) = IF c + 1 > a THEN 0 ELSE a - (c + 1) + 1
        BY <4>1, FS_Interval
      <4> QED BY <2>3, <4>2
    <3>3. Cardinality(new) = Cardinality({s}) * Cardinality(c + 1 .. a) /\ IsFiniteSet(new)
      BY <3>1, <3>2, FS_Product
    <3>4. a - c \in Int
      BY <2>3
    <3> QED BY <3>1, <3>2, <3>3, <3>4
  <2>8. Cardinality(UnitsRead \cup new)
          = Cardinality(UnitsRead) + Cardinality(new) - Cardinality(UnitsRead \cap new)
    BY <2>7, UnitsFinite, FS_Union
  <2>9. Cardinality(UnitsRead \cap new) = 0
    BY <2>6, FS_EmptySet
  <2> HIDE DEF new
  <2>10. Cardinality(UnitsRead') = stats'.bytes_read
    BY <2>2, <2>3, <2>5, <2>7, <2>8, <2>9, UnitsFinite DEF BooksInv
  <2> QED BY <2>2, <2>10 DEF BooksInv, ModeCounts
<1> QED BY <1>1, <1>2

LEMMA BooksNext == TypeOK /\ Lifecycle /\ BooksInv /\ ServerNext => BooksInv'
<1> SUFFICES ASSUME TypeOK, Lifecycle, BooksInv, ServerNext PROVE BooksInv'
  OBVIOUS
<1>1. CASE Loop \/ Receive \/ LoopFails \/ HandleFails \/ RequestShutdown \/ Ended
  BY <1>1, BooksSame
  DEF Loop, LoopTop, PollTimeout, PollReadable, RecvWouldBlock, Receive, RecvDatagram,
      LoopFails, HandleFails, RequestShutdown, Ended, serverVars, unchangedButControl,
      recvSide
<1>2. CASE RetryDone \/ FirstDueDone \/ ReadDone \/ SecondDueDone
  BY <1>2, BooksSame
  DEF RetryDone, FirstDueDone, ReadDone, SecondDueDone, unchangedButControl, recvSide
<1>3. ASSUME NEW s \in Streams, RetryResponse(s) PROVE BooksInv'
  BY <1>3, BooksSame DEF RetryResponse, recvSide
<1>4. ASSUME NEW s \in Streams, FinishStream(s) \/ FinishStreamFails(s) PROVE BooksInv'
  <2>1. /\ UNCHANGED <<scenario, consumed>>
        /\ \/ stats' = [stats EXCEPT !.successful_requests = @ + 1]
           \/ stats' = stats
    BY <1>4 DEF FinishStream, FinishStreamFails, finish_raw_server_stream, recvSide
  <2>2. /\ stats'.bytes_read = stats.bytes_read
        /\ stats'.app_rejections = stats.app_rejections
        /\ stats'.reset_rejections = stats.reset_rejections
    BY <2>1 DEF TypeOK, ClientType, StatsType
  <2> QED BY <2>1, <2>2, BooksSame
<1>5. ASSUME NEW s \in Streams,
             RejectApp503(s) \/ RejectApp503Fails(s) \/ RejectReset(s)
      PROVE  BooksInv'
  <2>1. /\ UNCHANGED <<scenario, consumed>>
        /\ \/ /\ scenario.mode = "App503"
              /\ stats' = [stats EXCEPT !.app_rejections = @ + 1]
           \/ /\ scenario.mode = "Reset"
              /\ stats' = [stats EXCEPT !.reset_rejections = @ + 1]
    BY <1>5 DEF RejectApp503, RejectApp503Fails, RejectReset, FirstSight, Visit
  <2>2. /\ stats'.bytes_read = stats.bytes_read
        /\ scenario.mode = "App503" => stats'.reset_rejections = stats.reset_rejections
        /\ scenario.mode = "Reset" => stats'.app_rejections = stats.app_rejections
    BY <2>1 DEF TypeOK, ClientType, StatsType
  <2> QED BY <2>1, <2>2, ScenarioFacts DEF BooksInv, UnitsRead, ModeCounts
<1>6. ASSUME NEW s \in Streams, AcceptStream(s) PROVE BooksInv'
  <2> DEFINE peak == IF stats.peak_inflight > in_flight THEN stats.peak_inflight
                     ELSE in_flight + 1
             books == [stats EXCEPT !.accepted_requests = @ + 1, !.peak_inflight = peak]
  <2>1. peak \in Nat /\ stats \in StatsType /\ stats.accepted_requests + 1 \in Nat
    BY DEF TypeOK, ClientType, StatsType
  <2>2. ReadBody(s, streams \cup {s}, in_flight + 1, books) /\ scenario' = scenario
    BY <1>6 DEF AcceptStream, FirstSight, Visit
  <2> HIDE DEF peak
  <2>3. books \in StatsType
    BY <2>1, StatsUpdate
  <2>4. /\ books.bytes_read = stats.bytes_read
        /\ books.app_rejections = stats.app_rejections
        /\ books.reset_rejections = stats.reset_rejections
    BY <2>1 DEF StatsType
  <2> HIDE DEF books
  <2> QED BY <2>2, <2>3, <2>4, BooksRead
<1>8. ASSUME NEW s \in Streams, AcceptStreamFails(s) PROVE BooksInv'
  <2>1. UNCHANGED <<scenario, consumed>>
    BY <1>8 DEF AcceptStreamFails, FirstSight, Visit, recvSide
  <2>2. /\ stats'.bytes_read = stats.bytes_read
        /\ stats'.app_rejections = stats.app_rejections
        /\ stats'.reset_rejections = stats.reset_rejections
    BY <1>8 DEF AcceptStreamFails, TypeOK, ClientType, StatsType
  <2> QED BY <2>1, <2>2, BooksSame
<1>7. ASSUME NEW s \in Streams, ReadMore(s) PROVE BooksInv'
  <2>1. ReadBody(s, streams, in_flight, stats) /\ scenario' = scenario /\ stats \in StatsType
    BY <1>7 DEF ReadMore, Visit, TypeOK, ClientType
  <2> QED BY <2>1, BooksRead
<1> QED
  BY <1>1, <1>2, <1>3, <1>4, <1>5, <1>6, <1>7, <1>8
  DEF ServerNext, Handler, Failure

LEMMA BooksCorrect == ServerSafety => []BooksInv
<1>1. BooksInv /\ UNCHANGED serverVars => BooksInv'
  BY BooksSame DEF serverVars, recvSide
<1> QED BY <1>1, BooksInit, BooksNext, LifecycleCorrect, TypeCorrect, PTL DEF ServerSafety
=============================================================================
