-------------------------- MODULE H3ExchangeProofs --------------------------
(***************************************************************************)
(* What is proved of the HTTP/3 scenario, for any number of users,         *)
(* messages and warm-ups, any length of a body and, where it matters, any  *)
(* failure.                                                                *)
(*                                                                         *)
(* The inductive invariant says which streams are open and who waits for   *)
(* them: OpenedInv relates the streams of the client's maps to the         *)
(* messages asked for, UsersInv the maps to user_inflight, SumInv the      *)
(* three counts to each other.  Without failures a scenario is then a run  *)
(* of ClosedLoop.                                                          *)
(***************************************************************************)
EXTENDS H3Exchange, FiniteSetTheorems, FunctionTheorems, TLAPS

\* The messages asked for: behind their user, or outstanding.
Asked ==
  {m \in UserIds \X (0 .. (MessagesPerUser - 1)) :
     m[2] < user_next[m[1]] \/ (m[2] = user_next[m[1]] /\ m[1] \in user_inflight)}

\* Streams are opened in order, one for each warm-up and each message asked
\* for, and stay in starts until their response is received.
OpenedInv ==
  /\ opened <= WarmUps - warm + Cardinality(Asked)
  /\ measuring => warm = 0
  /\ \A s \in Streams :
       /\ s < opened <=> s \in starts \cup got
       /\ s \in starts => s \notin got
       /\ s >= opened => written[s] = 0 /\ s \notin pending_bodies
       /\ arrived[s] <= written[s]
  /\ events \subseteq got
  /\ events # {} => cpc = "tally"

\* Who has a request outstanding: a user in flight, or one that was given up.
UsersInv ==
  /\ ~measuring => user_inflight = {} /\ \A u \in UserIds : user_next[u] = 0
  /\ measuring =>
       /\ \A s, t \in starts \cup events : stream_users[s] = stream_users[t] => s = t
       /\ \A s \in starts \cup events :
            stream_users[s] \notin user_inflight =>
              Faults /\ user_next[stream_users[s]] = MessagesPerUser
  /\ \A u \in user_inflight :
       /\ user_next[u] < MessagesPerUser
       /\ \E s \in starts \cup events : stream_users[s] = u

\* The counts, and how the measurement ends.
SumInv ==
  /\ CountsAgree
  /\ ~measuring => latencies = 0 /\ errors = 0
  /\ ~Faults => errors = 0 /\ cpc # "failed"
  /\ cpc \in {"stop", "join", "done"} => measuring /\ (Faults \/ completed >= Total)

-----------------------------------------------------------------------------
(***************************************************************************)
(* Counting.                                                               *)
(***************************************************************************)
LEMMA DisjointSize ==
  ASSUME NEW A, IsFiniteSet(A), NEW B, IsFiniteSet(B), A \cap B = {}
  PROVE  /\ IsFiniteSet(A \cup B)
         /\ Cardinality(A \cup B) = Cardinality(A) + Cardinality(B)
         /\ Cardinality(A) \in Nat /\ Cardinality(B) \in Nat
<1>1. Cardinality(A \cap B) = 0
  BY FS_EmptySet
<1>2. Cardinality(A) \in Nat /\ Cardinality(B) \in Nat
  BY FS_CardinalityType
<1>3. Cardinality(A \cup B) = Cardinality(A) + Cardinality(B) - Cardinality(A \cap B)
  BY FS_Union
<1>4. IsFiniteSet(A \cup B)
  BY FS_Union
<1> QED BY <1>1, <1>2, <1>3, <1>4

LEMMA SameSize ==
  ASSUME NEW S, IsFiniteSet(S), NEW T, NEW f \in [S -> T],
         \A x, y \in S : f[x] = f[y] => x = y,
         \A y \in T : \E x \in S : f[x] = y
  PROVE  IsFiniteSet(T) /\ Cardinality(T) = Cardinality(S)
<1>1. f \in Injection(S, T) /\ f \in Surjection(S, T)
  BY DEF Injection, IsInjective, Surjection
<1>2. ExistsBijection(S, T)
  BY <1>1 DEF ExistsBijection, Bijection
<1> QED BY <1>2, FS_Bijection

\* Every message of every user.
Messages == UserIds \X (0 .. (MessagesPerUser - 1))

LEMMA MessagesSize ==
  /\ IsFiniteSet(Messages) /\ Cardinality(Messages) = Total /\ Total \in Nat
  /\ IsFiniteSet(UserIds) /\ IsFiniteSet(UserIds \X (0 .. MessagesPerUser))
<1>1. /\ IsFiniteSet(0 .. (Users - 1))
      /\ Cardinality(0 .. (Users - 1)) = IF 0 > Users - 1 THEN 0 ELSE Users - 1 - 0 + 1
  BY CountsAssumption, FS_Interval
<1>2. /\ IsFiniteSet(0 .. (MessagesPerUser - 1))
      /\ Cardinality(0 .. (MessagesPerUser - 1)) =
           IF 0 > MessagesPerUser - 1 THEN 0 ELSE MessagesPerUser - 1 - 0 + 1
  BY CountsAssumption, FS_Interval
<1>3. IsFiniteSet(0 .. MessagesPerUser)
  BY CountsAssumption, FS_Interval
<1>4. IsFiniteSet(UserIds) /\ Cardinality(UserIds) = Users
  BY <1>1, CountsAssumption DEF UserIds
<1>5. Cardinality(0 .. (MessagesPerUser - 1)) = MessagesPerUser
  BY <1>2, CountsAssumption
<1>6. /\ IsFiniteSet(Messages)
      /\ Cardinality(Messages) = Cardinality(UserIds) * Cardinality(0 .. (MessagesPerUser - 1))
  BY <1>2, <1>4, FS_Product DEF Messages
<1>7. Cardinality(Messages) \in Nat
  BY <1>6, FS_CardinalityType
<1>8. IsFiniteSet(UserIds \X (0 .. MessagesPerUser))
  BY <1>3, <1>4, FS_Product
<1> QED BY <1>4, <1>5, <1>6, <1>7, <1>8 DEF Total

LEMMA AskedSize ==
  /\ Asked \in SUBSET Messages /\ IsFiniteSet(Asked)
  /\ Cardinality(Asked) \in Nat /\ Cardinality(Asked) <= Total
<1>1. Asked \in SUBSET Messages
  BY DEF Asked, Messages
<1>2. IsFiniteSet(Asked) /\ Cardinality(Asked) <= Cardinality(Messages)
  BY <1>1, MessagesSize, FS_Subset
<1> QED BY <1>1, <1>2, MessagesSize, FS_CardinalityType

LEMMA AskedMore ==
  ASSUME Asked \subseteq Asked'
  PROVE  Cardinality(Asked) <= Cardinality(Asked')
<1>1. Asked' \in SUBSET Messages
  BY DEF Asked, Messages
<1>2. IsFiniteSet(Asked')
  BY <1>1, MessagesSize, FS_Subset
<1> QED BY <1>2, FS_Subset

\* The user of Fill asks for its next message.
LEMMA AskNext ==
  ASSUME TypeOK, NEW u \in UserIds, Fill(u)
  PROVE  /\ <<u, user_next[u]>> \in Messages \ Asked
         /\ Cardinality(Asked) < Total
         /\ \A S \in SUBSET Messages :
              Asked \cup {<<u, user_next[u]>>} \subseteq S
                => Cardinality(Asked) + 1 <= Cardinality(S)
<1> DEFINE m == <<u, user_next[u]>>
<1>1. u \notin user_inflight /\ user_next[u] < MessagesPerUser /\ user_next[u] \in Nat
  BY DEF Fill, Ready, TypeOK
<1>2. m \in Messages
  BY <1>1, CountsAssumption DEF Messages
<1>3. m[1] = u /\ m[2] = user_next[u]
  OBVIOUS
<1>4. m \notin Asked
  BY <1>1, <1>3 DEF Asked
<1> HIDE DEF m
<1>5. /\ IsFiniteSet(Asked \cup {m})
      /\ Cardinality(Asked \cup {m}) = Cardinality(Asked) + 1
  BY <1>4, AskedSize, FS_AddElement
<1>6. ASSUME NEW S \in SUBSET Messages, Asked \cup {m} \subseteq S
      PROVE  Cardinality(Asked) + 1 <= Cardinality(S)
  <2>1. IsFiniteSet(S)
    BY MessagesSize, FS_Subset
  <2> QED BY <1>5, <1>6, <2>1, FS_Subset
<1>7. Cardinality(Asked) + 1 <= Cardinality(Messages)
  BY <1>2, <1>6, AskedSize
<1>8. Cardinality(Asked) < Total
  BY <1>7, AskedSize, MessagesSize
<1> QED BY <1>2, <1>4, <1>6, <1>8 DEF m

-----------------------------------------------------------------------------
(***************************************************************************)
(* The shapes of the steps.                                                *)
(***************************************************************************)
\* What send_request leaves in the client's maps, complete or not.
Registers(u) ==
  /\ opened' = opened + 1 /\ starts' = starts \cup {opened}
  /\ stream_users' = [stream_users EXCEPT ![opened] = u]
  /\ \E n \in 0 .. BodyLen :
       /\ written' = [written EXCEPT ![opened] = n]
       /\ \/ pending_bodies' = pending_bodies \cup {opened} /\ n < BodyLen
          \/ pending_bodies' = pending_bodies /\ (Faults \/ n = BodyLen)

LEMMA SendRegisters ==
  ASSUME NEW u
  PROVE  /\ send_request(u) => Registers(u)
         /\ Faults /\ send_request_fails(u) => UNCHANGED registers \/ Registers(u)
<1>1. ASSUME NEW n \in 0 .. BodyLen, Register(u, n),
             \/ pending_bodies' = pending_bodies \cup {opened} /\ n < BodyLen
             \/ pending_bodies' = pending_bodies /\ (Faults \/ n = BodyLen)
      PROVE  Registers(u)
  BY <1>1, Zenon DEF Register, Registers
<1>2. ASSUME send_request(u) PROVE Registers(u)
  <2>1. PICK n \in 0 .. BodyLen :
          /\ Register(u, n)
          /\ pending_bodies' = IF n < BodyLen THEN pending_bodies \cup {opened}
                               ELSE pending_bodies
    BY <1>2 DEF send_request
  <2>2. CASE n < BodyLen
    BY <1>1, <2>1, <2>2
  <2>3. CASE ~(n < BodyLen)
    <3>1. n = BodyLen
      BY <2>3, BodyLenAssumption
    <3> QED BY <1>1, <2>1, <2>3, <3>1
  <2> QED BY <2>2, <2>3
<1>3. ASSUME Faults, Register(u, 0), UNCHANGED pending_bodies PROVE Registers(u)
  <2>1. 0 \in 0 .. BodyLen
    BY BodyLenAssumption
  <2> QED BY <1>1, <1>3, <2>1
<1> QED BY <1>2, <1>3 DEF send_request_fails

\* The next stream is one of Streams, and nothing is known of it.
LEMMA NextStream ==
  ASSUME TypeOK, OpenedInv, UsersInv,
         \/ cpc = "fill" /\ ~measuring /\ warm > 0
         \/ \E u \in UserIds : Fill(u)
  PROVE  /\ opened \in Streams /\ opened \notin starts \cup got \cup pending_bodies
         /\ written[opened] = 0
<1>1. /\ opened \in Nat /\ warm \in 0 .. WarmUps /\ WarmUps \in Nat
      /\ opened <= WarmUps - warm + Cardinality(Asked) /\ Total \in Nat
  BY CountsAssumption, MessagesSize DEF TypeOK, OpenedInv
<1>2. opened < WarmUps + Total
  <2>1. CASE \E u \in UserIds : Fill(u)
    <3>1. Cardinality(Asked) < Total /\ Cardinality(Asked) \in Nat
      BY <2>1, AskNext, AskedSize
    <3> QED BY <1>1, <3>1
  <2>2. CASE ~measuring /\ warm > 0
    <3>1. Asked = {}
      BY <2>2 DEF UsersInv, Asked
    <3>2. Cardinality(Asked) = 0
      BY <3>1, FS_EmptySet
    <3> QED BY <1>1, <2>2, <3>2
  <2> QED BY <2>1, <2>2
<1>3. opened \in Streams
  BY <1>1, <1>2 DEF Streams
<1> QED BY <1>1, <1>3 DEF OpenedInv

-----------------------------------------------------------------------------
(***************************************************************************)
(* The types.                                                              *)
(***************************************************************************)
LEMMA TypeInit == Init => TypeOK
<1> SUFFICES ASSUME Init PROVE TypeOK
  OBVIOUS
<1>1. Total \in Nat /\ WarmUps \in Nat /\ Users \in Nat \ {0} /\ BodyLen \in Nat
  BY CountsAssumption, BodyLenAssumption, MessagesSize
<1>2. 0 \in UserIds
  BY <1>1 DEF UserIds
<1>3. 0 \in 0 .. (WarmUps + Total) /\ 0 \in 0 .. Users /\ 0 \in 0 .. BodyLen
      /\ WarmUps \in 0 .. WarmUps
  BY <1>1
<1>4. /\ stream_users \in [Streams -> UserIds] /\ user_next \in [UserIds -> Nat]
      /\ written \in [Streams -> 0 .. BodyLen] /\ arrived \in [Streams -> 0 .. BodyLen]
  BY <1>2, <1>3 DEF Init
<1>5. /\ warm = WarmUps /\ user = 0 /\ opened = 0
      /\ cpc = "connect" /\ spc = "top"
      /\ completed = 0 /\ latencies = 0 /\ errors = 0
      /\ starts = {} /\ events = {} /\ pending_bodies = {} /\ user_inflight = {}
      /\ finished = {} /\ pending_responses = {} /\ responded = {} /\ flushed = {}
      /\ got = {}
      /\ measuring = FALSE /\ progress = FALSE /\ conn_open = TRUE /\ shutdown = FALSE
      /\ has_client = FALSE
  BY DEF Init
<1>6. warm \in 0 .. WarmUps /\ user \in 0 .. Users /\ opened \in 0 .. (WarmUps + Total)
  BY <1>3, <1>5
<1>7. completed \in Nat /\ latencies \in Nat /\ errors \in Int
  BY <1>5
<1>8. /\ starts \subseteq Streams /\ events \subseteq Streams
      /\ pending_bodies \subseteq Streams /\ user_inflight \subseteq UserIds
      /\ finished \subseteq Streams /\ pending_responses \subseteq Streams
      /\ responded \subseteq Streams /\ flushed \subseteq Streams /\ got \subseteq Streams
  BY <1>5
<1>9. /\ measuring \in BOOLEAN /\ progress \in BOOLEAN /\ conn_open \in BOOLEAN
      /\ shutdown \in BOOLEAN /\ has_client \in BOOLEAN
  BY <1>5
<1>10. cpc = "connect" /\ spc = "top"
  BY <1>5
<1> QED BY <1>4, <1>6, <1>7, <1>8, <1>9, <1>10 DEF TypeOK

LEMMA EventsFinite ==
  ASSUME TypeOK
  PROVE  /\ IsFiniteSet(events) /\ Cardinality(events) \in Nat
         /\ \A S \in SUBSET events : IsFiniteSet(S) /\ Cardinality(S) \in Nat
<1>1. IsFiniteSet(Streams)
  BY CountsAssumption, MessagesSize, FS_Interval DEF Streams
<1>2. IsFiniteSet(events)
  BY <1>1, FS_Subset DEF TypeOK
<1> QED BY <1>2, FS_Subset, FS_CardinalityType

LEMMA HandlerType ==
  ASSUME TypeOK, arrived' \in [Streams -> 0 .. BodyLen], handle_h3_server_events
  PROVE  /\ finished' \subseteq Streams /\ pending_responses' \subseteq Streams
         /\ responded' \subseteq Streams
BY DEF handle_h3_server_events, Answer, TypeOK

LEMMA TypeServer ==
  ASSUME TypeOK, ServerStep
  PROVE  TypeOK'
<1>1. UNCHANGED <<clientVars, shutdown>>
  BY DEF ServerStep
<1>2. /\ spc' \in {"top", "poll", "recv", "dead"} /\ has_client' \in BOOLEAN
      /\ arrived' \in [Streams -> 0 .. BodyLen]
  BY DEF ServerStep, ServerLoop, LoopTop, PollTimeout, PollReadable, RecvDatagram,
     RecvWouldBlock, ServerFails, EndIteration, TypeOK
<1>3. \/ UNCHANGED <<finished, pending_responses, responded, flushed>>
      \/ handle_h3_server_events /\ (flushed' = flushed \/ flushed' = responded')
  BY DEF ServerStep, ServerLoop, LoopTop, PollTimeout, PollReadable, RecvDatagram,
     RecvWouldBlock, ServerFails, EndIteration
<1>4. /\ finished' \subseteq Streams /\ pending_responses' \subseteq Streams
      /\ responded' \subseteq Streams /\ flushed' \subseteq Streams
  <2>1. CASE UNCHANGED <<finished, pending_responses, responded, flushed>>
    BY <2>1 DEF TypeOK
  <2>2. CASE handle_h3_server_events /\ (flushed' = flushed \/ flushed' = responded')
    BY <1>2, <2>2, HandlerType DEF TypeOK
  <2> QED BY <1>3, <2>1, <2>2
<1> QED BY <1>1, <1>2, <1>4 DEF TypeOK, clientVars, tally, registers

LEMMA TypeRegisters ==
  ASSUME TypeOK, NEW u \in UserIds, Registers(u), opened \in Streams
  PROVE  /\ opened' \in 0 .. (WarmUps + Total) /\ starts' \subseteq Streams
         /\ pending_bodies' \subseteq Streams /\ stream_users' \in [Streams -> UserIds]
         /\ written' \in [Streams -> 0 .. BodyLen]
<1>1. opened' \in 0 .. (WarmUps + Total)
  <2>1. Total \in Nat /\ WarmUps \in Nat
    BY MessagesSize, CountsAssumption
  <2> QED BY <2>1 DEF Registers, Streams
<1> QED BY <1>1 DEF Registers, TypeOK

LEMMA TypeClient ==
  ASSUME TypeOK, OpenedInv, UsersInv, ClientStep
  PROVE  TypeOK'
<1>0. UNCHANGED <<serverVars, shutdown>>
  BY DEF ClientStep
<1> USE DEF TypeOK
<1>1. CASE Connected \/ WarmUpDrives \/ WarmUpEnds \/ FillEnds \/ PollIdleClose
           \/ ClientFails
  <2>1. /\ UNCHANGED <<warm, tally, registers, events, got>>
        /\ user' \in {user, 0} /\ measuring' \in BOOLEAN /\ conn_open' \in BOOLEAN
    BY <1>1
    DEF Connected, WarmUpDrives, WarmUpEnds, FillEnds, PollIdleClose, ClientFails
  <2>2. cpc' \in {"fill", "drive", "tally", "failed"}
    BY <1>1
    DEF Connected, WarmUpDrives, WarmUpEnds, FillEnds, PollIdleClose, ClientFails
  <2>3. user' \in 0 .. Users
    BY <2>1, CountsAssumption
  <2> QED BY <1>0, <2>1, <2>2, <2>3 DEF tally, registers, serverVars
<1>2. CASE WarmUp
  <2>1. Registers(0) /\ opened \in Streams /\ 0 \in UserIds
    BY <1>2, SendRegisters, NextStream, CountsAssumption DEF WarmUp, UserIds
  <2>2. warm' \in 0 .. WarmUps
    BY <1>2, CountsAssumption DEF WarmUp
  <2> QED BY <1>0, <1>2, <2>1, <2>2, TypeRegisters DEF WarmUp, tally, serverVars
<1>3. ASSUME NEW u \in UserIds, Sends(u) PROVE TypeOK'
  <2>1. Registers(u) /\ opened \in Streams
    BY <1>3, SendRegisters, NextStream DEF Sends
  <2>2. user' \in 0 .. Users
    BY <1>3, CountsAssumption DEF Sends, UserIds
  <2> QED BY <1>0, <1>3, <2>1, <2>2, TypeRegisters DEF Sends, serverVars
<1>4. ASSUME NEW u \in UserIds, GivesUp(u) PROVE TypeOK'
  <2>1. UNCHANGED registers \/ Registers(u)
    BY <1>4, SendRegisters DEF GivesUp
  <2>2. opened \in Streams
    BY <1>4, NextStream DEF GivesUp
  <2>3. user' \in 0 .. Users
    BY <1>4, CountsAssumption DEF GivesUp, UserIds
  <2>4. /\ completed' \in Nat /\ errors' \in Int
        /\ user_next' \in [UserIds -> Nat]
    BY <1>4, CountsAssumption DEF GivesUp, Fill, Ready
  <2>5. /\ opened' \in 0 .. (WarmUps + Total) /\ starts' \subseteq Streams
        /\ pending_bodies' \subseteq Streams /\ stream_users' \in [Streams -> UserIds]
        /\ written' \in [Streams -> 0 .. BodyLen]
    BY <2>1, <2>2, TypeRegisters DEF registers
  <2> QED BY <1>0, <1>4, <2>3, <2>4, <2>5 DEF GivesUp, Fill, serverVars
<1>5. CASE Drive
  BY <1>0, <1>5 DEF Drive, flush_pending_bodies, Unwritten, tally, serverVars
<1>6. CASE Poll
  <2>1. /\ written' \in [Streams -> 0 .. BodyLen] /\ pending_bodies' \subseteq Streams
        /\ starts' \subseteq Streams /\ events' \subseteq Streams /\ got' \subseteq Streams
    BY <1>6 DEF Poll, flush_pending_bodies, Unwritten
  <2> QED BY <1>0, <1>6, <2>1 DEF Poll, tally, serverVars
<1>7. ASSUME NEW timed_out \in BOOLEAN, Tally(timed_out) PROVE TypeOK'
  <2>1. Cardinality(events) \in Nat /\ Total \in Nat
    BY EventsFinite, MessagesSize
  <2>2. \A u \in UserIds : Advance(u) \in Nat
    BY EventsFinite DEF Advance
  <2>3. /\ user_next' \in [UserIds -> Nat] /\ user_inflight' \subseteq UserIds
        /\ completed' \in Nat /\ latencies' \in Nat /\ errors' \in Int
        /\ progress' \in BOOLEAN /\ cpc' \in {"stop", "fill"} /\ events' = {}
    <3>1. CASE measuring
      <4>1. /\ completed' = completed + Cardinality(events)
            /\ latencies' = latencies + Cardinality(events)
            /\ user_next' = [u \in UserIds |-> Advance(u)]
            /\ user_inflight' \subseteq user_inflight /\ progress' = FALSE
            /\ cpc' \in {"stop", "fill"} /\ events' = {}
        BY <1>7, <3>1 DEF Tally
      <4>2. errors' = errors + (IF timed_out THEN Total - (completed + Cardinality(events))
                                ELSE 0)
        BY <1>7, <3>1 DEF Tally
      <4>3. errors' \in Int
        BY <2>1, <4>2
      <4>4. user_next' \in [UserIds -> Nat]
        BY <2>2, <4>1
      <4>5. completed' \in Nat /\ latencies' \in Nat
        BY <2>1, <4>1
      <4> QED BY <4>1, <4>3, <4>4, <4>5
    <3>2. CASE ~measuring
      BY <1>7, <3>2 DEF Tally, tally
    <3> QED BY <3>1, <3>2
  <2>4. UNCHANGED <<warm, measuring, user, registers, conn_open, got>>
    BY <1>7 DEF Tally
  <2> QED BY <1>0, <2>3, <2>4 DEF registers, serverVars
<1>8. CASE TallyEvents \/ Watchdog
  BY <1>7, <1>8 DEF TallyEvents, Watchdog
<1> QED
  BY <1>1, <1>2, <1>3, <1>4, <1>5, <1>6, <1>8
  DEF ClientStep, ClientLoop, Send, SendFails

LEMMA TypeNext ==
  ASSUME TypeOK, OpenedInv, UsersInv, [Next]_h3Vars
  PROVE  TypeOK'
<1>1. CASE StopServer
  BY <1>1 DEF StopServer, TypeOK, tally, registers, serverVars
<1>2. CASE Join
  BY <1>2 DEF Join, TypeOK, tally, registers, serverVars
<1>3. CASE Halted \/ UNCHANGED h3Vars
  BY <1>3 DEF Halted, h3Vars, TypeOK, clientVars, tally, registers, serverVars
<1> QED BY <1>1, <1>2, <1>3, TypeServer, TypeClient DEF Next

-----------------------------------------------------------------------------
(***************************************************************************)
(* The shapes of the steps, as lemmas.                                     *)
(***************************************************************************)
Ended == cpc \in {"stop", "join", "done"}

\* Bodies grow only while they are remembered, and arrive only as written.
Flows ==
  /\ pending_bodies' \subseteq pending_bodies
  /\ \A s \in Streams :
       /\ written[s] <= written'[s]
       /\ s \notin pending_bodies => written'[s] = written[s]
       /\ arrived[s] <= arrived'[s]
       /\ arrived'[s] = arrived[s] \/ arrived'[s] <= written[s]

\* Steps that open, answer and count nothing.
Quiet ==
  /\ UNCHANGED <<warm, measuring, tally, opened, starts, stream_users, events, got>>
  /\ Flows
  /\ cpc' = cpc \/ cpc # "tally"
  /\ Ended' <=> Ended
  /\ cpc' = "failed" => cpc = "failed" \/ Faults

LEMMA StillFlows ==
  ASSUME TypeOK, UNCHANGED <<pending_bodies, written, arrived>>
  PROVE  Flows
<1>1. \A s \in Streams : written[s] \in Int /\ arrived[s] \in Int
  BY BodyLenAssumption DEF TypeOK
<1> QED BY <1>1 DEF Flows

LEMMA ServerFlows ==
  ASSUME TypeOK, ServerStep
  PROVE  /\ UNCHANGED <<clientVars, shutdown>>
         /\ Flows
         /\ \/ UNCHANGED <<finished, pending_responses, responded, flushed>>
            \/ handle_h3_server_events /\ (flushed' = flushed \/ flushed' = responded')
<1>1. UNCHANGED <<clientVars, shutdown>>
  BY DEF ServerStep
<1>2. \/ UNCHANGED arrived
      \/ \A s \in Streams : arrived'[s] \in arrived[s] .. written[s]
  BY DEF ServerStep, ServerLoop, LoopTop, PollTimeout, PollReadable, RecvDatagram,
     RecvWouldBlock, ServerFails, EndIteration
<1>3. \/ UNCHANGED <<finished, pending_responses, responded, flushed>>
      \/ handle_h3_server_events /\ (flushed' = flushed \/ flushed' = responded')
  BY DEF ServerStep, ServerLoop, LoopTop, PollTimeout, PollReadable, RecvDatagram,
     RecvWouldBlock, ServerFails, EndIteration
<1>4. \A s \in Streams : written[s] \in Int /\ arrived[s] \in Int
  BY BodyLenAssumption DEF TypeOK
<1>5. Flows
  BY <1>1, <1>2, <1>4 DEF Flows, clientVars, registers
<1> QED BY <1>1, <1>3, <1>5

LEMMA FlushFlows ==
  ASSUME TypeOK, UNCHANGED arrived, NEW bodies \in SUBSET pending_bodies,
         flush_pending_bodies(bodies)
  PROVE  Flows
<1>1. \A s \in Streams : written[s] \in Int /\ arrived[s] \in Int
  BY BodyLenAssumption DEF TypeOK
<1> QED BY <1>1 DEF flush_pending_bodies, Unwritten, Flows

\* Every step is quiet, or one of the client's that are not.
LEMMA StepKinds ==
  ASSUME TypeOK, [Next]_h3Vars
  PROVE  \/ Quiet
         \/ /\ UNCHANGED serverVars
            /\ \/ WarmUp \/ WarmUpEnds \/ Poll \/ TallyEvents \/ Watchdog
               \/ \E u \in UserIds : Sends(u) \/ GivesUp(u)
<1>1. CASE ServerStep
  BY <1>1, ServerFlows DEF Quiet, clientVars, registers, Ended
<1>2. CASE (Connected \/ WarmUpDrives \/ FillEnds \/ PollIdleClose \/ ClientFails)
           /\ UNCHANGED serverVars
  <2>1. UNCHANGED <<warm, measuring, tally, registers, events, got, arrived>>
    BY <1>2
    DEF Connected, WarmUpDrives, FillEnds, PollIdleClose, ClientFails, serverVars
  <2>2. /\ cpc # "tally" /\ ~Ended /\ ~Ended'
        /\ cpc' = "failed" => Faults
    BY <1>2 DEF Connected, WarmUpDrives, FillEnds, PollIdleClose, ClientFails, Ended
  <2> QED BY <2>1, <2>2, StillFlows DEF Quiet, registers
<1>3. CASE Drive /\ UNCHANGED serverVars
  <2>1. UNCHANGED <<warm, measuring, tally, opened, starts, stream_users, events, got,
                    arrived>>
    BY <1>3 DEF Drive, serverVars
  <2>2. cpc = "drive" /\ cpc' = "poll" /\ flush_pending_bodies(pending_bodies)
    BY <1>3 DEF Drive
  <2> QED BY <2>1, <2>2, FlushFlows DEF Quiet, Ended
<1>4. CASE StopServer \/ Join
  <2>1. UNCHANGED <<warm, measuring, tally, registers, events, got, arrived>>
    BY <1>4 DEF StopServer, Join, serverVars
  <2>2. cpc # "tally" /\ Ended /\ Ended' /\ cpc' # "failed"
    BY <1>4 DEF StopServer, Join, Ended
  <2> QED BY <2>1, <2>2, StillFlows DEF Quiet, registers
<1>5. CASE Halted \/ UNCHANGED h3Vars
  <2>1. UNCHANGED <<cpc, warm, measuring, tally, registers, events, got, arrived>>
    BY <1>5 DEF Halted, h3Vars, clientVars, serverVars
  <2> QED BY <2>1, StillFlows DEF Quiet, registers, Ended
<1> QED
  BY <1>1, <1>2, <1>3, <1>4, <1>5
  DEF Next, ClientStep, ClientLoop, Send, SendFails

-----------------------------------------------------------------------------
(***************************************************************************)
(* Bodies and answers.                                                     *)
(***************************************************************************)
\* The steps other than those of the server leave its answers alone; got
\* grows by what was flushed, and nothing that has arrived is taken back.
LEMMA ClientAnswers ==
  ASSUME TypeOK, [Next]_h3Vars
  PROVE  /\ \A s \in Streams : arrived[s] <= arrived'[s]
         /\ \/ UNCHANGED <<finished, pending_responses, responded, flushed>>
               /\ \/ got' = got
                  \/ \E responses \in SUBSET (flushed \ got) : got' = got \cup responses
            \/ /\ handle_h3_server_events /\ got' = got
               /\ flushed' = flushed \/ flushed' = responded'
<1>1. CASE ServerStep
  BY <1>1, ServerFlows DEF Flows, clientVars
<1>2. CASE ~ServerStep
  <2>1. UNCHANGED <<arrived, finished, pending_responses, responded, flushed>>
    BY <1>2 DEF Next, ClientStep, StopServer, Join, Halted, h3Vars, serverVars
  <2>2. \A s \in Streams : arrived[s] \in Int
    BY BodyLenAssumption DEF TypeOK
  <2>3. CASE Quiet
    BY <2>1, <2>2, <2>3 DEF Quiet
  <2>4. CASE Poll
    BY <2>1, <2>2, <2>4 DEF Poll
  <2>5. CASE WarmUp \/ WarmUpEnds \/ TallyEvents \/ Watchdog
             \/ \E u \in UserIds : Sends(u) \/ GivesUp(u)
    <3>1. got' = got
      BY <2>5 DEF WarmUp, WarmUpEnds, TallyEvents, Watchdog, Tally, Sends, GivesUp
    <3> QED BY <2>1, <2>2, <3>1
  <2> QED BY <2>3, <2>4, <2>5, StepKinds
<1> QED BY <1>1, <1>2

LEMMA AnsweredNext ==
  ASSUME TypeOK, TypeOK', AnsweredOnce, [Next]_h3Vars
  PROVE  AnsweredOnce'
<1>1. \A s \in finished : arrived'[s] = BodyLen
  <2>1. \A s \in finished : s \in Streams /\ arrived[s] = BodyLen
    BY DEF AnsweredOnce, TypeOK
  <2>2. \A s \in Streams : arrived[s] <= arrived'[s] /\ arrived'[s] \in 0 .. BodyLen
    BY ClientAnswers DEF TypeOK
  <2> QED BY <2>1, <2>2, BodyLenAssumption
<1>2. CASE UNCHANGED <<finished, pending_responses, responded, flushed>>
           /\ \/ got' = got
              \/ \E responses \in SUBSET (flushed \ got) : got' = got \cup responses
  BY <1>1, <1>2 DEF AnsweredOnce
<1>3. CASE /\ handle_h3_server_events /\ got' = got
           /\ flushed' = flushed \/ flushed' = responded'
  <2> DEFINE done == {s \in Streams : arrived'[s] = BodyLen} \ finished
  <2>1. PICK blocked \in SUBSET done, retried \in SUBSET pending_responses :
          Answer(done, blocked, retried)
    BY <1>3 DEF handle_h3_server_events
  <2>2. /\ finished' = finished \cup done
        /\ pending_responses' = (pending_responses \ retried) \cup blocked
        /\ responded' = responded \cup retried \cup (done \ blocked)
    BY <2>1 DEF Answer
  <2>3. \A s \in done : s \notin finished /\ arrived'[s] = BodyLen
    OBVIOUS
  <2> HIDE DEF done
  <2>4. finished' = responded' \cup pending_responses'
    BY <2>2 DEF AnsweredOnce
  <2>5. responded' \cap pending_responses' = {}
    BY <2>2, <2>3 DEF AnsweredOnce
  <2>6. got' \subseteq flushed' /\ flushed' \subseteq responded'
    BY <1>3, <2>2 DEF AnsweredOnce
  <2> QED BY <1>1, <2>2, <2>3, <2>4, <2>5, <2>6 DEF AnsweredOnce
<1> QED BY <1>2, <1>3, ClientAnswers

\* What is answered was opened.
LEMMA AnsweredIsOpen ==
  ASSUME TypeOK, AnsweredOnce, OpenedInv, NEW s \in finished
  PROVE  s \in Streams /\ s \in starts \cup got
<1>1. s \in Streams /\ arrived[s] = BodyLen
  BY DEF AnsweredOnce, TypeOK
<1>2. written[s] \in 0 .. BodyLen /\ arrived[s] <= written[s]
  BY <1>1 DEF OpenedInv, TypeOK
<1>3. ~(s >= opened)
  BY <1>1, <1>2, BodyLenAssumption DEF OpenedInv
<1>4. s < opened
  BY <1>1, <1>3, CountsAssumption, MessagesSize DEF TypeOK, Streams
<1> QED BY <1>1, <1>4 DEF OpenedInv

LEMMA BodiesRegister ==
  ASSUME TypeOK, BodiesRemembered, NEW u, Registers(u), opened \in Streams,
         opened \notin starts
  PROVE  BodiesRemembered'
<1>1. PICK n \in 0 .. BodyLen :
        /\ written' = [written EXCEPT ![opened] = n]
        /\ \/ pending_bodies' = pending_bodies \cup {opened} /\ n < BodyLen
           \/ pending_bodies' = pending_bodies /\ (Faults \/ n = BodyLen)
  BY DEF Registers
<1>2. starts' = starts \cup {opened}
  BY DEF Registers
<1>3. written'[opened] = n /\ \A s \in Streams \ {opened} : written'[s] = written[s]
  BY <1>1 DEF TypeOK
<1>4. \A s \in starts : s \in Streams /\ s # opened
  BY DEF TypeOK
<1>5. \A s \in pending_bodies' : s \in starts' /\ written'[s] < BodyLen
  <2>1. \A s \in pending_bodies : s \in starts /\ written[s] < BodyLen
    BY DEF BodiesRemembered
  <2> QED BY <1>1, <1>2, <1>3, <1>4, <2>1
<1>6. ASSUME ~Faults, NEW s \in starts', written'[s] < BodyLen
      PROVE  s \in pending_bodies'
  <2>1. CASE s = opened
    BY <1>1, <1>3, <1>6, <2>1, BodyLenAssumption
  <2>2. CASE s # opened
    BY <1>1, <1>2, <1>3, <1>4, <1>6, <2>2 DEF BodiesRemembered
  <2> QED BY <2>1, <2>2
<1> QED BY <1>5, <1>6 DEF BodiesRemembered

LEMMA BodiesNext ==
  ASSUME TypeOK, TypeOK', OpenedInv, UsersInv, BodiesRemembered, [Next]_h3Vars
  PROVE  BodiesRemembered'
<1>0. \A s \in Streams : written[s] \in Int /\ written'[s] \in Int /\ BodyLen \in Int
  BY BodyLenAssumption DEF TypeOK
<1>1. CASE UNCHANGED <<starts, written, pending_bodies>>
  BY <1>1 DEF BodiesRemembered
<1>2. ASSUME NEW gone, starts' = starts \ gone,
             flush_pending_bodies(pending_bodies \ gone)
      PROVE  BodiesRemembered'
  <2>1. /\ \A s \in Streams : s \in pending_bodies \ gone => written[s] <= written'[s]
        /\ \A s \in Streams : s \notin pending_bodies \ gone => written'[s] = written[s]
        /\ pending_bodies' = {s \in pending_bodies \ gone : written'[s] < BodyLen}
    BY <1>0, <1>2 DEF flush_pending_bodies, Unwritten
  <2>2. \A s \in pending_bodies' : s \in starts' /\ written'[s] < BodyLen
    BY <1>2, <2>1 DEF BodiesRemembered
  <2>3. ASSUME ~Faults, NEW s \in starts', written'[s] < BodyLen
        PROVE  s \in pending_bodies'
    <3>1. s \in starts /\ s \notin gone /\ s \in Streams
      BY <1>2, <2>3 DEF TypeOK
    <3>2. written[s] < BodyLen
      BY <1>0, <2>1, <2>3, <3>1
    <3>3. s \in pending_bodies
      BY <2>3, <3>1, <3>2 DEF BodiesRemembered
    <3> QED BY <2>1, <2>3, <3>1, <3>3
  <2> QED BY <2>2, <2>3 DEF BodiesRemembered
<1>3. CASE Drive
  <2>1. starts' = starts \ {} /\ flush_pending_bodies(pending_bodies \ {})
    <3>1. pending_bodies \ {} = pending_bodies /\ starts \ {} = starts
      OBVIOUS
    <3> QED BY <1>3, <3>1 DEF Drive
  <2> QED BY <1>2, <2>1
<1>4. CASE Poll
  BY <1>2, <1>4 DEF Poll
<1>5. CASE WarmUp
  BY <1>5, SendRegisters, NextStream, BodiesRegister DEF WarmUp
<1>6. ASSUME NEW u \in UserIds, Sends(u) \/ GivesUp(u) PROVE BodiesRemembered'
  <2>1. Fill(u) /\ (UNCHANGED registers \/ Registers(u))
    BY <1>6, SendRegisters DEF Sends, GivesUp
  <2>2. opened \in Streams /\ opened \notin starts
    BY <2>1, NextStream
  <2> QED BY <1>1, <2>1, <2>2, BodiesRegister DEF registers
<1>7. CASE ~(Drive \/ Poll \/ WarmUp \/ Send \/ SendFails)
  <2>1. UNCHANGED <<starts, written, pending_bodies>>
    BY <1>7
    DEF Next, ServerStep, ClientStep, ClientLoop, Connected, WarmUpDrives, WarmUpEnds, FillEnds,
        PollIdleClose, TallyEvents, Watchdog, Tally, ClientFails, StopServer, Join, Halted,
        h3Vars, clientVars, registers
  <2> QED BY <1>1, <2>1
<1> QED BY <1>3, <1>4, <1>5, <1>6, <1>7 DEF Send, SendFails

-----------------------------------------------------------------------------
(***************************************************************************)
(* Which streams are open.                                                 *)
(***************************************************************************)
LEMMA OpenedInit == Init => OpenedInv
<1> SUFFICES ASSUME Init PROVE OpenedInv
  OBVIOUS
<1>1. Asked = {}
  BY DEF Init, Asked
<1>2. Cardinality(Asked) = 0
  BY <1>1, FS_EmptySet
<1>3. opened <= WarmUps - warm + Cardinality(Asked)
  BY <1>2, CountsAssumption DEF Init
<1>4. \A s \in Streams : s >= 0 /\ ~(s < 0)
  BY CountsAssumption, MessagesSize DEF Streams
<1> QED BY <1>3, <1>4 DEF Init, OpenedInv

\* A stream is opened, for a message or for a warm-up.
LEMMA OpenedRegisters ==
  ASSUME TypeOK, OpenedInv, NEW u, Registers(u), opened \in Streams,
         opened \notin starts \cup got \cup pending_bodies,
         UNCHANGED <<arrived, got, events>>, cpc' = cpc \/ events = {},
         measuring' => warm' = 0,
         opened + 1 <= WarmUps - warm' + Cardinality(Asked')
  PROVE  OpenedInv'
<1>1. /\ opened' = opened + 1 /\ starts' = starts \cup {opened}
      /\ pending_bodies' \subseteq pending_bodies \cup {opened}
  BY DEF Registers
<1>2. PICK n \in 0 .. BodyLen : written' = [written EXCEPT ![opened] = n]
  BY DEF Registers
<1>3. \A s \in Streams : s \in Int /\ opened \in Int
  BY CountsAssumption, MessagesSize DEF Streams
<1>4. ASSUME NEW s \in Streams
      PROVE  /\ s < opened' <=> s \in starts' \cup got'
             /\ s \in starts' => s \notin got'
             /\ s >= opened' => written'[s] = 0 /\ s \notin pending_bodies'
             /\ arrived'[s] <= written'[s]
  <2>1. CASE s = opened
    <3>1. written[s] = 0 /\ arrived[s] <= written[s] /\ arrived[s] \in 0 .. BodyLen
      BY <1>3, <2>1 DEF OpenedInv, TypeOK
    <3>2. written'[s] = n /\ n \in Int /\ n >= 0
      BY <1>2, <2>1, BodyLenAssumption DEF TypeOK
    <3> QED BY <1>1, <1>3, <2>1, <3>1, <3>2
  <2>2. CASE s # opened
    <3>1. written'[s] = written[s] /\ arrived'[s] = arrived[s] /\ got' = got
      BY <1>2, <2>2 DEF TypeOK
    <3>2. s < opened' <=> s < opened
      BY <1>1, <1>3, <2>2
    <3>3. s >= opened' => s >= opened
      BY <1>1, <1>3
    <3> QED BY <1>1, <2>2, <3>1, <3>2, <3>3 DEF OpenedInv
  <2> QED BY <2>1, <2>2
<1>5. events' \subseteq got' /\ (events' # {} => cpc' = "tally")
  BY DEF OpenedInv
<1> QED BY <1>1, <1>4, <1>5 DEF OpenedInv

LEMMA OpenedQuiet ==
  ASSUME TypeOK, TypeOK', OpenedInv, Quiet
  PROVE  OpenedInv'
<1>1. UNCHANGED <<warm, measuring, user_next, user_inflight, opened, starts, events, got>>
  BY DEF Quiet, tally
<1>2. Asked' = Asked
  BY <1>1 DEF Asked
<1>3. \A s \in Streams :
        written[s] \in Int /\ arrived[s] \in Int /\ opened \in Int /\ s \in Int
  <2>1. \A s \in Streams : written[s] \in 0 .. BodyLen /\ arrived[s] \in 0 .. BodyLen
    BY DEF TypeOK
  <2>2. opened \in 0 .. (WarmUps + Total)
    BY DEF TypeOK
  <2>3. \A s \in Streams : s \in Int
    BY CountsAssumption, MessagesSize DEF Streams
  <2> QED BY <2>1, <2>2, <2>3
<1>4. ASSUME NEW s \in Streams
      PROVE  /\ s >= opened => written'[s] = 0 /\ s \notin pending_bodies'
             /\ arrived'[s] <= written'[s]
  <2>1. /\ pending_bodies' \subseteq pending_bodies
        /\ written[s] <= written'[s]
        /\ s \notin pending_bodies => written'[s] = written[s]
        /\ arrived'[s] = arrived[s] \/ arrived'[s] <= written[s]
    BY DEF Quiet, Flows
  <2>2. s >= opened => written'[s] = 0 /\ s \notin pending_bodies'
    BY <2>1 DEF OpenedInv
  <2>3. arrived[s] <= written[s]
    BY DEF OpenedInv
  <2>4. written'[s] \in Int /\ arrived'[s] \in Int
    BY BodyLenAssumption DEF TypeOK
  <2> QED BY <1>3, <2>1, <2>2, <2>3, <2>4
<1>5. events' # {} => cpc' = "tally"
  BY <1>1 DEF OpenedInv, Quiet
<1> QED BY <1>1, <1>2, <1>4, <1>5 DEF OpenedInv

\* An answer tallied moves its message behind the user.
LEMMA AdvanceMeans ==
  ASSUME TypeOK, UsersInv, measuring, NEW u \in UserIds
  PROVE  Advance(u) = IF \E s \in events : stream_users[s] = u
                      THEN user_next[u] + 1 ELSE user_next[u]
<1> DEFINE E == {s \in events : stream_users[s] = u}
<1>1. user_next[u] \in Nat
  BY DEF TypeOK
<1>2. CASE \E s \in events : stream_users[s] = u
  <2>1. PICK s \in events : stream_users[s] = u
    BY <1>2
  <2>2. E = {s}
    BY <2>1 DEF UsersInv
  <2>3. Cardinality(E) = 1
    BY <2>2, FS_Singleton
  <2> QED BY <1>1, <1>2, <2>3 DEF Advance
<1>3. CASE ~ \E s \in events : stream_users[s] = u
  <2>1. E = {}
    BY <1>3
  <2>2. Cardinality(E) = 0
    BY <2>1, FS_EmptySet
  <2> QED BY <1>1, <1>3, <2>2 DEF Advance
<1> QED BY <1>2, <1>3

LEMMA TallyAsks ==
  ASSUME TypeOK, UsersInv, NEW timed_out, Tally(timed_out)
  PROVE  Asked \subseteq Asked'
<1>1. CASE ~measuring
  BY <1>1 DEF Tally, tally, Asked
<1>2. CASE measuring
  <2>1. /\ user_next' = [u \in UserIds |-> Advance(u)]
        /\ user_inflight' = user_inflight \ {stream_users[s] : s \in events}
    BY <1>2 DEF Tally
  <2>2. ASSUME NEW m \in Asked PROVE m \in Asked'
    <3>1. /\ m \in UserIds \X (0 .. (MessagesPerUser - 1)) /\ m[1] \in UserIds
          /\ m[2] \in Int
          /\ m[2] < user_next[m[1]] \/ (m[2] = user_next[m[1]] /\ m[1] \in user_inflight)
      BY CountsAssumption DEF Asked
    <3>2. user_next[m[1]] \in Nat
      BY <3>1 DEF TypeOK
    <3>3. user_next'[m[1]] = IF \E s \in events : stream_users[s] = m[1]
                             THEN user_next[m[1]] + 1 ELSE user_next[m[1]]
      BY <1>2, <2>1, <3>1, AdvanceMeans
    <3>4. CASE \E s \in events : stream_users[s] = m[1]
      <4>1. m[2] < user_next'[m[1]]
        BY <3>1, <3>2, <3>3, <3>4
      <4> QED BY <3>1, <4>1 DEF Asked
    <3>5. CASE ~ \E s \in events : stream_users[s] = m[1]
      <4>1. m[1] \in user_inflight' <=> m[1] \in user_inflight
        BY <2>1, <3>5
      <4>2. user_next'[m[1]] = user_next[m[1]]
        BY <3>3, <3>5
      <4> QED BY <3>1, <4>1, <4>2 DEF Asked
    <3> QED BY <3>4, <3>5
  <2> QED BY <2>2
<1> QED BY <1>1, <1>2

LEMMA OpenedNext ==
  ASSUME TypeOK, TypeOK', OpenedInv, UsersInv, AnsweredOnce, [Next]_h3Vars
  PROVE  OpenedInv'
<1>1. CASE Quiet
  BY <1>1, OpenedQuiet
<1>2. CASE WarmUp /\ UNCHANGED serverVars
  <2>1. /\ cpc = "fill" /\ ~measuring /\ warm > 0 /\ warm' = warm - 1
        /\ Registers(0) /\ UNCHANGED <<measuring, tally, events, got, arrived>>
    BY <1>2, SendRegisters DEF WarmUp, serverVars
  <2>2. opened \in Streams /\ opened \notin starts \cup got \cup pending_bodies
    BY <2>1, NextStream
  <2>3. Asked' = Asked
    BY <2>1 DEF Asked, tally
  <2>4. opened + 1 <= WarmUps - warm' + Cardinality(Asked')
    BY <2>1, <2>3, AskedSize, CountsAssumption DEF OpenedInv, TypeOK
  <2>5. events = {}
    BY <2>1 DEF OpenedInv
  <2> QED BY <2>1, <2>2, <2>4, <2>5, OpenedRegisters
<1>3. ASSUME NEW u \in UserIds, Sends(u) \/ GivesUp(u), UNCHANGED serverVars
      PROVE  OpenedInv'
  <2>1. /\ Fill(u) /\ measuring /\ UNCHANGED <<cpc, warm, measuring, events, got, arrived>>
    BY <1>3 DEF Sends, GivesUp, Fill, serverVars
  <2>2. \/ Registers(u)
        \/ Faults /\ UNCHANGED registers
    BY <1>3, SendRegisters DEF Sends, GivesUp
  <2>3. opened \in Streams /\ opened \notin starts \cup got \cup pending_bodies
    BY <2>1, NextStream
  <2>4. user_next[u] \in Nat /\ user_next[u] < MessagesPerUser /\ u \notin user_inflight
    BY <2>1 DEF Fill, Ready, TypeOK
  <2>5. Asked \cup {<<u, user_next[u]>>} \subseteq Asked'
    <3>1. CASE Sends(u)
      <4>1. user_next' = user_next /\ user_inflight' = user_inflight \cup {u}
        BY <3>1 DEF Sends
      <4>2. Asked \subseteq Asked'
        BY <4>1 DEF Asked
      <4>3. <<u, user_next[u]>> \in Asked'
        BY <2>4, <4>1, CountsAssumption DEF Asked
      <4> QED BY <4>2, <4>3
    <3>2. CASE GivesUp(u)
      <4>1. /\ user_next' = [user_next EXCEPT ![u] = MessagesPerUser]
            /\ user_inflight' = user_inflight
        BY <3>2 DEF GivesUp
      <4>2. ASSUME NEW m \in Asked PROVE m \in Asked'
        <5>1. /\ m \in UserIds \X (0 .. (MessagesPerUser - 1)) /\ m[1] \in UserIds
              /\ m[2] < MessagesPerUser
              /\ m[2] < user_next[m[1]]
                 \/ (m[2] = user_next[m[1]] /\ m[1] \in user_inflight)
          BY CountsAssumption DEF Asked
        <5>2. CASE m[1] = u
          <6>1. user_next'[u] = MessagesPerUser
            BY <4>1 DEF TypeOK
          <6> QED BY <5>1, <5>2, <6>1 DEF Asked
        <5>3. CASE m[1] # u
          <6>1. user_next'[m[1]] = user_next[m[1]]
            BY <4>1, <5>1, <5>3 DEF TypeOK
          <6> QED BY <4>1, <5>1, <6>1 DEF Asked
        <5> QED BY <5>2, <5>3
      <4>3. <<u, user_next[u]>> \in Asked'
        <5>1. user_next'[u] = MessagesPerUser
          BY <4>1 DEF TypeOK
        <5> QED BY <2>4, <5>1, CountsAssumption DEF Asked
      <4> QED BY <4>2, <4>3
    <3> QED BY <1>3, <3>1, <3>2
  <2>6. Asked' \in SUBSET Messages
    BY DEF Asked, Messages
  <2>7. Cardinality(Asked) + 1 <= Cardinality(Asked')
    BY <2>1, <2>5, <2>6, AskNext
  <2>8. opened <= WarmUps - warm + Cardinality(Asked) /\ warm = 0 /\ opened \in Nat
    BY <2>1 DEF OpenedInv, TypeOK
  <2>9. Cardinality(Asked') \in Nat
    <3>1. IsFiniteSet(Asked')
      BY <2>6, MessagesSize, FS_Subset
    <3> QED BY <3>1, FS_CardinalityType
  <2>10. opened + 1 <= WarmUps - warm' + Cardinality(Asked')
    BY <2>1, <2>7, <2>8, <2>9, AskedSize, CountsAssumption
  <2>11. CASE Registers(u)
    BY <2>1, <2>3, <2>8, <2>10, <2>11, OpenedRegisters
  <2>12. CASE UNCHANGED registers
    <3>1. opened' <= WarmUps - warm' + Cardinality(Asked')
      BY <2>8, <2>9, <2>10, <2>12, <2>1, CountsAssumption DEF registers
    <3> QED BY <2>1, <2>12, <3>1 DEF OpenedInv, registers
  <2> QED BY <2>2, <2>11, <2>12
<1>4. ASSUME WarmUpEnds, UNCHANGED serverVars PROVE OpenedInv'
  <2>1. Asked' = Asked
    BY <1>4 DEF WarmUpEnds, tally, Asked
  <2> QED BY <1>4, <2>1 DEF WarmUpEnds, registers, OpenedInv, serverVars
<1>5. CASE Poll /\ UNCHANGED serverVars
  <2>1. PICK responses \in SUBSET (flushed \ got) :
          /\ got' = got \cup responses /\ events' = responses \cap starts
          /\ starts' = starts \ responses
          /\ flush_pending_bodies(pending_bodies \ responses)
    BY <1>5 DEF Poll
  <2>2. /\ cpc' = "tally" /\ UNCHANGED <<warm, measuring, tally, opened, arrived>>
    BY <1>5 DEF Poll, serverVars
  <2>3. Asked' = Asked
    BY <2>2 DEF Asked, tally
  <2>4. \A s \in responses : s \in Streams /\ s \in starts /\ s \notin got
    <3>1. flushed \subseteq finished
      BY DEF AnsweredOnce
    <3> QED BY <3>1, AnsweredIsOpen
  <2>5. Flows
    BY <2>1, <2>2, FlushFlows
  <2>6. \A s \in Streams : /\ written[s] \in Int /\ written'[s] \in Int
                            /\ arrived[s] \in Int /\ arrived' = arrived
    BY <2>2, BodyLenAssumption DEF TypeOK
  <2>7. ASSUME NEW s \in Streams
        PROVE  /\ s < opened <=> s \in starts' \cup got'
               /\ s \in starts' => s \notin got'
    BY <2>1, <2>4 DEF OpenedInv
  <2>8. ASSUME NEW s \in Streams
        PROVE  /\ s >= opened => written'[s] = 0 /\ s \notin pending_bodies'
               /\ arrived'[s] <= written'[s]
    <3>1. written[s] <= written'[s] /\ (s \notin pending_bodies => written'[s] = written[s])
          /\ pending_bodies' \subseteq pending_bodies
      BY <2>5 DEF Flows
    <3>2. s >= opened => written'[s] = 0 /\ s \notin pending_bodies'
      BY <3>1 DEF OpenedInv
    <3>3. arrived[s] <= written[s]
      BY DEF OpenedInv
    <3> QED BY <2>6, <3>1, <3>2, <3>3
  <2>9. events' \subseteq got'
    BY <2>1
  <2> QED BY <2>2, <2>3, <2>7, <2>8, <2>9 DEF OpenedInv
<1>6. ASSUME NEW timed_out, Tally(timed_out), UNCHANGED serverVars
      PROVE  OpenedInv'
  <2>1. Cardinality(Asked) <= Cardinality(Asked')
    BY <1>6, TallyAsks, AskedMore
  <2>2. /\ UNCHANGED <<warm, measuring, opened, starts, pending_bodies, written, got, arrived>>
        /\ events' = {}
    BY <1>6 DEF Tally, registers, serverVars
  <2>3. Cardinality(Asked') \in Nat
    <3>1. Asked' \in SUBSET Messages
      BY DEF Asked, Messages
    <3>2. IsFiniteSet(Asked')
      BY <3>1, MessagesSize, FS_Subset
    <3> QED BY <3>2, FS_CardinalityType
  <2>4. opened' <= WarmUps - warm' + Cardinality(Asked')
    BY <2>1, <2>2, <2>3, AskedSize, CountsAssumption DEF OpenedInv, TypeOK
  <2> QED BY <2>2, <2>4 DEF OpenedInv
<1>7. CASE (TallyEvents \/ Watchdog) /\ UNCHANGED serverVars
  BY <1>6, <1>7 DEF TallyEvents, Watchdog
<1>8. CASE WarmUpEnds /\ UNCHANGED serverVars
  BY <1>4, <1>8
<1> QED BY <1>1, <1>2, <1>3, <1>5, <1>7, <1>8, StepKinds

-----------------------------------------------------------------------------
(***************************************************************************)
(* Who waits for what.                                                     *)
(***************************************************************************)
LEMMA UsersInit == Init => UsersInv
BY DEF Init, UsersInv

\* The user of Fill waits for nothing.
LEMMA FillFree ==
  ASSUME TypeOK, OpenedInv, UsersInv, NEW u \in UserIds, Fill(u)
  PROVE  /\ events = {} /\ measuring
         /\ user_next[u] < MessagesPerUser /\ u \notin user_inflight
         /\ \A s \in starts \cup events : stream_users[s] # u
<1>1. /\ cpc = "fill" /\ measuring
      /\ u \notin user_inflight /\ user_next[u] < MessagesPerUser
  BY DEF Fill, Ready
<1>2. events = {}
  BY <1>1 DEF OpenedInv
<1>3. user_next[u] # MessagesPerUser
  BY <1>1, CountsAssumption DEF TypeOK
<1> QED BY <1>1, <1>2, <1>3 DEF UsersInv

\* The owners of streams after one was opened.
LEMMA OwnersAfter ==
  ASSUME TypeOK, OpenedInv, UsersInv, NEW u \in UserIds, Fill(u), Registers(u),
         events' = events
  PROVE  /\ starts' \cup events' = starts \cup {opened} /\ opened \notin starts
         /\ starts \cup events = starts
         /\ stream_users'[opened] = u
         /\ \A s \in starts : stream_users'[s] = stream_users[s] /\ stream_users[s] # u
<1>1. opened \in Streams /\ opened \notin starts
  BY NextStream
<1>2. starts' = starts \cup {opened} /\ stream_users' = [stream_users EXCEPT ![opened] = u]
  BY DEF Registers
<1>3. events = {}
  BY FillFree
<1>4. \A s \in starts : s \in Streams /\ s # opened
  BY <1>1 DEF TypeOK
<1>5. stream_users'[opened] = u /\ \A s \in starts : stream_users'[s] = stream_users[s]
  BY <1>1, <1>2, <1>4 DEF TypeOK
<1> QED BY <1>1, <1>2, <1>3, <1>5, FillFree

LEMMA UsersSends ==
  ASSUME TypeOK, OpenedInv, UsersInv, NEW u \in UserIds, Sends(u)
  PROVE  UsersInv'
<1>1. /\ Fill(u) /\ Registers(u)
      /\ user_inflight' = user_inflight \cup {u}
      /\ UNCHANGED <<measuring, user_next, events>>
  BY SendRegisters DEF Sends
<1>2. /\ starts' \cup events' = starts \cup {opened} /\ opened \notin starts
      /\ starts \cup events = starts
      /\ stream_users'[opened] = u
      /\ \A s \in starts : stream_users'[s] = stream_users[s] /\ stream_users[s] # u
  BY <1>1, OwnersAfter
<1>3. measuring /\ user_next[u] < MessagesPerUser
  BY <1>1, FillFree
<1>4. \A s, t \in starts' \cup events' : stream_users'[s] = stream_users'[t] => s = t
  BY <1>2, <1>3 DEF UsersInv
<1>5. \A s \in starts' \cup events' :
        stream_users'[s] \notin user_inflight' =>
          Faults /\ user_next'[stream_users'[s]] = MessagesPerUser
  BY <1>1, <1>2, <1>3 DEF UsersInv
<1>6. ASSUME NEW v \in user_inflight'
      PROVE  /\ user_next'[v] < MessagesPerUser
             /\ \E s \in starts' \cup events' : stream_users'[s] = v
  <2>1. CASE v = u
    BY <1>1, <1>2, <1>3, <2>1
  <2>2. CASE v # u
    <3>1. v \in user_inflight
      BY <1>1, <2>2
    <3>2. user_next[v] < MessagesPerUser /\ \E s \in starts : stream_users[s] = v
      BY <1>2, <3>1 DEF UsersInv
    <3> QED BY <1>1, <1>2, <3>2
  <2> QED BY <2>1, <2>2
<1> QED BY <1>1, <1>3, <1>4, <1>5, <1>6 DEF UsersInv

LEMMA UsersGivesUp ==
  ASSUME TypeOK, OpenedInv, UsersInv, NEW u \in UserIds, GivesUp(u)
  PROVE  UsersInv'
<1>1. /\ Fill(u) /\ Faults
      /\ UNCHANGED registers \/ Registers(u)
      /\ user_next' = [user_next EXCEPT ![u] = MessagesPerUser]
      /\ UNCHANGED <<measuring, user_inflight, events>>
  BY SendRegisters DEF GivesUp
<1>2. /\ measuring /\ u \notin user_inflight
      /\ \A s \in starts \cup events : stream_users[s] # u
  BY <1>1, FillFree
<1>3. user_next'[u] = MessagesPerUser /\ \A v \in UserIds \ {u} : user_next'[v] = user_next[v]
  BY <1>1 DEF TypeOK
<1>4. \A v \in user_inflight : v \in UserIds /\ v # u
  BY <1>2 DEF TypeOK
<1>5. \A s \in starts \cup events : stream_users[s] \in UserIds \ {u}
  BY <1>2 DEF TypeOK
<1>6. CASE UNCHANGED registers
  <2>1. starts' = starts /\ stream_users' = stream_users
    BY <1>6 DEF registers
  <2> QED BY <1>1, <1>2, <1>3, <1>4, <1>5, <2>1 DEF UsersInv
<1>7. CASE Registers(u)
  <2>1. /\ starts' \cup events' = starts \cup {opened} /\ opened \notin starts
        /\ starts \cup events = starts
        /\ stream_users'[opened] = u
        /\ \A s \in starts : stream_users'[s] = stream_users[s] /\ stream_users[s] # u
    BY <1>1, <1>7, OwnersAfter
  <2>2. \A s, t \in starts' \cup events' : stream_users'[s] = stream_users'[t] => s = t
    BY <1>2, <2>1 DEF UsersInv
  <2>3. ASSUME NEW s \in starts' \cup events', stream_users'[s] \notin user_inflight'
        PROVE  Faults /\ user_next'[stream_users'[s]] = MessagesPerUser
    <3>1. CASE s = opened
      BY <1>1, <1>3, <2>1, <3>1
    <3>2. CASE s # opened
      <4>1. s \in starts /\ stream_users'[s] = stream_users[s]
            /\ stream_users[s] \in UserIds \ {u}
        BY <1>5, <2>1, <3>2
      <4>2. user_next[stream_users[s]] = MessagesPerUser
        BY <1>1, <1>2, <2>3, <4>1 DEF UsersInv
      <4> QED BY <1>1, <1>3, <4>1, <4>2
    <3> QED BY <3>1, <3>2
  <2>4. \A v \in user_inflight' :
          /\ user_next'[v] < MessagesPerUser
          /\ \E s \in starts' \cup events' : stream_users'[s] = v
    BY <1>1, <1>3, <1>4, <2>1 DEF UsersInv
  <2> QED BY <1>1, <1>2, <2>2, <2>3, <2>4 DEF UsersInv
<1> QED BY <1>1, <1>6, <1>7

LEMMA UsersTally ==
  ASSUME TypeOK, OpenedInv, UsersInv, NEW timed_out, Tally(timed_out)
  PROVE  UsersInv'
<1>1. UNCHANGED <<measuring, starts, stream_users>> /\ events' = {}
  BY DEF Tally, registers
<1>2. CASE ~measuring
  <2>1. user_next' = user_next /\ user_inflight' = user_inflight /\ user_inflight = {}
    BY <1>2 DEF Tally, tally, UsersInv
  <2> QED BY <1>1, <1>2, <2>1 DEF UsersInv
<1>3. CASE measuring
  <2>1. /\ user_inflight' = user_inflight \ {stream_users[s] : s \in events}
        /\ user_next' = [u \in UserIds |-> Advance(u)]
    BY <1>3 DEF Tally
  <2>2. \A u \in UserIds :
          ~(\E e \in events : stream_users[e] = u) => user_next'[u] = user_next[u]
    BY <1>3, <2>1, AdvanceMeans
  <2>3. \A s \in starts : s \notin events /\ s \in Streams /\ stream_users[s] \in UserIds
    BY DEF OpenedInv, TypeOK
  <2>4. \A s, t \in starts \cup events : stream_users[s] = stream_users[t] => s = t
    BY <1>3 DEF UsersInv
  <2>5. \A s \in starts : ~ \E e \in events : stream_users[e] = stream_users[s]
    BY <2>3, <2>4
  <2>6. ASSUME NEW s \in starts, stream_users[s] \notin user_inflight'
        PROVE  Faults /\ user_next'[stream_users[s]] = MessagesPerUser
    <3>1. stream_users[s] \notin user_inflight
      BY <2>1, <2>5, <2>6
    <3>2. Faults /\ user_next[stream_users[s]] = MessagesPerUser
      BY <1>3, <3>1 DEF UsersInv
    <3> QED BY <2>2, <2>3, <2>5, <3>2
  <2>7. ASSUME NEW u \in user_inflight'
        PROVE  user_next'[u] < MessagesPerUser /\ \E s \in starts : stream_users[s] = u
    <3>1. u \in user_inflight /\ u \in UserIds /\ ~ \E e \in events : stream_users[e] = u
      BY <2>1 DEF TypeOK
    <3>2. user_next[u] < MessagesPerUser /\ \E s \in starts \cup events : stream_users[s] = u
      BY <3>1 DEF UsersInv
    <3> QED BY <2>2, <3>1, <3>2
  <2> QED BY <1>1, <1>3, <2>4, <2>6, <2>7 DEF UsersInv
<1> QED BY <1>2, <1>3

LEMMA UsersNext ==
  ASSUME TypeOK, OpenedInv, UsersInv, [Next]_h3Vars
  PROVE  UsersInv'
<1>1. CASE Quiet
  BY <1>1 DEF Quiet, tally, UsersInv
<1>2. CASE WarmUp
  BY <1>2 DEF WarmUp, tally, UsersInv
<1>3. CASE WarmUpEnds
  <2>1. events = {} /\ starts = {} /\ ~measuring
        /\ UNCHANGED <<tally, registers, events>>
    BY <1>3 DEF WarmUpEnds, OpenedInv
  <2> QED BY <2>1 DEF tally, registers, UsersInv
<1>4. CASE Poll
  <2>1. PICK responses \in SUBSET (flushed \ got) :
          /\ events' = responses \cap starts
          /\ starts' = starts \ responses
    BY <1>4 DEF Poll
  <2>2. events = {} /\ UNCHANGED <<tally, stream_users, measuring>>
    BY <1>4 DEF Poll, OpenedInv
  <2>3. starts' \cup events' = starts \cup events
    BY <2>1, <2>2
  <2> QED BY <2>2, <2>3 DEF tally, UsersInv
<1>5. CASE TallyEvents \/ Watchdog
  BY <1>5, UsersTally DEF TallyEvents, Watchdog
<1>6. ASSUME NEW u \in UserIds, Sends(u) \/ GivesUp(u) PROVE UsersInv'
  BY <1>6, UsersSends, UsersGivesUp
<1> QED BY <1>1, <1>2, <1>3, <1>4, <1>5, <1>6, StepKinds

-----------------------------------------------------------------------------
(***************************************************************************)
(* The counts.                                                             *)
(***************************************************************************)
LEMMA BehindSize == IsFiniteSet(Behind) /\ Cardinality(Behind) \in Nat
<1>1. Behind \in SUBSET (UserIds \X (0 .. MessagesPerUser))
  BY DEF Behind
<1> QED BY <1>1, MessagesSize, FS_Subset, FS_CardinalityType

LEMMA SumInit == Init => SumInv
<1> SUFFICES ASSUME Init PROVE SumInv
  OBVIOUS
<1>1. Behind = {}
  BY CountsAssumption DEF Init, Behind
<1>2. Cardinality(Behind) = 0
  BY <1>1, FS_EmptySet
<1>3. /\ completed = 0 /\ latencies = 0 /\ errors = 0 /\ cpc = "connect"
      /\ \A u \in UserIds : user_next[u] = 0
  BY DEF Init
<1>4. \A u \in UserIds : user_next[u] <= MessagesPerUser + 1 /\ user_next[u] <= MessagesPerUser
  BY <1>3, CountsAssumption
<1> QED BY <1>2, <1>3, <1>4 DEF SumInv, CountsAgree

\* A user that is given up has all its messages behind it.
LEMMA BehindGivesUp ==
  ASSUME TypeOK, NEW u \in UserIds, user_next[u] < MessagesPerUser,
         user_next' = [user_next EXCEPT ![u] = MessagesPerUser]
  PROVE  Cardinality(Behind') = Cardinality(Behind) + (MessagesPerUser - user_next[u])
<1>1. user_next[u] \in Nat /\ MessagesPerUser \in Nat
  BY CountsAssumption DEF TypeOK
<1> DEFINE rest == user_next[u] .. (MessagesPerUser - 1)
           lost == {u} \X rest
           f == [i \in rest |-> <<u, i>>]
<1>2. IsFiniteSet(rest) /\ Cardinality(rest) = MessagesPerUser - user_next[u]
  <2>0. user_next[u] \in Int /\ MessagesPerUser - 1 \in Int
    BY <1>1
  <2>1. /\ IsFiniteSet(rest)
        /\ Cardinality(rest) = IF user_next[u] > MessagesPerUser - 1 THEN 0
                               ELSE MessagesPerUser - 1 - user_next[u] + 1
    BY <2>0, FS_Interval, Zenon
  <2>2. ~(user_next[u] > MessagesPerUser - 1)
    BY <1>1
  <2>3. MessagesPerUser - 1 - user_next[u] + 1 = MessagesPerUser - user_next[u]
    BY <1>1
  <2> HIDE DEF rest
  <2> QED BY <2>1, <2>2, <2>3
<1>3. IsFiniteSet(lost) /\ Cardinality(lost) = Cardinality(rest)
  <2>1. f \in [rest -> lost] /\ \A x, y \in rest : f[x] = f[y] => x = y
    OBVIOUS
  <2>2. \A y \in lost : \E x \in rest : f[x] = y
    OBVIOUS
  <2> HIDE DEF f, lost, rest
  <2> QED BY <1>2, <2>1, <2>2, SameSize
<1>4. user_next'[u] = MessagesPerUser /\ \A v \in UserIds \ {u} : user_next'[v] = user_next[v]
  BY DEF TypeOK
<1>5. Behind \cap lost = {}
  BY <1>1 DEF Behind
<1>6. Behind' = Behind \cup lost
  <2>1. ASSUME NEW m \in Behind PROVE m \in Behind'
    <3>1. /\ m \in UserIds \X (0 .. MessagesPerUser) /\ m[1] \in UserIds
          /\ m[2] < user_next[m[1]]
      BY DEF Behind
    <3>2. CASE m[1] = u
      <4>1. m[2] < user_next'[m[1]]
        BY <1>1, <1>4, <3>1, <3>2
      <4> QED BY <3>1, <4>1 DEF Behind
    <3>3. CASE m[1] # u
      BY <1>4, <3>1, <3>3 DEF Behind
    <3> QED BY <3>2, <3>3
  <2>2. ASSUME NEW m \in lost PROVE m \in Behind'
    <3>1. /\ m \in UserIds \X (0 .. MessagesPerUser) /\ m[1] = u /\ m[2] < MessagesPerUser
      BY <1>1
    <3> QED BY <1>4, <3>1 DEF Behind
  <2>3. ASSUME NEW m \in Behind' PROVE m \in Behind \cup lost
    <3>1. /\ m \in UserIds \X (0 .. MessagesPerUser) /\ m[1] \in UserIds
          /\ m[2] \in 0 .. MessagesPerUser /\ m = <<m[1], m[2]>>
          /\ m[2] < user_next'[m[1]]
      BY DEF Behind
    <3>2. CASE m[1] = u
      <4>1. m[2] < user_next[u] \/ m[2] \in rest
        BY <1>1, <1>4, <3>1, <3>2
      <4> QED BY <3>1, <3>2, <4>1 DEF Behind
    <3>3. CASE m[1] # u
      BY <1>4, <3>1, <3>3 DEF Behind
    <3> QED BY <3>2, <3>3
  <2> QED BY <2>1, <2>2, <2>3
<1> HIDE DEF lost
<1> QED BY <1>2, <1>3, <1>5, <1>6, BehindSize, DisjointSize

\* How far a user is, when one of its answers comes in.
LEMMA OwnerBelow ==
  ASSUME TypeOK, UsersInv, measuring, NEW s \in starts \cup events
  PROVE  /\ stream_users[s] \in UserIds
         /\ user_next[stream_users[s]] <= MessagesPerUser
         /\ ~Faults => user_next[stream_users[s]] < MessagesPerUser
<1>1. stream_users[s] \in UserIds
  BY DEF TypeOK
<1>2. user_next[stream_users[s]] \in Nat
  BY <1>1 DEF TypeOK
<1>3. CASE stream_users[s] \in user_inflight
  BY <1>1, <1>2, <1>3, CountsAssumption DEF UsersInv
<1>4. CASE stream_users[s] \notin user_inflight
  BY <1>1, <1>2, <1>4, CountsAssumption DEF UsersInv
<1> QED BY <1>3, <1>4

\* Each answer puts one message behind its user.
LEMMA BehindTally ==
  ASSUME TypeOK, UsersInv, measuring, user_next' = [u \in UserIds |-> Advance(u)]
  PROVE  Cardinality(Behind') = Cardinality(Behind) + Cardinality(events)
<1> DEFINE f == [e \in events |-> <<stream_users[e], user_next[stream_users[e]]>>]
           done == {f[e] : e \in events}
<1>0. \A u \in UserIds : user_next[u] \in Nat
  BY DEF TypeOK
<1>1. \A e \in events :
        /\ stream_users[e] \in UserIds
        /\ user_next[stream_users[e]] \in 0 .. MessagesPerUser
  BY <1>0, OwnerBelow, CountsAssumption
<1>2. IsFiniteSet(done) /\ Cardinality(done) = Cardinality(events)
  <2>1. f \in [events -> done]
    OBVIOUS
  <2>2. \A x, y \in events : f[x] = f[y] => x = y
    BY DEF UsersInv
  <2>3. \A y \in done : \E x \in events : f[x] = y
    OBVIOUS
  <2> HIDE DEF f, done
  <2> QED BY <2>1, <2>2, <2>3, EventsFinite, SameSize
<1>3. Behind \cap done = {}
  BY <1>0, <1>1 DEF Behind
<1>4. \A u \in UserIds : user_next'[u] = IF \E s \in events : stream_users[s] = u
                                          THEN user_next[u] + 1 ELSE user_next[u]
  BY AdvanceMeans
<1>5. Behind' = Behind \cup done
  <2>1. ASSUME NEW m \in Behind PROVE m \in Behind'
    <3>1. /\ m \in UserIds \X (0 .. MessagesPerUser) /\ m[1] \in UserIds
          /\ m[2] \in Int /\ m[2] < user_next[m[1]]
      BY CountsAssumption DEF Behind
    <3>2. m[2] < user_next'[m[1]]
      BY <1>0, <1>4, <3>1
    <3> QED BY <3>1, <3>2 DEF Behind
  <2>2. ASSUME NEW m \in done PROVE m \in Behind'
    <3>1. PICK e \in events : m = <<stream_users[e], user_next[stream_users[e]]>>
      OBVIOUS
    <3>2. /\ m \in UserIds \X (0 .. MessagesPerUser)
          /\ m[1] = stream_users[e] /\ m[2] = user_next[stream_users[e]]
      BY <1>1, <3>1
    <3>3. m[2] < user_next'[m[1]]
      BY <1>0, <1>1, <1>4, <3>2
    <3> QED BY <3>2, <3>3 DEF Behind
  <2>3. ASSUME NEW m \in Behind' PROVE m \in Behind \cup done
    <3>1. /\ m \in UserIds \X (0 .. MessagesPerUser) /\ m[1] \in UserIds
          /\ m[2] \in 0 .. MessagesPerUser /\ m = <<m[1], m[2]>>
          /\ m[2] < user_next'[m[1]]
      BY DEF Behind
    <3>2. CASE m[2] < user_next[m[1]]
      BY <3>1, <3>2 DEF Behind
    <3>3. CASE ~(m[2] < user_next[m[1]])
      <4>1. /\ \E s \in events : stream_users[s] = m[1]
            /\ m[2] = user_next[m[1]]
        BY <1>0, <1>4, <3>1, <3>3, CountsAssumption
      <4>2. PICK e \in events : stream_users[e] = m[1]
        BY <4>1
      <4>3. m = f[e]
        BY <3>1, <4>1, <4>2
      <4> QED BY <4>3
    <3> QED BY <3>2, <3>3
  <2> QED BY <2>1, <2>2, <2>3
<1> HIDE DEF done
<1> QED BY <1>2, <1>3, <1>5, BehindSize, DisjointSize

LEMMA SumTally ==
  ASSUME TypeOK, UsersInv, SumInv, NEW timed_out \in BOOLEAN, Tally(timed_out),
         timed_out => Faults /\ measuring
  PROVE  SumInv'
<1>1. measuring' = measuring /\ cpc = "tally"
  BY DEF Tally
<1>2. CASE ~measuring
  <2>1. UNCHANGED <<user_next, completed, latencies, errors>> /\ cpc' = "fill"
    BY <1>2 DEF Tally, tally
  <2>2. Behind' = Behind
    BY <2>1 DEF Behind
  <2> QED BY <1>1, <2>1, <2>2 DEF SumInv, CountsAgree
<1>3. CASE measuring
  <2> DEFINE now == completed + Cardinality(events)
  <2>1. /\ user_next' = [u \in UserIds |-> Advance(u)]
        /\ completed' = now /\ latencies' = latencies + Cardinality(events)
        /\ errors' = errors + (IF timed_out THEN Total - now ELSE 0)
        /\ cpc' = IF timed_out \/ now >= Total THEN "stop" ELSE "fill"
    BY <1>3 DEF Tally
  <2>2. /\ completed \in Nat /\ latencies \in Nat /\ errors \in Int /\ Total \in Nat
        /\ Cardinality(events) \in Nat
    BY EventsFinite, MessagesSize DEF TypeOK
  <2>3. completed' = Cardinality(Behind')
    BY <1>3, <2>1, BehindTally DEF SumInv, CountsAgree
  <2>4. latencies + errors = completed
    BY <1>1 DEF SumInv, CountsAgree
  <2>5. IF timed_out THEN latencies' + errors' = Total ELSE latencies' + errors' = completed'
    BY <2>1, <2>2, <2>4
  <2>6. timed_out => cpc' = "stop"
    BY <2>1
  <2>7. ASSUME NEW u \in UserIds
        PROVE  /\ user_next'[u] <= MessagesPerUser + 1
               /\ ~Faults => user_next'[u] <= MessagesPerUser
    <3>1. user_next'[u] = IF \E s \in events : stream_users[s] = u
                          THEN user_next[u] + 1 ELSE user_next[u]
      BY <1>3, <2>1, AdvanceMeans
    <3>2. user_next[u] \in Nat
      BY DEF TypeOK
    <3>3. CASE \E s \in events : stream_users[s] = u
      <4>1. user_next[u] <= MessagesPerUser /\ (~Faults => user_next[u] < MessagesPerUser)
        BY <1>3, <3>3, OwnerBelow
      <4> QED BY <3>1, <3>2, <3>3, <4>1, CountsAssumption
    <3>4. CASE ~ \E s \in events : stream_users[s] = u
      BY <3>1, <3>4 DEF SumInv, CountsAgree
    <3> QED BY <3>3, <3>4
  <2>8. CountsAgree'
    BY <2>3, <2>5, <2>6, <2>7 DEF CountsAgree
  <2>9. ~Faults => errors' = 0 /\ cpc' # "failed"
    BY <2>1, <2>2 DEF SumInv
  <2>10. cpc' \in {"stop", "join", "done"} => measuring' /\ (Faults \/ completed' >= Total)
    BY <1>1, <1>3, <2>1
  <2> QED BY <1>1, <1>3, <2>8, <2>9, <2>10 DEF SumInv
<1> QED BY <1>2, <1>3

LEMMA SumNext ==
  ASSUME TypeOK, OpenedInv, UsersInv, SumInv, [Next]_h3Vars
  PROVE  SumInv'
<1>1. ASSUME UNCHANGED <<user_next, completed, latencies, errors>>,
             measuring \/ measuring' = measuring \/ (latencies = 0 /\ errors = 0),
             measuring => measuring',
             Ended' <=> Ended, cpc' = "failed" => cpc = "failed" \/ Faults
      PROVE  SumInv'
  <2>1. Behind' = Behind
    BY <1>1 DEF Behind
  <2>2. CountsAgree'
    BY <1>1, <2>1 DEF SumInv, CountsAgree, Ended
  <2>3. ~measuring' => latencies' = 0 /\ errors' = 0
    BY <1>1 DEF SumInv
  <2>4. ~Faults => errors' = 0 /\ cpc' # "failed"
    BY <1>1 DEF SumInv
  <2>5. Ended' => measuring' /\ (Faults \/ completed' >= Total)
    BY <1>1 DEF SumInv, Ended
  <2> QED BY <2>2, <2>3, <2>4, <2>5 DEF SumInv, Ended
<1>2. CASE Quiet
  BY <1>1, <1>2 DEF Quiet, tally
<1>3. CASE WarmUp \/ WarmUpEnds \/ Poll
  <2>1. /\ UNCHANGED tally /\ ~Ended /\ ~Ended' /\ cpc' # "failed"
        /\ measuring' = measuring \/ ~measuring
    BY <1>3 DEF WarmUp, WarmUpEnds, Poll, Ended
  <2>2. measuring \/ (latencies = 0 /\ errors = 0)
    BY DEF SumInv
  <2>3. measuring => measuring'
    BY <1>3 DEF WarmUp, WarmUpEnds, Poll
  <2> QED BY <1>1, <2>1, <2>2, <2>3 DEF tally
<1>4. ASSUME NEW u \in UserIds, Sends(u) PROVE SumInv'
  BY <1>1, <1>4 DEF Sends, Ended
<1>5. ASSUME NEW u \in UserIds, GivesUp(u) PROVE SumInv'
  <2>1. /\ Faults /\ Fill(u) /\ cpc = "fill" /\ cpc' = cpc /\ measuring' = measuring
        /\ measuring /\ latencies' = latencies
        /\ errors' = errors + (MessagesPerUser - user_next[u])
        /\ completed' = completed + (MessagesPerUser - user_next[u])
        /\ user_next' = [user_next EXCEPT ![u] = MessagesPerUser]
    BY <1>5 DEF GivesUp, Fill
  <2>2. user_next[u] < MessagesPerUser
    BY <2>1, FillFree
  <2>3. completed' = Cardinality(Behind')
    BY <2>1, <2>2, BehindGivesUp DEF SumInv, CountsAgree
  <2>4. latencies' + errors' = completed'
    <3>1. latencies + errors = completed
      BY <2>1 DEF SumInv, CountsAgree
    <3>2. /\ latencies \in Nat /\ errors \in Int /\ completed \in Nat
          /\ MessagesPerUser - user_next[u] \in Int
      BY CountsAssumption DEF TypeOK
    <3> QED BY <2>1, <3>1, <3>2
  <2>5. \A v \in UserIds : user_next'[v] <= MessagesPerUser + 1
    BY <2>1, CountsAssumption DEF SumInv, CountsAgree, TypeOK
  <2> QED BY <2>1, <2>3, <2>4, <2>5 DEF SumInv, CountsAgree
<1>6. CASE TallyEvents
  BY <1>6, SumTally DEF TallyEvents
<1>7. CASE Watchdog
  BY <1>7, SumTally DEF Watchdog
<1> QED BY <1>2, <1>3, <1>4, <1>5, <1>6, <1>7, StepKinds

-----------------------------------------------------------------------------
(***************************************************************************)
(* The invariant, and what it says of the scenario.                        *)
(***************************************************************************)
HInv == TypeOK /\ OpenedInv /\ UsersInv /\ SumInv /\ NothingForgotten

LEMMA HInit == Init => HInv
<1>1. Init => NothingForgotten
  BY DEF Init, NothingForgotten, BodiesRemembered, AnsweredOnce
<1> QED BY <1>1, TypeInit, OpenedInit, UsersInit, SumInit DEF HInv

LEMMA HNext == HInv /\ [Next]_h3Vars => HInv'
<1> SUFFICES ASSUME HInv, [Next]_h3Vars PROVE HInv'
  OBVIOUS
<1>1. TypeOK /\ OpenedInv /\ UsersInv /\ SumInv /\ BodiesRemembered /\ AnsweredOnce
  BY DEF HInv, NothingForgotten
<1>2. TypeOK'
  BY <1>1, TypeNext
<1>3. OpenedInv' /\ UsersInv' /\ SumInv'
  BY <1>1, <1>2, OpenedNext, UsersNext, SumNext
<1>4. BodiesRemembered' /\ AnsweredOnce'
  BY <1>1, <1>2, BodiesNext, AnsweredNext
<1> QED BY <1>2, <1>3, <1>4 DEF HInv, NothingForgotten

LEMMA HInvariant == Safety => []HInv
BY HInit, HNext, PTL DEF Safety

\* Every variable has its type, and no stream is numbered beyond those the
\* scenario can ask for (h3.rs:7-77).
THEOREM TypeCorrect == Safety => []TypeOK
<1>1. HInv => TypeOK
  BY DEF HInv
<1> QED BY <1>1, HInvariant, PTL

LEMMA OwnerOutstanding == HInv => OneOutstanding
<1> SUFFICES ASSUME HInv, measuring, NEW u \in UserIds
             PROVE  /\ Cardinality(OwnedBy(u)) <= 1
                    /\ u \in user_inflight => OwnedBy(u) # {}
                    /\ OwnedBy(u) # {} /\ u \notin user_inflight
                         => user_next[u] >= MessagesPerUser
  BY DEF OneOutstanding
<1>1. UsersInv
  BY DEF HInv
<1>2. Cardinality(OwnedBy(u)) <= 1
  <2>1. CASE OwnedBy(u) = {}
    <3>1. Cardinality(OwnedBy(u)) = 0
      BY <2>1, FS_EmptySet
    <3> QED BY <3>1
  <2>2. ASSUME NEW s \in OwnedBy(u) PROVE Cardinality(OwnedBy(u)) <= 1
    <3>1. OwnedBy(u) = {s}
      BY <1>1 DEF UsersInv, OwnedBy
    <3>2. Cardinality(OwnedBy(u)) = 1
      BY <3>1, FS_Singleton
    <3> QED BY <3>2
  <2> QED BY <2>1, <2>2
<1>3. u \in user_inflight => OwnedBy(u) # {}
  BY <1>1 DEF UsersInv, OwnedBy
<1>4. ASSUME OwnedBy(u) # {}, u \notin user_inflight
      PROVE  user_next[u] >= MessagesPerUser
  <2>1. user_next[u] = MessagesPerUser
    BY <1>1, <1>4 DEF UsersInv, OwnedBy
  <2> QED BY <2>1, CountsAssumption
<1> QED BY <1>2, <1>3, <1>4

\* Whatever fails, a user never has two requests outstanding, and
\* user_inflight agrees with the client's maps (h3.rs:23, 31, 47, 422).
THEOREM OneOutstandingCorrect == Safety => []OneOutstanding
BY OwnerOutstanding, HInvariant, PTL

\* Whatever fails, the three counts of the scenario agree (h3.rs:38, 50, 59).
THEOREM CountsCorrect == Safety => []CountsAgree
<1>1. HInv => CountsAgree
  BY DEF HInv, SumInv
<1> QED BY <1>1, HInvariant, PTL

\* Backpressure strands neither a body nor an answer, and no stream is
\* answered twice (h3.rs:260, 424).
THEOREM NothingForgottenCorrect == Safety => []NothingForgotten
<1>1. HInv => NothingForgotten
  BY DEF HInv
<1> QED BY <1>1, HInvariant, PTL

LEMMA EndComplete ==
  ASSUME HInv, ~Faults, Ended
  PROVE  /\ \A u \in UserIds : user_next[u] = MessagesPerUser
         /\ latencies = Total /\ errors = 0
         /\ starts = {} /\ pending_bodies = {} /\ pending_responses = {}
<1>1. TypeOK /\ OpenedInv /\ UsersInv /\ SumInv /\ BodiesRemembered /\ AnsweredOnce
  BY DEF HInv, NothingForgotten
<1>2. measuring /\ completed >= Total /\ errors = 0 /\ CountsAgree
  BY <1>1 DEF SumInv, Ended
<1>3. \A u \in UserIds : user_next[u] \in Nat /\ user_next[u] <= MessagesPerUser
  BY <1>1, <1>2 DEF CountsAgree, TypeOK
<1>4. Behind \in SUBSET Messages
  <2>1. ASSUME NEW m \in Behind PROVE m \in Messages
    <3>1. /\ m[1] \in UserIds /\ m[2] \in 0 .. MessagesPerUser /\ m = <<m[1], m[2]>>
          /\ m[2] < user_next[m[1]]
      BY DEF Behind
    <3>2. m[2] \in 0 .. (MessagesPerUser - 1)
      BY <1>3, <3>1, CountsAssumption
    <3> QED BY <3>1, <3>2 DEF Messages
  <2> QED BY <2>1
<1>5. /\ Cardinality(Behind) <= Cardinality(Messages)
      /\ Cardinality(Behind) = Cardinality(Messages) => Behind = Messages
  BY <1>4, MessagesSize, FS_Subset
<1>6. Cardinality(Behind) = Total /\ completed = Total
  BY <1>2, <1>5, BehindSize, MessagesSize DEF CountsAgree
<1>7. Behind = Messages
  BY <1>5, <1>6, MessagesSize
<1>8. ASSUME NEW u \in UserIds PROVE user_next[u] = MessagesPerUser
  <2>1. <<u, MessagesPerUser - 1>> \in Messages
    BY CountsAssumption DEF Messages
  <2>2. MessagesPerUser - 1 < user_next[u]
    BY <1>7, <2>1 DEF Behind
  <2> QED BY <1>3, <2>2, CountsAssumption
<1>9. latencies = Total
  BY <1>1, <1>2, <1>6, MessagesSize DEF CountsAgree, TypeOK
<1>10. starts = {}
  <2>1. ASSUME NEW s \in starts PROVE FALSE
    <3>1. stream_users[s] \in UserIds /\ user_next[stream_users[s]] < MessagesPerUser
      BY <1>1, <1>2, OwnerBelow
    <3> QED BY <1>8, <3>1, CountsAssumption
  <2> QED BY <2>1
<1>11. pending_bodies = {}
  BY <1>1, <1>10 DEF BodiesRemembered
<1>12. pending_responses = {}
  <2>1. ASSUME NEW s \in pending_responses PROVE FALSE
    <3>1. s \in finished /\ s \notin responded
      BY <1>1 DEF AnsweredOnce
    <3>2. s \in got
      BY <1>1, <1>10, <3>1, AnsweredIsOpen
    <3> QED BY <1>1, <3>1, <3>2 DEF AnsweredOnce
  <2> QED BY <2>1
<1> QED BY <1>2, <1>8, <1>9, <1>10, <1>11, <1>12

\* The report of a run without failures has a latency for every message of
\* every user and no error, and nothing is left behind (h3.rs:7, 21, 45).
THEOREM ReportCompleteCorrect == Safety => []ReportComplete
<1>1. HInv => ReportComplete
  BY EndComplete DEF ReportComplete, Ended
<1> QED BY <1>1, HInvariant, PTL

-----------------------------------------------------------------------------
(***************************************************************************)
(* Without failures: the abstract workload.                                *)
(***************************************************************************)
\* What ClosedLoop sees of a state.
Answers == [u \in UserIds |-> IF measuring THEN Advance(u) ELSE 0]
Waits == IF measuring THEN {stream_users[s] : s \in starts} ELSE {}
Over == cpc \in {"join", "done"}

LEMMA OneOfEach ==
  ASSUME NEW E, NEW f, NEW u, \A s, t \in E : f[s] = f[t] => s = t
  PROVE  Cardinality({s \in E : f[s] = u}) = IF \E s \in E : f[s] = u THEN 1 ELSE 0
<1>1. CASE \E s \in E : f[s] = u
  <2>1. PICK s \in E : f[s] = u
    BY <1>1
  <2>2. {t \in E : f[t] = u} = {s}
    BY <2>1
  <2> QED BY <1>1, <2>2, FS_Singleton
<1>2. CASE ~ \E s \in E : f[s] = u
  <2>1. {t \in E : f[t] = u} = {}
    BY <1>2
  <2> QED BY <1>2, <2>1, FS_EmptySet
<1> QED BY <1>1, <1>2

\* Before and after a tally nothing is on its way to it.
LEMMA NoEvents ==
  /\ TypeOK /\ events = {} => \A u \in UserIds : Advance(u) = user_next[u]
  /\ TypeOK' /\ events' = {} => \A u \in UserIds : Advance(u)' = user_next'[u]
<1>1. Cardinality({}) = 0
  BY FS_EmptySet
<1>2. ASSUME TypeOK, events = {}, NEW u \in UserIds PROVE Advance(u) = user_next[u]
  <2>1. {s \in events : stream_users[s] = u} = {} /\ user_next[u] \in Nat
    BY <1>2 DEF TypeOK
  <2> QED BY <1>1, <2>1 DEF Advance
<1>3. ASSUME TypeOK', events' = {}, NEW u \in UserIds PROVE Advance(u)' = user_next'[u]
  <2>1. {s \in events' : stream_users'[s] = u} = {} /\ user_next'[u] \in Nat
    BY <1>3 DEF TypeOK
  <2> QED BY <1>1, <2>1 DEF Advance
<1> QED BY <1>2, <1>3

LEMMA OverMoves ==
  ASSUME [Next]_h3Vars, ~StopServer
  PROVE  Over' <=> Over
<1>1. CASE ServerStep
  BY <1>1 DEF ServerStep, clientVars, Over
<1>2. CASE ClientStep
  BY <1>2
  DEF ClientStep, ClientLoop, Connected, WarmUp, WarmUpDrives, WarmUpEnds, Send, Sends, FillEnds,
      Drive, Poll, PollIdleClose, TallyEvents, Watchdog, Tally, SendFails, GivesUp, Fill,
      ClientFails, Over
<1>3. CASE Join \/ Halted \/ UNCHANGED h3Vars
  BY <1>3 DEF Join, Halted, h3Vars, clientVars, Over
<1> QED BY <1>1, <1>2, <1>3 DEF Next

\* The steps of ClosedLoop, in the view.
ViewRequest(u) ==
  /\ ~Over /\ u \notin Waits /\ Answers[u] < MessagesPerUser
  /\ Waits' = Waits \cup {u} /\ Answers' = Answers /\ (Over' <=> Over)

ViewRespond(served) ==
  /\ served # {} /\ served \subseteq Waits
  /\ Waits' = Waits \ served
  /\ Answers' = [u \in UserIds |-> IF u \in served THEN Answers[u] + 1 ELSE Answers[u]]
  /\ (Over' <=> Over)

ViewEnd ==
  /\ ~Over /\ \A u \in UserIds : Answers[u] = MessagesPerUser
  /\ Waits = {} /\ Over' /\ Waits' = Waits /\ Answers' = Answers

ViewSame == Waits' = Waits /\ Answers' = Answers /\ (Over' <=> Over)

\* A request opens the stream of a user that waits for nothing.
LEMMA SendsIsRequest ==
  ASSUME HInv, TypeOK', NEW u \in UserIds, Sends(u), Over' <=> Over
  PROVE  ViewRequest(u)
<1>1. TypeOK /\ OpenedInv /\ UsersInv
  BY DEF HInv
<1>2. /\ Fill(u) /\ Registers(u) /\ UNCHANGED <<measuring, user_next, events>>
  BY SendRegisters DEF Sends
<1>3. /\ starts' \cup events' = starts \cup {opened} /\ starts \cup events = starts
      /\ stream_users'[opened] = u
      /\ \A s \in starts : stream_users'[s] = stream_users[s] /\ stream_users[s] # u
  BY <1>1, <1>2, OwnersAfter
<1>4. events = {} /\ events' = {} /\ measuring /\ measuring' /\ user_next[u] < MessagesPerUser
  BY <1>1, <1>2, FillFree
<1>5. /\ \A v \in UserIds : Advance(v) = user_next[v]
      /\ \A v \in UserIds : Advance(v)' = user_next'[v]
  BY <1>1, <1>4, NoEvents
<1>6. Answers' = Answers /\ Answers[u] < MessagesPerUser
  BY <1>2, <1>4, <1>5 DEF Answers
<1>7. Waits' = Waits \cup {u} /\ u \notin Waits
  BY <1>3, <1>4 DEF Waits
<1>8. ~Over
  BY <1>2 DEF Fill, Over
<1> QED BY <1>6, <1>7, <1>8 DEF ViewRequest

\* The answers a poll finds come in together.
LEMMA PollIsRespond ==
  ASSUME HInv, Poll, measuring, Over' <=> Over
  PROVE  ViewSame \/ \E served \in SUBSET UserIds : ViewRespond(served)
<1>1. TypeOK /\ OpenedInv /\ UsersInv
  BY DEF HInv
<1>2. PICK responses \in SUBSET (flushed \ got) :
        /\ events' = responses \cap starts
        /\ starts' = starts \ responses
  BY DEF Poll
<1>3. UNCHANGED <<measuring, user_next, stream_users>> /\ cpc = "poll" /\ events = {}
  BY <1>1 DEF Poll, tally, OpenedInv
<1>4. \A s, t \in starts : stream_users[s] = stream_users[t] => s = t
  BY <1>1 DEF UsersInv
<1>5. PICK served : served = {stream_users[s] : s \in responses \cap starts}
  OBVIOUS
<1>6. served \in SUBSET UserIds /\ \A s \in starts : stream_users[s] \in UserIds
  BY <1>1, <1>5 DEF TypeOK
<1>7. Waits' = Waits \ served /\ served \subseteq Waits
  BY <1>2, <1>3, <1>4, <1>5 DEF Waits
<1>8. ASSUME NEW u \in UserIds
      PROVE  Advance(u)' = IF u \in served THEN Advance(u) + 1 ELSE Advance(u)
  <2>1. Advance(u) = user_next[u] /\ user_next[u] \in Nat
    BY <1>1, <1>3, NoEvents DEF TypeOK
  <2>2. \A s, t \in events' : stream_users[s] = stream_users[t] => s = t
    BY <1>2, <1>4
  <2>3. Cardinality({s \in events' : stream_users[s] = u}) =
          IF \E s \in events' : stream_users[s] = u THEN 1 ELSE 0
    BY <2>2, OneOfEach
  <2>4. Advance(u)' = user_next[u] + Cardinality({s \in events' : stream_users[s] = u})
    BY <1>3 DEF Advance
  <2>5. (\E s \in events' : stream_users[s] = u) <=> u \in served
    BY <1>2, <1>5
  <2> QED BY <2>1, <2>3, <2>4, <2>5
<1>9. Answers' = [u \in UserIds |-> IF u \in served THEN Answers[u] + 1 ELSE Answers[u]]
  BY <1>3, <1>8 DEF Answers
<1>10. CASE served = {}
  <2>1. Answers' = Answers
    BY <1>9, <1>10 DEF Answers
  <2> QED BY <1>7, <1>10, <2>1 DEF ViewSame
<1>11. CASE served # {}
  BY <1>6, <1>7, <1>9, <1>11 DEF ViewRespond
<1> QED BY <1>10, <1>11

\* Every step is a step of ClosedLoop or is not seen.
LEMMA StepIsSeen ==
  ASSUME ~Faults, HInv, HInv', [Next]_h3Vars
  PROVE  \/ \E u \in UserIds : ViewRequest(u)
         \/ \E served \in SUBSET UserIds : ViewRespond(served)
         \/ ViewEnd
         \/ ViewSame
<1>1. TypeOK /\ OpenedInv /\ UsersInv /\ TypeOK' /\ OpenedInv'
  BY DEF HInv
<1>2. CASE StopServer
  <2>1. cpc = "stop" /\ cpc' = "join" /\ UNCHANGED <<measuring, tally, registers, events>>
    BY <1>2 DEF StopServer
  <2>2. /\ \A u \in UserIds : user_next[u] = MessagesPerUser
        /\ starts = {} /\ events = {}
    BY <1>1, <2>1, EndComplete DEF Ended, OpenedInv
  <2>3. \A u \in UserIds : Advance(u) = MessagesPerUser
    BY <1>1, <2>2, NoEvents
  <2>4. measuring
    BY <2>1 DEF HInv, SumInv
  <2>5. Waits = {} /\ Waits' = Waits /\ \A u \in UserIds : Answers[u] = MessagesPerUser
    BY <2>1, <2>2, <2>3, <2>4 DEF Waits, Answers, registers
  <2>6. Answers' = Answers
    BY <2>1 DEF Answers, Advance, tally, registers
  <2> QED BY <2>1, <2>5, <2>6 DEF ViewEnd, Over
<1>3. CASE ~StopServer
  <2>0. Over' <=> Over
    BY <1>3, OverMoves
  <2>1. ASSUME UNCHANGED <<measuring, user_next, starts, stream_users, events>>
        PROVE  ViewSame
    BY <2>0, <2>1 DEF ViewSame, Waits, Answers, Advance
  <2>2. ASSUME ~measuring, ~measuring' PROVE ViewSame
    BY <2>0, <2>2 DEF ViewSame, Waits, Answers
  <2>3. CASE Quiet
    BY <2>1, <2>3 DEF Quiet, tally
  <2>4. CASE WarmUp
    BY <2>2, <2>4 DEF WarmUp
  <2>5. CASE WarmUpEnds
    <3>1. /\ ~measuring /\ measuring' /\ starts' = {} /\ events' = {}
          /\ user_next' = user_next
      BY <1>1, <2>5 DEF WarmUpEnds, tally, registers, OpenedInv
    <3>2. \A u \in UserIds : Advance(u)' = 0
      BY <1>1, <3>1, NoEvents DEF UsersInv
    <3> QED BY <2>0, <3>1, <3>2 DEF ViewSame, Waits, Answers
  <2>6. CASE Poll
    <3>1. CASE measuring
      BY <2>0, <2>6, <3>1, PollIsRespond
    <3>2. CASE ~measuring
      BY <2>2, <2>6, <3>2 DEF Poll
    <3> QED BY <3>1, <3>2
  <2>7. CASE TallyEvents
    <3>1. CASE ~measuring
      BY <2>2, <2>7, <3>1 DEF TallyEvents, Tally
    <3>2. CASE measuring
      <4>1. /\ user_next' = [u \in UserIds |-> Advance(u)] /\ events' = {}
            /\ UNCHANGED <<measuring, starts, stream_users>>
        BY <2>7, <3>2 DEF TallyEvents, Tally, registers
      <4>2. \A u \in UserIds : Advance(u)' = Advance(u)
        BY <1>1, <4>1, NoEvents
      <4> QED BY <2>0, <4>1, <4>2 DEF ViewSame, Waits, Answers
    <3> QED BY <3>1, <3>2
  <2>8. ~Watchdog /\ \A u \in UserIds : ~GivesUp(u)
    BY DEF Watchdog, GivesUp
  <2>9. ASSUME NEW u \in UserIds, Sends(u) PROVE ViewRequest(u)
    BY <1>1, <2>0, <2>9, SendsIsRequest
  <2> QED BY <1>1, <2>3, <2>4, <2>5, <2>6, <2>7, <2>8, <2>9, StepKinds
<1> QED BY <1>2, <1>3

LEMMA LoopInit == Init => Loop!Init
<1> SUFFICES ASSUME Init PROVE Loop!Init
  OBVIOUS
<1>1. measuring = FALSE /\ cpc = "connect"
  BY DEF Init
<1> QED BY <1>1 DEF Loop!Init, Loop!UserIds, UserIds

LEMMA LoopNext ==
  ASSUME ~Faults, HInv, HInv', [Next]_h3Vars
  PROVE  [Loop!Next]_(Loop!loopVars)
<1>1. UserIds = Loop!UserIds
  BY DEF UserIds, Loop!UserIds
<1>2. ASSUME NEW u \in UserIds, ViewRequest(u) PROVE Loop!Request(u)
  BY <1>2 DEF Loop!Request, ViewRequest, Answers, Waits, Over
<1>3. ASSUME NEW served \in SUBSET UserIds, ViewRespond(served) PROVE Loop!Respond(served)
  BY <1>1, <1>3 DEF Loop!Respond, ViewRespond, Answers, Waits, Over
<1>4. ASSUME ViewEnd PROVE Loop!End
  BY <1>1, <1>4 DEF Loop!End, ViewEnd, Answers, Waits, Over
<1>5. ASSUME ViewSame PROVE UNCHANGED Loop!loopVars
  BY <1>5 DEF Loop!loopVars, ViewSame, Answers, Waits, Over
<1> QED BY <1>1, <1>2, <1>3, <1>4, <1>5, StepIsSeen DEF Loop!Next

\* Seen from outside, a run without failures is a run of ClosedLoop, the
\* workload the README states: each user one request at a time, and the end
\* when every message of every user is answered (h3.rs:21-62).
THEOREM ClosedLoopKept ==
  ASSUME ~Faults PROVE Safety => KeepsClosedLoop
<1>1. HInv /\ HInv' /\ [Next]_h3Vars => [Loop!Next]_(Loop!loopVars)
  BY LoopNext
<1> QED BY <1>1, LoopInit, HInvariant, PTL DEF Safety, KeepsClosedLoop, Loop!Spec
=============================================================================
