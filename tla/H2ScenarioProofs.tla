-------------------------- MODULE H2ScenarioProofs --------------------------
(***************************************************************************)
(* What is proved of the HTTP/2 scenario, whatever fails, for any number   *)
(* of users, messages and warm-ups.                                        *)
(*                                                                         *)
(* The inductive invariant says of each user task how far it is and what   *)
(* it will put into the report (UserInv), what the main task has behind it *)
(* (MainInv), and that the sums of the report are over the joined users    *)
(* (ReportInv).  A scenario is then a run of ClosedLoop, with failures.    *)
(***************************************************************************)
EXTENDS H2Scenario, FiniteSetTheorems, FunctionTheorems, TLAPS

\* How far a user task is, and what it owes the report.
UserInv ==
  \A u \in UserIds :
    /\ upc[u] = "none" <=> mpc \in {"connect", "warm", "failed"}
    /\ upc[u] = "none" => i[u] = 0
    /\ upc[u] # "ended" => /\ i[u] < MessagesPerUser /\ user_latencies[u] = i[u]
                           /\ user_errors[u] = 0
    /\ upc[u] = "ended" =>
         \/ i[u] = MessagesPerUser /\ user_latencies[u] = i[u] /\ user_errors[u] = 0
         \/ /\ i[u] < MessagesPerUser /\ user_latencies[u] = i[u] + 1
            /\ user_errors[u] = MessagesPerUser - i[u]
    /\ upc[u] = "wait" <=> request[u] # "none"

\* Of the warm-up nothing is left; the joined users have ended.
MainInv ==
  /\ warm = 0 => request[Main] = "none"
  /\ mpc \notin {"connect", "warm", "failed"} => warm = 0
  /\ mpc \in {"abort", "stop", "done"} => joined = Users
  /\ \A u \in UserIds : u < joined => upc[u] = "ended"

\* What the joined users put into the report.
JoinedUnanswered == {m \in Unanswered : m[1] < joined}
JoinedGaveUp == {u \in GaveUp : u < joined}

ReportInv ==
  /\ errors = Cardinality(JoinedUnanswered)
  /\ latencies + errors = joined * MessagesPerUser + Cardinality(JoinedGaveUp)

-----------------------------------------------------------------------------
(***************************************************************************)
(* Senders and sets of them.                                               *)
(***************************************************************************)
LEMMA SenderSets ==
  /\ UserIds \subseteq Senders /\ Main \in Senders /\ Main \notin UserIds
  /\ \A u \in UserIds : u \in Nat /\ u < Users
  /\ Users \in Nat \ {0} /\ MessagesPerUser \in Nat \ {0} /\ WarmUps \in Nat
  /\ IsFiniteSet(UserIds) /\ Cardinality(UserIds) = Users
<1>1. Users \in Nat \ {0} /\ MessagesPerUser \in Nat \ {0} /\ WarmUps \in Nat
  BY CountsAssumption
<1>2. /\ UserIds \subseteq Senders /\ Main \in Senders /\ Main \notin UserIds
      /\ \A u \in UserIds : u \in Nat /\ u < Users
  BY <1>1 DEF UserIds, Senders, Main
<1>3. /\ IsFiniteSet(0 .. (Users - 1))
      /\ Cardinality(0 .. (Users - 1)) = IF 0 > Users - 1 THEN 0 ELSE Users - 1 - 0 + 1
  BY <1>1, FS_Interval
<1>4. IsFiniteSet(UserIds) /\ Cardinality(UserIds) = Users
  BY <1>1, <1>3 DEF UserIds
<1> QED BY <1>1, <1>2, <1>4

LEMMA DisjointSize ==
  ASSUME NEW A, IsFiniteSet(A), NEW B, IsFiniteSet(B), A \cap B = {}
  PROVE  /\ Cardinality(A \cup B) = Cardinality(A) + Cardinality(B)
         /\ Cardinality(A) \in Nat /\ Cardinality(B) \in Nat
<1>1. Cardinality(A \cap B) = 0
  BY FS_EmptySet
<1>2. Cardinality(A) \in Nat /\ Cardinality(B) \in Nat
  BY FS_CardinalityType
<1>3. Cardinality(A \cup B) = Cardinality(A) + Cardinality(B) - Cardinality(A \cap B)
  BY FS_Union
<1> QED BY <1>1, <1>2, <1>3

\* The messages of one user from the k-th on.
LEMMA RestSize ==
  ASSUME NEW u, NEW k \in 0 .. MessagesPerUser
  PROVE  /\ IsFiniteSet({u} \X (k .. (MessagesPerUser - 1)))
         /\ Cardinality({u} \X (k .. (MessagesPerUser - 1))) = MessagesPerUser - k
<1>1. k \in Int /\ MessagesPerUser - 1 \in Int /\ k <= MessagesPerUser
  BY SenderSets
<1> DEFINE rest == k .. (MessagesPerUser - 1)
<1>2. /\ IsFiniteSet(rest)
      /\ Cardinality(rest) = IF k > MessagesPerUser - 1 THEN 0
                             ELSE MessagesPerUser - 1 - k + 1
  BY <1>1, FS_Interval, Zenon
<1> HIDE DEF rest
<1>3. Cardinality(rest) = MessagesPerUser - k
  BY <1>1, <1>2, SenderSets
<1>4. IsFiniteSet({u}) /\ Cardinality({u}) = 1
  BY FS_Singleton
<1>5. IsFiniteSet({u} \X rest) /\ Cardinality({u} \X rest) = 1 * Cardinality(rest)
  BY <1>2, <1>4, FS_Product
<1>6. Cardinality({u} \X rest) = MessagesPerUser - k
  BY <1>1, <1>3, <1>5, SenderSets
<1> QED BY <1>5, <1>6 DEF rest

LEMMA ReportSets ==
  ASSUME TypeOK
  PROVE  /\ IsFiniteSet(Unanswered) /\ IsFiniteSet(JoinedUnanswered)
         /\ IsFiniteSet(GaveUp) /\ IsFiniteSet(JoinedGaveUp)
<1>1. IsFiniteSet(0 .. (MessagesPerUser - 1))
  BY SenderSets, FS_Interval
<1>2. IsFiniteSet(UserIds \X (0 .. (MessagesPerUser - 1)))
  BY <1>1, SenderSets, FS_Product
<1>3. /\ Unanswered \in SUBSET (UserIds \X (0 .. (MessagesPerUser - 1)))
      /\ JoinedUnanswered \in SUBSET (UserIds \X (0 .. (MessagesPerUser - 1)))
      /\ GaveUp \in SUBSET UserIds /\ JoinedGaveUp \in SUBSET UserIds
  BY DEF Unanswered, JoinedUnanswered, GaveUp, JoinedGaveUp
<1> QED BY <1>2, <1>3, SenderSets, FS_Subset

-----------------------------------------------------------------------------
(***************************************************************************)
(* The shapes of the steps.                                                *)
(***************************************************************************)
Early == mpc \in {"connect", "warm", "failed"}

\* Steps in which no user task moves.
Apart ==
  /\ UNCHANGED users
  /\ \A u \in UserIds : request'[u] = "none" <=> request[u] = "none"
  /\ Early' <=> Early

LEMMA StepKinds ==
  ASSUME TypeOK, [Next]_h2Vars
  PROVE  \/ Apart
         \/ Spawn
         \/ \E u \in UserIds : Post(u) \/ Response(u) \/ PostFails(u)
<1>1. ASSUME NEW s \in Senders, NEW from, NEW to, Moves(s, from, to),
             s = Main \/ (from # "none" /\ to # "none")
      PROVE  \A u \in UserIds : request'[u] = "none" <=> request[u] = "none"
  BY <1>1, SenderSets DEF Moves, TypeOK
<1>2. CASE ServeStep
  <2>1. ASSUME NEW s \in Senders, ServeAccepts(s) \/ ServeResponds(s) PROVE Apart
    BY <1>1, <2>1 DEF ServeAccepts, ServeResponds, main, Apart, Early
  <2>2. CASE ServeEnds \/ ServeDrained
    BY <2>2 DEF ServeEnds, ServeDrained, main, Apart, Early
  <2> QED BY <1>2, <2>1, <2>2 DEF ServeStep
<1>3. CASE WarmUp
  <2>1. UNCHANGED users /\ mpc' = mpc
    BY <1>3 DEF WarmUp
  <2>2. \E from, to : Moves(Main, from, to)
    BY <1>3 DEF WarmUp
  <2> QED BY <1>1, <2>1, <2>2, SenderSets DEF Apart, Early
<1>4. CASE Connect \/ JoinUser \/ AbortConnection \/ AbortServer \/ Finish \/ Accept
           \/ AbortedEnd \/ ConnectionFails \/ MainFails \/ Ended \/ UNCHANGED h2Vars
  <2>1. UNCHANGED <<users, request>>
    BY <1>4
    DEF Connect, JoinUser, AbortConnection, AbortServer, Finish, Accept, AbortedEnd,
        ConnectionFails, MainFails, Ended, h2Vars
  <2>2. Early' <=> Early
    BY <1>4
    DEF Connect, JoinUser, AbortConnection, AbortServer, Finish, Accept, AbortedEnd,
        ConnectionFails, MainFails, Ended, h2Vars, main, Early
  <2> QED BY <2>1, <2>2 DEF Apart
<1> QED BY <1>2, <1>3, <1>4 DEF Next, MainStep, UserStep

-----------------------------------------------------------------------------
(***************************************************************************)
(* The types.                                                              *)
(***************************************************************************)
LEMMA TypeInit == Init => TypeOK
<1> SUFFICES ASSUME Init PROVE TypeOK
  OBVIOUS
<1>1. /\ WarmUps \in 0 .. WarmUps /\ 0 \in 0 .. Users /\ 0 \in 0 .. MessagesPerUser
  BY SenderSets
<1>2. /\ warm \in 0 .. WarmUps /\ joined \in 0 .. Users
      /\ latencies \in Nat /\ errors \in Nat
      /\ mpc = "connect" /\ conn_task = "none" /\ accept_task = "running"
      /\ serve_task = "none"
  BY <1>1 DEF Init
<1>3. /\ upc \in [UserIds -> {"none", "send", "wait", "ended"}]
      /\ request \in [Senders -> {"none", "sent", "active", "answered"}]
  BY DEF Init
<1>4. /\ i \in [UserIds -> 0 .. MessagesPerUser] /\ user_latencies \in [UserIds -> Nat]
      /\ user_errors \in [UserIds -> 0 .. MessagesPerUser]
  BY <1>1 DEF Init
<1> QED BY <1>2, <1>3, <1>4 DEF TypeOK

LEMMA TypeNext ==
  ASSUME TypeOK, UserInv, [Next]_h2Vars
  PROVE  TypeOK'
<1> USE DEF TypeOK
<1>1. ASSUME NEW s \in Senders, NEW from,
             NEW to \in {"none", "sent", "active", "answered"}, Moves(s, from, to)
      PROVE  request' \in [Senders -> {"none", "sent", "active", "answered"}]
  BY <1>1 DEF Moves
<1>2. CASE ServeStep
  <2>1. ASSUME NEW s \in Senders, ServeAccepts(s) \/ ServeResponds(s) PROVE TypeOK'
    BY <1>1, <2>1 DEF ServeAccepts, ServeResponds, main, users, tasks
  <2>2. CASE ServeEnds \/ ServeDrained
    BY <2>2 DEF ServeEnds, ServeDrained, main, users
  <2> QED BY <1>2, <2>1, <2>2 DEF ServeStep
<1>3. CASE WarmUp
  <2>1. request' \in [Senders -> {"none", "sent", "active", "answered"}]
    BY <1>1, <1>3, SenderSets DEF WarmUp
  <2>2. warm' \in 0 .. WarmUps
    BY <1>3, SenderSets DEF WarmUp
  <2> QED BY <1>3, <2>1, <2>2 DEF WarmUp, users, tasks
<1>4. CASE Connect \/ AbortConnection \/ AbortServer \/ Finish \/ MainFails
  BY <1>4 DEF Connect, AbortConnection, AbortServer, Finish, MainFails, users, tasks
<1>5. CASE Spawn
  BY <1>5 DEF Spawn, tasks
<1>6. CASE JoinUser
  <2>1. joined \in UserIds /\ joined' = joined + 1
    BY <1>6, SenderSets DEF JoinUser, UserIds
  <2>2. joined' \in 0 .. Users
    BY <2>1, SenderSets
  <2>3. user_latencies[joined] \in Nat /\ user_errors[joined] \in Nat
    BY <2>1, SenderSets
  <2>4. latencies' \in Nat /\ errors' \in Nat
    BY <1>6, <2>3 DEF JoinUser
  <2> QED BY <1>6, <2>2, <2>4 DEF JoinUser, users, tasks
<1>7. CASE Accept \/ AbortedEnd \/ ConnectionFails \/ Ended \/ UNCHANGED h2Vars
  BY <1>7 DEF Accept, AbortedEnd, ConnectionFails, Ended, h2Vars, main, users, tasks
<1>8. ASSUME NEW u \in UserIds, Post(u) PROVE TypeOK'
  BY <1>1, <1>8, SenderSets DEF Post, main, tasks
<1>9. ASSUME NEW u \in UserIds, Response(u) PROVE TypeOK'
  <2>1. i[u] < MessagesPerUser /\ i[u] \in 0 .. MessagesPerUser
    BY <1>9 DEF Response, UserInv
  <2>2. i[u] + 1 \in 0 .. MessagesPerUser
    BY <2>1, SenderSets
  <2>3. /\ i' \in [UserIds -> 0 .. MessagesPerUser]
        /\ user_latencies' \in [UserIds -> Nat]
    BY <1>9, <2>2 DEF Response
  <2>4. upc' \in [UserIds -> {"none", "send", "wait", "ended"}]
    BY <1>9 DEF Response
  <2> QED BY <1>1, <1>9, <2>3, <2>4, SenderSets DEF Response, main, tasks
<1>10. ASSUME NEW u \in UserIds, PostFails(u) PROVE TypeOK'
  <2>1. user_errors[u] = 0 /\ i[u] \in 0 .. MessagesPerUser
    BY <1>10 DEF PostFails, UserInv
  <2>2. user_errors[u] + Remaining(u) \in 0 .. MessagesPerUser
    BY <2>1, SenderSets DEF Remaining
  <2>3. /\ user_errors' \in [UserIds -> 0 .. MessagesPerUser]
        /\ user_latencies' \in [UserIds -> Nat]
    BY <1>10, <2>2 DEF PostFails
  <2>4. /\ upc' \in [UserIds -> {"none", "send", "wait", "ended"}]
        /\ request' \in [Senders -> {"none", "sent", "active", "answered"}]
    BY <1>10, SenderSets DEF PostFails
  <2> QED BY <1>10, <2>3, <2>4 DEF PostFails, main, tasks
<1> QED
  BY <1>2, <1>3, <1>4, <1>5, <1>6, <1>7, <1>8, <1>9, <1>10
  DEF Next, MainStep, UserStep

-----------------------------------------------------------------------------
(***************************************************************************)
(* The user tasks and the main task.                                       *)
(***************************************************************************)
LEMMA UserInit == Init => UserInv
BY SenderSets DEF Init, UserInv

LEMMA UserNext ==
  ASSUME TypeOK, UserInv, [Next]_h2Vars
  PROVE  UserInv'
<1>1. CASE Apart
  BY <1>1 DEF Apart, Early, users, UserInv
<1>2. CASE Spawn
  BY <1>2 DEF Spawn, tasks, UserInv
\* One user moves, and the others do not.
<1>3. ASSUME NEW u \in UserIds, mpc' = mpc,
             \A v \in UserIds \ {u} :
               /\ upc'[v] = upc[v] /\ i'[v] = i[v] /\ request'[v] = request[v]
               /\ user_latencies'[v] = user_latencies[v] /\ user_errors'[v] = user_errors[v],
             NEW v \in UserIds, v # u
      PROVE  /\ upc'[v] = "none" <=> mpc' \in {"connect", "warm", "failed"}
             /\ upc'[v] = "none" => i'[v] = 0
             /\ upc'[v] # "ended" => /\ i'[v] < MessagesPerUser
                                     /\ user_latencies'[v] = i'[v] /\ user_errors'[v] = 0
             /\ upc'[v] = "ended" =>
                  \/ i'[v] = MessagesPerUser /\ user_latencies'[v] = i'[v]
                     /\ user_errors'[v] = 0
                  \/ /\ i'[v] < MessagesPerUser /\ user_latencies'[v] = i'[v] + 1
                     /\ user_errors'[v] = MessagesPerUser - i'[v]
             /\ upc'[v] = "wait" <=> request'[v] # "none"
  BY <1>3 DEF UserInv
<1>4. ASSUME NEW u \in UserIds, Post(u) \/ Response(u) \/ PostFails(u)
      PROVE  /\ mpc' = mpc
             /\ \A v \in UserIds \ {u} :
                  /\ upc'[v] = upc[v] /\ i'[v] = i[v] /\ request'[v] = request[v]
                  /\ user_latencies'[v] = user_latencies[v]
                  /\ user_errors'[v] = user_errors[v]
  BY <1>4, SenderSets DEF Post, Response, PostFails, Moves, main, TypeOK
<1>5. ASSUME NEW u \in UserIds, Post(u) PROVE UserInv'
  <2>1. /\ upc[u] = "send" /\ upc'[u] = "wait" /\ request'[u] # "none" /\ i' = i
        /\ user_latencies' = user_latencies /\ user_errors' = user_errors /\ mpc' = mpc
    BY <1>5, SenderSets DEF Post, Moves, main, TypeOK
  <2> QED BY <1>3, <1>4, <1>5, <2>1 DEF UserInv
<1>6. ASSUME NEW u \in UserIds, Response(u) PROVE UserInv'
  <2>1. /\ upc[u] = "wait" /\ request'[u] = "none" /\ i'[u] = i[u] + 1
        /\ user_latencies'[u] = user_latencies[u] + 1 /\ user_errors' = user_errors
        /\ mpc' = mpc
        /\ upc'[u] = IF i'[u] = MessagesPerUser THEN "ended" ELSE "send"
    BY <1>6, SenderSets DEF Response, Moves, main, TypeOK
  <2>2. i[u] < MessagesPerUser /\ user_latencies[u] = i[u] /\ user_errors[u] = 0
        /\ ~Early
    BY <2>1 DEF UserInv, Early
  <2>3. i'[u] <= MessagesPerUser /\ i'[u] \in Nat
    BY <2>1, <2>2, SenderSets DEF TypeOK
  <2>4. /\ upc'[u] = "none" <=> mpc' \in {"connect", "warm", "failed"}
        /\ upc'[u] = "none" => i'[u] = 0
        /\ upc'[u] # "ended" => /\ i'[u] < MessagesPerUser
                                /\ user_latencies'[u] = i'[u] /\ user_errors'[u] = 0
        /\ upc'[u] = "ended" => i'[u] = MessagesPerUser /\ user_latencies'[u] = i'[u]
                                /\ user_errors'[u] = 0
        /\ upc'[u] = "wait" <=> request'[u] # "none"
    BY <2>1, <2>2, <2>3, SenderSets DEF Early
  <2> QED BY <1>3, <1>4, <1>6, <2>4 DEF UserInv
<1>7. ASSUME NEW u \in UserIds, PostFails(u) PROVE UserInv'
  <2>1. /\ upc[u] \in {"send", "wait"} /\ upc'[u] = "ended" /\ request'[u] = "none"
        /\ i' = i /\ mpc' = mpc
        /\ user_latencies'[u] = user_latencies[u] + 1
        /\ user_errors'[u] = user_errors[u] + (MessagesPerUser - i[u])
    BY <1>7, SenderSets DEF PostFails, Remaining, main, TypeOK
  <2>2. i[u] < MessagesPerUser /\ user_latencies[u] = i[u] /\ user_errors[u] = 0
        /\ ~Early /\ i[u] \in Nat
    BY <2>1 DEF UserInv, Early, TypeOK
  <2>3. user_errors'[u] = MessagesPerUser - i[u] /\ user_latencies'[u] = i[u] + 1
    BY <2>1, <2>2, SenderSets
  <2>4. /\ upc'[u] = "none" <=> mpc' \in {"connect", "warm", "failed"}
        /\ upc'[u] = "wait" <=> request'[u] # "none"
    BY <2>1, <2>2 DEF Early
  <2> QED BY <1>3, <1>4, <1>7, <2>1, <2>2, <2>3, <2>4 DEF UserInv
<1> QED BY <1>1, <1>2, <1>5, <1>6, <1>7, StepKinds

LEMMA MainInit == Init => MainInv
BY SenderSets DEF Init, MainInv

LEMMA MainNext ==
  ASSUME TypeOK, UserInv, MainInv, [Next]_h2Vars
  PROVE  MainInv'
<1>1. \A u \in UserIds : upc[u] = "ended" => upc'[u] = "ended"
  <2>1. CASE Apart
    BY <2>1 DEF Apart, users
  <2>2. CASE Spawn
    BY <2>2 DEF Spawn, UserInv
  <2>3. ASSUME NEW u \in UserIds, Post(u) \/ Response(u) \/ PostFails(u)
        PROVE  \A v \in UserIds : upc[v] = "ended" => upc'[v] = "ended"
    BY <2>3 DEF Post, Response, PostFails, TypeOK
  <2> QED BY <2>1, <2>2, <2>3, StepKinds
<1>2. CASE ServeStep
  <2>1. ASSUME NEW s \in Senders, ServeAccepts(s) \/ ServeResponds(s) PROVE MainInv'
    <3>1. request[s] # "none" /\ UNCHANGED main
          /\ \A t \in Senders \ {s} : request'[t] = request[t]
      BY <2>1 DEF ServeAccepts, ServeResponds, Moves, TypeOK
    <3> QED BY <1>1, <3>1, SenderSets DEF main, MainInv
  <2>2. CASE ServeEnds \/ ServeDrained
    BY <1>1, <2>2 DEF ServeEnds, ServeDrained, main, MainInv
  <2> QED BY <1>2, <2>1, <2>2 DEF ServeStep
<1>3. CASE WarmUp
  <2>1. /\ mpc = "warm" /\ UNCHANGED <<mpc, joined>> /\ warm > 0
        /\ warm' = warm \/ request'[Main] = "none"
    BY <1>3, SenderSets DEF WarmUp, Moves, TypeOK
  <2>2. warm' = 0 => request'[Main] = "none"
    BY <2>1 DEF TypeOK
  <2> QED BY <1>1, <2>1, <2>2 DEF MainInv
<1>4. CASE Connect \/ AbortConnection \/ AbortServer \/ Finish \/ MainFails \/ Spawn
  <2>1. UNCHANGED <<warm, joined, request>>
    BY <1>4 DEF Connect, AbortConnection, AbortServer, Finish, MainFails, Spawn
  <2>2. /\ mpc' \notin {"connect", "warm", "failed"} => warm' = 0
        /\ mpc' \in {"abort", "stop", "done"} => joined' = Users
    BY <1>4, <2>1
    DEF Connect, AbortConnection, AbortServer, Finish, MainFails, Spawn, MainInv
  <2> QED BY <1>1, <2>1, <2>2 DEF MainInv
<1>5. CASE JoinUser
  <2>1. /\ joined' = joined + 1 /\ upc[joined] = "ended" /\ joined \in Nat
        /\ mpc = "join" /\ UNCHANGED <<mpc, warm, request>>
    BY <1>5 DEF JoinUser, TypeOK
  <2>2. ASSUME NEW u \in UserIds, u < joined' PROVE upc'[u] = "ended"
    <3>1. u < joined \/ u = joined
      BY <2>1, <2>2, SenderSets
    <3> QED BY <1>1, <2>1, <3>1 DEF MainInv
  <2> QED BY <2>1, <2>2 DEF MainInv
<1>6. CASE Accept \/ AbortedEnd \/ ConnectionFails \/ Ended \/ UNCHANGED h2Vars
  BY <1>1, <1>6 DEF Accept, AbortedEnd, ConnectionFails, Ended, h2Vars, main, MainInv
<1>7. ASSUME NEW u \in UserIds, Post(u) \/ Response(u) \/ PostFails(u) PROVE MainInv'
  <2>1. UNCHANGED main /\ request'[Main] = request[Main]
    BY <1>7, SenderSets DEF Post, Response, PostFails, Moves, TypeOK
  <2> QED BY <1>1, <2>1 DEF main, MainInv
<1> QED
  BY <1>2, <1>3, <1>4, <1>5, <1>6, <1>7 DEF Next, MainStep, UserStep

-----------------------------------------------------------------------------
(***************************************************************************)
(* The report.                                                             *)
(***************************************************************************)
LEMMA ReportInit == Init => ReportInv
<1> SUFFICES ASSUME Init PROVE ReportInv
  OBVIOUS
<1>1. joined = 0 /\ latencies = 0 /\ errors = 0
  BY DEF Init
<1>2. \A u \in UserIds : ~(u < joined)
  BY <1>1, SenderSets
<1>3. JoinedUnanswered = {} /\ JoinedGaveUp = {}
  BY <1>2 DEF JoinedUnanswered, Unanswered, JoinedGaveUp, GaveUp
<1>4. Cardinality({}) = 0
  BY FS_EmptySet
<1> QED BY <1>1, <1>3, <1>4, SenderSets DEF ReportInv

\* A joined user adds its messages, and one more if it gave up.
LEMMA JoinAdds ==
  ASSUME TypeOK, UserInv, MainInv, ReportInv, JoinUser
  PROVE  ReportInv'
<1>1. /\ mpc = "join" /\ joined < Users /\ upc[joined] = "ended" /\ joined' = joined + 1
      /\ latencies' = latencies + user_latencies[joined]
      /\ errors' = errors + user_errors[joined]
      /\ UNCHANGED <<i, user_errors>>
  BY DEF JoinUser, users
<1>2. PICK u \in UserIds : u = joined
  BY <1>1, SenderSets DEF TypeOK, UserIds
<1>3. /\ i[u] \in 0 .. MessagesPerUser /\ user_latencies[u] \in Nat
      /\ user_errors[u] = MessagesPerUser - i[u] /\ user_errors[u] \in Nat
      /\ user_latencies[u] + user_errors[u] =
           MessagesPerUser + (IF user_errors[u] > 0 THEN 1 ELSE 0)
  <2>1. i[u] \in 0 .. MessagesPerUser /\ user_latencies[u] \in Nat /\ user_errors[u] \in Nat
    BY SenderSets DEF TypeOK
  <2>2. \/ i[u] = MessagesPerUser /\ user_latencies[u] = i[u] /\ user_errors[u] = 0
        \/ /\ i[u] < MessagesPerUser /\ user_latencies[u] = i[u] + 1
           /\ user_errors[u] = MessagesPerUser - i[u]
    BY <1>1, <1>2 DEF UserInv
  <2> QED BY <2>1, <2>2, SenderSets
<1>4. \A v \in UserIds : v < joined' <=> v < joined \/ v = u
  BY <1>1, <1>2, SenderSets DEF TypeOK
<1>5. Cardinality(JoinedUnanswered') = Cardinality(JoinedUnanswered) + user_errors[u]
      /\ Cardinality(JoinedUnanswered) \in Nat
  <2> DEFINE lost == {u} \X (i[u] .. (MessagesPerUser - 1))
  <2>1. JoinedUnanswered' = JoinedUnanswered \cup lost
    <3>1. Unanswered' = Unanswered
      BY <1>1 DEF Unanswered
    <3>2. JoinedUnanswered' = {m \in Unanswered : m[1] < joined'}
      BY <3>1 DEF JoinedUnanswered
    <3>3. \A m \in Unanswered : m[1] \in UserIds
      BY DEF Unanswered
    <3>4. lost = {m \in Unanswered : m[1] = u}
      BY <1>3, SenderSets DEF Unanswered
    <3> QED BY <1>4, <3>2, <3>3, <3>4 DEF JoinedUnanswered
  <2>2. JoinedUnanswered \cap lost = {}
    BY <1>2, SenderSets DEF JoinedUnanswered, Unanswered
  <2>3. IsFiniteSet(lost) /\ Cardinality(lost) = user_errors[u]
    BY <1>3, RestSize
  <2> HIDE DEF lost
  <2> QED BY <2>1, <2>2, <2>3, ReportSets, DisjointSize
<1>6. Cardinality(JoinedGaveUp') =
        Cardinality(JoinedGaveUp) + (IF user_errors[u] > 0 THEN 1 ELSE 0)
      /\ Cardinality(JoinedGaveUp) \in Nat
  <2>1. GaveUp' = GaveUp
    BY <1>1 DEF GaveUp
  <2>2. JoinedGaveUp' = {v \in GaveUp : v < joined'}
    BY <2>1 DEF JoinedGaveUp
  <2>3. GaveUp \subseteq UserIds /\ (u \in GaveUp <=> user_errors[u] > 0)
    BY DEF GaveUp
  <2>4. u \notin JoinedGaveUp
    BY <1>2, SenderSets DEF JoinedGaveUp
  <2>5. IsFiniteSet(JoinedGaveUp) /\ Cardinality(JoinedGaveUp) \in Nat
    BY ReportSets, FS_CardinalityType
  <2>6. CASE user_errors[u] > 0
    <3>1. JoinedGaveUp' = JoinedGaveUp \cup {u}
      BY <1>4, <2>2, <2>3, <2>6 DEF JoinedGaveUp
    <3>2. Cardinality(JoinedGaveUp \cup {u}) = Cardinality(JoinedGaveUp) + 1
      BY <2>4, <2>5, FS_AddElement
    <3> QED BY <2>5, <2>6, <3>1, <3>2
  <2>7. CASE ~(user_errors[u] > 0)
    <3>1. JoinedGaveUp' = JoinedGaveUp
      BY <1>4, <2>2, <2>3, <2>7 DEF JoinedGaveUp
    <3> QED BY <2>5, <2>7, <3>1
  <2> QED BY <2>6, <2>7
<1>7. errors' = Cardinality(JoinedUnanswered')
  BY <1>1, <1>2, <1>5 DEF ReportInv
<1>8. (joined + 1) * MessagesPerUser = joined * MessagesPerUser + MessagesPerUser
      /\ joined * MessagesPerUser \in Nat
  BY SenderSets DEF TypeOK
<1>9. latencies + errors = joined * MessagesPerUser + Cardinality(JoinedGaveUp)
  BY DEF ReportInv
<1>10. latencies' + errors' =
         (latencies + errors) + (user_latencies[u] + user_errors[u])
  BY <1>1, <1>2, <1>3 DEF TypeOK
<1>11. PICK n \in Nat : n = joined * MessagesPerUser
  BY <1>8
<1>12. PICK g \in {0, 1} : g = IF user_errors[u] > 0 THEN 1 ELSE 0
  OBVIOUS
<1>13. latencies' + errors' = n + Cardinality(JoinedGaveUp) + MessagesPerUser + g
  BY <1>3, <1>6, <1>9, <1>10, <1>11, <1>12, SenderSets DEF TypeOK
<1>14. latencies' + errors' = joined' * MessagesPerUser + Cardinality(JoinedGaveUp')
  <2>1. joined' * MessagesPerUser = n + MessagesPerUser
    BY <1>1, <1>8, <1>11
  <2>2. Cardinality(JoinedGaveUp') = Cardinality(JoinedGaveUp) + g
    BY <1>6, <1>12
  <2> QED BY <1>6, <1>13, <2>1, <2>2, SenderSets
<1> QED BY <1>7, <1>14 DEF ReportInv

LEMMA ReportNext ==
  ASSUME TypeOK, UserInv, MainInv, ReportInv, [Next]_h2Vars
  PROVE  ReportInv'
<1>1. ASSUME UNCHANGED <<i, user_errors, joined, latencies, errors>> PROVE ReportInv'
  <2>1. JoinedUnanswered' = JoinedUnanswered /\ JoinedGaveUp' = JoinedGaveUp
    BY <1>1 DEF JoinedUnanswered, Unanswered, JoinedGaveUp, GaveUp
  <2> QED BY <1>1, <2>1 DEF ReportInv
<1>2. CASE JoinUser
  BY <1>2, JoinAdds
<1>3. ASSUME NEW u \in UserIds, Response(u) \/ PostFails(u) PROVE ReportInv'
  <2>1. upc[u] # "ended" /\ UNCHANGED <<joined, latencies, errors>>
    BY <1>3 DEF Response, PostFails, main
  <2>2. ~(u < joined)
    BY <2>1 DEF MainInv
  <2>3. \A v \in UserIds \ {u} : i'[v] = i[v] /\ user_errors'[v] = user_errors[v]
    BY <1>3 DEF Response, PostFails, TypeOK
  <2>4. JoinedUnanswered' = JoinedUnanswered
    BY <2>1, <2>2, <2>3 DEF JoinedUnanswered, Unanswered
  <2>5. JoinedGaveUp' = JoinedGaveUp
    BY <2>1, <2>2, <2>3 DEF JoinedGaveUp, GaveUp
  <2> QED BY <2>1, <2>4, <2>5 DEF ReportInv
<1>4. ASSUME NEW u \in UserIds, Post(u) PROVE ReportInv'
  BY <1>1, <1>4 DEF Post, main
<1>5. CASE ServeStep \/ WarmUp \/ Connect \/ Spawn \/ AbortConnection \/ AbortServer \/ Finish
  BY <1>1, <1>5
  DEF ServeStep, ServeAccepts, ServeResponds, ServeEnds, ServeDrained, WarmUp, Connect, Spawn,
      AbortConnection, AbortServer, Finish, main, users
<1>6. CASE Accept \/ AbortedEnd \/ ConnectionFails \/ MainFails \/ Ended \/ UNCHANGED h2Vars
  BY <1>1, <1>6
  DEF Accept, AbortedEnd, ConnectionFails, MainFails, Ended, h2Vars, main, users
<1> QED BY <1>2, <1>3, <1>4, <1>5, <1>6 DEF Next, MainStep, UserStep

-----------------------------------------------------------------------------
(***************************************************************************)
(* The invariant, and what it says of the report.                          *)
(***************************************************************************)
IInv == TypeOK /\ UserInv /\ MainInv /\ ReportInv

LEMMA IInvariant == Safety => []IInv
<1>1. Init => IInv
  BY TypeInit, UserInit, MainInit, ReportInit DEF IInv
<1>2. IInv /\ [Next]_h2Vars => IInv'
  BY TypeNext, UserNext, MainNext, ReportNext DEF IInv
<1> QED BY <1>1, <1>2, PTL DEF Safety

\* Every variable has its type: no user counts beyond its messages and no
\* user's errors exceed them (h2.rs:26-48).
THEOREM TypeCorrect == Safety => []TypeOK
<1>1. IInv => TypeOK
  BY DEF IInv
<1> QED BY <1>1, IInvariant, PTL

\* When the users have been joined, the report is over all of them.
LEMMA AllJoined ==
  ASSUME IInv, mpc \in {"abort", "stop", "done"}
  PROVE  /\ \A u \in UserIds : upc[u] = "ended"
         /\ errors = Cardinality(Unanswered)
         /\ latencies + errors = Total + Cardinality(GaveUp)
<1>1. joined = Users /\ MainInv /\ ReportInv
  BY DEF IInv, MainInv
<1>2. \A u \in UserIds : u < joined
  BY <1>1, SenderSets
<1>3. JoinedUnanswered = Unanswered /\ JoinedGaveUp = GaveUp
  BY <1>2 DEF JoinedUnanswered, Unanswered, JoinedGaveUp, GaveUp
<1> QED BY <1>1, <1>2, <1>3 DEF MainInv, ReportInv, Total

LEMMA NothingIsLeft ==
  ASSUME IInv, mpc \in {"abort", "stop", "done"}, errors = 0
  PROVE  latencies = Total /\ \A s \in Senders : request[s] = "none"
<1>1. TypeOK /\ UserInv /\ MainInv
  BY DEF IInv
<1>2. Unanswered = {}
  BY <1>1, AllJoined, ReportSets, FS_EmptySet
<1>3. ASSUME NEW u \in UserIds PROVE user_errors[u] = 0 /\ request[u] = "none"
  <2>1. upc[u] = "ended"
    BY AllJoined
  <2>2. ~(i[u] < MessagesPerUser)
    <3>1. ASSUME i[u] < MessagesPerUser PROVE FALSE
      <4>1. <<u, MessagesPerUser - 1>> \in Unanswered
        BY <1>1, <3>1, SenderSets DEF Unanswered, TypeOK
      <4> QED BY <1>2, <4>1
    <3> QED BY <3>1
  <2> QED BY <1>1, <2>1, <2>2 DEF UserInv
<1>4. GaveUp = {}
  BY <1>3 DEF GaveUp
<1>5. latencies = Total
  <2>1. latencies + 0 = Total + 0
    BY <1>4, AllJoined, FS_EmptySet
  <2> QED BY <1>1, <2>1, SenderSets DEF TypeOK, Total
<1>6. request[Main] = "none"
  BY <1>1 DEF MainInv
<1>7. \A s \in Senders : s = Main \/ s \in UserIds
  BY SenderSets DEF Senders, Main, UserIds
<1> QED BY <1>3, <1>5, <1>6, <1>7

\* Whatever fails, every request of every user has a latency or is an error,
\* and a report without errors is complete (h2.rs:33, 40, 53).
THEOREM AllAccountedCorrect == Safety => []AllAccounted
<1>1. IInv => AllAccounted
  BY AllJoined, NothingIsLeft DEF AllAccounted, ErrorsCounted, NothingLeft
<1> QED BY <1>1, IInvariant, PTL

-----------------------------------------------------------------------------
(***************************************************************************)
(* The abstract workload.                                                  *)
(***************************************************************************)
\* What ClosedLoop sees of a state.
Waits == {u \in UserIds : request[u] # "none"}
Over == mpc \in {"abort", "stop", "done"}

\* A failure ends the user's requests, and no one else's.
LEMMA FailureGivesUp ==
  ASSUME IInv, NEW u \in UserIds, PostFails(u)
  PROVE  /\ u \notin GaveUp /\ i[u] < MessagesPerUser /\ ~Over
         /\ GaveUp' = GaveUp \cup {u} /\ Waits' = Waits \ {u}
         /\ i' = i /\ (Over' <=> Over)
<1>1. TypeOK /\ UserInv /\ MainInv
  BY DEF IInv
<1>2. /\ upc[u] \in {"send", "wait"} /\ request' = [request EXCEPT ![u] = "none"]
      /\ user_errors' = [user_errors EXCEPT ![u] = @ + Remaining(u)]
      /\ i' = i /\ mpc' = mpc
  BY DEF PostFails, main
<1>3. i[u] < MessagesPerUser /\ user_errors[u] = 0 /\ i[u] \in Nat
  BY <1>1, <1>2 DEF UserInv, TypeOK
<1>4. user_errors'[u] > 0 /\ \A v \in UserIds \ {u} : user_errors'[v] = user_errors[v]
  BY <1>1, <1>2, <1>3, SenderSets DEF Remaining, TypeOK
<1>5. GaveUp' = GaveUp \cup {u} /\ u \notin GaveUp
  BY <1>3, <1>4 DEF GaveUp
<1>6. request'[u] = "none" /\ \A v \in UserIds \ {u} : request'[v] = request[v]
  BY <1>1, <1>2, SenderSets DEF TypeOK
<1>7. Waits' = Waits \ {u}
  BY <1>6 DEF Waits
<1>8. ~Over
  BY <1>2, AllJoined DEF Over
<1> QED BY <1>2, <1>3, <1>5, <1>7, <1>8 DEF Over

LEMMA PostRequests ==
  ASSUME IInv, NEW u \in UserIds, Post(u)
  PROVE  /\ u \notin Waits \cup GaveUp /\ i[u] < MessagesPerUser /\ ~Over
         /\ Waits' = Waits \cup {u} /\ GaveUp' = GaveUp
         /\ i' = i /\ (Over' <=> Over)
<1>1. TypeOK /\ UserInv
  BY DEF IInv
<1>2. /\ upc[u] = "send" /\ request' = [request EXCEPT ![u] = "sent"]
      /\ UNCHANGED <<i, user_errors, mpc>>
  BY DEF Post, Moves, main
<1>3. i[u] < MessagesPerUser /\ user_errors[u] = 0 /\ request[u] = "none"
  BY <1>1, <1>2 DEF UserInv
<1>4. Waits' = Waits \cup {u} /\ u \notin Waits
  <2>1. request'[u] # "none" /\ \A v \in UserIds \ {u} : request'[v] = request[v]
    BY <1>1, <1>2, SenderSets DEF TypeOK
  <2> QED BY <1>3, <2>1 DEF Waits
<1>5. ~Over
  BY <1>2, AllJoined DEF Over
<1> QED BY <1>2, <1>3, <1>4, <1>5 DEF GaveUp, Over

LEMMA ResponseResponds ==
  ASSUME IInv, NEW u \in UserIds, Response(u)
  PROVE  /\ u \in Waits /\ Waits' = Waits \ {u} /\ GaveUp' = GaveUp
         /\ i' = [v \in UserIds |-> IF v \in {u} THEN i[v] + 1 ELSE i[v]]
         /\ (Over' <=> Over)
<1>1. TypeOK
  BY DEF IInv
<1>2. /\ request[u] = "answered" /\ request' = [request EXCEPT ![u] = "none"]
      /\ i' = [i EXCEPT ![u] = i[u] + 1]
      /\ UNCHANGED <<user_errors, mpc>>
  BY DEF Response, Moves, main
<1>3. request'[u] = "none" /\ \A v \in UserIds \ {u} : request'[v] = request[v]
  BY <1>1, <1>2, SenderSets DEF TypeOK
<1>4. i' = [v \in UserIds |-> IF v \in {u} THEN i[v] + 1 ELSE i[v]]
  BY <1>1, <1>2 DEF TypeOK
<1> QED BY <1>2, <1>3, <1>4 DEF Waits, GaveUp, Over

LEMMA AbortEnds ==
  ASSUME IInv, IInv', AbortConnection
  PROVE  /\ ~Over /\ Over' /\ Waits = {} /\ Waits' = Waits /\ GaveUp' = GaveUp /\ i' = i
         /\ \A u \in UserIds \ GaveUp : i[u] = MessagesPerUser
<1>1. UserInv /\ MainInv
  BY DEF IInv
<1>2. /\ mpc = "join" /\ joined = Users /\ mpc' = "abort"
      /\ UNCHANGED <<i, user_errors, request>>
  BY DEF AbortConnection, users
<1>3. \A u \in UserIds : upc[u] = "ended"
  BY <1>1, <1>2, SenderSets DEF MainInv
<1>4. \A u \in UserIds : request[u] = "none"
  BY <1>1, <1>3 DEF UserInv
<1>5. ASSUME NEW u \in UserIds \ GaveUp PROVE i[u] = MessagesPerUser
  <2>1. ~(user_errors[u] > 0) /\ i[u] \in Nat
    BY DEF GaveUp, IInv, TypeOK
  <2> QED BY <1>1, <1>3, <2>1, SenderSets DEF UserInv
<1> QED BY <1>2, <1>4, <1>5 DEF Waits, Over, GaveUp

\* The other steps are not seen.
LEMMA OthersUnseen ==
  ASSUME IInv, [Next]_h2Vars, ~AbortConnection,
         \A u \in UserIds : ~(Post(u) \/ Response(u) \/ PostFails(u))
  PROVE  Waits' = Waits /\ GaveUp' = GaveUp /\ i' = i /\ (Over' <=> Over)
<1>1. TypeOK
  BY DEF IInv
<1>2. CASE Apart
  <2>1. Waits' = Waits /\ GaveUp' = GaveUp /\ i' = i
    BY <1>2 DEF Apart, users, Waits, GaveUp
  <2>2. CASE ServeStep \/ WarmUp \/ Connect \/ Spawn \/ JoinUser \/ AbortServer \/ Finish
    BY <2>1, <2>2
    DEF ServeStep, ServeAccepts, ServeResponds, ServeEnds, ServeDrained, WarmUp, Connect,
        Spawn, JoinUser, AbortServer, Finish, main, Over
  <2>3. CASE Accept \/ AbortedEnd \/ ConnectionFails \/ MainFails \/ Ended
             \/ UNCHANGED h2Vars
    BY <2>1, <2>3
    DEF Accept, AbortedEnd, ConnectionFails, MainFails, Ended, h2Vars, main, Over
  <2> QED BY <2>2, <2>3 DEF Next, MainStep, UserStep
<1>3. CASE Spawn
  BY <1>3 DEF Spawn, Waits, GaveUp, Over
<1> QED BY <1>1, <1>2, <1>3, StepKinds

LEMMA LoopInit == Init => Loop!Init
<1> SUFFICES ASSUME Init PROVE Loop!Init
  OBVIOUS
<1>1. \A u \in UserIds : request[u] = "none" /\ user_errors[u] = 0
  BY SenderSets DEF Init
<1>2. mpc = "connect" /\ i = [u \in UserIds |-> 0]
  BY DEF Init
<1> QED BY <1>1, <1>2 DEF Loop!Init, Loop!UserIds, UserIds, GaveUp

LEMMA LoopNext ==
  ASSUME IInv, IInv', [Next]_h2Vars
  PROVE  [Loop!Next]_(Loop!loopVars)
<1>1. UserIds = Loop!UserIds
  BY DEF UserIds, Loop!UserIds
<1>2. ASSUME NEW u \in UserIds, Post(u) PROVE Loop!Request(u)
  BY <1>2, PostRequests DEF Loop!Request, Waits, Over
<1>3. ASSUME NEW u \in UserIds, Response(u) PROVE Loop!Respond({u})
  BY <1>1, <1>3, ResponseResponds DEF Loop!Respond, Waits, Over
<1>4. ASSUME NEW u \in UserIds, PostFails(u) PROVE Loop!GiveUp(u)
  BY <1>4, FailureGivesUp DEF Loop!GiveUp, Waits, Over
<1>5. ASSUME AbortConnection PROVE Loop!End
  BY <1>1, <1>5, AbortEnds DEF Loop!End, Waits, Over
<1>6. ASSUME ~AbortConnection,
             \A u \in UserIds : ~(Post(u) \/ Response(u) \/ PostFails(u))
      PROVE  UNCHANGED Loop!loopVars
  BY <1>6, OthersUnseen DEF Loop!loopVars, Waits, Over
<1>7. \A u \in UserIds : {u} \in SUBSET UserIds
  OBVIOUS
<1> QED BY <1>1, <1>2, <1>3, <1>4, <1>5, <1>6, <1>7 DEF Loop!Next

\* Seen from outside, a run is a run of ClosedLoop, whatever fails: each user
\* one request at a time, a failure ends one user's requests only, and the
\* end when every other user has all its answers (h2.rs:26-63).
THEOREM ClosedLoopKept == Safety => KeepsClosedLoop
<1>1. IInv /\ IInv' /\ [Next]_h2Vars => [Loop!Next]_(Loop!loopVars)
  BY LoopNext
<1> QED BY <1>1, LoopInit, IInvariant, PTL DEF Safety, KeepsClosedLoop, Loop!Spec
=============================================================================
