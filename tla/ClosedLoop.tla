----------------------------- MODULE ClosedLoop -----------------------------
(***************************************************************************)
(* The workload both transports promise (README.md, Measurement Notes):    *)
(* users are independent serial request streams, one outstanding request   *)
(* per user, then the next request after the response.                     *)
(***************************************************************************)
EXTENDS Integers

CONSTANTS
  Users,            \* their number
  MessagesPerUser

UserIds == 0 .. (Users - 1)

VARIABLES
  answered,         \* responses each user has had
  waiting,          \* users with an outstanding request
  gone,             \* users that gave up at a failure
  over              \* the measurement has ended

loopVars == <<answered, waiting, gone, over>>

Init ==
  /\ answered = [u \in UserIds |-> 0] /\ waiting = {} /\ gone = {} /\ over = FALSE

Request(u) ==
  /\ ~over /\ u \notin waiting \cup gone /\ answered[u] < MessagesPerUser
  /\ waiting' = waiting \cup {u}
  /\ UNCHANGED <<answered, gone, over>>

\* Several responses may be found at once.
Respond(served) ==
  /\ served # {} /\ served \subseteq waiting
  /\ waiting' = waiting \ served
  /\ answered' = [u \in UserIds |-> IF u \in served THEN answered[u] + 1
                                    ELSE answered[u]]
  /\ UNCHANGED <<gone, over>>

GiveUp(u) ==
  /\ ~over /\ u \notin gone /\ answered[u] < MessagesPerUser
  /\ gone' = gone \cup {u} /\ waiting' = waiting \ {u}
  /\ UNCHANGED <<answered, over>>

End ==
  /\ ~over /\ \A u \in UserIds \ gone : answered[u] = MessagesPerUser
  /\ waiting = {}
  /\ over' = TRUE
  /\ UNCHANGED <<answered, waiting, gone>>

Next ==
  \/ \E u \in UserIds : Request(u) \/ GiveUp(u)
  \/ \E served \in SUBSET UserIds : Respond(served)
  \/ End

Spec == Init /\ [][Next]_loopVars
=============================================================================
