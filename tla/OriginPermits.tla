---------------------------- MODULE OriginPermits ----------------------------
(***************************************************************************)
(* What the origin controller promises those who fetch: at every origin    *)
(* no more users at a time than its ceiling, nobody admitted while the     *)
(* origin's circuit is open, and a circuit that opens when enough failures *)
(* have been recorded in a row and closes with time or with a success.     *)
(* OriginControl implements this specification while no entry is evicted,  *)
(* and the fetches of FetchPermits use their permits by it.                *)
(***************************************************************************)
EXTENDS Integers, FiniteSets

CONSTANTS
    User,       \* whatever holds one permit at a time
    Origin,
    Nowhere,    \* not an origin
    ceiling,    \* users of an origin
    threshold   \* failures in a row that open a circuit

VARIABLES
    at,         \* the origin of which a user holds a permit, or Nowhere
    count,      \* failures in a row of every origin, up to the threshold
    backoff     \* whose circuit is open

permitVars == <<at, count, backoff>>

PermitInit ==
    /\ at = [u \in User |-> Nowhere]
    /\ count = [o \in Origin |-> 0]
    /\ backoff = [o \in Origin |-> FALSE]

UsersOf(o) == {u \in User : at[u] = o}

AdmitUser(u, o) ==
    /\ at[u] = Nowhere
    /\ Cardinality(UsersOf(o)) < ceiling /\ ~backoff[o]
    /\ at' = [at EXCEPT ![u] = o]
    /\ UNCHANGED <<count, backoff>>

\* Some users give back what they have.
GiveBackOf(S) == at' = [u \in User |-> IF u \in S THEN Nowhere ELSE at[u]]

Leaves == UNCHANGED <<count, backoff>> /\ \E S \in SUBSET User : GiveBackOf(S)

Answers(o) ==
    /\ count' = [count EXCEPT ![o] = 0]
    /\ backoff' = [backoff EXCEPT ![o] = FALSE]

\* A failure that is nobody's fault but the request's.
Refuses(o) ==
    /\ count' = [count EXCEPT ![o] = 0]
    /\ UNCHANGED backoff

Fails(o) ==
    LET n == IF count[o] < threshold THEN count[o] + 1 ELSE threshold IN
    /\ count' = [count EXCEPT ![o] = n]
    /\ backoff' = [backoff EXCEPT ![o] = @ \/ n = threshold]

\* Only a user of an origin records what came of it.
Record(o) ==
    /\ UsersOf(o) # {}
    /\ Answers(o) \/ Refuses(o) \/ Fails(o)
    /\ \E S \in SUBSET User : GiveBackOf(S)

TimePasses ==
    /\ \E S \in SUBSET Origin : backoff' = [o \in Origin |-> backoff[o] /\ o \notin S]
    /\ UNCHANGED <<at, count>>

PermitNext ==
    \/ \E u \in User, o \in Origin : AdmitUser(u, o)
    \/ Leaves
    \/ \E o \in Origin : Record(o)
    \/ TimePasses

PermitSpec == PermitInit /\ [][PermitNext]_permitVars
=============================================================================
