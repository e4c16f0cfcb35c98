------------------------------ MODULE ArxivGate ------------------------------
(* The pacing gate that all arXiv searches of a process share:              *)
(* src/meta/engines/arxiv.rs.                                               *)
EXTENDS Integers, Sequences, SequencesExt

CONSTANTS
    Query,          \* concurrent searches of arXiv
    interval        \* the least time between the starts of two requests

ASSUME GateAssumption == interval \in Nat \ {0}

VARIABLES
    query_pc,       \* where an arXiv search is
    waiters,        \* the queue of the gate's mutex; its head has the lock
    last_started    \* the time since the last request started, up to interval

arxiv_vars == <<query_pc, waiters, last_started>>

GateTypeOK ==
    /\ query_pc \in [Query -> {"idle", "gate", "request"}]
    /\ waiters \in Seq(Query) /\ last_started \in 0..interval

GateInit ==
    /\ query_pc = [q \in Query |-> "idle"]
    /\ waiters = <<>>
    /\ last_started = interval

QueueAtGate(q) ==
    /\ query_pc[q] = "idle"
    /\ query_pc' = [query_pc EXCEPT ![q] = "gate"]
    /\ waiters' = Append(waiters, q)
    /\ UNCHANGED last_started

(* The head of the queue has the lock, and sleeps as long as the interval   *)
(* has not passed.                                                          *)
StartRequest(q) ==
    /\ query_pc[q] = "gate" /\ Head(waiters) = q
    /\ last_started >= interval
    /\ last_started' = 0
    /\ query_pc' = [query_pc EXCEPT ![q] = "request"]
    /\ UNCHANGED waiters

\* MUTANT: the turn ends when the next search may start, not with the request.
StartUnlocked(q) ==
    /\ query_pc[q] = "gate" /\ Head(waiters) = q
    /\ last_started >= interval
    /\ last_started' = 0
    /\ query_pc' = [query_pc EXCEPT ![q] = "request"]
    /\ waiters' = Tail(waiters)

PlaceOf(q) == CHOOSE i \in DOMAIN waiters : waiters[i] = q

(* A request ends, with whatever result, or a search is dropped where it    *)
(* waits: in the queue, asleep with the lock, or for the answer.            *)
LeaveGate(q) ==
    /\ query_pc[q] # "idle"
    /\ query_pc' = [query_pc EXCEPT ![q] = "idle"]
    /\ waiters' = RemoveAt(waiters, PlaceOf(q))
    /\ UNCHANGED last_started

GateTick ==
    /\ last_started < interval
    /\ last_started' = last_started + 1
    /\ UNCHANGED <<query_pc, waiters>>

GateNext == (\E q \in Query : QueueAtGate(q) \/ StartRequest(q) \/ LeaveGate(q)) \/ GateTick

(* Time passes, tasks are scheduled, and a request ends within its timeout. *)
GateFairness ==
    /\ WF_arxiv_vars(GateTick)
    /\ \A q \in Query : /\ WF_arxiv_vars(StartRequest(q))
                        /\ WF_arxiv_vars(query_pc[q] = "request" /\ LeaveGate(q))

GateSpec == GateInit /\ [][GateNext]_arxiv_vars /\ GateFairness

-----------------------------------------------------------------------------
(* Only one arXiv request is in flight, and it starts at least interval     *)
(* after the one before, whoever is dropped where.                          *)
GateSpaced ==
    [][\A q \in Query : query_pc[q] = "gate" /\ query_pc'[q] = "request" =>
          /\ last_started = interval
          /\ \A r \in Query : query_pc[r] # "request"]_arxiv_vars

(* Who queues at the gate leaves it, however many come.                     *)
EveryTurnComes == \A q \in Query : query_pc[q] = "gate" ~> query_pc[q] # "gate"
=============================================================================
