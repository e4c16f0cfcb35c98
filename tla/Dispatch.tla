------------------------------ MODULE Dispatch ------------------------------
(***************************************************************************)
(* dispatch_parallel (src/meta/dispatch/execution.rs): the executor behind *)
(* repo, research and security search.  It receives a plan of (subquery,   *)
(* provider) jobs, runs them as tokio tasks under a global and a           *)
(* per-provider cap and one deadline, and returns a ledger with an attempt *)
(* record for every job plus per-subquery deadline statistics.             *)
(*                                                                         *)
(* The executor is one async task; the provider calls run concurrently as  *)
(* tasks of a JoinSet and end at any moment, in any order, or never.       *)
(***************************************************************************)
EXTENDS Integers, Sequences, FiniteSets

CONSTANTS
    Subquery,             \* subquery_order: positions of the subqueries (naturals)
    Provider,             \* provider_order: positions of the engines (naturals)
    Label,                \* subquery ids
    LabelOf,              \* subquery position -> its id; ids may repeat
    Priority,             \* priorities (integers, lower is more urgent)
    Plans,                \* the job lists the adapter may hand over
    max_concurrent_jobs,
    max_concurrent_per_provider

\* One job per subquery, engine and non-empty half of the capability
\* partition; the intended roles are determined by the three.
Job == [sq : Subquery, pr : Provider, kind : {"Supported", "Unsupported"}]

ASSUME DispatchAssumption ==
    /\ Subquery \subseteq Nat /\ Provider \subseteq Nat
    /\ LabelOf \in [Subquery -> Label]
    /\ Priority \subseteq Int
    /\ \A P \in Plans : P \subseteq Job /\ IsFiniteSet(P)
    /\ max_concurrent_jobs \in Nat
    /\ max_concurrent_per_provider \in Nat

\* JobKey: (subquery_id, provider_id, intended_roles).
Key == [label : Label, pr : Provider, kind : {"Supported", "Unsupported"}]
KeyOf(j) == [label |-> LabelOf[j.sq], pr |-> j.pr, kind |-> j.kind]

\* Outcomes of a collected task; a panic inside a task is a failure.
TaskOutcome == {"Success", "Failed", "TimedOut"}
Outcome == TaskOutcome \cup {"SkippedCapabilityUnavailable", "InterruptedByDeadline"}

\* Concurrency caps, clamped to at least 1.
JobCap == IF max_concurrent_jobs > 1 THEN max_concurrent_jobs ELSE 1
ProviderCap == IF max_concurrent_per_provider > 1 THEN max_concurrent_per_provider ELSE 1

VARIABLES
    jobs,              \* the plan (sorted_jobs)
    prio,              \* priority of every subquery id
    pc,                \* where the executor is: "scan", "wait", "report", "done"
    todo,              \* front of pending_queue: not yet examined in this pass
    blocked,           \* back of pending_queue: examined and rotated
    task,              \* the JoinSet: state of the task of every job
    provider_active,
    global_active,
    running_counts,    \* running_subquery_counts
    terminal_counts,   \* terminal_subquery_counts
    start_times,       \* keys of job_start_times
    attempts,          \* collected_attempts, by the job they stand for
    expired,           \* overall_deadline has passed
    deadline           \* RequestDeadlineStats, with sets for the counts

plan == <<jobs, prio>>
counters == <<provider_active, global_active, running_counts, terminal_counts>>
vars == <<plan, pc, todo, blocked, task, counters, start_times, attempts, expired, deadline>>

-----------------------------------------------------------------------------
(* The sort order of the plan.  pending_queue always holds its jobs in this *)
(* order (todo, then blocked), so two sets and the order represent it.      *)

Prio(j) == prio[LabelOf[j.sq]]

Before(j, k) ==
    \/ Prio(j) < Prio(k)
    \/ Prio(j) = Prio(k) /\ j.sq < k.sq
    \/ Prio(j) = Prio(k) /\ j.sq = k.sq /\ j.pr < k.pr
    \/ Prio(j) = Prio(k) /\ j.sq = k.sq /\ j.pr = k.pr
         /\ j.kind = "Supported" /\ k.kind = "Unsupported"

\* MUTANT: the plan is not sorted.
UnsortedFront(j) == j \in todo

Front(j) == j \in todo /\ \A k \in todo \ {j} : Before(j, k)

Pending == todo \cup blocked

\* Spawned and not yet collected: active_tasks.
Running == {j \in jobs : task[j] \in {"calling", "refused"} \cup TaskOutcome}
Ended == {j \in jobs : task[j] \in TaskOutcome}

\* MUTANT: only the global cap is tested.
can_start_globally(j) == global_active < JobCap

can_start(j) ==
    /\ global_active < JobCap
    /\ provider_active[j.pr] < ProviderCap

SaturatingDec(n) == IF n = 0 THEN 0 ELSE n - 1

Record(j, outcome) == attempts' = [attempts EXCEPT ![j] = Append(@, outcome)]

-----------------------------------------------------------------------------
NoStats == [exceeded |-> FALSE, completed |-> {}, skipped |-> {},
            interrupted |-> {}, partial |-> {}]

Init ==
    /\ jobs \in Plans
    /\ prio \in [Label -> Priority]
    /\ pc = IF jobs = {} THEN "done" ELSE "scan"
    /\ todo = jobs
    /\ blocked = {}
    /\ task = [j \in Job |-> "none"]
    /\ provider_active = [p \in Provider |-> 0]
    /\ global_active = 0
    /\ running_counts = [l \in Label |-> 0]
    /\ terminal_counts = [l \in Label |-> 0]
    /\ start_times = {}
    /\ attempts = [j \in Job |-> <<>>]
    /\ expired = FALSE
    /\ deadline = NoStats

(* One pass over the pending queue: every pending job is examined once.     *)

ExamineUnsupported(j) ==
    /\ pc = "scan" /\ Front(j)
    /\ j.kind = "Unsupported"
    /\ todo' = todo \ {j}
    /\ start_times' = start_times \ {KeyOf(j)}
    /\ Record(j, "SkippedCapabilityUnavailable")
    /\ UNCHANGED <<plan, pc, blocked, task, counters, expired, deadline>>

\* A job started when no time is left is spawned all the same, but answers
\* with a timeout without calling its provider.
StartJob(j) ==
    /\ pc = "scan" /\ Front(j)
    /\ j.kind = "Supported"
    /\ can_start(j)
    /\ todo' = todo \ {j}
    /\ provider_active' = [provider_active EXCEPT ![j.pr] = @ + 1]
    /\ global_active' = global_active + 1
    /\ running_counts' = [running_counts EXCEPT ![LabelOf[j.sq]] = @ + 1]
    /\ start_times' = start_times \cup {KeyOf(j)}
    /\ task' = [task EXCEPT ![j] = IF expired THEN "refused" ELSE "calling"]
    /\ UNCHANGED <<plan, pc, blocked, terminal_counts, attempts, expired, deadline>>

RotateBlocked(j) ==
    /\ pc = "scan" /\ Front(j)
    /\ j.kind = "Supported"
    /\ ~can_start(j)
    /\ todo' = todo \ {j}
    /\ blocked' = blocked \cup {j}
    /\ UNCHANGED <<plan, pc, task, counters, start_times, attempts, expired, deadline>>

-----------------------------------------------------------------------------
(* Deadline accounting, shared by the pre-check and the timeout arm.        *)

Planned(l) == Cardinality({j \in jobs : LabelOf[j.sq] = l})
AllLabels == {LabelOf[j.sq] : j \in jobs}
\* MUTANT: one answer completes a subquery.
AnyAnswerCompletes == {l \in AllLabels : terminal_counts[l] > 0}

Completed == {l \in AllLabels : terminal_counts[l] >= Planned(l)}
\* MUTANT: every subquery with a queued job counts as skipped.
SkippedWhileRunning == {LabelOf[j.sq] : j \in Pending} \ Completed

Skipped == {l \in {LabelOf[j.sq] : j \in Pending} : running_counts[l] = 0} \ Completed
Interrupted == AllLabels \ (Completed \cup Skipped)

\* MUTANT: the statistics are filled in but the call is not marked late.
UnmarkedAccount ==
    deadline' = [NoStats EXCEPT !.completed = Completed, !.skipped = Skipped,
                                !.interrupted = Interrupted]

AccountDeadline ==
    deadline' = [exceeded |-> TRUE, completed |-> Completed, skipped |-> Skipped,
                 interrupted |-> Interrupted,
                 partial |-> {l \in Interrupted : terminal_counts[l] > 0}]

EndPass ==
    /\ pc = "scan" /\ todo = {}
    /\ \/ global_active = 0 /\ pc' = "report" /\ UNCHANGED deadline
       \/ global_active > 0 /\ expired /\ pc' = "report" /\ AccountDeadline
       \/ global_active > 0 /\ ~expired /\ pc' = "wait" /\ UNCHANGED deadline
    /\ UNCHANGED <<plan, todo, blocked, task, counters, start_times, attempts, expired>>

\* MUTANT: a collected task keeps its provider slot.
LeakyRelease(j, outcome) ==
    /\ pc = "wait"
    /\ task' = [task EXCEPT ![j] = "collected"]
    /\ global_active' = SaturatingDec(global_active)
    /\ running_counts' = [running_counts EXCEPT ![LabelOf[j.sq]] = SaturatingDec(@)]
    /\ terminal_counts' = [terminal_counts EXCEPT ![LabelOf[j.sq]] = @ + 1]
    /\ start_times' = start_times \ {KeyOf(j)}
    /\ Record(j, outcome)
    /\ pc' = "scan" /\ todo' = blocked /\ blocked' = {}
    /\ UNCHANGED <<plan, provider_active, expired, deadline>>

\* MUTANT: freed capacity is only offered again once the whole batch ended.
BatchRelease(j, outcome) ==
    /\ pc = "wait"
    /\ task' = [task EXCEPT ![j] = "collected"]
    /\ global_active' = SaturatingDec(global_active)
    /\ provider_active' = [provider_active EXCEPT ![j.pr] = SaturatingDec(@)]
    /\ running_counts' = [running_counts EXCEPT ![LabelOf[j.sq]] = SaturatingDec(@)]
    /\ terminal_counts' = [terminal_counts EXCEPT ![LabelOf[j.sq]] = @ + 1]
    /\ start_times' = start_times \ {KeyOf(j)}
    /\ Record(j, outcome)
    /\ IF global_active > 1
       THEN UNCHANGED <<pc, todo, blocked>>
       ELSE pc' = "scan" /\ todo' = blocked /\ blocked' = {}
    /\ UNCHANGED <<plan, expired, deadline>>

\* join_next_with_id yields the task of j: release its slots and record it.
\* `outcome' is the task's result, or a failure when the task died without one.
Release(j, outcome) ==
    /\ pc = "wait"
    /\ task' = [task EXCEPT ![j] = "collected"]
    /\ global_active' = SaturatingDec(global_active)
    /\ provider_active' = [provider_active EXCEPT ![j.pr] = SaturatingDec(@)]
    /\ running_counts' = [running_counts EXCEPT ![LabelOf[j.sq]] = SaturatingDec(@)]
    /\ terminal_counts' = [terminal_counts EXCEPT ![LabelOf[j.sq]] = @ + 1]
    /\ start_times' = start_times \ {KeyOf(j)}
    /\ Record(j, outcome)
    /\ pc' = "scan" /\ todo' = blocked /\ blocked' = {}
    /\ UNCHANGED <<plan, expired, deadline>>

\* MUTANT: a task is collected before it has ended.
CollectUnended(j) == j \in Running /\ Release(j, task[j])

CollectResult(j) == j \in Ended /\ Release(j, task[j])

CollectJoinError(j) == j \in Running \ Ended /\ Release(j, "Failed")

\* MUTANT: join_next is awaited without a timeout.
UntimedWait ==
    /\ pc = "wait" /\ Running = {} /\ pc' = "report"
    /\ UNCHANGED <<plan, todo, blocked, task, counters, start_times, attempts, expired, deadline>>

\* tokio::time::timeout polls the JoinSet first, so an ended task wins.
TimeoutArm ==
    /\ pc = "wait" /\ expired /\ Ended = {}
    /\ AccountDeadline
    /\ pc' = "report"
    /\ UNCHANGED <<plan, todo, blocked, task, counters, start_times, attempts, expired>>

-----------------------------------------------------------------------------
(* After the loop: statistics of an unexpired call, and InterruptedByDeadline *)
(* attempts for the jobs whose key has no attempt yet.                      *)

dispatched_keys == {KeyOf(j) : j \in {k \in jobs : attempts[k] # <<>>}}

\* The first job of the plan with the given key.
Matching(j, key) ==
    /\ KeyOf(j) = key
    /\ \A k \in jobs \ {j} : KeyOf(k) = key => Before(j, k)

NeverStarted(j) == j \in Pending /\ KeyOf(j) \notin dispatched_keys
\* MUTANT: tasks cancelled by abort_all are forgotten.
ForgottenAborted(j) == FALSE

\* What is left of job_start_times when the pending jobs have been recorded:
\* with repeated ids, such a record takes the start of a running job along.
StartsLeft == start_times \ {KeyOf(k) : k \in {p \in jobs : NeverStarted(p)}}

Aborted(j) == \E key \in StartsLeft \ dispatched_keys : Matching(j, key)

Synthesized(j) ==
    (IF j \in jobs /\ NeverStarted(j) THEN <<"InterruptedByDeadline">> ELSE <<>>)
    \o (IF j \in jobs /\ Aborted(j) THEN <<"InterruptedByDeadline">> ELSE <<>>)

Report ==
    /\ pc = "report"
    /\ pc' = "done"
    /\ deadline' = IF deadline.exceeded THEN deadline
                   ELSE [deadline EXCEPT !.completed = Completed]
    /\ attempts' = [j \in Job |-> attempts[j] \o Synthesized(j)]
    /\ start_times' = {}
    /\ UNCHANGED <<plan, todo, blocked, task, counters, expired>>

-----------------------------------------------------------------------------
(* The environment: tasks end while the executor scans or waits, and time   *)
(* passes.                                                                  *)

TaskEnds(j) ==
    /\ pc \in {"scan", "wait"} /\ j \in jobs
    /\ \/ task[j] = "calling" /\ \E o \in TaskOutcome : task' = [task EXCEPT ![j] = o]
       \/ task[j] = "refused" /\ task' = [task EXCEPT ![j] = "TimedOut"]
    /\ UNCHANGED <<plan, pc, todo, blocked, counters, start_times, attempts, expired, deadline>>

DeadlineElapses ==
    /\ pc \in {"scan", "wait"} /\ ~expired
    /\ expired' = TRUE
    /\ UNCHANGED <<plan, pc, todo, blocked, task, counters, start_times, attempts, deadline>>

Examine(j) == ExamineUnsupported(j) \/ StartJob(j) \/ RotateBlocked(j)

Executor ==
    \/ \E j \in jobs : Examine(j) \/ CollectResult(j)
    \/ EndPass \/ TimeoutArm \/ Report

Next ==
    \/ Executor
    \/ \E j \in jobs : CollectJoinError(j) \/ TaskEnds(j)
    \/ DeadlineElapses

Spec == Init /\ [][Next]_vars

\* The executor is polled whenever it can make progress, and time passes; no
\* provider is assumed ever to answer.
FairSpec == Spec /\ WF_vars(Executor) /\ WF_vars(DeadlineElapses)

-----------------------------------------------------------------------------
(* Properties                                                               *)

StatsType == [exceeded : BOOLEAN, completed : SUBSET Label, skipped : SUBSET Label,
              interrupted : SUBSET Label, partial : SUBSET Label]

TaskState == {"none", "calling", "refused", "collected"} \cup TaskOutcome

\* Type invariant of the executor's locals in dispatch_parallel.
TypeOK ==
    /\ jobs \in Plans /\ prio \in [Label -> Priority]
    /\ pc \in {"scan", "wait", "report", "done"}
    /\ todo \subseteq jobs /\ blocked \subseteq jobs
    /\ task \in [Job -> TaskState]
    /\ provider_active \in [Provider -> Nat] /\ global_active \in Nat
    /\ running_counts \in [Label -> Nat] /\ terminal_counts \in [Label -> Nat]
    /\ start_times \subseteq Key
    /\ attempts \in [Job -> Seq(Outcome)]
    /\ expired \in BOOLEAN /\ deadline \in StatsType

\* The caps hold for the tasks that really are in flight (not only for the
\* counters): never more than max_concurrent_jobs of them, never more than
\* max_concurrent_per_provider at one provider, whatever order they end in
\* and whether they answer, panic or die.
CapsRespected ==
    /\ Cardinality(Running) <= JobCap
    /\ \A p \in Provider : Cardinality({j \in Running : j.pr = p}) <= ProviderCap

\* No slot leaks and none is released twice: the counters the start condition
\* reads always equal the number of uncollected tasks.
CountersMatchTasks ==
    /\ global_active = Cardinality(Running)
    /\ \A p \in Provider : provider_active[p] = Cardinality({j \in Running : j.pr = p})
    /\ \A l \in Label : running_counts[l] = Cardinality({j \in Running : LabelOf[j.sq] = l})

\* Slots of the executor: what it counts is what runs, and stays in the caps.
SlotsAccounted == CapsRespected /\ CountersMatchTasks

\* Work conservation: whenever the executor waits, every job still queued is
\* kept back by a full cap, and at least one task is there to wait for
\* (join_next never yields None while jobs remain).
NoIdleSlot ==
    pc = "wait" => Running # {} /\ \A j \in Pending : ~can_start(j)

\* A job is only started ahead of a more urgent pending one when the provider
\* of the urgent one is saturated: rotation never lets a job overtake another
\* that could have run.
NoOvertaking ==
    [][\A j \in jobs : task[j] = "none" /\ task'[j] # "none" =>
          \A k \in Pending \ {j} :
             Before(k, j) => k.kind = "Supported" /\ provider_active[k.pr] >= ProviderCap]_vars

\* Subquery ids are distinct: true of repo, research and security plans, not
\* of exact-error plans.
DistinctIds == \A a, b \in Subquery : LabelOf[a] = LabelOf[b] => a = b

\* Every planned job has exactly one attempt record when the call returns,
\* however it ended: "Attempt records for every dispatched and skipped job".
LedgerComplete ==
    pc = "done" => \A j \in jobs : Len(attempts[j]) = 1

\* The deadline statistics agree with the ledger: a subquery counted as
\* completed has every job answered, an interrupted attempt belongs to a
\* subquery counted as interrupted or skipped, and only of a call that
\* exceeded its deadline.
StatsMatchLedger ==
    pc = "done" =>
        \A j \in jobs : \A i \in 1..Len(attempts[j]) :
            /\ LabelOf[j.sq] \in deadline.completed => attempts[j][i] \in TaskOutcome
            /\ attempts[j][i] = "InterruptedByDeadline" =>
                  /\ deadline.exceeded
                  /\ LabelOf[j.sq] \in deadline.interrupted \cup deadline.skipped

\* A call that exceeded its deadline always names an interrupted subquery, so
\* the request_deadline_exceeded warning never reports 0 interrupted.
DeadlineNamesInterrupted ==
    deadline.exceeded => deadline.interrupted # {}

\* What the call reports of its deadline agrees with its attempts.
ReportMatchesLedger == StatsMatchLedger /\ DeadlineNamesInterrupted

\* The call returns once its deadline has passed, also when providers hang.
Termination == <>(pc = "done")

InterruptedHadRunningJob ==
    \A l \in deadline.interrupted : \E j \in Running : LabelOf[j.sq] = l
SkippedNeverStarted ==
    \A l \in deadline.skipped : \A j \in jobs : LabelOf[j.sq] = l => task[j] = "none"

\* record_provider_health, over the results and failures of this dispatch: the
\* queried providers that have neither are recorded as timed out.
responded == {j.pr : j \in {k \in jobs : task[k] = "collected"}}
TimedOutProviders == {j.pr : j \in jobs} \ responded

SkipsAreNotTimeouts ==
    \A p \in TimedOutProviders : \E j \in jobs : j.pr = p /\ j.kind = "Supported"

\* What is said of a dispatch that is over, read leniently: no result contradicts
\* all three of these, that interrupted subqueries "had at least one running job
\* that did not finish before the deadline", that skipped ones "were queued but
\* never started a job" (the comment on the accounting), and that capability
\* skips "are never reported as timeouts" (architecture/engines.md).
DocumentedOutcome ==
    pc = "done" => InterruptedHadRunningJob \/ SkippedNeverStarted \/ SkipsAreNotTimeouts

\* The ledger specification, implemented by this module.
verdict ==
    [j \in Job |->
        IF attempts[j] = <<>>
        THEN IF task[j] \in {"none", "collected"} THEN "queued" ELSE "running"
        ELSE IF Len(attempts[j]) > 1 THEN "recorded twice"
        ELSE IF attempts[j][1] = "SkippedCapabilityUnavailable" THEN "skipped"
        ELSE IF attempts[j][1] = "InterruptedByDeadline" THEN "interrupted"
        ELSE "answered"]

Ledger == INSTANCE JobLedger WITH
    planned <- jobs, closed <- pc = "done", late <- deadline.exceeded

LedgerSpec == Ledger!LedgerSpec
=============================================================================
