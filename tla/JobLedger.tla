------------------------------ MODULE JobLedger ------------------------------
(***************************************************************************)
(* What one dispatch call promises about the (subquery, provider) jobs it  *)
(* is given: every job is started at most once, ends with exactly one      *)
(* verdict that never changes, and an "interrupted" verdict is only given  *)
(* when the call is closed late, for all open jobs at once.                *)
(* `Dispatch' implements this specification.                               *)
(***************************************************************************)

CONSTANT Job        \* every job a plan could contain

VARIABLES planned,  \* the jobs of this call
          verdict,  \* what the ledger says of every job
          closed,   \* the call has returned
          late      \* the call was cut short by its deadline

ledgerVars == <<planned, verdict, closed, late>>

Verdict == {"queued", "running", "answered", "skipped", "interrupted"}

Open == {j \in planned : verdict[j] \in {"queued", "running"}}

LedgerInit ==
    /\ planned \in SUBSET Job
    /\ verdict = [j \in Job |-> "queued"]
    /\ closed = (planned = {})
    /\ late = FALSE

Move(j, from, to) ==
    /\ ~closed /\ ~late
    /\ j \in planned
    /\ verdict[j] = from
    /\ verdict' = [verdict EXCEPT ![j] = to]
    /\ UNCHANGED <<planned, closed, late>>

Skip(j)   == Move(j, "queued", "skipped")
Start(j)  == Move(j, "queued", "running")
Answer(j) == Move(j, "running", "answered")

RunLate ==
    /\ ~closed /\ ~late
    /\ \E j \in planned : verdict[j] = "running"
    /\ late' = TRUE
    /\ UNCHANGED <<planned, verdict, closed>>

\* Closing leaves no job without a verdict; only a late call interrupts jobs.
Close ==
    /\ ~closed
    /\ Open # {} => late
    /\ closed' = TRUE
    /\ verdict' = [j \in Job |-> IF j \in Open THEN "interrupted" ELSE verdict[j]]
    /\ UNCHANGED <<planned, late>>

LedgerNext ==
    \/ \E j \in Job : Skip(j) \/ Start(j) \/ Answer(j)
    \/ RunLate
    \/ Close

LedgerSpec == LedgerInit /\ [][LedgerNext]_ledgerVars
=============================================================================
