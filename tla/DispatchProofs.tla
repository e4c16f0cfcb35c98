--------------------------- MODULE DispatchProofs ---------------------------
(***************************************************************************)
(* Proofs about the dispatch executor, for every plan, every number of     *)
(* subqueries and providers and every configured cap.                      *)
(***************************************************************************)
EXTENDS Dispatch, FiniteSetTheorems, SequenceTheorems, TLAPS

-----------------------------------------------------------------------------
(* The components of a planned job.                                         *)
LEMMA JobComponents ==
    ASSUME TypeOK
    PROVE  /\ jobs \subseteq Job
           /\ IsFiniteSet(jobs)
           /\ \A j \in jobs : /\ j.sq \in Subquery /\ j.pr \in Provider
                              /\ LabelOf[j.sq] \in Label /\ KeyOf(j) \in Key
<1>1. jobs \subseteq Job /\ IsFiniteSet(jobs)
  BY DispatchAssumption DEF TypeOK
<1>2. ASSUME NEW j \in jobs
      PROVE  j.sq \in Subquery /\ j.pr \in Provider /\ LabelOf[j.sq] \in Label /\ KeyOf(j) \in Key
  BY <1>1, DispatchAssumption DEF Job, Key, KeyOf
<1> QED  BY <1>1, <1>2

(* Both caps are positive after clamping.                                   *)
LEMMA CapsPositive ==
    JobCap \in Nat \ {0} /\ ProviderCap \in Nat \ {0}
  BY DispatchAssumption DEF JobCap, ProviderCap

(* Accounting a deadline fills the statistics with sets of subquery ids.    *)
LEMMA StatsTyped ==
    ASSUME TypeOK
    PROVE  /\ AccountDeadline => deadline' \in StatsType
           /\ Completed \in SUBSET Label
<1>1. AllLabels \in SUBSET Label
  BY JobComponents DEF AllLabels
<1>2. \A j \in Pending : LabelOf[j.sq] \in Label
  BY JobComponents DEF Pending, TypeOK
<1>3. Completed \in SUBSET Label
  BY <1>1 DEF Completed
<1>4. Skipped \in SUBSET Label /\ Interrupted \in SUBSET Label
  BY <1>1, <1>2 DEF Skipped, Interrupted
<1>5. {l \in Interrupted : terminal_counts[l] > 0} \in SUBSET Label
  BY <1>4
<1>6. [exceeded |-> TRUE, completed |-> Completed, skipped |-> Skipped,
       interrupted |-> Interrupted,
       partial |-> {l \in Interrupted : terminal_counts[l] > 0}] \in StatsType
  <2> DEFINE P == {l \in Interrupted : terminal_counts[l] > 0}
  <2>1. P \in SUBSET Label
    BY <1>5
  <2> HIDE DEF P
  <2> QED  BY <1>3, <1>4, <2>1 DEF StatsType
<1> QED  BY <1>3, <1>6 DEF AccountDeadline

LEMMA TypeInit == Init => TypeOK
<1> SUFFICES ASSUME Init PROVE TypeOK
  OBVIOUS
<1>1. NoStats \in StatsType
  BY DEF NoStats, StatsType
<1>2. attempts \in [Job -> Seq(Outcome)]
  BY DEF Init
<1> QED  BY <1>1, <1>2 DEF Init, TypeOK, TaskState

LEMMA TypeStep == TypeOK /\ [Next]_vars => TypeOK'
<1> SUFFICES ASSUME TypeOK, [Next]_vars PROVE TypeOK'
  OBVIOUS
<1>j. /\ jobs \subseteq Job
      /\ \A j \in jobs : /\ j.sq \in Subquery /\ j.pr \in Provider
                         /\ LabelOf[j.sq] \in Label /\ KeyOf(j) \in Key
  BY JobComponents
<1>r. ASSUME NEW j \in jobs, NEW o \in Outcome, Record(j, o)
      PROVE  attempts' \in [Job -> Seq(Outcome)]
  BY <1>r, <1>j DEF Record, TypeOK
<1>1. ASSUME NEW j \in jobs, ExamineUnsupported(j) PROVE TypeOK'
  <2>1. attempts' \in [Job -> Seq(Outcome)]
    BY <1>1, <1>r DEF ExamineUnsupported, Outcome
  <2> QED  BY <1>1, <2>1 DEF ExamineUnsupported, TypeOK, plan, counters
<1>2. ASSUME NEW j \in jobs, StartJob(j) PROVE TypeOK'
  <2>1. provider_active' \in [Provider -> Nat] /\ running_counts' \in [Label -> Nat]
    BY <1>2, <1>j DEF StartJob, TypeOK
  <2>2. task' \in [Job -> TaskState] /\ start_times' \subseteq Key
    BY <1>2, <1>j DEF StartJob, TypeOK, TaskState
  <2> QED  BY <1>2, <2>1, <2>2 DEF StartJob, TypeOK, plan
<1>3. ASSUME NEW j \in jobs, RotateBlocked(j) PROVE TypeOK'
  BY <1>3 DEF RotateBlocked, TypeOK, plan, counters
<1>4. ASSUME EndPass PROVE TypeOK'
  <2>1. deadline' \in StatsType
    BY <1>4, StatsTyped DEF EndPass, TypeOK
  <2>2. pc' \in {"scan", "wait", "report", "done"}
    BY <1>4 DEF EndPass
  <2> QED  BY <1>4, <2>1, <2>2 DEF EndPass, TypeOK, plan, counters
<1>5. ASSUME NEW j \in jobs, NEW o \in Outcome, Release(j, o) PROVE TypeOK'
  <2>1. attempts' \in [Job -> Seq(Outcome)]
    BY <1>5, <1>r DEF Release
  <2>2. \A n \in Nat : SaturatingDec(n) \in Nat
    BY DEF SaturatingDec
  <2>3. /\ provider_active' \in [Provider -> Nat] /\ global_active' \in Nat
        /\ running_counts' \in [Label -> Nat] /\ terminal_counts' \in [Label -> Nat]
    <3>1. provider_active' \in [Provider -> Nat]
      BY <1>5, <1>j, <2>2 DEF Release, TypeOK
    <3>2. running_counts' \in [Label -> Nat]
      BY <1>5, <1>j, <2>2 DEF Release, TypeOK
    <3>3. terminal_counts' \in [Label -> Nat]
      BY <1>5, <1>j DEF Release, TypeOK
    <3>4. global_active' \in Nat
      BY <1>5, <2>2 DEF Release, TypeOK
    <3> QED  BY <3>1, <3>2, <3>3, <3>4
  <2>4. task' \in [Job -> TaskState]
    BY <1>5, <1>j DEF Release, TypeOK, TaskState
  <2> QED  BY <1>5, <2>1, <2>3, <2>4 DEF Release, TypeOK, plan
<1>6. ASSUME NEW j \in jobs, CollectResult(j) PROVE TypeOK'
  BY <1>6, <1>5 DEF CollectResult, Ended, Outcome
<1>7. ASSUME NEW j \in jobs, CollectJoinError(j) PROVE TypeOK'
  BY <1>7, <1>5 DEF CollectJoinError, Outcome, TaskOutcome
<1>8. ASSUME TimeoutArm PROVE TypeOK'
  <2>1. deadline' \in StatsType
    BY <1>8, StatsTyped DEF TimeoutArm
  <2> QED  BY <1>8, <2>1 DEF TimeoutArm, TypeOK, plan, counters
<1>9. ASSUME Report PROVE TypeOK'
  <2>1. deadline' \in StatsType
    BY <1>9, StatsTyped DEF Report, TypeOK, StatsType
  <2>2. \A j \in Job : Synthesized(j) \in Seq(Outcome)
    <3>1. <<"InterruptedByDeadline">> \in Seq(Outcome) /\ <<>> \in Seq(Outcome)
      BY DEF Outcome
    <3>2. \A s, t \in Seq(Outcome) : s \o t \in Seq(Outcome)
      OBVIOUS
    <3> QED  BY <3>1, <3>2 DEF Synthesized
  <2>3. attempts' \in [Job -> Seq(Outcome)]
    BY <1>9, <2>2 DEF Report, TypeOK
  <2> QED  BY <1>9, <2>1, <2>3 DEF Report, TypeOK, plan, counters
<1>10. ASSUME NEW j \in jobs, TaskEnds(j) PROVE TypeOK'
  <2>1. task' \in [Job -> TaskState]
    BY <1>10, <1>j DEF TaskEnds, TypeOK, TaskState, TaskOutcome
  <2> QED  BY <1>10, <2>1 DEF TaskEnds, TypeOK, plan, counters
<1>11. ASSUME DeadlineElapses PROVE TypeOK'
  BY <1>11 DEF DeadlineElapses, TypeOK, plan, counters
<1>12. ASSUME UNCHANGED vars PROVE TypeOK'
  BY <1>12 DEF vars, plan, counters, TypeOK
<1> QED
  BY <1>1, <1>2, <1>3, <1>4, <1>6, <1>7, <1>8, <1>9, <1>10, <1>11, <1>12
     DEF Next, Executor, Examine

(* The executor's locals keep their types.                                  *)
THEOREM TypeCorrect == Spec => []TypeOK
  BY TypeInit, TypeStep, PTL DEF Spec
-----------------------------------------------------------------------------
(***************************************************************************)
(* Slots.  The caps are stated of the tasks, the code tests counters; the  *)
(* invariant ties the two together.  A job is only started once because a  *)
(* queued job has no task.                                                 *)
(***************************************************************************)
RunningAt(p) == {j \in Running : j.pr = p}
RunningFor(l) == {j \in Running : LabelOf[j.sq] = l}

SlotInv ==
    /\ CountersMatchTasks
    /\ global_active <= JobCap
    /\ \A p \in Provider : provider_active[p] <= ProviderCap
    /\ \A j \in Pending : task[j] = "none"
    /\ todo \cap blocked = {}

LEMMA RunningFinite ==
    ASSUME TypeOK
    PROVE  /\ IsFiniteSet(Running)
           /\ \A p : IsFiniteSet(RunningAt(p))
           /\ \A l : IsFiniteSet(RunningFor(l))
<1>1. IsFiniteSet(Running)
  BY JobComponents, FS_Subset DEF Running
<1>2. \A p : IsFiniteSet(RunningAt(p))
  BY <1>1, FS_Subset DEF RunningAt
<1>3. \A l : IsFiniteSet(RunningFor(l))
  BY <1>1, FS_Subset DEF RunningFor
<1> QED  BY <1>1, <1>2, <1>3

LEMMA SlotInit == Init => SlotInv
<1> SUFFICES ASSUME Init PROVE SlotInv
  OBVIOUS
<1>1. \A j \in Job : task[j] = "none"
  BY DEF Init
<1>2. jobs \subseteq Job
  BY DispatchAssumption DEF Init
<1>3. Running = {}
  BY <1>1, <1>2 DEF Running, TaskOutcome
<1>4. /\ global_active = 0
      /\ \A p \in Provider : provider_active[p] = 0
      /\ \A l \in Label : running_counts[l] = 0
  BY DEF Init
<1>5. CountersMatchTasks
  BY <1>3, <1>4, FS_EmptySet DEF CountersMatchTasks
<1>6. \A j \in Pending : task[j] = "none"
  BY <1>1, <1>2 DEF Init, Pending
<1>7. todo \cap blocked = {}
  BY DEF Init
<1> QED  BY <1>4, <1>5, <1>6, <1>7, CapsPositive DEF SlotInv

(* Starting a task adds it to the tasks of its provider and its subquery,   *)
(* and to no others.                                                        *)
LEMMA SlotStart ==
    ASSUME TypeOK, SlotInv, NEW j \in jobs, StartJob(j)
    PROVE  SlotInv'
<1>j. j \in Job /\ j.pr \in Provider /\ LabelOf[j.sq] \in Label /\ task[j] = "none"
  BY JobComponents DEF SlotInv, StartJob, Front, Pending
<1>1. Running' = Running \cup {j} /\ j \notin Running
  BY <1>j DEF StartJob, Running, TypeOK, plan, TaskOutcome
<1>2. \A p \in Provider :
         RunningAt(p)' = IF p = j.pr THEN RunningAt(p) \cup {j} ELSE RunningAt(p)
  BY <1>1 DEF RunningAt
<1>3. \A l \in Label :
         RunningFor(l)' = IF l = LabelOf[j.sq] THEN RunningFor(l) \cup {j} ELSE RunningFor(l)
  BY <1>1 DEF RunningFor
<1>4. \A p : j \notin RunningAt(p)
  BY <1>1 DEF RunningAt
<1>5. \A l : j \notin RunningFor(l)
  BY <1>1 DEF RunningFor
<1>6. global_active' = Cardinality(Running')
  BY <1>1, RunningFinite, FS_AddElement DEF StartJob, SlotInv, CountersMatchTasks
<1>7. ASSUME NEW p \in Provider PROVE provider_active'[p] = Cardinality(RunningAt(p)')
  <2>1. provider_active[p] = Cardinality(RunningAt(p))
    BY DEF SlotInv, CountersMatchTasks, RunningAt
  <2>2. provider_active'[p] = IF p = j.pr THEN provider_active[p] + 1 ELSE provider_active[p]
    BY <1>j DEF StartJob, TypeOK
  <2>3. Cardinality(RunningAt(p) \cup {j}) = Cardinality(RunningAt(p)) + 1
    BY <1>4, RunningFinite, FS_AddElement
  <2> QED  BY <1>2, <2>1, <2>2, <2>3
<1>8. ASSUME NEW l \in Label PROVE running_counts'[l] = Cardinality(RunningFor(l)')
  <2>1. running_counts[l] = Cardinality(RunningFor(l))
    BY DEF SlotInv, CountersMatchTasks, RunningFor
  <2>2. running_counts'[l] = IF l = LabelOf[j.sq] THEN running_counts[l] + 1 ELSE running_counts[l]
    BY <1>j DEF StartJob, TypeOK
  <2>3. Cardinality(RunningFor(l) \cup {j}) = Cardinality(RunningFor(l)) + 1
    BY <1>5, RunningFinite, FS_AddElement
  <2> QED  BY <1>3, <2>1, <2>2, <2>3
<1>9. CountersMatchTasks'
  BY <1>6, <1>7, <1>8 DEF CountersMatchTasks, RunningAt, RunningFor
<1>10. global_active' <= JobCap
  BY CapsPositive DEF StartJob, can_start, TypeOK
<1>11. ASSUME NEW p \in Provider PROVE provider_active'[p] <= ProviderCap
  BY <1>j, CapsPositive DEF StartJob, can_start, TypeOK, SlotInv
<1>12. (\A k \in Pending' : task'[k] = "none") /\ (todo \cap blocked = {})'
  <2>1. j \notin Pending'
    BY DEF StartJob, Front, SlotInv, Pending
  <2>2. \A k \in Pending' : k \in Pending /\ task'[k] = task[k]
    BY <2>1, JobComponents DEF StartJob, Pending, TypeOK
  <2>3. (todo \cap blocked = {})'
    BY DEF StartJob, SlotInv
  <2> QED  BY <2>2, <2>3 DEF SlotInv
<1> QED  BY <1>9, <1>10, <1>11, <1>12 DEF SlotInv

(* Collecting a task takes it away from the tasks of its provider and its   *)
(* subquery; the saturating decrements never saturate.                      *)
LEMMA SlotRelease ==
    ASSUME TypeOK, SlotInv, NEW j \in Running, NEW o, Release(j, o)
    PROVE  SlotInv'
<1>j. j \in jobs /\ j \in Job /\ j.pr \in Provider /\ LabelOf[j.sq] \in Label
  BY JobComponents DEF Running
<1>1. Running' = Running \ {j}
  BY <1>j DEF Release, Running, TypeOK, plan, TaskOutcome
<1>2. \A p \in Provider :
         RunningAt(p)' = IF p = j.pr THEN RunningAt(p) \ {j} ELSE RunningAt(p)
  BY <1>1 DEF RunningAt
<1>3. \A l \in Label :
         RunningFor(l)' = IF l = LabelOf[j.sq] THEN RunningFor(l) \ {j} ELSE RunningFor(l)
  BY <1>1 DEF RunningFor
<1>4. j \in RunningAt(j.pr) /\ j \in RunningFor(LabelOf[j.sq])
  BY DEF RunningAt, RunningFor
<1>5. \A S : IsFiniteSet(S) /\ j \in S =>
         /\ Cardinality(S) \in Nat \ {0}
         /\ Cardinality(S \ {j}) = SaturatingDec(Cardinality(S))
  BY FS_RemoveElement, FS_EmptySet, FS_CardinalityType DEF SaturatingDec
<1>6. global_active' = Cardinality(Running') /\ global_active' <= global_active
  <2>1. global_active' = SaturatingDec(Cardinality(Running))
    BY DEF Release, SlotInv, CountersMatchTasks
  <2>2. global_active' <= global_active
    BY DEF Release, TypeOK, SaturatingDec
  <2> QED  BY <1>1, <1>5, <2>1, <2>2, RunningFinite
<1>7. ASSUME NEW p \in Provider
      PROVE  /\ provider_active'[p] = Cardinality(RunningAt(p)')
             /\ provider_active'[p] <= ProviderCap
  <2>1. provider_active[p] = Cardinality(RunningAt(p)) /\ provider_active[p] <= ProviderCap
    BY DEF SlotInv, CountersMatchTasks, RunningAt
  <2>2. provider_active'[p] = IF p = j.pr THEN SaturatingDec(provider_active[p])
                              ELSE provider_active[p]
    BY <1>j DEF Release, TypeOK
  <2>3. provider_active'[p] = Cardinality(RunningAt(p)')
    BY <1>2, <1>4, <1>5, <2>1, <2>2, RunningFinite
  <2>4. provider_active[p] \in Nat
    BY DEF TypeOK
  <2> QED  BY <2>1, <2>2, <2>3, <2>4, CapsPositive DEF SaturatingDec
<1>8. ASSUME NEW l \in Label PROVE running_counts'[l] = Cardinality(RunningFor(l)')
  <2>1. running_counts[l] = Cardinality(RunningFor(l))
    BY DEF SlotInv, CountersMatchTasks, RunningFor
  <2>2. running_counts'[l] = IF l = LabelOf[j.sq] THEN SaturatingDec(running_counts[l])
                             ELSE running_counts[l]
    BY <1>j DEF Release, TypeOK
  <2> QED  BY <1>3, <1>4, <1>5, <2>1, <2>2, RunningFinite
<1>9. CountersMatchTasks'
  BY <1>6, <1>7, <1>8 DEF CountersMatchTasks, RunningAt, RunningFor
<1>10. global_active' <= JobCap
  BY <1>6, CapsPositive DEF Release, SlotInv, TypeOK, SaturatingDec
<1>11. (\A k \in Pending' : task'[k] = "none") /\ (todo \cap blocked = {})'
  <2>1. j \notin Pending
    BY DEF SlotInv, Running, TaskOutcome
  <2>2. \A k \in Pending' : k \in Pending /\ task'[k] = task[k]
    BY <2>1, JobComponents DEF Release, Pending, TypeOK
  <2>3. (todo \cap blocked = {})'
    BY DEF Release
  <2> QED  BY <2>2, <2>3 DEF SlotInv
<1> QED  BY <1>7, <1>9, <1>10, <1>11 DEF SlotInv

(* Steps that leave the set of running tasks and the counters alone.        *)
LEMMA SlotFrame ==
    ASSUME TypeOK, SlotInv, Running' = Running, UNCHANGED counters,
           Pending' \subseteq Pending, (todo \cap blocked = {})',
           \A k \in Pending' : task'[k] = task[k]
    PROVE  SlotInv'
  BY DEF SlotInv, CountersMatchTasks, counters

LEMMA SlotStep == TypeOK /\ SlotInv /\ [Next]_vars => SlotInv'
<1> SUFFICES ASSUME TypeOK, SlotInv, [Next]_vars PROVE SlotInv'
  OBVIOUS
<1>1. ASSUME UNCHANGED <<jobs, task, counters>>, Pending' \subseteq Pending, (todo \cap blocked = {})'
      PROVE  SlotInv'
  <2>1. Running' = Running
    BY <1>1 DEF Running
  <2> QED  BY <1>1, <2>1, SlotFrame
<1>2. ASSUME NEW j \in jobs, ExamineUnsupported(j) \/ RotateBlocked(j) PROVE SlotInv'
  <2>1. Pending' \subseteq Pending /\ (todo \cap blocked = {})'
    BY <1>2 DEF ExamineUnsupported, RotateBlocked, Front, Pending, SlotInv
  <2> QED  BY <1>1, <1>2, <2>1 DEF ExamineUnsupported, RotateBlocked, plan, counters
<1>3. ASSUME NEW j \in jobs, StartJob(j) PROVE SlotInv'
  BY <1>3, SlotStart
<1>4. ASSUME NEW j \in jobs, CollectResult(j) \/ CollectJoinError(j) PROVE SlotInv'
  BY <1>4, SlotRelease DEF CollectResult, CollectJoinError, Ended, Running
<1>5. ASSUME EndPass \/ TimeoutArm \/ Report \/ DeadlineElapses PROVE SlotInv'
  BY <1>1, <1>5 DEF EndPass, TimeoutArm, Report, DeadlineElapses, Pending, SlotInv, plan
<1>6. ASSUME NEW j \in jobs, TaskEnds(j) PROVE SlotInv'
  <2>1. Running' = Running
    BY <1>6, JobComponents DEF TaskEnds, Running, TypeOK, plan, TaskOutcome
  <2>2. j \notin Pending
    BY <1>6 DEF TaskEnds, SlotInv
  <2>3. \A k \in Pending : task'[k] = task[k]
    BY <1>6, <2>2, JobComponents DEF TaskEnds, Pending, TypeOK
  <2>4. UNCHANGED counters /\ UNCHANGED <<todo, blocked>>
    BY <1>6 DEF TaskEnds
  <2> QED  BY <2>1, <2>3, <2>4, SlotFrame DEF Pending, SlotInv
<1>7. ASSUME UNCHANGED vars PROVE SlotInv'
  BY <1>1, <1>7 DEF vars, plan, Pending, SlotInv
<1> QED
  BY <1>2, <1>3, <1>4, <1>5, <1>6, <1>7 DEF Next, Executor, Examine

(* Never more tasks in flight than the global cap, nor than the cap of any  *)
(* one provider; no slot leaks or is released twice, whatever the plan.     *)
THEOREM SlotsCorrect == Spec => []SlotsAccounted
<1>1. Init => TypeOK /\ SlotInv
  BY TypeInit, SlotInit
<1>2. TypeOK /\ SlotInv /\ [Next]_vars => (TypeOK /\ SlotInv)'
  BY TypeStep, SlotStep
<1>3. SlotInv => SlotsAccounted
  BY DEF SlotInv, CountersMatchTasks, CapsRespected, SlotsAccounted
<1> QED  BY <1>1, <1>2, <1>3, PTL DEF Spec
-----------------------------------------------------------------------------
(***************************************************************************)
(* Queue discipline.  Within one pass the counters only grow, so a job that *)
(* was rotated stays blocked until the next task is collected.              *)
(***************************************************************************)
QueueInv ==
    /\ \A j \in blocked : j.kind = "Supported"
    /\ pc \in {"scan", "wait"} => \A j \in blocked : ~can_start(j)
    /\ pc = "wait" => todo = {} /\ global_active > 0

LEMMA QueueInit == Init => QueueInv
  BY DEF Init, QueueInv

LEMMA QueueStep == TypeOK /\ SlotInv /\ QueueInv /\ [Next]_vars => QueueInv'
<1> SUFFICES ASSUME TypeOK, SlotInv, QueueInv, [Next]_vars PROVE QueueInv'
  OBVIOUS
<1>1. ASSUME NEW j \in jobs, ExamineUnsupported(j) PROVE QueueInv'
  BY <1>1 DEF ExamineUnsupported, QueueInv, counters, can_start
<1>2. ASSUME NEW j \in jobs, StartJob(j) PROVE QueueInv'
  <2>1. \A k \in blocked : k.pr \in Provider
    BY JobComponents DEF TypeOK
  <2>2. \A p \in Provider : provider_active[p] <= provider_active'[p]
    BY <1>2, JobComponents DEF StartJob, TypeOK
  <2>3. \A p \in Provider : provider_active[p] \in Nat /\ provider_active'[p] \in Nat
    BY <1>2, JobComponents DEF StartJob, TypeOK
  <2>4. global_active <= global_active' /\ global_active \in Nat /\ global_active' \in Nat
    BY <1>2 DEF StartJob, TypeOK
  <2>5. \A k \in blocked : ~can_start(k)
    BY <1>2 DEF QueueInv, StartJob
  <2>6. \A k \in blocked : ~can_start(k)'
    BY <2>1, <2>2, <2>3, <2>4, <2>5, CapsPositive DEF can_start
  <2> QED  BY <1>2, <2>6 DEF QueueInv, StartJob, can_start
<1>3. ASSUME NEW j \in jobs, RotateBlocked(j) PROVE QueueInv'
  BY <1>3 DEF RotateBlocked, QueueInv, counters, can_start
<1>4. ASSUME EndPass PROVE QueueInv'
  BY <1>4 DEF EndPass, QueueInv, counters, can_start, TypeOK
<1>5. ASSUME NEW j \in jobs, CollectResult(j) \/ CollectJoinError(j) PROVE QueueInv'
  BY <1>5 DEF CollectResult, CollectJoinError, Release, QueueInv
<1>6. ASSUME TimeoutArm \/ Report \/ DeadlineElapses PROVE QueueInv'
  BY <1>6 DEF TimeoutArm, Report, DeadlineElapses, QueueInv, counters, can_start
<1>7. ASSUME NEW j \in jobs, TaskEnds(j) PROVE QueueInv'
  BY <1>7 DEF TaskEnds, QueueInv, counters, can_start
<1>8. ASSUME UNCHANGED vars PROVE QueueInv'
  BY <1>8 DEF vars, QueueInv, counters, can_start
<1> QED
  BY <1>1, <1>2, <1>3, <1>4, <1>5, <1>6, <1>7, <1>8 DEF Next, Executor, Examine

(* The three parts of the inductive invariant together.                     *)
LEMMA ExecutorInvariant == Spec => [](TypeOK /\ SlotInv /\ QueueInv)
<1>1. Init => TypeOK /\ SlotInv /\ QueueInv
  BY TypeInit, SlotInit, QueueInit
<1>2. TypeOK /\ SlotInv /\ QueueInv /\ [Next]_vars => (TypeOK /\ SlotInv /\ QueueInv)'
  BY TypeStep, SlotStep, QueueStep
<1> QED  BY <1>1, <1>2, PTL DEF Spec

(* The executor never waits beside a job it could start, nor on nothing.    *)
THEOREM WorkConserving == Spec => []NoIdleSlot
<1>1. ASSUME TypeOK, SlotInv, QueueInv PROVE NoIdleSlot
  <2>1. ASSUME pc = "wait" PROVE Running # {} /\ \A j \in Pending : ~can_start(j)
    <3>1. Running # {}
      <4>1. Cardinality(Running) # 0
        BY <1>1, <2>1 DEF SlotInv, QueueInv, CountersMatchTasks, TypeOK
      <4> QED  BY <4>1, FS_EmptySet
    <3>2. Pending = blocked
      BY <1>1, <2>1 DEF QueueInv, Pending
    <3> QED  BY <1>1, <2>1, <3>1, <3>2 DEF QueueInv
  <2> QED  BY <2>1 DEF NoIdleSlot
<1> QED  BY <1>1, ExecutorInvariant, PTL

(* The plan's order is asymmetric, so the front of the queue is not ahead   *)
(* of any job that must run before it.                                      *)
LEMMA BeforeAsymmetric ==
    ASSUME TypeOK, NEW j \in jobs, NEW k \in jobs, Before(j, k)
    PROVE  ~Before(k, j)
<1>1. Prio(j) \in Int /\ Prio(k) \in Int
  BY JobComponents, DispatchAssumption DEF Prio, TypeOK
<1>2. j.sq \in Nat /\ k.sq \in Nat /\ j.pr \in Nat /\ k.pr \in Nat
  BY JobComponents, DispatchAssumption
<1> QED  BY <1>1, <1>2 DEF Before

(* A job starts ahead of a more urgent pending one only when the provider   *)
(* of that one is saturated.                                                *)
THEOREM QueueOrder == Spec => NoOvertaking
<1> DEFINE Overtakes(j) == task[j] = "none" /\ task'[j] # "none"
           Blocked(k) == k.kind = "Supported" /\ provider_active[k.pr] >= ProviderCap
           Fair == \A j \in jobs : Overtakes(j) =>
                      \A k \in Pending \ {j} : Before(k, j) => Blocked(k)
<1>1. ASSUME TypeOK, SlotInv, QueueInv, [Next]_vars PROVE [Fair]_vars
  <2>1. ASSUME NEW j \in jobs, StartJob(j) PROVE Fair
    <3>1. ASSUME NEW i \in jobs, Overtakes(i) PROVE i = j
      BY <1>1, <2>1, <3>1, JobComponents DEF StartJob, TypeOK
    <3>2. ASSUME NEW k \in Pending \ {j}, Before(k, j) PROVE Blocked(k)
      <4>1. k \in jobs
        BY <1>1 DEF Pending, TypeOK
      <4>2. k \notin todo
        BY <1>1, <2>1, <3>2, <4>1, BeforeAsymmetric DEF StartJob, Front
      <4>3. k \in blocked /\ ~can_start(k) /\ k.kind = "Supported"
        BY <1>1, <2>1, <4>2 DEF Pending, QueueInv, StartJob
      <4>4. global_active < JobCap /\ k.pr \in Provider
        BY <1>1, <2>1, <4>1, JobComponents DEF StartJob, can_start
      <4>5. provider_active[k.pr] \in Nat
        BY <1>1, <4>4 DEF TypeOK
      <4> QED  BY <4>3, <4>4, <4>5, CapsPositive DEF can_start
    <3> QED  BY <3>1, <3>2
  <2>2. ASSUME \A j \in jobs : task'[j] = task[j] \/ task[j] # "none" PROVE Fair
    BY <2>2
  <2>3. ASSUME NEW j \in jobs, CollectResult(j) \/ CollectJoinError(j) PROVE Fair
    <3>1. j \in Running /\ task' = [task EXCEPT ![j] = "collected"]
      BY <2>3 DEF CollectResult, CollectJoinError, Release, Ended, Running
    <3>2. task[j] # "none"
      BY <3>1 DEF Running, TaskOutcome
    <3> QED  BY <1>1, <2>2, <3>1, <3>2, JobComponents DEF TypeOK
  <2>4. ASSUME NEW j \in jobs, TaskEnds(j) PROVE Fair
    BY <1>1, <2>2, <2>4, JobComponents DEF TaskEnds, TypeOK
  <2>5. ASSUME UNCHANGED task PROVE Fair
    BY <2>2, <2>5
  <2>6. ASSUME NEW j \in jobs, ExamineUnsupported(j) \/ RotateBlocked(j) PROVE Fair
    BY <2>5, <2>6 DEF ExamineUnsupported, RotateBlocked
  <2>7. ASSUME EndPass \/ TimeoutArm \/ Report \/ DeadlineElapses PROVE Fair
    BY <2>5, <2>7 DEF EndPass, TimeoutArm, Report, DeadlineElapses
  <2> HIDE DEF Fair
  <2> QED
    BY <1>1, <2>1, <2>3, <2>4, <2>6, <2>7 DEF Next, Executor, Examine
<1>2. Spec => [][Fair]_vars
  <2> HIDE DEF Fair
  <2> QED  BY <1>1, ExecutorInvariant, PTL DEF Spec
<1> QED  BY <1>2 DEF NoOvertaking
-----------------------------------------------------------------------------
(***************************************************************************)
(* The ledger.  While the executor runs, a job has no attempt exactly when  *)
(* it is queued or its task is uncollected, and the start times are those   *)
(* of the uncollected tasks; so the closing pass finds every job that is    *)
(* still open, once.  Distinct subquery ids make job keys injective.        *)
(***************************************************************************)
LedgerInv ==
    /\ pc # "done" =>
         /\ start_times = {KeyOf(j) : j \in Running}
         /\ \A j \in jobs : attempts[j] = <<>> <=> j \in Pending \cup Running
         /\ \A j \in jobs : Len(attempts[j]) <= 1
    /\ LedgerComplete

LEMMA KeysInjective ==
    ASSUME DistinctIds, TypeOK
    PROVE  \A j, k \in jobs : KeyOf(j) = KeyOf(k) => j = k
<1> SUFFICES ASSUME NEW j \in jobs, NEW k \in jobs, KeyOf(j) = KeyOf(k) PROVE j = k
  OBVIOUS
<1>1. j \in Job /\ k \in Job
  BY JobComponents
<1>2. LabelOf[j.sq] = LabelOf[k.sq] /\ j.pr = k.pr /\ j.kind = k.kind
  BY DEF KeyOf
<1>3. j.sq = k.sq
  BY <1>1, <1>2 DEF DistinctIds, Job
<1> QED  BY <1>1, <1>2, <1>3 DEF Job

LEMMA RecordFirst ==
    ASSUME TypeOK, NEW j \in jobs, NEW o \in Outcome, attempts[j] = <<>>, Record(j, o)
    PROVE  /\ attempts'[j] # <<>> /\ Len(attempts'[j]) = 1
           /\ \A k \in jobs \ {j} : attempts'[k] = attempts[k]
<1>1. attempts' = [attempts EXCEPT ![j] = Append(attempts[j], o)] /\ j \in Job /\ jobs \subseteq Job
  BY JobComponents DEF Record
<1>2. attempts'[j] = <<o>>
  BY <1>1 DEF TypeOK
<1>3. \A k \in jobs \ {j} : attempts'[k] = attempts[k]
  BY <1>1 DEF TypeOK
<1> QED  BY <1>2, <1>3

LEMMA LedgerInit == Init => LedgerInv
<1> SUFFICES ASSUME Init PROVE LedgerInv
  OBVIOUS
<1>1. jobs \subseteq Job
  BY DispatchAssumption DEF Init
<1>2. Running = {}
  BY <1>1 DEF Init, Running, TaskOutcome
<1>3. pc = "done" => jobs = {}
  BY DEF Init
<1>4. \A j \in jobs : attempts[j] = <<>>
  BY <1>1 DEF Init
<1> QED  BY <1>2, <1>3, <1>4 DEF LedgerInv, LedgerComplete, Init, Pending

(* The closing pass interrupts the open jobs, once each, and no other.       *)
LEMMA ReportSynthesizes ==
    ASSUME DistinctIds, TypeOK, SlotInv, LedgerInv, pc = "report"
    PROVE  /\ \A j \in jobs : Synthesized(j) = IF j \in Pending \cup Running
                                              THEN <<"InterruptedByDeadline">> ELSE <<>>
           /\ \A j \in Job \ jobs : Synthesized(j) = <<>>
<1>1. jobs \subseteq Job
  BY JobComponents
<1>2. dispatched_keys = {KeyOf(j) : j \in jobs \ (Pending \cup Running)}
  BY DEF dispatched_keys, LedgerInv
<1>3. \A j \in jobs : KeyOf(j) \in dispatched_keys <=> j \notin Pending \cup Running
  BY <1>2, KeysInjective
<1>4. Running \subseteq jobs /\ Pending \cap Running = {}
  BY DEF Running, SlotInv, TaskOutcome
<1>5. ASSUME NEW j \in jobs PROVE NeverStarted(j) <=> j \in Pending
  BY <1>3 DEF NeverStarted
<1>6. ASSUME NEW j \in jobs PROVE Aborted(j) <=> j \in Running
  <2>1. ASSUME j \in Running PROVE Aborted(j)
    <3>1. KeyOf(j) \in start_times \ dispatched_keys
      BY <1>3, <2>1 DEF LedgerInv
    <3>2. Matching(j, KeyOf(j))
      BY KeysInjective DEF Matching
    <3>3. \A k \in jobs : NeverStarted(k) => KeyOf(k) # KeyOf(j)
      BY <1>4, <1>5, <2>1, KeysInjective
    <3> QED  BY <3>1, <3>2, <3>3 DEF Aborted, StartsLeft
  <2>2. ASSUME Aborted(j) PROVE j \in Running
    <3>1. KeyOf(j) \in start_times
      BY <2>2 DEF Aborted, StartsLeft, Matching
    <3>2. PICK k \in Running : KeyOf(j) = KeyOf(k)
      BY <3>1 DEF LedgerInv
    <3> QED  BY <1>4, <3>2, KeysInjective
  <2> QED  BY <2>1, <2>2
<1> DEFINE I == <<"InterruptedByDeadline">>
<1>7. I \o <<>> = I /\ <<>> \o I = I /\ <<>> \o <<>> = <<>>
  OBVIOUS
<1>8. ASSUME NEW j \in jobs
      PROVE  Synthesized(j) = IF j \in Pending \cup Running THEN I ELSE <<>>
  <2>1. CASE j \in Pending
    <3>1. NeverStarted(j) /\ ~Aborted(j)
      BY <1>4, <1>5, <1>6, <2>1
    <3> QED  BY <1>7, <2>1, <3>1 DEF Synthesized
  <2>2. CASE j \in Running
    <3>1. ~NeverStarted(j) /\ Aborted(j)
      BY <1>4, <1>5, <1>6, <2>2
    <3> QED  BY <1>7, <2>2, <3>1 DEF Synthesized
  <2>3. CASE j \notin Pending \cup Running
    BY <1>5, <1>6, <1>7, <2>3 DEF Synthesized
  <2> QED  BY <2>1, <2>2, <2>3
<1>9. ASSUME NEW j \in Job \ jobs PROVE Synthesized(j) = <<>>
  BY <1>7 DEF Synthesized
<1> QED  BY <1>8, <1>9

LEMMA LedgerReport ==
    ASSUME DistinctIds, TypeOK, SlotInv, LedgerInv, Report
    PROVE  LedgerInv'
<1>1. jobs' = jobs /\ pc = "report" /\ pc' = "done" /\ jobs \subseteq Job
  BY JobComponents DEF Report, plan
<1>2. ASSUME NEW j \in jobs PROVE Len(attempts'[j]) = 1
  <2>1. attempts'[j] = attempts[j] \o Synthesized(j)
    BY <1>1 DEF Report
  <2>2. attempts[j] \in Seq(Outcome)
    BY <1>1 DEF TypeOK
  <2>3. CASE j \in Pending \cup Running
    <3>1. attempts[j] = <<>>
      BY <1>1, <2>3 DEF LedgerInv
    <3>2. Synthesized(j) = <<"InterruptedByDeadline">>
      BY <1>1, <2>3, ReportSynthesizes
    <3> QED  BY <2>1, <3>1, <3>2
  <2>4. CASE j \notin Pending \cup Running
    <3>1. attempts[j] # <<>> /\ Len(attempts[j]) <= 1
      BY <1>1, <2>4 DEF LedgerInv
    <3>2. Synthesized(j) = <<>>
      BY <1>1, <2>4, ReportSynthesizes
    <3>3. Len(attempts[j]) = 1
      <4>1. Len(attempts[j]) \in Nat \ {0}
        BY <2>2, <3>1, EmptySeq
      <4>2. \A n \in Nat \ {0} : n <= 1 => n = 1
        OBVIOUS
      <4>3. Len(attempts[j]) <= 1
        BY <3>1
      <4> QED  BY ONLY <4>1, <4>2, <4>3
    <3> QED  BY <2>1, <2>2, <3>2, <3>3
  <2> QED  BY <2>3, <2>4
<1> QED  BY <1>1, <1>2 DEF LedgerInv, LedgerComplete

LEMMA LedgerStep ==
    DistinctIds /\ TypeOK /\ SlotInv /\ QueueInv /\ LedgerInv /\ [Next]_vars => LedgerInv'
<1> SUFFICES ASSUME DistinctIds, TypeOK, SlotInv, QueueInv, LedgerInv, [Next]_vars
             PROVE  LedgerInv'
  OBVIOUS
<1>f. jobs \subseteq Job /\ Running \subseteq jobs /\ Pending \cap Running = {} /\ Pending \subseteq jobs
  BY JobComponents DEF Running, Pending, SlotInv, TypeOK, TaskOutcome
<1>g. pc # "done" =>
        /\ start_times = {KeyOf(j) : j \in Running}
        /\ \A j \in jobs : attempts[j] = <<>> <=> j \in Pending \cup Running
        /\ \A j \in jobs : Len(attempts[j]) <= 1
  BY DEF LedgerInv
(* A step that records nothing keeps the invariant when the open jobs stay. *)
<1>k. ASSUME jobs' = jobs, pc # "done", pc' # "done", attempts' = attempts,
             start_times' = {KeyOf(j) : j \in Running'},
             Pending' \cup Running' = Pending \cup Running
      PROVE  LedgerInv'
  BY <1>g, <1>k DEF LedgerInv, LedgerComplete
(* A step that records the open job j keeps it when j is no longer open.     *)
<1>m. ASSUME NEW j \in jobs, jobs' = jobs, pc # "done", pc' # "done",
             attempts'[j] # <<>>, Len(attempts'[j]) = 1,
             \A k \in jobs \ {j} : attempts'[k] = attempts[k],
             start_times' = {KeyOf(k) : k \in Running'},
             Pending' \cup Running' = (Pending \cup Running) \ {j}
      PROVE  LedgerInv'
  <2>1. \A k \in jobs : attempts'[k] = <<>> <=> k \in Pending' \cup Running'
    BY <1>g, <1>m
  <2>2. \A k \in jobs : Len(attempts'[k]) <= 1
    <3>1. Len(attempts'[j]) <= 1
      BY <1>m
    <3> QED  BY <1>g, <1>m, <3>1
  <2> QED  BY <1>m, <2>1, <2>2 DEF LedgerInv, LedgerComplete
<1>1. ASSUME NEW j \in jobs, ExamineUnsupported(j) PROVE LedgerInv'
  <2>1. attempts[j] = <<>> /\ j \in Pending
    BY <1>1 DEF ExamineUnsupported, Front, Pending, LedgerInv
  <2>2. /\ attempts'[j] # <<>> /\ Len(attempts'[j]) = 1
        /\ \A k \in jobs \ {j} : attempts'[k] = attempts[k]
    BY <1>1, <2>1, RecordFirst DEF ExamineUnsupported, Outcome
  <2>3. Running' = Running /\ Pending' = Pending \ {j} /\ jobs' = jobs /\ pc' = pc /\ pc = "scan"
    BY <1>1 DEF ExamineUnsupported, Running, Pending, plan, SlotInv, Front
  <2>4. KeyOf(j) \notin {KeyOf(k) : k \in Running}
    BY <1>f, <2>1, KeysInjective
  <2>5. start_times' = {KeyOf(k) : k \in Running}
    BY <1>1, <2>4 DEF ExamineUnsupported, LedgerInv
  <2>6. Pending' \cup Running' = (Pending \cup Running) \ {j}
    BY <1>f, <2>1, <2>3
  <2>7. start_times' = {KeyOf(k) : k \in Running'}
    BY <2>3, <2>5
  <2>8. pc # "done" /\ pc' # "done" /\ jobs' = jobs
    BY <2>3
  <2> QED  BY <1>m, <2>2, <2>6, <2>7, <2>8
<1>2. ASSUME NEW j \in jobs, StartJob(j) PROVE LedgerInv'
  <2>1. j \in Pending /\ attempts' = attempts /\ jobs' = jobs /\ pc' = pc /\ pc = "scan"
    BY <1>2 DEF StartJob, Front, Pending, plan
  <2>2. Running' = Running \cup {j}
    BY <1>2, <1>f DEF StartJob, Running, TypeOK, plan, TaskOutcome
  <2>3. Pending' = Pending \ {j}
    BY <1>2 DEF StartJob, Pending, SlotInv, Front
  <2>4. start_times' = {KeyOf(k) : k \in Running'}
    BY <1>2, <2>1, <2>2 DEF StartJob, LedgerInv
  <2>5. Pending' \cup Running' = Pending \cup Running
    BY <2>1, <2>2, <2>3
  <2> QED  BY <1>k, <2>1, <2>4, <2>5
<1>3. ASSUME NEW j \in jobs, NEW o \in Outcome, j \in Running, Release(j, o) PROVE LedgerInv'
  <2>1. attempts[j] = <<>> /\ j \notin Pending
    BY <1>3, <1>f DEF Release, LedgerInv
  <2>2. /\ attempts'[j] # <<>> /\ Len(attempts'[j]) = 1
        /\ \A k \in jobs \ {j} : attempts'[k] = attempts[k]
    BY <1>3, <2>1, RecordFirst DEF Release
  <2>3. Running' = Running \ {j}
    BY <1>3, <1>f DEF Release, Running, TypeOK, plan, TaskOutcome
  <2>4. jobs' = jobs /\ pc' = "scan" /\ pc = "wait" /\ Pending' = blocked
    BY <1>3 DEF Release, Pending, plan
  <2>5. Pending' = Pending
    BY <2>4 DEF QueueInv, Pending
  <2>6. start_times' = {KeyOf(k) : k \in Running'}
    <3>1. start_times' = {KeyOf(k) : k \in Running} \ {KeyOf(j)}
      BY <1>3, <1>g, <2>4 DEF Release
    <3>2. \A k \in Running : KeyOf(k) = KeyOf(j) => k = j
      BY <1>f, KeysInjective
    <3> QED  BY <2>3, <3>1, <3>2
  <2>7. Pending' \cup Running' = (Pending \cup Running) \ {j}
    BY <2>1, <2>3, <2>5
  <2>8. pc # "done" /\ pc' # "done" /\ jobs' = jobs
    BY <2>4
  <2> QED  BY <1>m, <2>2, <2>6, <2>7, <2>8
<1>4. ASSUME NEW j \in jobs, CollectResult(j) \/ CollectJoinError(j) PROVE LedgerInv'
  <2>1. TaskOutcome \subseteq Outcome /\ "Failed" \in Outcome
    BY DEF Outcome, TaskOutcome
  <2>2. j \in Running /\ \E o \in Outcome : Release(j, o)
    BY <1>4, <2>1 DEF CollectResult, CollectJoinError, Ended, Running
  <2> QED  BY <1>3, <2>2
<1>5. ASSUME NEW j \in jobs, RotateBlocked(j) PROVE LedgerInv'
  <2>1. Pending' = Pending /\ Running' = Running /\ pc = "scan"
    BY <1>5 DEF RotateBlocked, Front, Pending, Running, plan
  <2> QED  BY <1>5, <1>k, <1>g, <2>1 DEF RotateBlocked, plan
<1>6. ASSUME EndPass \/ TimeoutArm \/ DeadlineElapses PROVE LedgerInv'
  <2>1. Pending' = Pending /\ Running' = Running /\ pc # "done" /\ pc' # "done"
    BY <1>6 DEF EndPass, TimeoutArm, DeadlineElapses, Pending, Running, plan
  <2>2. attempts' = attempts /\ start_times' = start_times /\ jobs' = jobs
    BY <1>6 DEF EndPass, TimeoutArm, DeadlineElapses, plan
  <2> QED  BY <1>k, <1>g, <2>1, <2>2
<1>7. ASSUME NEW j \in jobs, TaskEnds(j) PROVE LedgerInv'
  <2>1. Running' = Running
    BY <1>7, <1>f DEF TaskEnds, Running, TypeOK, plan, TaskOutcome
  <2>2. Pending' = Pending /\ pc # "done" /\ pc' # "done" /\ jobs' = jobs
    BY <1>7 DEF TaskEnds, Pending, plan
  <2>3. attempts' = attempts /\ start_times' = start_times
    BY <1>7 DEF TaskEnds
  <2> QED  BY <1>k, <1>g, <2>1, <2>2, <2>3
<1>8. ASSUME UNCHANGED vars PROVE LedgerInv'
  BY <1>8 DEF vars, plan, counters, LedgerInv, LedgerComplete, Pending, Running
<1>9. ASSUME Report PROVE LedgerInv'
  BY <1>9, LedgerReport
<1> QED
  BY <1>1, <1>2, <1>4, <1>5, <1>6, <1>7, <1>8, <1>9 DEF Next, Executor, Examine

(* With distinct subquery ids every planned job ends with exactly one       *)
(* attempt record, whatever the deadline cut short.                         *)
THEOREM LedgerCorrect ==
    ASSUME DistinctIds
    PROVE  Spec => []LedgerComplete
<1>1. Init => LedgerInv
  BY LedgerInit
<1>2. TypeOK /\ SlotInv /\ QueueInv /\ LedgerInv /\ [Next]_vars => LedgerInv'
  BY LedgerStep
<1>3. LedgerInv => LedgerComplete
  BY DEF LedgerInv
<1> QED  BY <1>1, <1>2, <1>3, ExecutorInvariant, PTL DEF Spec
-----------------------------------------------------------------------------
(***************************************************************************)
(* The statistics.  Terminal counts are the collected jobs, so a subquery  *)
(* is completed when all of its jobs are; the rest, where every open job   *)
(* is, are interrupted or skipped.  Nothing of this needs distinct ids.    *)
(***************************************************************************)
CollectedFor(l) == {j \in jobs : task[j] = "collected" /\ LabelOf[j.sq] = l}
PlannedFor(l) == {j \in jobs : LabelOf[j.sq] = l}

CollectedInv == \A l \in Label : terminal_counts[l] = Cardinality(CollectedFor(l))

(* Until the return, open jobs have no attempt, collected ones their        *)
(* outcome, and nothing is interrupted yet.                                 *)
AttemptInv ==
    pc # "done" =>
        /\ \A j \in jobs :
            /\ j \in Pending \cup Running => attempts[j] = <<>>
            /\ task[j] = "collected" => \E o \in TaskOutcome : attempts[j] = <<o>>
            /\ attempts[j] = <<>> \/ \E o \in Outcome \ {"InterruptedByDeadline"} : attempts[j] = <<o>>
        /\ start_times \subseteq {KeyOf(j) : j \in Running}

(* What the report finds: the account of a late call, or nothing open.      *)
AccountInv ==
    /\ pc \in {"scan", "wait"} => deadline = NoStats
    /\ pc = "report" =>
        IF deadline.exceeded
        THEN /\ deadline.completed = Completed
             /\ AllLabels \subseteq Completed \cup deadline.interrupted \cup deadline.skipped
        ELSE Pending \cup Running = {}

StatsInv == CollectedInv /\ AttemptInv /\ AccountInv /\ StatsMatchLedger /\ DeadlineNamesInterrupted

LEMMA StatsInit == Init => StatsInv
<1> SUFFICES ASSUME Init PROVE StatsInv
  OBVIOUS
<1>1. jobs \subseteq Job
  BY DispatchAssumption DEF Init
<1>2. Running = {} /\ \A j \in jobs : task[j] = "none" /\ attempts[j] = <<>>
  BY <1>1 DEF Init, Running, TaskOutcome
<1>3. CollectedInv
  <2>1. \A l \in Label : CollectedFor(l) = {} /\ terminal_counts[l] = 0
    BY <1>2 DEF CollectedFor, Init
  <2> QED  BY <2>1, FS_EmptySet DEF CollectedInv
<1>4. AttemptInv
  BY <1>2 DEF AttemptInv, Init
<1>5. AccountInv /\ StatsMatchLedger /\ DeadlineNamesInterrupted
  BY <1>2 DEF AccountInv, StatsMatchLedger, DeadlineNamesInterrupted, Init, NoStats
<1> QED  BY <1>3, <1>4, <1>5 DEF StatsInv

(* The jobs of a completed subquery are all collected.                      *)
LEMMA CompletedCollected ==
    ASSUME TypeOK, CollectedInv, NEW j \in jobs, LabelOf[j.sq] \in Completed
    PROVE  task[j] = "collected"
<1> DEFINE l == LabelOf[j.sq]
<1>1. l \in Label /\ IsFiniteSet(PlannedFor(l)) /\ CollectedFor(l) \subseteq PlannedFor(l)
  BY JobComponents, FS_Subset DEF PlannedFor, CollectedFor
<1>2. Cardinality(CollectedFor(l)) >= Cardinality(PlannedFor(l))
  BY <1>1 DEF Completed, Planned, PlannedFor, CollectedInv
<1>3. CollectedFor(l) = PlannedFor(l)
  BY <1>1, <1>2, FS_Subset, FS_CardinalityType
<1>4. j \in PlannedFor(l)
  BY DEF PlannedFor
<1> QED  BY <1>3, <1>4 DEF CollectedFor

(* An account made while something runs is right, and names an interrupted  *)
(* subquery: that of a running job.                                         *)
LEMMA AccountRight ==
    ASSUME TypeOK, SlotInv, CollectedInv, AccountDeadline, global_active # 0,
           UNCHANGED <<plan, task, counters>>
    PROVE  /\ deadline'.exceeded /\ deadline'.completed = Completed' /\ deadline'.interrupted # {}
           /\ AllLabels' \subseteq Completed' \cup deadline'.interrupted \cup deadline'.skipped
<1>1. Completed' = Completed /\ AllLabels' = AllLabels
  BY DEF Completed, AllLabels, Planned, plan, counters
<1>2. /\ deadline'.exceeded /\ deadline'.completed = Completed
      /\ deadline'.interrupted = Interrupted /\ deadline'.skipped = Skipped
  BY DEF AccountDeadline
<1>3. PICK j \in Running : TRUE
  BY FS_EmptySet DEF SlotInv, CountersMatchTasks
<1>4. LabelOf[j.sq] \in AllLabels \ Completed
  BY <1>3, CompletedCollected DEF AllLabels, Running, TaskOutcome
<1>5. LabelOf[j.sq] \notin Skipped
  <2>1. LabelOf[j.sq] \in Label /\ j \in RunningFor(LabelOf[j.sq])
    BY <1>3, JobComponents DEF Running, RunningFor
  <2>2. Cardinality(RunningFor(LabelOf[j.sq])) # 0
    BY <2>1, RunningFinite, FS_EmptySet
  <2> QED  BY <2>1, <2>2 DEF SlotInv, CountersMatchTasks, RunningFor, Skipped
<1> QED  BY <1>1, <1>2, <1>4, <1>5 DEF Interrupted

(* A call that ends on time has nothing left: a queued job would have to be *)
(* kept back by a cap, and all of them are free.                            *)
LEMMA NothingLeft ==
    ASSUME TypeOK, SlotInv, QueueInv, pc = "scan", todo = {}, global_active = 0
    PROVE  Pending \cup Running = {}
<1>1. Running = {}
  BY RunningFinite, FS_EmptySet DEF SlotInv, CountersMatchTasks
<1>2. ASSUME NEW k \in blocked PROVE FALSE
  <2>1. k.pr \in Provider /\ ~can_start(k)
    BY JobComponents DEF QueueInv, TypeOK
  <2>2. provider_active[k.pr] = 0
    <3>1. {i \in Running : i.pr = k.pr} = {}
      BY <1>1
    <3> QED  BY <2>1, <3>1, FS_EmptySet DEF SlotInv, CountersMatchTasks
  <2> QED  BY <2>1, <2>2, CapsPositive DEF can_start
<1> QED  BY <1>1, <1>2 DEF Pending

-----------------------------------------------------------------------------
LEMMA StatsCollect ==
    ASSUME TypeOK, SlotInv, QueueInv, StatsInv, NEW j \in Running, NEW o \in TaskOutcome, Release(j, o)
    PROVE  StatsInv'
<1>j. j \in jobs /\ j \in Job /\ LabelOf[j.sq] \in Label /\ jobs \subseteq Job
  BY JobComponents DEF Running
<1>1. /\ Running' = Running \ {j} /\ jobs' = jobs
      /\ task' = [task EXCEPT ![j] = "collected"] /\ task[j] # "collected"
  BY <1>j DEF Release, Running, TypeOK, plan, TaskOutcome
<1>2. CollectedInv'
  <2> SUFFICES ASSUME NEW l \in Label PROVE terminal_counts'[l] = Cardinality(CollectedFor(l)')
    BY DEF CollectedInv
  <2>1. IsFiniteSet(CollectedFor(l)) /\ j \notin CollectedFor(l)
    BY <1>1, JobComponents, FS_Subset DEF CollectedFor
  <2>2. terminal_counts[l] = Cardinality(CollectedFor(l))
    BY DEF StatsInv, CollectedInv
  <2>3. CASE l = LabelOf[j.sq]
    <3>1. CollectedFor(l)' = CollectedFor(l) \cup {j}
      BY <1>1, <1>j, <2>3 DEF CollectedFor, TypeOK
    <3>2. terminal_counts'[l] = terminal_counts[l] + 1
      BY <1>j, <2>3 DEF Release, TypeOK
    <3> QED  BY <2>1, <2>2, <3>1, <3>2, FS_AddElement
  <2>4. CASE l # LabelOf[j.sq]
    <3>1. CollectedFor(l)' = CollectedFor(l)
      BY <1>1, <1>j, <2>4 DEF CollectedFor, TypeOK
    <3>2. terminal_counts'[l] = terminal_counts[l]
      BY <1>j, <2>4 DEF Release, TypeOK
    <3> QED  BY <2>2, <3>1, <3>2
  <2> QED  BY <2>3, <2>4
<1>3. AttemptInv'
  <2>1. pc = "wait" /\ attempts[j] = <<>>
    BY <1>j DEF Release, StatsInv, AttemptInv
  <2>2. attempts'[j] = <<o>> /\ \A k \in jobs \ {j} : attempts'[k] = attempts[k]
    BY <1>j, <2>1 DEF Release, Record, TypeOK
  <2>3. Pending' = Pending /\ j \notin Pending
    BY <2>1 DEF Release, Pending, QueueInv, SlotInv, Running, TaskOutcome
  <2>4. start_times' \subseteq {KeyOf(k) : k \in Running'}
    BY <1>1, <2>1 DEF Release, StatsInv, AttemptInv
  <2>5. ASSUME NEW k \in jobs
        PROVE  /\ k \in Pending' \cup Running' => attempts'[k] = <<>>
               /\ task'[k] = "collected" => \E u \in TaskOutcome : attempts'[k] = <<u>>
               /\ \/ attempts'[k] = <<>>
                  \/ \E u \in Outcome \ {"InterruptedByDeadline"} : attempts'[k] = <<u>>
    <3>1. CASE k = j
      BY <1>1, <1>j, <2>2, <2>3, <3>1 DEF Outcome, TaskOutcome
    <3>2. CASE k # j
      <4>1. task'[k] = task[k] /\ attempts'[k] = attempts[k]
        BY <1>1, <1>j, <2>2, <3>2 DEF TypeOK
      <4> QED  BY <1>1, <2>1, <2>3, <4>1 DEF StatsInv, AttemptInv
    <3> QED  BY <3>1, <3>2
  <2> QED  BY <1>1, <2>4, <2>5 DEF AttemptInv
<1>4. AccountInv' /\ StatsMatchLedger' /\ DeadlineNamesInterrupted'
  BY DEF Release, StatsInv, AccountInv, StatsMatchLedger, DeadlineNamesInterrupted, NoStats
<1> QED  BY <1>2, <1>3, <1>4 DEF StatsInv

(* The report interrupts what is open, of subqueries that are not completed.*)
LEMMA StatsReport ==
    ASSUME TypeOK, SlotInv, QueueInv, StatsInv, Report
    PROVE  StatsInv'
<1>1. /\ pc = "report" /\ pc' = "done" /\ jobs' = jobs /\ task' = task /\ jobs \subseteq Job
      /\ terminal_counts' = terminal_counts
  BY JobComponents DEF Report, plan, counters
<1>2. CollectedInv' /\ AttemptInv' /\ AccountInv'
  BY <1>1 DEF StatsInv, CollectedInv, CollectedFor, AttemptInv, AccountInv
<1>3. /\ deadline'.exceeded = deadline.exceeded /\ deadline'.completed = Completed
      /\ deadline'.interrupted = deadline.interrupted /\ deadline'.skipped = deadline.skipped
  <2>1. CASE deadline.exceeded
    BY <1>1, <2>1 DEF Report, StatsInv, AccountInv
  <2>2. CASE ~deadline.exceeded
    BY <2>2 DEF Report, TypeOK, StatsType
  <2> QED  BY <2>1, <2>2
<1>4. DeadlineNamesInterrupted'
  BY <1>3 DEF StatsInv, DeadlineNamesInterrupted
<1>5. ASSUME NEW j \in jobs PROVE attempts'[j] = attempts[j] \o Synthesized(j)
  BY <1>1, <1>5 DEF Report
<1>6. ASSUME NEW j \in jobs, Synthesized(j) # <<>>
      PROVE  /\ task[j] # "collected" /\ deadline.exceeded
             /\ LabelOf[j.sq] \notin Completed
  <2>1. PICK k \in Pending \cup Running : LabelOf[k.sq] = LabelOf[j.sq]
    <3>1. CASE NeverStarted(j)
      BY <3>1 DEF NeverStarted
    <3>2. CASE Aborted(j)
      <4>1. PICK k \in Running : KeyOf(j) = KeyOf(k)
        BY <1>1, <3>2 DEF Aborted, StartsLeft, Matching, StatsInv, AttemptInv
      <4> QED  BY <4>1 DEF KeyOf
    <3> QED  BY <1>6, <3>1, <3>2 DEF Synthesized
  <2>2. k \in jobs /\ task[k] # "collected"
    BY DEF Pending, Running, TypeOK, SlotInv, TaskOutcome
  <2>3. LabelOf[j.sq] \notin Completed
    BY <2>1, <2>2, CompletedCollected DEF StatsInv
  <2>4. deadline.exceeded
    BY <1>1, <2>1 DEF StatsInv, AccountInv
  <2>5. task[j] # "collected"
    <3>1. CASE NeverStarted(j)
      BY <3>1 DEF NeverStarted, SlotInv
    <3>2. CASE Aborted(j)
      <4>1. KeyOf(j) \notin dispatched_keys
        BY <3>2 DEF Aborted, Matching
      <4>2. attempts[j] = <<>>
        BY <4>1 DEF dispatched_keys
      <4>3. \A o \in TaskOutcome : <<o>> # <<>>
        OBVIOUS
      <4> QED  BY <1>1, <4>2, <4>3 DEF StatsInv, AttemptInv
    <3> QED  BY <1>6, <3>1, <3>2 DEF Synthesized
  <2> QED  BY <2>3, <2>4, <2>5
<1>7. StatsMatchLedger'
  <2> SUFFICES ASSUME NEW j \in jobs, NEW i \in 1..Len(attempts'[j])
               PROVE  /\ LabelOf[j.sq] \in deadline'.completed => attempts'[j][i] \in TaskOutcome
                      /\ attempts'[j][i] = "InterruptedByDeadline" =>
                            /\ deadline'.exceeded
                            /\ LabelOf[j.sq] \in deadline'.interrupted \cup deadline'.skipped
    BY <1>1 DEF StatsMatchLedger
  <2>1. CASE Synthesized(j) = <<>>
    <3>1. attempts'[j] = attempts[j]
      <4>1. attempts[j] \in Seq(Outcome)
        BY <1>1 DEF TypeOK
      <4>2. attempts[j] \o <<>> = attempts[j]
        BY <4>1
      <4> QED  BY <1>5, <2>1, <4>2
    <3>2. PICK u \in Outcome \ {"InterruptedByDeadline"} : attempts[j] = <<u>>
      BY <1>1, <3>1 DEF StatsInv, AttemptInv
    <3>3. i = 1 /\ attempts'[j][i] = u
      BY <3>1, <3>2
    <3>4. LabelOf[j.sq] \in Completed => \E o \in TaskOutcome : attempts[j] = <<o>>
      BY <1>1, CompletedCollected DEF StatsInv, AttemptInv
    <3>5. LabelOf[j.sq] \in Completed => u \in TaskOutcome
      BY <3>2, <3>4
    <3> QED  BY <1>3, <3>3, <3>5
  <2>2. CASE Synthesized(j) # <<>>
    <3>1. deadline.exceeded /\ LabelOf[j.sq] \in AllLabels \ Completed
      BY <1>6, <2>2 DEF AllLabels
    <3>2. LabelOf[j.sq] \in deadline.interrupted \cup deadline.skipped
      BY <1>1, <3>1 DEF StatsInv, AccountInv
    <3> QED  BY <1>3, <3>1, <3>2
  <2> QED  BY <2>1, <2>2
<1> QED  BY <1>2, <1>4, <1>7 DEF StatsInv

(* Steps that change neither the tasks collected nor the accounts.          *)
LEMMA StatsFrame ==
    ASSUME StatsInv, UNCHANGED <<jobs, terminal_counts, deadline>>,
           pc \in {"scan", "wait"}, pc' \in {"scan", "wait"}, AttemptInv',
           \A j \in jobs : task'[j] = "collected" <=> task[j] = "collected"
    PROVE  StatsInv'
<1>1. CollectedInv'
  BY DEF StatsInv, CollectedInv, CollectedFor
<1>2. AccountInv' /\ StatsMatchLedger' /\ DeadlineNamesInterrupted'
  BY DEF StatsInv, AccountInv, StatsMatchLedger, DeadlineNamesInterrupted
<1> QED  BY <1>1, <1>2 DEF StatsInv

(* The end of a pass, and the timeout arm.                                  *)
LEMMA StatsEnd ==
    ASSUME TypeOK, SlotInv, QueueInv, StatsInv, EndPass \/ TimeoutArm
    PROVE  StatsInv'
<1>1. /\ UNCHANGED <<jobs, task, attempts, start_times>> /\ Pending' = Pending /\ Running' = Running
      /\ UNCHANGED <<plan, counters>> /\ pc \in {"scan", "wait"} /\ pc' \in {"wait", "report"}
  BY DEF EndPass, TimeoutArm, plan, Pending, Running
<1>2. CollectedInv' /\ AttemptInv'
  BY <1>1 DEF StatsInv, CollectedInv, CollectedFor, AttemptInv, counters
<1>3. CASE pc' = "wait"
  BY <1>1, <1>2, <1>3, StatsFrame DEF EndPass, TimeoutArm, counters
<1>4. CASE pc' = "report" /\ global_active = 0
  <2>1. Pending \cup Running = {} /\ deadline' = deadline
    BY <1>4, NothingLeft DEF EndPass, TimeoutArm, QueueInv, TypeOK
  <2>2. deadline = NoStats
    BY <1>1 DEF StatsInv, AccountInv
  <2> QED  BY <1>1, <1>2, <1>4, <2>1, <2>2
       DEF StatsInv, AccountInv, StatsMatchLedger, DeadlineNamesInterrupted, NoStats
<1>5. CASE pc' = "report" /\ global_active # 0
  <2>1. AccountDeadline
    BY <1>5 DEF EndPass, TimeoutArm, TypeOK
  <2> QED  BY <1>1, <1>2, <1>5, <2>1, AccountRight
       DEF StatsInv, AccountInv, StatsMatchLedger, DeadlineNamesInterrupted
<1> QED  BY <1>1, <1>3, <1>4, <1>5

LEMMA StatsStep == TypeOK /\ SlotInv /\ QueueInv /\ StatsInv /\ [Next]_vars => StatsInv'
<1> SUFFICES ASSUME TypeOK, SlotInv, QueueInv, StatsInv, [Next]_vars PROVE StatsInv'
  OBVIOUS
<1>f. jobs \subseteq Job /\ Running \subseteq jobs /\ Pending \subseteq jobs
  BY JobComponents DEF Running, Pending, TypeOK
<1>1. ASSUME NEW j \in jobs, ExamineUnsupported(j) PROVE StatsInv'
  <2>1. /\ pc = "scan" /\ pc' = pc /\ j \in Pending /\ Pending' = Pending \ {j} /\ Running' = Running
        /\ task[j] = "none" /\ UNCHANGED <<jobs, task, terminal_counts, deadline>>
    BY <1>1 DEF ExamineUnsupported, Front, Pending, Running, SlotInv, plan, counters
  <2>2. /\ attempts'[j] = <<"SkippedCapabilityUnavailable">>
        /\ \A k \in jobs \ {j} : attempts'[k] = attempts[k]
    <3>1. attempts[j] = <<>>
      BY <2>1 DEF StatsInv, AttemptInv
    <3>2. attempts' = [attempts EXCEPT ![j] = Append(attempts[j], "SkippedCapabilityUnavailable")]
      BY <1>1 DEF ExamineUnsupported, Record
    <3>3. Append(<<>>, "SkippedCapabilityUnavailable") = <<"SkippedCapabilityUnavailable">>
      OBVIOUS
    <3>4. attempts \in [Job -> Seq(Outcome)]
      BY DEF TypeOK
    <3> QED  BY <1>f, <3>1, <3>2, <3>3, <3>4
  <2>3. AttemptInv'
    BY <1>1, <2>1, <2>2 DEF ExamineUnsupported, StatsInv, AttemptInv, Outcome, Running, TaskOutcome
  <2> QED  BY <2>1, <2>3, StatsFrame
<1>2. ASSUME NEW j \in jobs, StartJob(j) PROVE StatsInv'
  <2>1. /\ pc = "scan" /\ pc' = pc /\ j \in Pending /\ Pending' \subseteq Pending
        /\ Running' = Running \cup {j}
        /\ UNCHANGED <<jobs, terminal_counts, attempts, deadline>>
        /\ \A k \in jobs : task'[k] = "collected" <=> task[k] = "collected"
    BY <1>2, <1>f DEF StartJob, Front, Pending, Running, SlotInv, plan, TypeOK, TaskOutcome
  <2>2. start_times' \subseteq {KeyOf(k) : k \in Running'}
    BY <1>2, <2>1 DEF StartJob, StatsInv, AttemptInv
  <2>3. AttemptInv'
    BY <2>1, <2>2 DEF StatsInv, AttemptInv
  <2> QED  BY <2>1, <2>3, StatsFrame
<1>3. ASSUME NEW j \in jobs, RotateBlocked(j) \/ TaskEnds(j) PROVE StatsInv'
  <2>1. /\ pc \in {"scan", "wait"} /\ pc' = pc /\ Pending' = Pending /\ Running' = Running
        /\ UNCHANGED <<jobs, terminal_counts, attempts, start_times, deadline>>
        /\ \A k \in jobs : task'[k] = "collected" <=> task[k] = "collected"
    BY <1>3, <1>f DEF RotateBlocked, TaskEnds, Front, Pending, Running, plan, counters, TypeOK, TaskOutcome
  <2>2. AttemptInv'
    BY <2>1 DEF StatsInv, AttemptInv
  <2> QED  BY <2>1, <2>2, StatsFrame
<1>4. ASSUME NEW j \in jobs, CollectResult(j) \/ CollectJoinError(j) PROVE StatsInv'
  <2>1. j \in Running /\ \E o \in TaskOutcome : Release(j, o)
    BY <1>4 DEF CollectResult, CollectJoinError, Ended, Running, TaskOutcome
  <2> QED  BY <2>1, StatsCollect
<1>5. ASSUME DeadlineElapses PROVE StatsInv'
  <2>1. /\ pc \in {"scan", "wait"} /\ pc' = pc /\ Pending' = Pending /\ Running' = Running
        /\ UNCHANGED <<jobs, task, terminal_counts, attempts, start_times, deadline>>
    BY <1>5 DEF DeadlineElapses, Pending, Running, plan, counters
  <2>2. AttemptInv'
    BY <2>1 DEF StatsInv, AttemptInv
  <2> QED  BY <2>1, <2>2, StatsFrame
<1>6. ASSUME UNCHANGED vars PROVE StatsInv'
  BY <1>6 DEF vars, plan, counters, StatsInv, CollectedInv, CollectedFor, AttemptInv, AccountInv,
     StatsMatchLedger, DeadlineNamesInterrupted, Pending, Running, Completed, AllLabels, Planned
<1> QED  BY <1>1, <1>2, <1>3, <1>4, <1>5, <1>6, StatsEnd, StatsReport DEF Next, Executor, Examine

LEMMA StatsAlways == Spec => []StatsInv
  BY StatsInit, StatsStep, ExecutorInvariant, PTL DEF Spec

(* The deadline statistics agree with the ledger, whatever the subquery     *)
(* ids: of a completed subquery every attempt is an answer, and an          *)
(* interrupted attempt is one of a late call and of a subquery that is      *)
(* counted as interrupted or skipped; and a call that exceeded its deadline  *)
(* names an interrupted subquery.                                           *)
THEOREM ReportCorrect == Spec => []ReportMatchesLedger
<1>1. StatsInv => ReportMatchesLedger
  BY DEF StatsInv, ReportMatchesLedger
<1> QED  BY <1>1, StatsAlways, PTL
-----------------------------------------------------------------------------
(* Refinement.  What the ledger says of a job follows from where it is: an  *)
(* open one has no attempt, any other one attempt that is no interruption.  *)

LEMMA VerdictOpen ==
    ASSUME TypeOK, SlotInv, LedgerInv, StatsInv, pc # "done", NEW j \in jobs
    PROVE  /\ j \in Pending => verdict[j] = "queued"
           /\ j \in Running => verdict[j] = "running"
           /\ j \notin Pending \cup Running => verdict[j] \in {"answered", "skipped"}
<1>1. j \in Job
  BY JobComponents
<1>2. ASSUME j \in Pending PROVE verdict[j] = "queued"
  BY <1>1, <1>2 DEF SlotInv, LedgerInv, verdict
<1>3. ASSUME j \in Running PROVE verdict[j] = "running"
  <2>1. attempts[j] = <<>> /\ task[j] \notin {"none", "collected"}
    BY <1>3 DEF LedgerInv, Running, TaskOutcome
  <2> QED  BY <1>1, <2>1 DEF verdict
<1>4. ASSUME j \notin Pending \cup Running PROVE verdict[j] \in {"answered", "skipped"}
  <2>1. attempts[j] # <<>>
    BY <1>4 DEF LedgerInv
  <2>2. PICK u \in Outcome \ {"InterruptedByDeadline"} : attempts[j] = <<u>>
    BY <2>1 DEF StatsInv, AttemptInv
  <2>3. ~(Len(attempts[j]) > 1) /\ attempts[j][1] # "InterruptedByDeadline"
    BY <2>2
  <2> QED  BY <1>1, <2>1, <2>3 DEF verdict
<1> QED  BY <1>2, <1>3, <1>4

(* A step that leaves the attempts alone leaves the verdicts alone when no  *)
(* task without an attempt starts.                                          *)
LEMMA VerdictKept ==
    ASSUME UNCHANGED attempts,
           \A j \in Job : task'[j] \in {"none", "collected"} <=> task[j] \in {"none", "collected"}
    PROVE  verdict' = verdict
  BY DEF verdict

(* The verdict of a job that has just got its only attempt.                 *)
LEMMA VerdictOf ==
    ASSUME NEW j \in Job, NEW u, attempts'[j] = <<u>>
    PROVE  verdict'[j] = IF u = "SkippedCapabilityUnavailable" THEN "skipped"
                         ELSE IF u = "InterruptedByDeadline" THEN "interrupted" ELSE "answered"
<1>1. <<u>> # <<>> /\ ~(Len(<<u>>) > 1) /\ <<u>>[1] = u
  OBVIOUS
<1>2. attempts'[j] # <<>> /\ ~(Len(attempts'[j]) > 1) /\ attempts'[j][1] = u
  BY <1>1
<1> QED  BY <1>2 DEF verdict

(* A step of one job moves one verdict.                                     *)
LEMMA VerdictMoved ==
    ASSUME NEW j \in Job, NEW v, verdict'[j] = v,
           \A k \in Job \ {j} : attempts'[k] = attempts[k] /\ task'[k] = task[k]
    PROVE  verdict' = [verdict EXCEPT ![j] = v]
<1>1. verdict = [k \in Job |-> verdict[k]] /\ verdict' = [k \in Job |-> verdict'[k]]
  BY DEF verdict
<1>2. \A k \in Job \ {j} : verdict'[k] = verdict[k]
  BY DEF verdict
<1> QED  BY <1>1, <1>2

(* Every step of the executor is a step of the ledger, or none.             *)
LEMMA LedgerRefined ==
    ASSUME DistinctIds, TypeOK, SlotInv, QueueInv, LedgerInv, StatsInv, [Next]_vars
    PROVE  [Ledger!LedgerNext]_(Ledger!ledgerVars)
<1>f. jobs \subseteq Job /\ Running \subseteq jobs /\ Pending \subseteq jobs /\ Pending \cap Running = {}
  BY JobComponents DEF Running, Pending, TypeOK, SlotInv, TaskOutcome
<1>l. pc \in {"scan", "wait"} => ~deadline.exceeded
  BY DEF StatsInv, AccountInv, NoStats
(* A job that moves between verdicts in a call that goes on.                 *)
<1>m. ASSUME NEW j \in jobs, NEW v, pc \in {"scan", "wait"}, pc' \in {"scan", "wait"},
             UNCHANGED <<jobs, deadline>>, verdict'[j] = v,
             \A k \in Job \ {j} : attempts'[k] = attempts[k] /\ task'[k] = task[k],
             \/ verdict[j] = "queued" /\ v \in {"skipped", "running"}
             \/ verdict[j] = "running" /\ v = "answered"
      PROVE  Ledger!LedgerNext
  <2>1. verdict' = [verdict EXCEPT ![j] = v]
    BY <1>f, <1>m, VerdictMoved
  <2>2. Ledger!Move(j, verdict[j], v)
    BY <1>l, <1>m, <2>1 DEF Ledger!Move
  <2> QED  BY <1>f, <1>m, <2>2 DEF Ledger!LedgerNext, Ledger!Skip, Ledger!Start, Ledger!Answer
(* A step that moves no job in a call that goes on.                          *)
<1>k. ASSUME UNCHANGED <<jobs, deadline, attempts>>, (pc = "done") <=> (pc' = "done"),
             \A j \in Job : task'[j] \in {"none", "collected"} <=> task[j] \in {"none", "collected"}
      PROVE  UNCHANGED Ledger!ledgerVars
  <2>1. verdict' = verdict
    BY <1>k, VerdictKept
  <2> QED  BY <1>k, <2>1 DEF Ledger!ledgerVars
<1>1. ASSUME NEW j \in jobs, ExamineUnsupported(j) PROVE Ledger!LedgerNext
  <2>1. /\ pc = "scan" /\ pc' = pc /\ j \in Pending /\ UNCHANGED <<jobs, task, deadline>>
        /\ attempts' = [attempts EXCEPT ![j] = Append(attempts[j], "SkippedCapabilityUnavailable")]
    BY <1>1 DEF ExamineUnsupported, Record, Front, Pending, plan
  <2>2. attempts[j] = <<>> /\ verdict[j] = "queued"
    BY <2>1, VerdictOpen DEF LedgerInv
  <2>3. /\ attempts'[j] = <<"SkippedCapabilityUnavailable">>
        /\ \A k \in Job \ {j} : attempts'[k] = attempts[k]
    <3>1. Append(<<>>, "SkippedCapabilityUnavailable") = <<"SkippedCapabilityUnavailable">>
      OBVIOUS
    <3>2. attempts \in [Job -> Seq(Outcome)]
      BY DEF TypeOK
    <3> QED  BY <1>f, <2>1, <2>2, <3>1, <3>2
  <2>4. verdict'[j] = "skipped"
    BY <1>f, <2>3, VerdictOf
  <2> QED  BY <1>m, <2>1, <2>2, <2>3, <2>4
<1>2. ASSUME NEW j \in jobs, StartJob(j) PROVE Ledger!LedgerNext
  <2>1. /\ pc = "scan" /\ pc' = pc /\ j \in Pending /\ UNCHANGED <<jobs, attempts, deadline>>
        /\ task'[j] \in {"refused", "calling"} /\ \A k \in Job \ {j} : task'[k] = task[k]
    BY <1>2, <1>f DEF StartJob, Front, Pending, plan, TypeOK
  <2>2. attempts[j] = <<>> /\ verdict[j] = "queued"
    BY <2>1, VerdictOpen DEF LedgerInv
  <2>3. verdict'[j] = "running"
    BY <1>f, <2>1, <2>2 DEF verdict
  <2> QED  BY <1>m, <2>1, <2>2, <2>3
<1>3. ASSUME NEW j \in Running, NEW o \in TaskOutcome, Release(j, o) PROVE Ledger!LedgerNext
  <2>1. /\ pc = "wait" /\ pc' = "scan" /\ UNCHANGED <<jobs, deadline>>
        /\ attempts' = [attempts EXCEPT ![j] = Append(attempts[j], o)]
        /\ task' = [task EXCEPT ![j] = "collected"]
    BY <1>3 DEF Release, Record, plan
  <2>2. j \in jobs /\ attempts[j] = <<>> /\ verdict[j] = "running"
    BY <1>f, <2>1, VerdictOpen DEF LedgerInv
  <2>3. attempts'[j] = <<o>> /\ \A k \in Job \ {j} : attempts'[k] = attempts[k] /\ task'[k] = task[k]
    <3>1. Append(<<>>, o) = <<o>>
      OBVIOUS
    <3>2. attempts \in [Job -> Seq(Outcome)] /\ task \in [Job -> TaskState]
      BY DEF TypeOK
    <3> QED  BY <1>f, <2>1, <2>2, <3>1, <3>2
  <2>4. verdict'[j] = "answered"
    BY <1>f, <2>2, <2>3, VerdictOf DEF TaskOutcome
  <2> QED  BY <1>m, <2>1, <2>2, <2>3, <2>4
<1>4. ASSUME NEW j \in jobs, CollectResult(j) \/ CollectJoinError(j) PROVE Ledger!LedgerNext
  <2>1. j \in Running /\ \E o \in TaskOutcome : Release(j, o)
    BY <1>4 DEF CollectResult, CollectJoinError, Ended, Running, TaskOutcome
  <2> QED  BY <1>3, <2>1
<1>5. ASSUME NEW j \in jobs, RotateBlocked(j) \/ TaskEnds(j) PROVE UNCHANGED Ledger!ledgerVars
  <2>1. /\ UNCHANGED <<jobs, deadline, attempts, pc>>
        /\ \A k \in Job : task'[k] \in {"none", "collected"} <=> task[k] \in {"none", "collected"}
    BY <1>5, <1>f DEF RotateBlocked, TaskEnds, plan, TypeOK, TaskOutcome
  <2> QED  BY <1>k, <2>1
<1>6. ASSUME EndPass \/ TimeoutArm PROVE [Ledger!LedgerNext]_(Ledger!ledgerVars)
  <2>1. UNCHANGED <<jobs, attempts, task>> /\ pc \in {"scan", "wait"} /\ pc' # "done"
    BY <1>6 DEF EndPass, TimeoutArm, plan
  <2>2. verdict' = verdict
    BY <2>1, VerdictKept
  <2>3. CASE deadline' = deadline
    BY <2>1, <2>2, <2>3 DEF Ledger!ledgerVars
  <2>4. CASE AccountDeadline /\ global_active # 0
    <3>1. PICK j \in Running : TRUE
      BY <2>4, FS_EmptySet DEF SlotInv, CountersMatchTasks
    <3>2. j \in jobs /\ verdict[j] = "running"
      BY <1>f, <2>1, VerdictOpen
    <3>3. deadline'.exceeded
      BY <2>4 DEF AccountDeadline
    <3>4. Ledger!RunLate
      BY <1>l, <2>1, <2>2, <3>2, <3>3 DEF Ledger!RunLate
    <3> QED  BY <3>4 DEF Ledger!LedgerNext
  <2>5. deadline' = deadline \/ (AccountDeadline /\ global_active # 0)
    <3>1. pc = "wait" => global_active # 0
      BY DEF QueueInv
    <3> QED  BY <1>6, <3>1 DEF EndPass, TimeoutArm, TypeOK
  <2> QED  BY <2>3, <2>4, <2>5
<1>7. ASSUME DeadlineElapses \/ UNCHANGED vars PROVE UNCHANGED Ledger!ledgerVars
  <2>1. UNCHANGED <<jobs, deadline, attempts, task, pc>>
    BY <1>7 DEF DeadlineElapses, vars, plan
  <2> QED  BY <1>k, <2>1
<1>8. ASSUME Report PROVE Ledger!LedgerNext
  <2>1. /\ pc = "report" /\ pc' = "done" /\ UNCHANGED <<jobs, task>>
        /\ attempts' = [j \in Job |-> attempts[j] \o Synthesized(j)]
    BY <1>8 DEF Report, plan
  <2>2. deadline'.exceeded = deadline.exceeded
    BY <1>8 DEF Report, TypeOK, StatsType
  <2>3. ASSUME NEW j \in jobs PROVE j \in Ledger!Open <=> j \in Pending \cup Running
    BY <2>1, VerdictOpen DEF Ledger!Open
  <2>4. Ledger!Open # {} => deadline.exceeded
    <3>1. ~deadline.exceeded => Pending \cup Running = {}
      BY <2>1 DEF StatsInv, AccountInv
    <3> QED  BY <2>3, <3>1 DEF Ledger!Open
  <2>5. ASSUME NEW j \in Job, j \in Ledger!Open PROVE verdict'[j] = "interrupted"
    <3>1. j \in jobs /\ j \in Pending \cup Running
      BY <2>3, <2>5 DEF Ledger!Open
    <3>2. attempts[j] = <<>> /\ Synthesized(j) = <<"InterruptedByDeadline">>
      BY <2>1, <3>1, ReportSynthesizes DEF LedgerInv
    <3>3. attempts'[j] = <<"InterruptedByDeadline">>
      <4>1. <<>> \o <<"InterruptedByDeadline">> = <<"InterruptedByDeadline">>
        OBVIOUS
      <4> QED  BY <2>1, <3>2, <4>1
    <3> QED  BY <3>3, VerdictOf
  <2>6. ASSUME NEW j \in Job, j \notin Ledger!Open PROVE verdict'[j] = verdict[j]
    <3>1. Synthesized(j) = <<>>
      BY <2>1, <2>3, <2>6, ReportSynthesizes
    <3>2. attempts'[j] = attempts[j] \o <<>> /\ attempts[j] \in Seq(Outcome)
      BY <2>1, <3>1 DEF TypeOK
    <3>3. attempts'[j] = attempts[j]
      BY <3>2
    <3> QED  BY <2>1, <3>3 DEF verdict
  <2>7. verdict' = [j \in Job |-> IF j \in Ledger!Open THEN "interrupted" ELSE verdict[j]]
    <3>1. verdict' = [j \in Job |-> verdict'[j]]
      BY DEF verdict
    <3> QED  BY <2>5, <2>6, <3>1
  <2>8. Ledger!Close
    BY <2>1, <2>2, <2>4, <2>7 DEF Ledger!Close
  <2> QED  BY <2>8 DEF Ledger!LedgerNext
<1> QED  BY <1>1, <1>2, <1>4, <1>5, <1>6, <1>7, <1>8 DEF Next, Executor, Examine

LEMMA LedgerStarts == Init => Ledger!LedgerInit
<1> SUFFICES ASSUME Init PROVE Ledger!LedgerInit
  OBVIOUS
<1>1. jobs \in SUBSET Job
  BY DispatchAssumption DEF Init
<1>2. verdict = [j \in Job |-> "queued"]
  BY DEF Init, verdict
<1>3. (pc = "done") = (jobs = {}) /\ deadline.exceeded = FALSE
  BY DEF Init, NoStats
<1> QED  BY <1>1, <1>2, <1>3 DEF Ledger!LedgerInit

(* With distinct subquery ids the executor implements the job ledger: every *)
(* job starts at most once and gets one verdict, which never changes, and   *)
(* jobs are interrupted together, when a late call closes.                  *)
THEOREM ImplementsLedger ==
    ASSUME DistinctIds
    PROVE  Spec => LedgerSpec
<1>1. Init => LedgerInv
  BY LedgerInit
<1>2. TypeOK /\ SlotInv /\ QueueInv /\ LedgerInv /\ [Next]_vars => LedgerInv'
  BY LedgerStep
<1>3. TypeOK /\ SlotInv /\ QueueInv /\ LedgerInv /\ StatsInv /\ [Next]_vars
        => [Ledger!LedgerNext]_(Ledger!ledgerVars)
  BY LedgerRefined
<1>4. Init => Ledger!LedgerInit
  BY LedgerStarts
<1> QED  BY <1>1, <1>2, <1>3, <1>4, ExecutorInvariant, StatsAlways, PTL
     DEF Spec, LedgerSpec, Ledger!LedgerSpec

-----------------------------------------------------------------------------
(* What a caller may conclude from the ledger, and so from the executor.    *)
Settled == {"answered", "skipped", "interrupted"}

LEMMA LedgerSettles ==
    ASSUME [Ledger!LedgerNext]_(Ledger!ledgerVars)
    PROVE  \A j \in Job : verdict[j] \in Settled => verdict'[j] = verdict[j]
<1> SUFFICES ASSUME NEW j \in Job, verdict[j] \in Settled PROVE verdict'[j] = verdict[j]
  OBVIOUS
<1>v. verdict = [k \in Job |-> verdict[k]]
  BY DEF verdict
<1>1. ASSUME NEW k \in Job, Ledger!Skip(k) \/ Ledger!Start(k) \/ Ledger!Answer(k)
      PROVE  verdict'[j] = verdict[j]
  BY <1>1, <1>v DEF Ledger!Skip, Ledger!Start, Ledger!Answer, Ledger!Move, Settled
<1>2. CASE Ledger!Close
  BY <1>2 DEF Ledger!Close, Ledger!Open, Settled
<1>3. CASE Ledger!RunLate \/ UNCHANGED Ledger!ledgerVars
  BY <1>3 DEF Ledger!RunLate, Ledger!ledgerVars
<1> QED  BY <1>1, <1>2, <1>3 DEF Ledger!LedgerNext

LEMMA LedgerCloses ==
    ASSUME jobs \subseteq Job, pc = "done" => Ledger!Open = {}, [Ledger!LedgerNext]_(Ledger!ledgerVars)
    PROVE  (pc = "done" => Ledger!Open = {})'
<1>1. ASSUME NEW k \in Job, Ledger!Skip(k) \/ Ledger!Start(k) \/ Ledger!Answer(k)
      PROVE  pc' # "done"
  BY <1>1 DEF Ledger!Skip, Ledger!Start, Ledger!Answer, Ledger!Move
<1>2. CASE Ledger!Close
  <2>1. ASSUME NEW j \in jobs PROVE verdict'[j] \notin {"queued", "running"}
    <3>1. verdict'[j] = IF j \in Ledger!Open THEN "interrupted" ELSE verdict[j]
      BY <1>2 DEF Ledger!Close
    <3> QED  BY <3>1 DEF Ledger!Open
  <2> QED  BY <1>2, <2>1 DEF Ledger!Close, Ledger!Open
<1>3. CASE Ledger!RunLate \/ UNCHANGED Ledger!ledgerVars
  BY <1>3 DEF Ledger!RunLate, Ledger!ledgerVars, Ledger!Open
<1> QED  BY <1>1, <1>2, <1>3 DEF Ledger!LedgerNext

(* What dispatch_parallel has once said of a job it never takes back: a     *)
(* job that was answered, skipped or interrupted stays so.                  *)
THEOREM VerdictsAreFinal ==
    ASSUME DistinctIds
    PROVE  Spec => [][\A j \in Job : verdict[j] \in Settled => verdict'[j] = verdict[j]]_vars
<1>1. [Ledger!LedgerNext]_(Ledger!ledgerVars)
        => [\A j \in Job : verdict[j] \in Settled => verdict'[j] = verdict[j]]_vars
  BY LedgerSettles
<1> QED  BY <1>1, ImplementsLedger, PTL DEF LedgerSpec, Ledger!LedgerSpec

(* When dispatch_parallel returns no job is left without a verdict.         *)
THEOREM ReturnSettlesAll ==
    ASSUME DistinctIds
    PROVE  Spec => [](pc = "done" => \A j \in jobs : verdict[j] \notin {"queued", "running"})
<1>1. Ledger!LedgerInit => (pc = "done" => Ledger!Open = {})
  BY DEF Ledger!LedgerInit, Ledger!Open
<1>2. TypeOK => jobs \subseteq Job
  BY DispatchAssumption DEF TypeOK
<1>3. jobs \subseteq Job /\ (pc = "done" => Ledger!Open = {}) /\ [Ledger!LedgerNext]_(Ledger!ledgerVars)
        => (pc = "done" => Ledger!Open = {})'
  BY LedgerCloses
<1>4. Ledger!Open = {} => \A j \in jobs : verdict[j] \notin {"queued", "running"}
  BY DEF Ledger!Open
<1> QED  BY <1>1, <1>2, <1>3, <1>4, ImplementsLedger, TypeCorrect, PTL DEF LedgerSpec, Ledger!LedgerSpec
=============================================================================
