------------------------- MODULE OriginControlProofs -------------------------
(***************************************************************************)
(* Proofs about the origin controller, for any number of origins and       *)
(* requests, any table size, concurrency and circuit policy.               *)
(***************************************************************************)
EXTENDS OriginControl, FiniteSetTheorems, WellFoundedInduction, TLAPS

-----------------------------------------------------------------------------
(* Type correctness.                                                        *)

LEMMA ConcurrencyTyped ==
    Concurrency \in [Kind -> Nat \ {0}]
  BY OriginAssumption DEF Concurrency, Kind

(* Looking an origin up gives it an object, one of those made so far.       *)
LEMMA LookupTyped ==
    ASSUME TypeOK, NEW o \in Origin, get_or_create_state(o)
    PROVE  /\ made \in Nat /\ made' \in Nat /\ made <= made' /\ made' <= MaxObjects
           /\ states' \in [Origin -> 0..made'] /\ states'[o] \in 1..made'
           /\ last_access' \in [Origin -> 0..MaxTime]
<1>1. CASE o \in tracked /\ UNCHANGED <<states, made>>
          /\ last_access' = [last_access EXCEPT ![o] = now]
  BY <1>1, OriginAssumption DEF TypeOK, tracked, None
<1>2. CASE /\ made < MaxObjects /\ made' = made + 1
           /\ states' = [states EXCEPT ![o] = made']
           /\ last_access' = [last_access EXCEPT ![o] = now]
  BY <1>2, OriginAssumption DEF TypeOK
<1> QED  BY <1>1, <1>2 DEF get_or_create_state

(* A request that has an object asks a semaphore of it.                     *)
LEMMA ObjectTyped ==
    ASSUME TypeOK, NEW r \in Req
    PROVE  /\ KindOf(r) \in Kind
           /\ pc[r] \notin {"idle", "make"} => st[r] \in Object
<1>1. KindOf(r) \in Kind
  BY DEF KindOf, Kind
<1>2. pc[r] \notin {"idle", "make"} => st[r] \in 1..made
  BY DEF TypeOK
<1>3. made \in 0..MaxObjects /\ MaxObjects \in Nat
  BY OriginAssumption DEF TypeOK
<1> QED  BY <1>1, <1>2, <1>3 DEF Object

(* The record of a sweep, or of none.                                       *)
LEMMA SweepFields ==
    ASSUME TypeOK
    PROVE  /\ sweep.stage \in {"none", "http", "browser", "circuit"}
           /\ sweep.stage = "none" => sweep = NoSweep
           /\ sweep.entry \in Origin \cup {None}
           /\ sweep.unread \subseteq Origin /\ sweep.idle \subseteq Origin
           /\ sweep.untouched \subseteq Origin /\ sweep.taken \subseteq Origin
           /\ sweep.opened \subseteq Origin
  BY DEF TypeOK, Sweep, NoSweep

LEMMA SeeTyped ==
    ASSUME TypeOK, NEW r \in Req, See(r)
    PROVE  sweep' \in Sweep
<1>1. sweep \in Sweep
  <2>1. sweep.stage # "none"
    BY DEF See, SeeHttp, SeeBrowser, SeeCircuit
  <2> QED  BY <2>1 DEF TypeOK, NoSweep
<1>2. \A o : PassOver(o) \in Sweep
  BY <1>1 DEF PassOver, Sweep
<1>n. None \notin Origin
  BY OriginAssumption DEF None
<1>3. \A o \in Origin : [sweep EXCEPT !.stage = "browser", !.entry = o] \in Sweep
  BY <1>1, <1>n DEF Sweep
<1>4. \A o \in Origin : FoundIdle(o) \in Sweep
  BY <1>1 DEF FoundIdle, Sweep
<1>5. sweep.stage = "browser" => [sweep EXCEPT !.stage = "circuit"] \in Sweep
  BY <1>1 DEF Sweep
<1>6. CASE SeeHttp
  <2>1. PICK o \in sweep.unread :
            sweep' \in {[sweep EXCEPT !.stage = "browser", !.entry = o], PassOver(o)}
    BY <1>6 DEF SeeHttp
  <2>2. o \in Origin
    BY <1>1, <2>1 DEF Sweep
  <2> QED  BY <1>2, <1>3, <2>1, <2>2
<1>7. CASE SeeBrowser
  BY <1>2, <1>5, <1>7 DEF SeeBrowser
<1>8. CASE SeeCircuit
  <2>1. sweep.entry \in Origin
    BY <1>1, <1>8 DEF SeeCircuit, Sweep
  <2> QED  BY <1>2, <1>4, <1>8, <2>1 DEF SeeCircuit
<1> QED  BY <1>6, <1>7, <1>8 DEF See

(* A request that gives its permit back leaves the state well typed.        *)
LEMMA GiveBackTyped ==
    ASSUME TypeOK, NEW r \in Req, pc[r] \in HoldingPc, GiveBack(r),
           UNCHANGED <<table, failures, sweep, now, history>>
    PROVE  TypeOK'
<1>1. st[r] \in Object /\ KindOf(r) \in Kind
  BY ObjectTyped DEF HoldingPc
<1>2. permits' \in [Object -> [Kind -> Nat]] /\ ahead' \in [Req -> SUBSET Req]
  <2>1. CASE Waiting(st[r], KindOf(r)) = {}
    <3>1. permits' = [permits EXCEPT ![st[r]][KindOf(r)] = @ + 1] /\ ahead' = ahead
      BY <2>1 DEF GiveBack
    <3>2. permits[st[r]] \in [Kind -> Nat] /\ permits[st[r]][KindOf(r)] + 1 \in Nat
      BY <1>1 DEF TypeOK
    <3>3. permits' \in [Object -> [Kind -> Nat]]
      BY <1>1, <3>1, <3>2 DEF TypeOK
    <3> QED  BY <3>1, <3>3 DEF TypeOK
  <2>2. CASE Waiting(st[r], KindOf(r)) # {}
    BY <1>1, <2>2 DEF GiveBack, TypeOK
  <2> QED  BY <2>1, <2>2
<1>3. /\ pc' \in [Req -> Pc]
      /\ \A q \in Req \ {r} : pc'[q] # pc[q] => pc[q] = "wait" /\ pc'[q] = "recheck"
      /\ pc'[r] = "idle"
  <2>1. CASE Waiting(st[r], KindOf(r)) = {}
    BY <2>1 DEF GiveBack, TypeOK, Pc
  <2>2. CASE Waiting(st[r], KindOf(r)) # {}
    <3>1. PICK h \in Waiting(st[r], KindOf(r)) :
              pc' = [pc EXCEPT ![r] = "idle", ![h] = "recheck"]
      BY <2>2 DEF GiveBack
    <3>2. h \in Req /\ h # r /\ pc[h] = "wait"
      BY DEF Waiting, HoldingPc
    <3> QED  BY <3>1, <3>2 DEF TypeOK, Pc, HoldingPc
  <2> QED  BY <2>1, <2>2
<1>4. /\ key' \in [Req -> Origin \cup {None}] /\ st' \in [Req -> 0..MaxObjects]
      /\ report' \in [Req -> [st : 0..MaxObjects, outcome : FailureClass \cup {"Success", "None"}]]
      /\ \A q \in Req \ {r} : key'[q] = key[q] /\ st'[q] = st[q] /\ report'[q] = report[q]
  BY OriginAssumption DEF GiveBack, Forget, TypeOK, NoReport, None
<1> QED
  BY <1>2, <1>3, <1>4 DEF TypeOK, table, history

LEMMA TypeInit == Init => TypeOK
<1> SUFFICES ASSUME Init PROVE TypeOK
  OBVIOUS
<1>1. permits \in [Object -> [Kind -> Nat]]
  BY ConcurrencyTyped DEF Init
<1>2. failures \in [Object -> FailureState]
  BY OriginAssumption DEF Init, FailureState, NewFailures
<1>3. report \in [Req -> [st : 0..MaxObjects, outcome : FailureClass \cup {"Success", "None"}]]
  BY OriginAssumption DEF Init, NoReport, None
<1> QED
  BY <1>1, <1>2, <1>3, OriginAssumption DEF Init, TypeOK, None, Pc, tracked

(* A sweep may begin; taking a permit or opening a circuit goes on record.   *)
LEMMA BeginTyped ==
    ASSUME TypeOK, NEW o, BeginSweep(o)
    PROVE  sweep' \in Sweep
<1>1. tracked \in SUBSET Origin /\ {p \in tracked : Idle(p)} \in SUBSET Origin
  BY DEF tracked
<1> QED  BY <1>1 DEF BeginSweep, NoSweep, Sweep

LEMMA SweepsKeepType ==
    ASSUME TypeOK, NEW r \in Req, Take(r) \/ Note(r)
    PROVE  sweep' \in Sweep \cup {NoSweep}
<1>n. None \notin Origin
  BY OriginAssumption DEF None
<1>w. \A s, S : With(s, S) \subseteq Origin /\ With(s, S) \subseteq S
  BY DEF With, tracked
<1>1. CASE sweep = NoSweep
  <2>1. \A s : With(s, sweep.untouched) = {} /\ With(s, sweep.idle \cup {sweep.entry}) = {}
            /\ With(s, sweep.idle) = {}
    BY <1>1, <1>n DEF With, tracked, NoSweep
  <2>2. CASE Take(r)
    <3>1. sweep' = [sweep EXCEPT !.untouched = {}, !.taken = {}]
      BY <1>1, <2>1, <2>2 DEF Take, NoSweep
    <3> QED  BY <1>1, <3>1 DEF NoSweep
  <2>3. CASE Note(r)
    <3>1. sweep' = [sweep EXCEPT !.untouched = {}, !.opened = {}] \/ sweep' = sweep
      BY <1>1, <2>1, <2>3 DEF Note, NoSweep
    <3> QED  BY <1>1, <3>1 DEF NoSweep
  <2> QED  BY <2>2, <2>3
<1>2. CASE sweep \in Sweep
  <2>1. CASE Take(r)
    <3>1. With(st[r], sweep.idle \cup {sweep.entry}) \subseteq Origin
      BY <1>w
    <3> QED  BY <1>2, <2>1, <3>1 DEF Take, Sweep
  <2>2. CASE Note(r)
    <3>1. With(report[r].st, sweep.idle) \subseteq Origin
      BY <1>w
    <3> QED  BY <1>2, <2>2, <3>1 DEF Note, Sweep
  <2> QED  BY <2>1, <2>2
<1> QED  BY <1>1, <1>2 DEF TypeOK

(* The victims are origins, and the object made for them gets its type.      *)
LEMMA ReplaceTyped ==
    ASSUME TypeOK, NEW r \in Req, Replace(r)
    PROVE  /\ key[r] \in Origin /\ made \in Nat /\ made' = made + 1 /\ made' <= MaxObjects
           /\ states' \in [Origin -> 0..made'] /\ last_access' \in [Origin -> 0..MaxTime]
           /\ forced' \subseteq Origin /\ raced' \subseteq Origin
<1>1. key[r] \in Origin /\ made \in Nat /\ made' = made + 1 /\ made' <= MaxObjects
  BY OriginAssumption DEF Replace, Sweepers, TypeOK
<1>2. Evicted \subseteq Origin
  BY SweepFields DEF Evicted, LeastRecent, tracked
<1>3. states' \in [Origin -> 0..made']
  BY <1>1 DEF Replace, TypeOK, None
<1>4. last_access' \in [Origin -> 0..MaxTime]
  BY <1>1, OriginAssumption DEF Replace, TypeOK
<1> QED  BY <1>1, <1>2, <1>3, <1>4 DEF Replace, TypeOK

LEMMA TypeStep == TypeOK /\ [Next]_vars => TypeOK'
<1> SUFFICES ASSUME TypeOK, [Next]_vars PROVE TypeOK'
  OBVIOUS
<1> USE DEF table, sems, history
<1>o. MaxObjects \in Nat /\ MaxTime \in Nat /\ made \in 0..MaxObjects
  BY OriginAssumption DEF TypeOK
<1>1. ASSUME NEW r \in Req, NEW o \in Origin, LookUp(r, o) PROVE TypeOK'
  <2>1. CASE /\ get_or_create_state(o)
             /\ pc' = [pc EXCEPT ![r] = "check"]
             /\ st' = [st EXCEPT ![r] = states'[o]]
             /\ UNCHANGED sweep
    <3>1. /\ made' \in 0..MaxObjects /\ made <= made'
          /\ states' \in [Origin -> 0..made'] /\ states'[o] \in 1..made'
          /\ last_access' \in [Origin -> 0..MaxTime]
      BY <2>1, <1>o, LookupTyped
    <3>2. /\ pc' \in [Req -> Pc] /\ key' \in [Req -> Origin \cup {None}]
          /\ st' \in [Req -> 0..MaxObjects]
      BY <1>1, <1>o, <2>1, <3>1 DEF LookUp, TypeOK, Pc
    <3>3. \A q \in Req : /\ pc'[q] # "idle" => key'[q] \in Origin
                         /\ pc'[q] \notin {"idle", "make"} => st'[q] \in 1..made'
      BY <1>1, <1>o, <2>1, <3>1 DEF LookUp, TypeOK
    <3>4. \A q \in Req : /\ pc'[q] = "note" => report'[q].st \in 1..made'
                         /\ pc'[q] \in {"remake", "note"} => report'[q].outcome # "None"
      BY <1>1, <1>o, <2>1, <3>1 DEF LookUp, TypeOK
    <3> QED  BY <1>1, <2>1, <3>1, <3>2, <3>3, <3>4 DEF LookUp, TypeOK
  <2>2. CASE BeginSweep(o) /\ pc' = [pc EXCEPT ![r] = "make"] /\ UNCHANGED st
    <3>1. sweep' \in Sweep /\ UNCHANGED table
      BY <2>2, BeginTyped DEF BeginSweep
    <3> QED  BY <1>1, <2>2, <3>1 DEF LookUp, TypeOK, Pc
  <2> QED  BY <1>1, <2>1, <2>2 DEF LookUp
<1>2. ASSUME NEW r \in Req, PassCircuit(r) PROVE TypeOK'
  BY <1>2 DEF PassCircuit, TypeOK, Pc
<1>3. ASSUME NEW r \in Req, RejectAtCircuit(r) PROVE TypeOK'
  BY <1>3, <1>o DEF RejectAtCircuit, Forget, TypeOK, Pc, None, NoReport
<1>4. ASSUME NEW r \in Req, Take(r) PROVE TypeOK'
  <2>1. st[r] \in Object /\ KindOf(r) \in Kind
    BY <1>4, ObjectTyped DEF Take
  <2>2. permits' \in [Object -> [Kind -> Nat]]
    BY <1>4, <2>1 DEF Take, TypeOK
  <2>3. sweep' \in Sweep \cup {NoSweep}
    BY <1>4, SweepsKeepType
  <2> QED  BY <1>4, <2>2, <2>3 DEF Take, TypeOK, Pc, HoldingPc
<1>5. ASSUME NEW r \in Req, Queue(r) PROVE TypeOK'
  <2>1. Waiting(st[r], KindOf(r)) \subseteq Req
    BY DEF Waiting
  <2> QED  BY <1>5, <2>1 DEF Queue, TypeOK, Pc
<1>6. ASSUME NEW r \in Req, Admit(r) PROVE TypeOK'
  BY <1>6 DEF Admit, TypeOK, Pc, HoldingPc
<1>7. ASSUME NEW r \in Req, RejectAfterWait(r) PROVE TypeOK'
  BY <1>7, GiveBackTyped DEF RejectAfterWait, HoldingPc
<1>8. ASSUME NEW r \in Req, TimeOut(r) PROVE TypeOK'
  <2>1. CASE pc[r] = "recheck" /\ GiveBack(r)
    BY <1>8, <2>1, GiveBackTyped DEF TimeOut, HoldingPc
  <2>2. CASE /\ pc[r] \in {"check", "acquire", "wait"}
             /\ pc' = [pc EXCEPT ![r] = "idle"]
             /\ ahead' = [x \in Req |-> IF x = r THEN {} ELSE ahead[x] \ {r}]
             /\ Forget(r)
             /\ UNCHANGED <<permits, sweep>>
    BY <1>8, <1>o, <2>2 DEF TimeOut, Forget, TypeOK, Pc, None, NoReport
  <2>3. CASE /\ pc' = [pc EXCEPT ![r] = "idle"] /\ Forget(r)
             /\ sweep' = NoSweep /\ UNCHANGED sems
    BY <1>8, <1>o, <2>3 DEF TimeOut, Forget, TypeOK, Pc, None, NoReport
  <2> QED  BY <1>8, <2>1, <2>2, <2>3 DEF TimeOut
<1>9. ASSUME NEW r \in Req, NEW class \in FailureClass, RecordFailure(r, class) PROVE TypeOK'
  <2>0. key[r] \in Origin
    BY <1>9 DEF RecordFailure, TypeOK
  <2>1. CASE /\ get_or_create_state(key[r])
             /\ report' = [report EXCEPT ![r] = [st |-> states'[key[r]], outcome |-> class]]
             /\ pc' = [pc EXCEPT ![r] = "note"]
             /\ UNCHANGED sweep
    <3>1. /\ made' \in 0..MaxObjects /\ made <= made'
          /\ states' \in [Origin -> 0..made'] /\ states'[key[r]] \in 1..made'
          /\ last_access' \in [Origin -> 0..MaxTime]
      BY <2>0, <2>1, <1>o, LookupTyped
    <3>2. report' \in [Req -> [st : 0..MaxObjects, outcome : FailureClass \cup {"Success", "None"}]]
      BY <1>9, <1>o, <2>1, <3>1 DEF TypeOK
    <3>3. \A q \in Req : /\ pc'[q] # "idle" => key'[q] \in Origin
                         /\ pc'[q] \notin {"idle", "make"} => st'[q] \in 1..made'
      BY <1>9, <1>o, <2>1, <3>1 DEF RecordFailure, TypeOK
    <3>4. \A q \in Req : /\ pc'[q] = "note" => report'[q].st \in 1..made'
                         /\ pc'[q] \in {"remake", "note"} => report'[q].outcome # "None"
      BY <1>9, <1>o, <2>1, <3>1, OriginAssumption DEF RecordFailure, TypeOK
    <3> QED  BY <1>9, <2>1, <3>1, <3>2, <3>3, <3>4 DEF RecordFailure, TypeOK, Pc, HoldingPc
  <2>2. CASE /\ BeginSweep(key[r])
             /\ report' = [report EXCEPT ![r].outcome = class]
             /\ pc' = [pc EXCEPT ![r] = "remake"]
    <3>1. sweep' \in Sweep /\ UNCHANGED table
      BY <2>2, BeginTyped DEF BeginSweep
    <3>2. /\ report' \in [Req -> [st : 0..MaxObjects, outcome : FailureClass \cup {"Success", "None"}]]
          /\ \A q \in Req : report'[q].st = report[q].st
          /\ report'[r].outcome # "None"
          /\ \A q \in Req \ {r} : report'[q] = report[q]
      BY <2>2, <1>9, OriginAssumption DEF TypeOK
    <3> QED  BY <1>9, <2>2, <3>1, <3>2 DEF RecordFailure, TypeOK, Pc, HoldingPc
  <2> QED  BY <1>9, <2>1, <2>2 DEF RecordFailure
<1>10. ASSUME NEW r \in Req, RecordSuccess(r) PROVE TypeOK'
  <2>1. CASE key[r] \notin tracked /\ pc' = [pc EXCEPT ![r] = "noted"] /\ UNCHANGED report
    BY <1>10, <2>1 DEF RecordSuccess, TypeOK, Pc, HoldingPc
  <2>2. CASE /\ key[r] \in tracked /\ pc' = [pc EXCEPT ![r] = "note"]
             /\ report' = [report EXCEPT ![r] = [st |-> states[key[r]], outcome |-> "Success"]]
    <3>1. states[key[r]] \in 1..made
      BY <2>2, <1>o DEF tracked, TypeOK, None
    <3>2. report' \in [Req -> [st : 0..MaxObjects, outcome : FailureClass \cup {"Success", "None"}]]
      BY <2>2, <3>1, <1>o DEF TypeOK
    <3>3. \A q \in Req : /\ pc'[q] = "note" => report'[q].st \in 1..made
                         /\ pc'[q] \in {"remake", "note"} => report'[q].outcome # "None"
      BY <2>2, <3>1 DEF TypeOK
    <3> QED  BY <1>10, <2>2, <3>2, <3>3 DEF RecordSuccess, TypeOK, Pc, HoldingPc
  <2> QED  BY <1>10, <2>1, <2>2 DEF RecordSuccess
<1>11. ASSUME NEW r \in Req, Note(r) PROVE TypeOK'
  <2>1. report[r].st \in Object /\ report[r].outcome \in {"Success", "Retryable", "NonRetryable"}
    <3>1. report[r].outcome \in FailureClass \cup {"Success", "None"} /\ report[r].outcome # "None"
      BY <1>11 DEF Note, TypeOK
    <3>2. report[r].st \in Object
      BY <1>11, <1>o DEF Note, TypeOK, Object
    <3> QED  BY <3>1, <3>2, OriginAssumption
  <2>2. ASSUME NEW f \in FailureState, NEW outcome \in {"Success", "Retryable", "NonRetryable"}
        PROVE  Noted(f, outcome) \in FailureState
    <3>1. CASE outcome = "Success"
      BY <3>1, OriginAssumption DEF Noted, FailureState, NewFailures
    <3>2. CASE outcome = "NonRetryable"
      BY <3>2, OriginAssumption DEF Noted, FailureState
    <3>3. CASE outcome = "Retryable"
      <4> DEFINE n == IF f.count < U8_MAX THEN f.count + 1 ELSE f.count
      <4>1. n \in 0..U8_MAX /\ now + circuit_duration \in Nat
        BY OriginAssumption DEF FailureState, TypeOK
      <4> HIDE DEF n
      <4>2. CASE n < circuit_failure_threshold
        <5>1. Noted(f, outcome) = [f EXCEPT !.count = n]
          BY <3>3, <4>1, <4>2, OriginAssumption DEF Noted, n
        <5> QED  BY <4>1, <5>1 DEF FailureState
      <4>3. CASE n >= circuit_failure_threshold
        <5>1. Noted(f, outcome) = [count |-> n, open_until |-> now + circuit_duration]
          BY <3>3, <4>1, <4>3, OriginAssumption DEF Noted, n
        <5> QED  BY <4>1, <5>1 DEF FailureState
      <4> QED  BY <4>1, <4>2, <4>3, OriginAssumption
    <3> QED  BY <3>1, <3>2, <3>3
  <2>3. failures' \in [Object -> FailureState]
    BY <1>11, <2>1, <2>2 DEF Note, TypeOK
  <2>4. report' \in [Req -> [st : 0..MaxObjects, outcome : FailureClass \cup {"Success", "None"}]]
    BY <1>11, <1>o DEF Note, TypeOK, NoReport, None
  <2>5. \A q \in Req : pc'[q] = "note" => pc[q] = "note" /\ report'[q] = report[q]
    BY <1>11 DEF Note, TypeOK
  <2>6. \A q \in Req : pc'[q] = "remake" => pc[q] = "remake" /\ report'[q] = report[q]
    BY <1>11 DEF Note, TypeOK
  <2>7. sweep' \in Sweep \cup {NoSweep}
    BY <1>11, SweepsKeepType
  <2> QED  BY <1>11, <2>3, <2>4, <2>5, <2>6, <2>7 DEF Note, TypeOK, Pc, HoldingPc
<1>12. ASSUME NEW r \in Req, NextHop(r) PROVE TypeOK'
  BY <1>12 DEF NextHop, TypeOK, Pc, HoldingPc
<1>13. ASSUME NEW r \in Req, Release(r) PROVE TypeOK'
  BY <1>13, GiveBackTyped DEF Release, HoldingPc
<1>14. ASSUME Tick PROVE TypeOK'
  BY <1>14, <1>o DEF Tick, TypeOK, reqs
<1>15. ASSUME UNCHANGED vars PROVE TypeOK'
  BY <1>15 DEF vars, reqs, TypeOK
<1>16. ASSUME NEW r \in Req, See(r) PROVE TypeOK'
  BY <1>16, SeeTyped DEF See, reqs, TypeOK
<1>17. ASSUME NEW r \in Req, Replace(r) PROVE TypeOK'
  <2>1. /\ made' \in 0..MaxObjects /\ made <= made' /\ made' \in 1..made'
        /\ states' \in [Origin -> 0..made'] /\ last_access' \in [Origin -> 0..MaxTime]
        /\ forced' \subseteq Origin /\ raced' \subseteq Origin
    BY <1>17, <1>o, ReplaceTyped
  <2>2. CASE /\ pc[r] = "make" /\ pc' = [pc EXCEPT ![r] = "check"]
             /\ st' = [st EXCEPT ![r] = made'] /\ UNCHANGED report
    <3>1. st' \in [Req -> 0..MaxObjects] /\ pc' \in [Req -> Pc]
      BY <1>o, <2>1, <2>2 DEF TypeOK, Pc
    <3>2. \A q \in Req : /\ pc'[q] # "idle" => key'[q] \in Origin
                         /\ pc'[q] \notin {"idle", "make"} => st'[q] \in 1..made'
                         /\ pc'[q] = "note" => report'[q].st \in 1..made'
                         /\ pc'[q] \in {"remake", "note"} => report'[q].outcome # "None"
      BY <1>17, <1>o, <2>1, <2>2 DEF Replace, TypeOK
    <3> QED  BY <1>17, <2>1, <2>2, <3>1, <3>2 DEF Replace, TypeOK
  <2>3. CASE /\ pc[r] = "remake" /\ pc' = [pc EXCEPT ![r] = "note"]
             /\ report' = [report EXCEPT ![r].st = made'] /\ UNCHANGED st
    <3>1. /\ report' \in [Req -> [st : 0..MaxObjects, outcome : FailureClass \cup {"Success", "None"}]]
          /\ pc' \in [Req -> Pc]
      BY <1>o, <2>1, <2>3 DEF TypeOK, Pc, HoldingPc
    <3>2. \A q \in Req : /\ pc'[q] # "idle" => key'[q] \in Origin
                         /\ pc'[q] \notin {"idle", "make"} => st'[q] \in 1..made'
                         /\ pc'[q] = "note" => report'[q].st \in 1..made'
                         /\ pc'[q] \in {"remake", "note"} => report'[q].outcome # "None"
      BY <1>17, <1>o, <2>1, <2>3 DEF Replace, TypeOK
    <3> QED  BY <1>17, <2>1, <2>3, <3>1, <3>2 DEF Replace, TypeOK
  <2> QED  BY <1>17, <2>2, <2>3 DEF Replace
<1> QED
  BY <1>1, <1>2, <1>3, <1>4, <1>5, <1>6, <1>7, <1>8, <1>9, <1>10, <1>11, <1>12, <1>13, <1>14, <1>15,
     <1>16, <1>17
  DEF Next, Acquire, Report

(* The variables keep their types; requests in flight have an object.       *)
THEOREM TypeCorrect == Spec => []TypeOK
  BY TypeInit, TypeStep, PTL DEF Spec

-----------------------------------------------------------------------------
(* Permits are conserved.                                                   *)

LEMMA HoldersFinite ==
    ASSUME NEW s, NEW k
    PROVE  IsFiniteSet(Holders(s, k)) /\ Cardinality(Holders(s, k)) \in Nat
<1>1. Holders(s, k) \subseteq Req
  BY DEF Holders
<1> QED  BY <1>1, FS_Subset, FS_CardinalityType, OriginAssumption

(* A step that moves no permit and queues nobody keeps the accounts.        *)
LEMMA UnmovedAccounts ==
    ASSUME PermitAccounting, UNCHANGED permits,
           \A s \in Object, k \in Kind :
               Holders(s, k)' = Holders(s, k) /\ Waiting(s, k)' \subseteq Waiting(s, k)
    PROVE  PermitAccounting'
  BY DEF PermitAccounting

(* A dropped permit returns to its semaphore or moves to a waiter of it.    *)
LEMMA GiveBackAccounts ==
    ASSUME TypeOK, PermitAccounting, NEW r \in Req, pc[r] \in HoldingPc, GiveBack(r)
    PROVE  PermitAccounting'
<1>0. st[r] \in Object /\ KindOf(r) \in Kind
  BY ObjectTyped DEF HoldingPc
<1>1. PICK s0 \in Object, k0 \in Kind : s0 = st[r] /\ k0 = KindOf(r)
  BY <1>0
<1>2. r \in Holders(s0, k0)
  BY <1>1 DEF Holders
<1>3. st' = [st EXCEPT ![r] = None] /\ st \in [Req -> 0..MaxObjects] /\ pc \in [Req -> Pc]
  BY DEF GiveBack, Forget, TypeOK
<1>4. CASE Waiting(s0, k0) = {}
  <2>1. pc' = [pc EXCEPT ![r] = "idle"] /\ permits' = [permits EXCEPT ![s0][k0] = @ + 1]
    BY <1>1, <1>4 DEF GiveBack
  <2>2. ASSUME NEW s \in Object, NEW k \in Kind
        PROVE  /\ Waiting(s, k)' = Waiting(s, k)
               /\ Holders(s, k)' = Holders(s, k) \ {r}
    BY <1>3, <2>1 DEF Waiting, Holders, HoldingPc
  <2>3. ASSUME NEW s \in Object, NEW k \in Kind
        PROVE  /\ permits'[s][k] + Cardinality(Holders(s, k)') = Concurrency[k]
               /\ Waiting(s, k)' # {} => permits'[s][k] = 0
    <3>1. CASE s = s0 /\ k = k0
      <4>1. Cardinality(Holders(s, k)') = Cardinality(Holders(s, k)) - 1
        BY <1>2, <2>2, <3>1, HoldersFinite, FS_RemoveElement
      <4>2. permits[s][k] \in Nat /\ permits'[s][k] = permits[s][k] + 1
        BY <1>1, <2>1, <3>1 DEF TypeOK
      <4>3. permits[s][k] + Cardinality(Holders(s, k)) = Concurrency[k]
        BY DEF PermitAccounting
      <4>4. Waiting(s, k)' = {}
        BY <1>4, <2>2, <3>1
      <4> QED  BY <4>1, <4>2, <4>3, <4>4, HoldersFinite
    <3>2. CASE ~(s = s0 /\ k = k0)
      <4>1. r \notin Holders(s, k)
        BY <1>1, <3>2 DEF Holders
      <4>2. Holders(s, k)' = Holders(s, k)
        BY <2>2, <4>1
      <4>3. permits'[s][k] = permits[s][k]
        BY <1>1, <2>1, <3>2 DEF TypeOK
      <4> QED  BY <2>2, <4>2, <4>3 DEF PermitAccounting
    <3> QED  BY <3>1, <3>2
  <2> QED  BY <2>3 DEF PermitAccounting
<1>5. CASE Waiting(s0, k0) # {}
  <2>1. PICK h \in Waiting(s0, k0) :
            pc' = [pc EXCEPT ![r] = "idle", ![h] = "recheck"] /\ permits' = permits
    BY <1>1, <1>5 DEF GiveBack
  <2>2. h \in Req /\ h # r /\ pc[h] = "wait" /\ st[h] = s0 /\ KindOf(h) = k0
    BY <1>1 DEF Waiting, HoldingPc
  <2>3. ASSUME NEW s \in Object, NEW k \in Kind
        PROVE  Waiting(s, k)' \subseteq Waiting(s, k)
    BY <1>3, <2>1, <2>2 DEF Waiting
  <2>4. ASSUME NEW s \in Object, NEW k \in Kind, ~(s = s0 /\ k = k0)
        PROVE  Holders(s, k)' = Holders(s, k)
    BY <1>1, <1>3, <2>1, <2>2, <2>4 DEF Holders, HoldingPc
  <2>5. Holders(s0, k0)' = (Holders(s0, k0) \ {r}) \cup {h}
    <3>1. \A q \in Req : st'[q] = s0 <=> q # r /\ st[q] = s0
      BY <1>1, <1>3 DEF None, Object
    <3>2. \A q \in Req : q \in Holders(s0, k0)' <=> q \in (Holders(s0, k0) \ {r}) \cup {h}
      BY <1>3, <2>1, <2>2, <3>1 DEF Holders, HoldingPc
    <3> QED  BY <2>2, <3>2 DEF Holders
  <2>6. Cardinality((Holders(s0, k0) \ {r}) \cup {h}) = Cardinality(Holders(s0, k0))
    <3>0. h \notin Holders(s0, k0)
      BY <2>2 DEF Holders, HoldingPc
    <3>1. h \notin Holders(s0, k0) \ {r} /\ IsFiniteSet(Holders(s0, k0) \ {r})
      BY <3>0, HoldersFinite, FS_RemoveElement
    <3>2. Cardinality(Holders(s0, k0) \ {r}) = Cardinality(Holders(s0, k0)) - 1
      BY <1>2, HoldersFinite, FS_RemoveElement
    <3>3. Cardinality((Holders(s0, k0) \ {r}) \cup {h}) = Cardinality(Holders(s0, k0) \ {r}) + 1
      BY <3>1, FS_AddElement
    <3> QED  BY <3>2, <3>3, HoldersFinite
  <2> QED  BY <2>1, <2>3, <2>4, <2>5, <2>6 DEF PermitAccounting
<1> QED  BY <1>4, <1>5

LEMMA AccountsInit == Init => PermitAccounting
<1> SUFFICES ASSUME Init, NEW s \in Object, NEW k \in Kind
             PROVE  /\ permits[s][k] + Cardinality(Holders(s, k)) = Concurrency[k]
                    /\ Waiting(s, k) # {} => permits[s][k] = 0
  BY DEF PermitAccounting
<1>1. Holders(s, k) = {} /\ Waiting(s, k) = {}
  BY DEF Init, Holders, Waiting, HoldingPc
<1>2. permits[s][k] = Concurrency[k] /\ Concurrency[k] \in Nat
  BY ConcurrencyTyped DEF Init
<1> QED  BY <1>1, <1>2, FS_EmptySet

LEMMA AccountsStep == TypeOK /\ PermitAccounting /\ [Next]_vars => PermitAccounting'
<1> SUFFICES ASSUME TypeOK, PermitAccounting, [Next]_vars PROVE PermitAccounting'
  OBVIOUS
<1> USE DEF table, sems, history
<1>1. ASSUME NEW r \in Req, NEW o \in Origin, LookUp(r, o) PROVE PermitAccounting'
  <2>1. \A s \in Object, k \in Kind : Holders(s, k)' = Holders(s, k) /\ Waiting(s, k)' = Waiting(s, k)
    BY <1>1 DEF LookUp, Holders, Waiting, HoldingPc, TypeOK
  <2> QED  BY <1>1, <2>1, UnmovedAccounts DEF LookUp
<1>2. ASSUME NEW r \in Req, PassCircuit(r) \/ RejectAtCircuit(r) PROVE PermitAccounting'
  <2>1. \A s \in Object, k \in Kind : Holders(s, k)' = Holders(s, k) /\ Waiting(s, k)' = Waiting(s, k)
    BY <1>2 DEF PassCircuit, RejectAtCircuit, Forget, Holders, Waiting, HoldingPc, TypeOK
  <2> QED  BY <1>2, <2>1, UnmovedAccounts DEF PassCircuit, RejectAtCircuit
<1>3. ASSUME NEW r \in Req, Take(r) PROVE PermitAccounting'
  <2>0. st[r] \in Object /\ KindOf(r) \in Kind
    BY <1>3, ObjectTyped DEF Take
  <2>1. PICK s0 \in Object, k0 \in Kind : s0 = st[r] /\ k0 = KindOf(r)
    BY <2>0
  <2>2. permits[s0][k0] > 0 /\ permits' = [permits EXCEPT ![s0][k0] = @ - 1]
    BY <1>3, <2>1 DEF Take
  <2>3. \A s \in Object, k \in Kind : Waiting(s, k)' = Waiting(s, k)
    BY <1>3 DEF Take, Waiting, TypeOK
  <2>4. \A s \in Object, k \in Kind : ~(s = s0 /\ k = k0) => Holders(s, k)' = Holders(s, k)
    BY <1>3, <2>1 DEF Take, Holders, HoldingPc, TypeOK
  <2>5. Holders(s0, k0)' = Holders(s0, k0) \cup {r} /\ r \notin Holders(s0, k0)
    BY <1>3, <2>1 DEF Take, Holders, HoldingPc, TypeOK
  <2>6. ASSUME NEW s \in Object, NEW k \in Kind
        PROVE  /\ permits'[s][k] + Cardinality(Holders(s, k)') = Concurrency[k]
               /\ Waiting(s, k)' # {} => permits'[s][k] = 0
    <3>1. CASE s = s0 /\ k = k0
      <4>1. Cardinality(Holders(s, k)') = Cardinality(Holders(s, k)) + 1
        BY <2>5, <3>1, HoldersFinite, FS_AddElement
      <4>2. permits[s][k] \in Nat /\ permits'[s][k] = permits[s][k] - 1
        BY <2>2, <3>1 DEF TypeOK
      <4>3. permits[s][k] + Cardinality(Holders(s, k)) = Concurrency[k]
        BY DEF PermitAccounting
      <4>4. Waiting(s, k)' = {}
        BY <2>2, <2>3, <3>1 DEF PermitAccounting
      <4> QED  BY <4>1, <4>2, <4>3, <4>4, HoldersFinite
    <3>2. CASE ~(s = s0 /\ k = k0)
      <4>1. permits'[s][k] = permits[s][k]
        BY <2>2, <3>2 DEF TypeOK
      <4> QED  BY <2>3, <2>4, <3>2, <4>1 DEF PermitAccounting
    <3> QED  BY <3>1, <3>2
  <2> QED  BY <2>6 DEF PermitAccounting
<1>4. ASSUME NEW r \in Req, Queue(r) PROVE PermitAccounting'
  <2>1. \A s \in Object, k \in Kind :
            /\ Holders(s, k)' = Holders(s, k)
            /\ Waiting(s, k)' # Waiting(s, k) => s = st[r] /\ k = KindOf(r)
    BY <1>4 DEF Queue, Holders, Waiting, HoldingPc, TypeOK
  <2> QED  BY <1>4, <2>1 DEF Queue, PermitAccounting
<1>5. ASSUME NEW r \in Req,
             Admit(r) \/ Note(r) \/ NextHop(r) \/ RecordSuccess(r)
               \/ \E class \in FailureClass : RecordFailure(r, class)
      PROVE PermitAccounting'
  <2>1. /\ pc[r] \in HoldingPc /\ permits' = permits /\ st' = st
        /\ \E p \in HoldingPc : pc' = [pc EXCEPT ![r] = p]
    BY <1>5 DEF Admit, Note, NextHop, RecordSuccess, RecordFailure, HoldingPc
  <2>2. \A s \in Object, k \in Kind : Holders(s, k)' = Holders(s, k) /\ Waiting(s, k)' = Waiting(s, k)
    BY <2>1 DEF Holders, Waiting, HoldingPc, TypeOK
  <2> QED  BY <2>1, <2>2, UnmovedAccounts
<1>6. ASSUME NEW r \in Req, RejectAfterWait(r) \/ Release(r) PROVE PermitAccounting'
  BY <1>6, GiveBackAccounts DEF RejectAfterWait, Release, HoldingPc
<1>7. ASSUME NEW r \in Req, TimeOut(r) PROVE PermitAccounting'
  <2>1. CASE pc[r] = "recheck" /\ GiveBack(r)
    BY <2>1, GiveBackAccounts DEF HoldingPc
  <2>2. CASE /\ pc[r] \in {"check", "acquire", "wait"}
             /\ pc' = [pc EXCEPT ![r] = "idle"]
             /\ ahead' = [x \in Req |-> IF x = r THEN {} ELSE ahead[x] \ {r}]
             /\ Forget(r)
             /\ UNCHANGED <<permits, sweep>>
    <3>1. \A s \in Object, k \in Kind :
              Holders(s, k)' = Holders(s, k) /\ Waiting(s, k)' \subseteq Waiting(s, k)
      BY <2>2 DEF Forget, Holders, Waiting, HoldingPc, TypeOK
    <3> QED  BY <2>2, <3>1, UnmovedAccounts
  <2>3. CASE /\ pc[r] = "make" /\ pc' = [pc EXCEPT ![r] = "idle"] /\ Forget(r) /\ UNCHANGED sems
    <3>1. \A s \in Object, k \in Kind :
              Holders(s, k)' = Holders(s, k) /\ Waiting(s, k)' = Waiting(s, k)
      BY <2>3 DEF Forget, Holders, Waiting, HoldingPc, TypeOK
    <3> QED  BY <2>3, <3>1, UnmovedAccounts
  <2> QED  BY <1>7, <2>1, <2>2, <2>3 DEF TimeOut
<1>8. ASSUME \/ Tick \/ UNCHANGED vars \/ \E r \in Req : See(r)
      PROVE  PermitAccounting'
  BY <1>8 DEF Tick, See, vars, reqs, PermitAccounting, Holders, Waiting
<1>9. ASSUME NEW r \in Req, Replace(r) PROVE PermitAccounting'
  <2>1. \A s \in Object, k \in Kind : Holders(s, k)' = Holders(s, k) /\ Waiting(s, k)' = Waiting(s, k)
    <3>1. CASE pc[r] = "make" /\ pc' = [pc EXCEPT ![r] = "check"] /\ st' = [st EXCEPT ![r] = made']
      BY <3>1 DEF Holders, Waiting, HoldingPc, TypeOK
    <3>2. CASE pc[r] = "remake" /\ pc' = [pc EXCEPT ![r] = "note"] /\ UNCHANGED st
      BY <3>2 DEF Holders, Waiting, HoldingPc, TypeOK
    <3> QED  BY <1>9, <3>1, <3>2 DEF Replace
  <2> QED  BY <1>9, <2>1, UnmovedAccounts DEF Replace
<1> QED
  BY <1>1, <1>2, <1>3, <1>4, <1>5, <1>6, <1>7, <1>8, <1>9 DEF Next, Acquire, Report

(* Through time-outs, rejections, grants and evictions, free permits and    *)
(* permits in use always add up, and nobody waits beside a free permit.     *)
THEOREM PermitsConserved == Spec => []PermitAccounting
<1>1. Init => TypeOK /\ PermitAccounting
  BY TypeInit, AccountsInit
<1>2. TypeOK /\ PermitAccounting /\ [Next]_vars => (TypeOK /\ PermitAccounting)'
  BY TypeStep, AccountsStep
<1> QED  BY <1>1, <1>2, PTL DEF Spec

-----------------------------------------------------------------------------
(* The sweep.  Whoever searches the table has its mutex and needs an object *)
(* for an origin that is not in it.                                         *)

SweepOwned ==
    /\ \A r, q \in Sweepers : r = q
    /\ sweep # NoSweep <=> Sweepers # {}
    /\ \A r \in Sweepers : key[r] \notin tracked

(* What a sweep has read of an entry still holds, unless it was overtaken.   *)
Free(o, k) == o \in sweep.taken \/ AllFree(o, k)

SweepRead ==
    /\ sweep.unread \subseteq tracked /\ sweep.idle \subseteq tracked
    /\ sweep.unread \cap sweep.idle = {}
    /\ sweep.untouched \subseteq sweep.unread \cup sweep.idle
    /\ \A o \in sweep.untouched : Idle(o)
    /\ sweep.stage \in {"browser", "circuit"} =>
         sweep.entry \in sweep.unread /\ Free(sweep.entry, "http")
    /\ sweep.stage = "circuit" => Free(sweep.entry, "browser")
    /\ \A o \in sweep.idle :
         /\ \A k \in Kind : Free(o, k)
         /\ o \in sweep.opened \/ ~CircuitOpen(states[o])

LEMMA SweepInit == Init => SweepOwned /\ SweepRead
  BY DEF Init, SweepOwned, SweepRead, Sweepers, tracked, NoSweep

(* A step that leaves the table and those who search it alone.              *)
LEMMA OwnedKept ==
    ASSUME SweepOwned, UNCHANGED states, sweep' # NoSweep <=> sweep # NoSweep,
           \A r \in Req : pc'[r] \in {"make", "remake"} <=> pc[r] \in {"make", "remake"},
           \A r \in Sweepers : key'[r] = key[r]
    PROVE  SweepOwned'
<1>1. Sweepers' = Sweepers /\ tracked' = tracked
  BY DEF Sweepers, tracked
<1> QED  BY <1>1 DEF SweepOwned

LEMMA BeginOwned ==
    ASSUME TypeOK, SweepOwned, TableFree, NEW r \in Req, BeginSweep(key'[r]), UNCHANGED states,
           NEW p \in {"make", "remake"}, pc' = [pc EXCEPT ![r] = p]
    PROVE  SweepOwned'
<1>1. Sweepers = {}
  BY DEF SweepOwned, TableFree
<1>2. Sweepers' = {r}
  BY <1>1 DEF Sweepers, TypeOK
<1>3. tracked' = tracked /\ key'[r] \notin tracked /\ sweep'.stage = "http"
  BY DEF BeginSweep, tracked, NoSweep
<1>4. sweep' # NoSweep
  BY <1>3 DEF NoSweep
<1> QED  BY <1>2, <1>3, <1>4 DEF SweepOwned

LEMMA NobodySweeps ==
    ASSUME TypeOK, SweepOwned, NEW r \in Req, NEW p \in Pc \ {"make", "remake"},
           pc' = [pc EXCEPT ![r] = p], TableFree \/ r \in Sweepers, sweep' = NoSweep
    PROVE  SweepOwned'
<1>1. Sweepers \subseteq {r}
  BY DEF SweepOwned, TableFree
<1>2. Sweepers' = {}
  BY <1>1 DEF Sweepers, TypeOK
<1> QED  BY <1>2 DEF SweepOwned

LEMMA GiveBackSearches ==
    ASSUME TypeOK, NEW r \in Req, GiveBack(r), pc[r] \in HoldingPc \ {"remake"}
    PROVE  /\ \A q \in Req : pc'[q] \in {"make", "remake"} <=> pc[q] \in {"make", "remake"}
           /\ \A q \in Sweepers : key'[q] = key[q]
<1>1. \A q \in Req \ {r} : key'[q] = key[q]
  BY DEF GiveBack, Forget, TypeOK
<1>2. \A q \in Req : pc'[q] \in {"make", "remake"} <=> pc[q] \in {"make", "remake"}
  <2>1. CASE Waiting(st[r], KindOf(r)) = {}
    BY <2>1 DEF GiveBack, TypeOK, HoldingPc
  <2>2. CASE Waiting(st[r], KindOf(r)) # {}
    <3>1. PICK h \in Waiting(st[r], KindOf(r)) :
              pc' = [pc EXCEPT ![r] = "idle", ![h] = "recheck"]
      BY <2>2 DEF GiveBack
    <3>2. h \in Req /\ h # r /\ pc[h] = "wait"
      BY DEF Waiting, HoldingPc
    <3> QED  BY <3>1, <3>2 DEF TypeOK, HoldingPc
  <2> QED  BY <2>1, <2>2
<1> QED  BY <1>1, <1>2 DEF Sweepers, HoldingPc

LEMMA OwnedStep == TypeOK /\ TypeOK' /\ SweepOwned /\ [Next]_vars => SweepOwned'
<1> SUFFICES ASSUME TypeOK, TypeOK', SweepOwned, [Next]_vars PROVE SweepOwned'
  OBVIOUS
<1> USE DEF table, sems, history
<1>1. ASSUME NEW r \in Req, NEW o \in Origin, LookUp(r, o) PROVE SweepOwned'
  <2>1. CASE BeginSweep(o) /\ pc' = [pc EXCEPT ![r] = "make"]
    <3>1. key'[r] = o
      BY <1>1 DEF LookUp, TypeOK
    <3> QED  BY <1>1, <2>1, <3>1, BeginOwned DEF LookUp, BeginSweep
  <2>2. CASE pc' = [pc EXCEPT ![r] = "check"] /\ UNCHANGED sweep
    <3>1. "check" \in Pc \ {"make", "remake"}
      BY DEF Pc
    <3> QED  BY <1>1, <2>2, <3>1, NobodySweeps DEF LookUp, TableFree
  <2> QED  BY <1>1, <2>1, <2>2 DEF LookUp
<1>2. ASSUME NEW r \in Req, NEW class \in FailureClass, RecordFailure(r, class)
      PROVE  SweepOwned'
  <2>1. CASE BeginSweep(key[r]) /\ pc' = [pc EXCEPT ![r] = "remake"]
    BY <1>2, <2>1, BeginOwned DEF RecordFailure, BeginSweep
  <2>2. CASE pc' = [pc EXCEPT ![r] = "note"] /\ UNCHANGED sweep
    <3>1. "note" \in Pc \ {"make", "remake"}
      BY DEF Pc, HoldingPc
    <3> QED  BY <1>2, <2>2, <3>1, NobodySweeps DEF RecordFailure, TableFree
  <2> QED  BY <1>2, <2>1, <2>2 DEF RecordFailure
<1>3. ASSUME NEW r \in Req, Replace(r) PROVE SweepOwned'
  <2>1. \E p \in {"check", "note"} : pc' = [pc EXCEPT ![r] = p]
    BY <1>3 DEF Replace
  <2>2. r \in Sweepers /\ sweep' = NoSweep
    BY <1>3 DEF Replace
  <2> QED  BY <2>1, <2>2, NobodySweeps DEF Pc, HoldingPc
<1>4. ASSUME NEW r \in Req, See(r) PROVE SweepOwned'
  <2>1. sweep # NoSweep
    BY <1>4 DEF See, SweepOwned
  <2>2. sweep' # NoSweep
    <3>1. sweep' \in Sweep
      BY <1>4, SeeTyped
    <3>2. sweep'.stage # "none"
      BY <3>1 DEF Sweep
    <3> QED  BY <3>2 DEF NoSweep
  <2> QED  BY <1>4, <2>1, <2>2, OwnedKept DEF See, reqs
<1>5. ASSUME NEW r \in Req, Take(r) \/ Note(r) PROVE SweepOwned'
  <2>1. sweep'.stage = sweep.stage
    <3>1. sweep \in Sweep \cup {NoSweep}
      BY DEF TypeOK
    <3>2. CASE Take(r)
      BY <3>1, <3>2 DEF Take, Sweep, NoSweep
    <3>3. CASE Note(r)
      BY <3>1, <3>3 DEF Note, Sweep, NoSweep
    <3> QED  BY <1>5, <3>2, <3>3
  <2>2. /\ sweep = NoSweep <=> sweep.stage = "none"
        /\ sweep' = NoSweep <=> sweep'.stage = "none"
    BY DEF TypeOK, Sweep, NoSweep
  <2>3. /\ UNCHANGED <<states, key>>
        /\ \A q \in Req : pc'[q] \in {"make", "remake"} <=> pc[q] \in {"make", "remake"}
    BY <1>5 DEF Take, Note, TypeOK
  <2> QED  BY <2>1, <2>2, <2>3, OwnedKept
<1>6. ASSUME NEW r \in Req,
             PassCircuit(r) \/ RejectAtCircuit(r) \/ Queue(r) \/ Admit(r) \/ RecordSuccess(r)
               \/ NextHop(r)
      PROVE  SweepOwned'
  <2>1. /\ UNCHANGED <<states, sweep>> /\ \A q \in Sweepers : key'[q] = key[q]
        /\ \A q \in Req : pc'[q] \in {"make", "remake"} <=> pc[q] \in {"make", "remake"}
    BY <1>6 DEF PassCircuit, RejectAtCircuit, Queue, Admit, RecordSuccess, NextHop, Forget,
                Sweepers, TypeOK
  <2> QED  BY <2>1, OwnedKept
<1>7. ASSUME NEW r \in Req, pc[r] \in HoldingPc \ {"remake"}, GiveBack(r),
             UNCHANGED <<states, sweep>>
      PROVE  SweepOwned'
  BY <1>7, GiveBackSearches, OwnedKept
<1>8. ASSUME NEW r \in Req, RejectAfterWait(r) \/ Release(r) PROVE SweepOwned'
  BY <1>7, <1>8 DEF RejectAfterWait, Release, HoldingPc
<1>9. ASSUME NEW r \in Req, TimeOut(r) PROVE SweepOwned'
  <2>1. CASE pc[r] = "recheck" /\ GiveBack(r) /\ UNCHANGED sweep
    BY <1>7, <1>9, <2>1 DEF TimeOut, HoldingPc
  <2>2. CASE /\ pc[r] \in {"check", "acquire", "wait"} /\ pc' = [pc EXCEPT ![r] = "idle"]
             /\ Forget(r) /\ UNCHANGED sweep
    <3>1. /\ \A q \in Sweepers : key'[q] = key[q]
          /\ \A q \in Req : pc'[q] \in {"make", "remake"} <=> pc[q] \in {"make", "remake"}
      BY <2>2 DEF Forget, Sweepers, TypeOK
    <3> QED  BY <1>9, <2>2, <3>1, OwnedKept DEF TimeOut
  <2>3. CASE pc[r] = "make" /\ pc' = [pc EXCEPT ![r] = "idle"] /\ sweep' = NoSweep
    <3>1. r \in Sweepers /\ "idle" \in Pc \ {"make", "remake"}
      BY <2>3 DEF Sweepers, Pc
    <3> QED  BY <2>3, <3>1, NobodySweeps
  <2> QED  BY <1>9, <2>1, <2>2, <2>3 DEF TimeOut
<1>10. ASSUME Tick \/ UNCHANGED vars PROVE SweepOwned'
  BY <1>10, OwnedKept DEF Tick, vars, reqs
<1> QED
  BY <1>1, <1>2, <1>3, <1>4, <1>5, <1>6, <1>8, <1>9, <1>10 DEF Next, Acquire, Report

(* A step that takes no permit, opens no circuit and does not search.       *)
LEMMA ReadKept ==
    ASSUME TypeOK, TypeOK', SweepRead, UNCHANGED <<states, failures, sweep>>, now <= now',
           \A s \in Object, k \in Kind : permits'[s][k] >= permits[s][k]
    PROVE  SweepRead'
<1>1. tracked' = tracked
  BY DEF tracked
<1>2. \A o \in tracked, k \in Kind : AllFree(o, k) => AllFree(o, k)'
  <2>1. ASSUME NEW o \in tracked, NEW k \in Kind, AllFree(o, k) PROVE AllFree(o, k)'
    <3>1. states[o] \in Object
      BY OriginAssumption DEF tracked, TypeOK, None, Object
    <3>2. permits[states[o]][k] \in Nat /\ Concurrency[k] \in Nat
      BY <3>1, ConcurrencyTyped DEF TypeOK
    <3>3. permits'[states[o]][k] >= permits[states[o]][k]
      BY <3>1
    <3>4. permits'[states[o]][k] \in Nat
      BY <3>1 DEF TypeOK
    <3>5. UNCHANGED states /\ Concurrency' = Concurrency
      BY DEF Concurrency
    <3> QED  BY <2>1, <3>2, <3>3, <3>4, <3>5 DEF AllFree
  <2> QED  BY <2>1
<1>3. \A o \in tracked : ~CircuitOpen(states[o]) => ~CircuitOpen(states[o])'
  <2>1. ASSUME NEW o \in tracked PROVE failures[states[o]].open_until \in Nat
    BY OriginAssumption DEF tracked, TypeOK, None, Object, FailureState
  <2> QED  BY <2>1 DEF CircuitOpen, TypeOK
<1>4. \A o \in tracked : Idle(o) => Idle(o)'
  BY <1>2, <1>3 DEF Idle, AllFree
<1>5. \A o \in tracked, k \in Kind : Free(o, k) => Free(o, k)'
  BY <1>2 DEF Free
<1>6. sweep.stage \in {"browser", "circuit"} => sweep.entry \in tracked
  BY DEF SweepRead
<1>7. "http" \in Kind /\ "browser" \in Kind
  BY DEF Kind
<1> QED  BY <1>1, <1>3, <1>4, <1>5, <1>6, <1>7 DEF SweepRead

LEMMA NothingRead == ASSUME sweep' = NoSweep PROVE SweepRead'
  BY DEF SweepRead, NoSweep

LEMMA BeginRead ==
    ASSUME NEW o, BeginSweep(o), UNCHANGED <<permits, failures, now>>
    PROVE  SweepRead'
<1>1. tracked' = tracked /\ \A p \in tracked : Idle(p) => Idle(p)'
  BY DEF BeginSweep, table, tracked, Idle, CircuitOpen
<1>2. /\ sweep'.stage = "http" /\ sweep'.unread = tracked /\ sweep'.idle = {}
      /\ sweep'.untouched = {p \in tracked : Idle(p)}
  BY DEF BeginSweep, NoSweep
<1> QED  BY <1>1, <1>2 DEF SweepRead

LEMMA SeeRead ==
    ASSUME TypeOK, SweepRead, NEW r \in Req, See(r)
    PROVE  SweepRead'
<1>0. /\ sweep \in Sweep /\ tracked' = tracked
      /\ \A o : Idle(o)' <=> Idle(o)
      /\ \A o, k : AllFree(o, k)' <=> AllFree(o, k)
      /\ \A o : CircuitOpen(states[o])' <=> CircuitOpen(states[o])
  <2>1. sweep.stage # "none"
    BY DEF See, SeeHttp, SeeBrowser, SeeCircuit
  <2> QED  BY <2>1 DEF See, TypeOK, NoSweep, table, sems, tracked, Idle, AllFree, CircuitOpen
<1>1. ASSUME NEW o \in sweep.unread, o \notin sweep.untouched, sweep' = PassOver(o)
      PROVE  SweepRead'
  <2>1. /\ sweep'.stage = "http" /\ sweep'.unread = sweep.unread \ {o}
        /\ sweep'.taken = sweep.taken \ {o} /\ sweep'.idle = sweep.idle
        /\ sweep'.untouched = sweep.untouched /\ sweep'.opened = sweep.opened
    BY <1>0, <1>1 DEF PassOver, Sweep
  <2>2. \A p \in sweep.idle, k \in Kind : Free(p, k) => Free(p, k)'
    BY <1>0, <1>1, <2>1 DEF SweepRead, Free
  <2> QED  BY <1>0, <1>1, <2>1, <2>2 DEF SweepRead
<1>2. ASSUME NEW o, ~Idle(o) PROVE o \notin sweep.untouched
  BY <1>2 DEF SweepRead
<1>3. CASE SeeHttp
  <2>1. PICK o \in sweep.unread :
            sweep' = IF AllFree(o, "http") THEN [sweep EXCEPT !.stage = "browser", !.entry = o]
                     ELSE PassOver(o)
    BY <1>3 DEF SeeHttp
  <2>2. CASE AllFree(o, "http")
    <3>1. /\ sweep'.stage = "browser" /\ sweep'.entry = o /\ sweep'.unread = sweep.unread
          /\ sweep'.taken = sweep.taken /\ sweep'.idle = sweep.idle
          /\ sweep'.untouched = sweep.untouched /\ sweep'.opened = sweep.opened
      BY <1>0, <2>1, <2>2 DEF Sweep
    <3>2. \A p, k : Free(p, k)' <=> Free(p, k)
      BY <1>0, <3>1 DEF Free
    <3> QED  BY <1>0, <2>2, <3>1, <3>2 DEF SweepRead, Free
  <2>3. CASE ~AllFree(o, "http")
    BY <1>1, <1>2, <2>1, <2>3 DEF Idle, AllFree, Kind
  <2> QED  BY <2>2, <2>3
<1>4. CASE SeeBrowser
  <2>1. sweep.entry \in sweep.unread
    BY <1>4 DEF SeeBrowser, SweepRead
  <2>2. CASE AllFree(sweep.entry, "browser")
    <3>1. /\ sweep'.stage = "circuit" /\ sweep'.entry = sweep.entry /\ sweep'.unread = sweep.unread
          /\ sweep'.taken = sweep.taken /\ sweep'.idle = sweep.idle
          /\ sweep'.untouched = sweep.untouched /\ sweep'.opened = sweep.opened
      BY <1>0, <1>4, <2>2 DEF Sweep, SeeBrowser
    <3>2. \A p, k : Free(p, k)' <=> Free(p, k)
      BY <1>0, <3>1 DEF Free
    <3>3. Free(sweep.entry, "http")
      BY <1>4 DEF SeeBrowser, SweepRead
    <3> QED  BY <1>0, <2>1, <2>2, <3>1, <3>2, <3>3 DEF SweepRead, Free
  <2>3. CASE ~AllFree(sweep.entry, "browser")
    BY <1>1, <1>2, <1>4, <2>1, <2>3 DEF SeeBrowser, Idle, AllFree, Kind
  <2> QED  BY <2>2, <2>3
<1>5. CASE SeeCircuit
  <2>1. sweep.entry \in sweep.unread /\ Free(sweep.entry, "http") /\ Free(sweep.entry, "browser")
    BY <1>5 DEF SeeCircuit, SweepRead
  <2>2. CASE CircuitOpen(states[sweep.entry])
    BY <1>1, <1>2, <1>5, <2>1, <2>2 DEF SeeCircuit, Idle
  <2>3. CASE ~CircuitOpen(states[sweep.entry])
    <3>1. /\ sweep'.stage = "http" /\ sweep'.unread = sweep.unread \ {sweep.entry}
          /\ sweep'.taken = sweep.taken /\ sweep'.idle = sweep.idle \cup {sweep.entry}
          /\ sweep'.untouched = sweep.untouched /\ sweep'.opened = sweep.opened
      BY <1>0, <1>5, <2>3 DEF Sweep, SeeCircuit, FoundIdle
    <3>2. \A p, k : Free(p, k)' <=> Free(p, k)
      BY <1>0, <3>1 DEF Free
    <3>3. \A k \in Kind : Free(sweep.entry, k)
      BY <2>1 DEF Kind
    <3> QED  BY <1>0, <2>1, <2>3, <3>1, <3>2, <3>3 DEF SweepRead
  <2> QED  BY <2>2, <2>3
<1> QED  BY <1>3, <1>4, <1>5 DEF See

(* A permit taken behind the sweep's back goes on record.                   *)
LEMMA TakeRead ==
    ASSUME TypeOK, SweepRead, NEW r \in Req, Take(r)
    PROVE  SweepRead'
<1>0. tracked' = tracked /\ UNCHANGED <<states, failures, now>>
  BY DEF Take, table, tracked
<1>1. st[r] \in Object /\ KindOf(r) \in Kind
  BY ObjectTyped DEF Take
<1>2. \A s \in Object : s # st[r] => permits'[s] = permits[s]
  BY <1>1 DEF Take, TypeOK
<1>3. \A o \in tracked : states[o] \in Object
  BY OriginAssumption DEF tracked, TypeOK, None, Object
<1>4. /\ sweep'.stage = sweep.stage /\ sweep'.entry = sweep.entry /\ sweep'.unread = sweep.unread
      /\ sweep'.idle = sweep.idle /\ sweep'.opened = sweep.opened
      /\ sweep'.untouched = sweep.untouched \ With(st[r], sweep.untouched)
      /\ sweep'.taken = sweep.taken \cup With(st[r], sweep.idle \cup {sweep.entry})
  <2>1. sweep \in Sweep \cup {NoSweep}
    BY DEF TypeOK
  <2> QED  BY <2>1 DEF Take, Sweep, NoSweep
<1>5. \A o : CircuitOpen(states[o])' <=> CircuitOpen(states[o])
  BY <1>0 DEF CircuitOpen
<1>6. \A o \in sweep'.untouched : Idle(o)'
  <2>1. ASSUME NEW o \in sweep'.untouched PROVE Idle(o)'
    <3>1. o \in sweep.untouched /\ o \in tracked /\ Idle(o)
      BY <1>4 DEF SweepRead
    <3>2. states[o] # st[r]
      BY <1>4, <3>1 DEF With
    <3> QED  BY <1>0, <1>2, <1>3, <1>5, <3>1, <3>2 DEF Idle
  <2> QED  BY <2>1
<1>7. ASSUME NEW o \in tracked, o \in sweep.idle \cup {sweep.entry}, NEW k \in Kind, Free(o, k)
      PROVE  Free(o, k)'
  <2>1. CASE states[o] = st[r]
    BY <1>4, <1>7, <2>1 DEF Free, With
  <2>2. CASE states[o] # st[r]
    BY <1>0, <1>2, <1>3, <1>4, <1>7, <2>2 DEF Free, AllFree
  <2> QED  BY <2>1, <2>2
<1>8. "http" \in Kind /\ "browser" \in Kind
  BY DEF Kind
<1> QED  BY <1>0, <1>4, <1>5, <1>6, <1>7, <1>8 DEF SweepRead

(* A circuit that opens behind the sweep's back goes on record too.         *)
LEMMA NoteRead ==
    ASSUME TypeOK, SweepRead, NEW r \in Req, Note(r)
    PROVE  SweepRead'
<1> DEFINE s0 == report[r].st
           opens == ~CircuitOpen(s0) /\ now < failures'[s0].open_until
<1>0. tracked' = tracked /\ UNCHANGED <<states, permits, now>>
  BY DEF Note, table, sems, tracked
<1>1. \A s \in Object : s # s0 => failures'[s] = failures[s]
  BY DEF Note, TypeOK
<1>2. \A o \in tracked : states[o] \in Object
  BY OriginAssumption DEF tracked, TypeOK, None, Object
<1>3. /\ sweep'.stage = sweep.stage /\ sweep'.entry = sweep.entry /\ sweep'.unread = sweep.unread
      /\ sweep'.idle = sweep.idle /\ sweep'.taken = sweep.taken
      /\ sweep'.untouched =
           IF opens THEN sweep.untouched \ With(s0, sweep.untouched) ELSE sweep.untouched
      /\ sweep'.opened = IF opens THEN sweep.opened \cup With(s0, sweep.idle) ELSE sweep.opened
  <2>1. sweep \in Sweep \cup {NoSweep}
    BY DEF TypeOK
  <2> QED  BY <2>1 DEF Note, Sweep, NoSweep
<1>4. \A o, k : /\ AllFree(o, k)' <=> AllFree(o, k)
                /\ Free(o, k)' <=> Free(o, k)
  BY <1>0, <1>3 DEF AllFree, Free
<1>5. \A o \in tracked : ~CircuitOpen(states[o]) => 
          ~CircuitOpen(states[o])' \/ (states[o] = s0 /\ opens)
  BY <1>0, <1>1, <1>2 DEF CircuitOpen
<1>6. \A o \in sweep'.untouched : Idle(o)'
  <2>1. ASSUME NEW o \in sweep'.untouched PROVE Idle(o)'
    <3>1. o \in sweep.untouched /\ o \in tracked /\ Idle(o)
      BY <1>3 DEF SweepRead
    <3>2. ~(states[o] = s0 /\ opens)
      BY <1>3, <3>1 DEF With
    <3> HIDE DEF opens, s0
    <3> QED  BY <1>0, <1>5, <3>1, <3>2 DEF Idle
  <2> QED  BY <2>1
<1>7. \A o \in sweep.idle : o \in sweep'.opened \/ ~CircuitOpen(states[o])'
  <2>1. ASSUME NEW o \in sweep.idle PROVE o \in sweep'.opened \/ ~CircuitOpen(states[o])'
    <3>1. o \in tracked /\ (o \in sweep.opened \/ ~CircuitOpen(states[o]))
      BY DEF SweepRead
    <3>2. states[o] = s0 /\ opens => o \in sweep'.opened
      BY <1>3, <3>1 DEF With
    <3>3. o \in sweep.opened => o \in sweep'.opened
      BY <1>3
    <3> HIDE DEF opens, s0
    <3> QED  BY <1>5, <3>1, <3>2, <3>3
  <2> QED  BY <2>1
<1> HIDE DEF opens
<1> QED  BY <1>0, <1>3, <1>4, <1>6, <1>7 DEF SweepRead

LEMMA ReadStep == TypeOK /\ TypeOK' /\ SweepRead /\ [Next]_vars => SweepRead'
<1> SUFFICES ASSUME TypeOK, TypeOK', SweepRead, [Next]_vars PROVE SweepRead'
  OBVIOUS
<1> USE DEF table, sems, history
<1>t. now' \in Nat /\ \A s \in Object, k \in Kind : permits[s][k] \in Nat
  BY DEF TypeOK
<1>1. ASSUME NEW r \in Req, NEW o \in Origin, LookUp(r, o) PROVE SweepRead'
  BY <1>1, BeginRead, NothingRead DEF LookUp, TableFree
<1>2. ASSUME NEW r \in Req, NEW class \in FailureClass, RecordFailure(r, class)
      PROVE  SweepRead'
  BY <1>2, BeginRead, NothingRead DEF RecordFailure, TableFree
<1>3. ASSUME NEW r \in Req, Replace(r) PROVE SweepRead'
  BY <1>3, NothingRead DEF Replace
<1>4. ASSUME \/ Tick \/ UNCHANGED vars
             \/ \E r \in Req : \/ PassCircuit(r) \/ RejectAtCircuit(r) \/ Queue(r) \/ Admit(r)
                             \/ RecordSuccess(r) \/ NextHop(r)
      PROVE  SweepRead'
  <2>1. UNCHANGED <<states, failures, sweep, permits>> /\ now <= now'
    BY <1>4, <1>t DEF PassCircuit, RejectAtCircuit, Queue, Admit, RecordSuccess, NextHop, Tick,
                      vars, TypeOK
  <2>2. \A s \in Object, k \in Kind : permits'[s][k] >= permits[s][k]
    BY <1>t, <2>1
  <2> QED  BY <1>t, <2>1, <2>2, ReadKept
<1>5. ASSUME NEW r \in Req, pc[r] \in HoldingPc, GiveBack(r),
             UNCHANGED <<states, failures, sweep, now>>
      PROVE  SweepRead'
  <2>1. \A s \in Object, k \in Kind : permits'[s][k] >= permits[s][k]
    <3>1. CASE permits' = [permits EXCEPT ![st[r]][KindOf(r)] = @ + 1]
      <4>1. ASSUME NEW s \in Object, NEW k \in Kind PROVE permits'[s][k] >= permits[s][k]
        <5>1. permits \in [Object -> [Kind -> Nat]] /\ st[r] \in Object /\ KindOf(r) \in Kind
          BY <1>5, ObjectTyped DEF TypeOK, HoldingPc
        <5>2. permits'[s][k] \in {permits[s][k], permits[s][k] + 1}
          BY <3>1, <5>1
        <5> QED  BY <1>t, <5>2
      <4> QED  BY <4>1
    <3>2. CASE permits' = permits
      BY <1>t, <3>2
    <3> QED  BY <1>5, <3>1, <3>2 DEF GiveBack
  <2>2. now <= now'
    BY <1>5, <1>t
  <2> QED  BY <1>5, <1>t, <2>1, <2>2, ReadKept
<1>6. ASSUME NEW r \in Req, RejectAfterWait(r) \/ Release(r) PROVE SweepRead'
  BY <1>5, <1>6 DEF RejectAfterWait, Release, HoldingPc
<1>7. ASSUME NEW r \in Req, TimeOut(r) PROVE SweepRead'
  <2>1. CASE pc[r] = "recheck" /\ GiveBack(r) /\ UNCHANGED sweep
    BY <1>5, <1>7, <2>1 DEF TimeOut, HoldingPc
  <2>2. CASE UNCHANGED <<permits, sweep>>
    <3>1. UNCHANGED <<states, failures, sweep>> /\ now <= now'
      BY <1>7, <1>t, <2>2 DEF TimeOut
    <3>2. \A s \in Object, k \in Kind : permits'[s][k] >= permits[s][k]
      BY <1>t, <2>2
    <3> QED  BY <1>t, <3>1, <3>2, ReadKept
  <2> QED  BY <1>7, <2>1, <2>2, NothingRead DEF TimeOut
<1> QED
  BY <1>1, <1>2, <1>3, <1>4, <1>6, <1>7, SeeRead, TakeRead, NoteRead DEF Next, Acquire, Report

-----------------------------------------------------------------------------
(* Ceilings.  An origin that never lost its entry under somebody has one    *)
(* object, and everybody who uses the origin refers to it.                  *)

ReferencesCurrent ==
    \A r \in Req :
        /\ pc[r] \notin {"idle", "make"}
        /\ key[r] \notin forced \cup raced
        => st[r] = states[key[r]]

(* An entry all of whose permits are free has no user and no waiter.        *)
LEMMA FullUnused ==
    ASSUME TypeOK, PermitAccounting, NEW o \in tracked, \A k \in Kind : AllFree(o, k),
           Referencing(states[o]) = {}, NEW r \in Req, pc[r] \notin {"idle", "make"}
    PROVE  st[r] # states[o]
<1> SUFFICES ASSUME st[r] = states[o] PROVE FALSE
  OBVIOUS
<1>1. states[o] \in Object /\ KindOf(r) \in Kind
  BY ObjectTyped
<1>2. /\ permits[states[o]][KindOf(r)] \in Nat
      /\ permits[states[o]][KindOf(r)] >= Concurrency[KindOf(r)]
      /\ Concurrency[KindOf(r)] \in Nat \ {0}
  BY <1>1, ConcurrencyTyped DEF AllFree, TypeOK
<1>3. pc[r] \in HoldingPc \/ pc[r] = "wait"
  BY DEF Referencing, TypeOK, Pc
<1>4. CASE pc[r] = "wait"
  BY <1>1, <1>2, <1>4 DEF PermitAccounting, Waiting
<1>5. CASE pc[r] \in HoldingPc
  <2>1. Holders(states[o], KindOf(r)) # {}
    BY <1>5 DEF Holders
  <2>2. Cardinality(Holders(states[o], KindOf(r))) > 0
    BY <2>1, HoldersFinite, FS_EmptySet
  <2> QED  BY <1>1, <1>2, <2>2, HoldersFinite DEF PermitAccounting
<1> QED  BY <1>3, <1>4, <1>5

(* Looking an origin up leaves the requests in flight with their objects.   *)
LEMMA LookupKeepsReferences ==
    ASSUME TypeOK, ReferencesCurrent, UNCHANGED history,
           NEW o \in Origin, get_or_create_state(o),
           NEW r \in Req, pc[r] \notin {"idle", "make"}, key[r] \notin forced \cup raced
    PROVE  st[r] = states'[key[r]]
<1>1. key[r] \in Origin /\ st[r] \in 1..made /\ st[r] = states[key[r]]
  BY DEF ReferencesCurrent, TypeOK
<1>2. CASE UNCHANGED states
  BY <1>1, <1>2
<1>3. CASE o \notin tracked /\ states' = [states EXCEPT ![o] = made']
  <2>1. key[r] # o
    BY <1>1, <1>3, OriginAssumption DEF tracked, None, TypeOK
  <2> QED  BY <1>1, <1>3, <2>1 DEF TypeOK
<1> QED  BY <1>2, <1>3 DEF get_or_create_state

(* So does the end of a sweep: an entry found idle was unused when it was   *)
(* read, and what happened to it since is on record.                        *)
LEMMA ReplaceKeepsReferences ==
    ASSUME TypeOK, PermitAccounting, ReferencesCurrent, SweepOwned, SweepRead,
           NEW r \in Req, Replace(r),
           NEW q \in Req, pc'[q] \notin {"idle", "make"}, key[q] \notin forced' \cup raced'
    PROVE  st'[q] = states'[key[q]]
<1>1. key[r] \in Origin \ tracked /\ made' = made + 1
  BY DEF Replace, SweepOwned, Sweepers, TypeOK
<1>2. CASE q = r /\ pc[r] = "make"
  BY <1>1, <1>2 DEF Replace, TypeOK
<1>3. CASE ~(q = r /\ pc[r] = "make")
  <2>1. pc[q] \notin {"idle", "make"} /\ st'[q] = st[q]
    BY <1>3 DEF Replace, TypeOK
  <2>2. key[q] \in Origin /\ st[q] \in 1..made /\ st[q] = states[key[q]]
    BY <2>1 DEF ReferencesCurrent, Replace, TypeOK
  <2>3. key[q] \in tracked /\ key[q] # key[r]
    BY <1>1, <2>2, OriginAssumption DEF tracked, None, TypeOK
  <2>4. key[q] \notin Evicted
    <3> SUFFICES ASSUME key[q] \in Evicted PROVE FALSE
      OBVIOUS
    <3>1. q \in Attached(states[key[q]])
      BY <2>1, <2>2 DEF Attached
    <3>2. sweep.untouched # {} /\ key[q] \notin sweep.taken /\ Referencing(states[key[q]]) = {}
      BY <3>1 DEF Replace
    <3>3. sweep.unread = {} /\ sweep.untouched \subseteq sweep.idle
      BY DEF Replace, SweepRead
    <3>4. key[q] \in sweep.idle
      BY <3>2, <3>3 DEF Evicted, LeastRecent
    <3>5. \A k \in Kind : AllFree(key[q], k)
      BY <3>2, <3>4 DEF SweepRead, Free
    <3> QED  BY <2>1, <2>2, <2>3, <3>2, <3>5, FullUnused
  <2> QED  BY <2>1, <2>2, <2>3, <2>4 DEF Replace
<1> QED  BY <1>2, <1>3

LEMMA ReferencesInit == Init => ReferencesCurrent
  BY DEF Init, ReferencesCurrent

LEMMA ReferencesStep ==
    TypeOK /\ PermitAccounting /\ SweepOwned /\ SweepRead /\ ReferencesCurrent /\ [Next]_vars
      => ReferencesCurrent'
<1> SUFFICES ASSUME TypeOK, PermitAccounting, SweepOwned, SweepRead, ReferencesCurrent, [Next]_vars
             PROVE  ReferencesCurrent'
  OBVIOUS
<1> USE DEF table, sems, history
<1>0. ASSUME UNCHANGED <<states, history>>,
             \A q \in Req : pc'[q] \notin {"idle", "make"} =>
                 pc[q] \notin {"idle", "make"} /\ key'[q] = key[q] /\ st'[q] = st[q]
      PROVE  ReferencesCurrent'
  BY <1>0 DEF ReferencesCurrent
<1>1. ASSUME NEW r \in Req, NEW o \in Origin, LookUp(r, o) PROVE ReferencesCurrent'
  <2>1. CASE /\ get_or_create_state(o)
             /\ pc' = [pc EXCEPT ![r] = "check"] /\ st' = [st EXCEPT ![r] = states'[o]]
    <3>1. ASSUME NEW q \in Req, pc'[q] \notin {"idle", "make"}, key'[q] \notin forced' \cup raced'
          PROVE  st'[q] = states'[key'[q]]
      <4>1. CASE q = r
        BY <1>1, <2>1, <4>1 DEF LookUp, TypeOK
      <4>2. CASE q # r
        <5>1. pc'[q] = pc[q] /\ key'[q] = key[q] /\ st'[q] = st[q]
          BY <1>1, <2>1, <4>2 DEF LookUp, TypeOK
        <5> QED  BY <1>1, <2>1, <3>1, <5>1, LookupKeepsReferences DEF LookUp
      <4> QED  BY <4>1, <4>2
    <3> QED  BY <3>1 DEF ReferencesCurrent
  <2>2. CASE BeginSweep(o) /\ pc' = [pc EXCEPT ![r] = "make"] /\ UNCHANGED st
    <3>1. \A q \in Req : pc'[q] \notin {"idle", "make"} =>
              pc[q] \notin {"idle", "make"} /\ key'[q] = key[q] /\ st'[q] = st[q]
      BY <1>1, <2>2 DEF LookUp, TypeOK
    <3> QED  BY <1>0, <1>1, <2>2, <3>1 DEF LookUp, BeginSweep
  <2> QED  BY <1>1, <2>1, <2>2 DEF LookUp
<1>2. ASSUME NEW r \in Req, NEW class \in FailureClass, RecordFailure(r, class)
      PROVE  ReferencesCurrent'
  <2>1. \A q \in Req : pc'[q] \notin {"idle", "make"} => pc[q] \notin {"idle", "make"}
    BY <1>2 DEF RecordFailure, TypeOK
  <2>2. UNCHANGED <<key, st, history>> /\ key[r] \in Origin
    BY <1>2 DEF RecordFailure, TypeOK
  <2>3. CASE get_or_create_state(key[r])
    <3>1. ASSUME NEW q \in Req, pc'[q] \notin {"idle", "make"}, key'[q] \notin forced' \cup raced'
          PROVE  st'[q] = states'[key'[q]]
      BY <2>1, <2>2, <2>3, <3>1, LookupKeepsReferences
    <3> QED  BY <3>1 DEF ReferencesCurrent
  <2>4. CASE BeginSweep(key[r])
    BY <1>0, <2>1, <2>2, <2>4 DEF BeginSweep
  <2> QED  BY <1>2, <2>3, <2>4 DEF RecordFailure
<1>3. ASSUME NEW r \in Req, Replace(r) PROVE ReferencesCurrent'
  <2>1. ASSUME NEW q \in Req, pc'[q] \notin {"idle", "make"}, key'[q] \notin forced' \cup raced'
        PROVE  st'[q] = states'[key'[q]]
    BY <1>3, <2>1, ReplaceKeepsReferences DEF Replace
  <2> QED  BY <2>1 DEF ReferencesCurrent
<1>4. ASSUME NEW r \in Req,
             PassCircuit(r) \/ Take(r) \/ Queue(r) \/ Admit(r) \/ RecordSuccess(r)
               \/ Note(r) \/ NextHop(r)
      PROVE ReferencesCurrent'
  <2>1. /\ UNCHANGED <<states, history, key, st>> /\ pc[r] \notin {"idle", "make"}
        /\ \E p \in Pc : pc' = [pc EXCEPT ![r] = p]
    BY <1>4 DEF PassCircuit, Take, Queue, Admit, RecordSuccess, Note, NextHop, Pc, HoldingPc
  <2> QED  BY <1>0, <2>1 DEF TypeOK
<1>5. ASSUME NEW r \in Req, pc[r] \in HoldingPc, GiveBack(r), UNCHANGED <<states, history>>
      PROVE  ReferencesCurrent'
  <2>1. \A q \in Req \ {r} : key'[q] = key[q] /\ st'[q] = st[q]
    BY <1>5 DEF GiveBack, Forget, TypeOK
  <2>2. /\ pc'[r] = "idle"
        /\ \A q \in Req \ {r} : pc'[q] \notin {"idle", "make"} => pc[q] \notin {"idle", "make"}
    <3>1. CASE Waiting(st[r], KindOf(r)) = {}
      BY <1>5, <3>1 DEF GiveBack, TypeOK
    <3>2. CASE Waiting(st[r], KindOf(r)) # {}
      <4>1. PICK h \in Waiting(st[r], KindOf(r)) :
                pc' = [pc EXCEPT ![r] = "idle", ![h] = "recheck"]
        BY <1>5, <3>2 DEF GiveBack
      <4>2. h \in Req /\ h # r /\ pc[h] = "wait"
        BY <1>5 DEF Waiting, HoldingPc
      <4> QED  BY <4>1, <4>2 DEF TypeOK
    <3> QED  BY <3>1, <3>2
  <2> QED  BY <1>0, <1>5, <2>1, <2>2
<1>6. ASSUME NEW r \in Req, RejectAfterWait(r) \/ Release(r) PROVE ReferencesCurrent'
  BY <1>5, <1>6 DEF RejectAfterWait, Release, HoldingPc
<1>7. ASSUME NEW r \in Req, RejectAtCircuit(r) \/ TimeOut(r) PROVE ReferencesCurrent'
  <2>1. UNCHANGED <<states, history>>
    BY <1>7 DEF RejectAtCircuit, TimeOut
  <2>2. CASE pc[r] = "recheck" /\ GiveBack(r)
    BY <1>5, <2>1, <2>2 DEF HoldingPc
  <2>3. CASE pc' = [pc EXCEPT ![r] = "idle"] /\ Forget(r)
    BY <1>0, <2>1, <2>3 DEF Forget, TypeOK
  <2> QED  BY <1>7, <2>2, <2>3 DEF RejectAtCircuit, TimeOut
<1>8. ASSUME \/ Tick \/ UNCHANGED vars \/ \E r \in Req : See(r)
      PROVE  ReferencesCurrent'
  BY <1>8 DEF Tick, See, vars, reqs, ReferencesCurrent
<1> QED
  BY <1>1, <1>2, <1>3, <1>4, <1>6, <1>7, <1>8 DEF Next, Acquire, Report

(* The inductive invariant of the controller.                               *)
ControllerInv ==
    /\ TypeOK
    /\ PermitAccounting
    /\ SweepOwned
    /\ SweepRead
    /\ ReferencesCurrent

LEMMA ControllerInvariant == Spec => []ControllerInv
<1>1. Init => ControllerInv
  BY TypeInit, AccountsInit, SweepInit, ReferencesInit DEF ControllerInv
<1>2. ControllerInv /\ [Next]_vars => ControllerInv'
  BY TypeStep, AccountsStep, OwnedStep, ReadStep, ReferencesStep DEF ControllerInv
<1> QED  BY <1>1, <1>2, PTL DEF Spec

(* No origin is used by more requests than its concurrency allows, unless   *)
(* it lost its entry while none stayed idle, between a lookup and its       *)
(* acquire, or after the sweep had counted its permits.                     *)
THEOREM CeilingCorrect == Spec => []CeilingKept
<1>1. ASSUME TypeOK, PermitAccounting, ReferencesCurrent,
             NEW o \in Origin \ (forced \cup raced), NEW k \in Kind
      PROVE  Cardinality(Users(o, k)) <= Concurrency[k]
  <2>1. CASE Users(o, k) = {}
    BY <2>1, FS_EmptySet, ConcurrencyTyped
  <2>2. CASE Users(o, k) # {}
    <3>1. \A r \in Users(o, k) : st[r] = states[o] /\ st[r] \in Object
      BY <1>1, OriginAssumption DEF Users, ReferencesCurrent, TypeOK, HoldingPc, Object
    <3>2. Users(o, k) \subseteq Holders(states[o], k) /\ states[o] \in Object
      BY <2>2, <3>1 DEF Users, Holders
    <3>3. Cardinality(Users(o, k)) <= Cardinality(Holders(states[o], k))
      BY <3>2, HoldersFinite, FS_Subset
    <3>4. permits[states[o]][k] \in Nat /\ Concurrency[k] \in Nat
      BY <1>1, <3>2, ConcurrencyTyped DEF TypeOK
    <3>5. permits[states[o]][k] + Cardinality(Holders(states[o], k)) = Concurrency[k]
      BY <1>1, <3>2 DEF PermitAccounting
    <3>6. IsFiniteSet(Users(o, k)) /\ Cardinality(Users(o, k)) \in Nat
      BY <3>2, HoldersFinite, FS_Subset, FS_CardinalityType
    <3> QED  BY <3>3, <3>4, <3>5, <3>6, HoldersFinite
  <2> QED  BY <2>1, <2>2
<1>2. ControllerInv => CeilingKept
  BY <1>1 DEF CeilingKept, ControllerInv
<1> QED  BY <1>2, ControllerInvariant, PTL

(* Nobody is let through an open circuit of its origin.                     *)
THEOREM NoAdmissionCorrect == Spec => NoAdmissionWhileOpen
<1>1. ASSUME TypeOK, PermitAccounting, ReferencesCurrent, [Next]_vars, NEW r \in Req,
             pc[r] # "hold", pc'[r] = "hold", pc[r] # "noted",
             key[r] \notin forced \cup raced
      PROVE  ~CircuitOpen(states[key[r]])
  <2>1. Admit(r)
    <3>1. ASSUME NEW q \in Req, pc[q] \in HoldingPc, GiveBack(q) PROVE pc'[r] # "hold"
      <4>1. CASE Waiting(st[q], KindOf(q)) = {}
        BY <1>1, <3>1, <4>1 DEF GiveBack, TypeOK
      <4>2. CASE Waiting(st[q], KindOf(q)) # {}
        BY <1>1, <3>1, <4>2 DEF GiveBack, TypeOK, Waiting
      <4> QED  BY <4>1, <4>2
    <3>2. ASSUME NEW q \in Req,
                 RejectAfterWait(q) \/ TimeOut(q) \/ Release(q)
          PROVE  pc'[r] # "hold"
      <4>1. CASE pc[q] \in HoldingPc /\ GiveBack(q)
        BY <3>1, <4>1
      <4>2. CASE pc' = [pc EXCEPT ![q] = "idle"]
        BY <1>1, <4>2 DEF TypeOK
      <4> QED  BY <3>2, <4>1, <4>2 DEF RejectAfterWait, TimeOut, Release, HoldingPc
    <3>3. ASSUME NEW q \in Req, Admit(q) \/ NextHop(q) PROVE q = r
      BY <1>1, <3>3 DEF Admit, NextHop, TypeOK
    <3>4. ASSUME NEW q \in Req,
                 \/ \E o \in Origin : LookUp(q, o)
                 \/ Replace(q)
                 \/ PassCircuit(q) \/ RejectAtCircuit(q) \/ Take(q) \/ Queue(q) \/ Report(q)
          PROVE  pc'[r] # "hold"
      <4>1. \E p \in Pc \ {"hold"} : pc' = [pc EXCEPT ![q] = p]
        BY <3>4 DEF LookUp, Replace, PassCircuit, RejectAtCircuit, Take, Queue, Report, RecordFailure,
                    RecordSuccess, Note, Pc, HoldingPc
      <4> QED  BY <1>1, <4>1 DEF TypeOK
    <3>5. pc' # pc /\ ~Tick /\ \A q \in Req : ~See(q)
      BY <1>1 DEF Tick, See, reqs
    <3>6. ~NextHop(r)
      BY <1>1 DEF NextHop
    <3> QED
      BY <1>1, <3>2, <3>3, <3>4, <3>5, <3>6 DEF Next, Acquire, vars, reqs
  <2>2. st[r] = states[key[r]]
    BY <1>1, <2>1 DEF Admit, ReferencesCurrent
  <2> QED  BY <2>1, <2>2 DEF Admit
<1>2. ControllerInv /\ [Next]_vars
        => (\A r \in Req :
              /\ pc[r] # "hold" /\ pc'[r] = "hold" /\ pc[r] # "noted"
              /\ key[r] \notin forced \cup raced
              => ~CircuitOpen(states[key[r]]))
  BY <1>1 DEF ControllerInv
<1>3. ControllerInv /\ [Next]_vars
        => [\A r \in Req :
              /\ pc[r] # "hold" /\ pc'[r] = "hold" /\ pc[r] # "noted"
              /\ key[r] \notin forced \cup raced
              => ~CircuitOpen(states[key[r]])]_vars
  BY <1>2
<1> QED  BY <1>3, ControllerInvariant, PTL DEF Spec, NoAdmissionWhileOpen

-----------------------------------------------------------------------------
(* Backoff.  No circuit is open for longer than circuit_duration from now,  *)
(* so a failure noted meanwhile can only extend it.                         *)

OpenBounded == \A s \in Object : failures[s].open_until <= now + circuit_duration

LEMMA NotedUntil ==
    ASSUME TypeOK, NEW r \in Req, Note(r)
    PROVE  /\ UNCHANGED <<states, now>> /\ pc'[r] = "noted"
           /\ \A s \in Object : s # report[r].st => failures'[s] = failures[s]
           /\ report[r].st \in Object
           /\ LET u == failures'[report[r].st].open_until IN
              \/ u = failures[report[r].st].open_until
              \/ u = now + circuit_duration
              \/ u = 0 /\ report[r].outcome = "Success"
<1> DEFINE s0 == report[r].st
           n == IF failures[s0].count < U8_MAX THEN failures[s0].count + 1 ELSE failures[s0].count
<1>1. report[r].outcome \in FailureClass \cup {"Success", "None"} /\ report[r].outcome # "None"
  BY DEF Note, TypeOK
<1>2. s0 \in Object
  BY OriginAssumption DEF Note, TypeOK, Object
<1>3. failures[s0] \in FailureState /\ n \in Nat
  BY <1>2, OriginAssumption DEF TypeOK, FailureState
<1>4. failures'[s0] = Noted(failures[s0], report[r].outcome)
  BY <1>2 DEF Note, TypeOK
<1>5. \/ failures'[s0].open_until = failures[s0].open_until
      \/ failures'[s0].open_until = now + circuit_duration
      \/ failures'[s0].open_until = 0 /\ report[r].outcome = "Success"
  <2>1. CASE report[r].outcome = "Success"
    BY <1>4, <2>1 DEF Noted, NewFailures
  <2>2. CASE report[r].outcome = "NonRetryable"
    BY <1>3, <1>4, <2>2 DEF Noted, FailureState
  <2>3. CASE report[r].outcome = "Retryable" /\ n < circuit_failure_threshold
    <3>1. failures'[s0] = [failures[s0] EXCEPT !.count = n]
      BY <1>3, <1>4, <2>3, OriginAssumption DEF Noted
    <3> QED  BY <1>3, <3>1 DEF FailureState
  <2>4. CASE report[r].outcome = "Retryable" /\ n >= circuit_failure_threshold
    <3>1. failures'[s0] = [count |-> n, open_until |-> now + circuit_duration]
      BY <1>3, <1>4, <2>4, OriginAssumption DEF Noted
    <3> QED  BY <3>1
  <2>5. n < circuit_failure_threshold \/ n >= circuit_failure_threshold
    BY <1>3, OriginAssumption
  <2>6. report[r].outcome \in {"Success", "NonRetryable", "Retryable"}
    BY <1>1, OriginAssumption
  <2> HIDE DEF n
  <2> QED  BY <2>1, <2>2, <2>3, <2>4, <2>5, <2>6
<1>8. /\ UNCHANGED <<states, now>> /\ pc'[r] = "noted"
      /\ \A s \in Object : s # s0 => failures'[s] = failures[s]
  BY DEF Note, TypeOK, table
<1> QED  BY <1>2, <1>5, <1>8

LEMMA OpenBoundedInit == Init => OpenBounded
  BY OriginAssumption DEF Init, OpenBounded, NewFailures

LEMMA OpenBoundedStep == TypeOK /\ OpenBounded /\ [Next]_vars => OpenBounded'
<1> SUFFICES ASSUME TypeOK, OpenBounded, [Next]_vars PROVE OpenBounded'
  OBVIOUS
<1>0. \A s \in Object : failures[s].open_until \in Nat
  BY DEF TypeOK, FailureState
<1>1. ASSUME NEW r \in Req, Note(r) PROVE OpenBounded'
  <2>1. ASSUME NEW s \in Object PROVE failures'[s].open_until <= now' + circuit_duration
    <3>1. now' = now /\ now \in Nat /\ circuit_duration \in Nat
      BY <1>1, OriginAssumption DEF Note, TypeOK
    <3>2. failures[s].open_until <= now + circuit_duration
      BY DEF OpenBounded
    <3>3. failures'[s].open_until \in {failures[s].open_until, now + circuit_duration, 0}
      BY <1>1, NotedUntil
    <3> QED  BY <3>1, <3>2, <3>3
  <2> QED  BY <2>1 DEF OpenBounded
<1>2. CASE failures' = failures /\ now' \in {now, now + 1}
  BY <1>0, <1>2, OriginAssumption DEF OpenBounded, TypeOK
<1> QED
  BY <1>1, <1>2 DEF Next, Acquire, Report, LookUp, See, Replace, PassCircuit, RejectAtCircuit, Take, Queue, Admit,
     RejectAfterWait, TimeOut, RecordSuccess, RecordFailure, NextHop, Release, Tick, vars

(* A lookup without a sweep leaves the entries there are.                    *)
LEMMA LookupKeepsOthers ==
    ASSUME TypeOK, NEW q \in Origin, get_or_create_state(q)
    PROVE  \A o \in tracked : states'[o] = states[o]
  BY DEF get_or_create_state, tracked, TypeOK

(* A sweep that ends with an entry in backoff as its victim found nothing    *)
(* that stayed idle, or found the entry idle before its circuit opened.      *)
LEMMA BackedOffEvicted ==
    ASSUME SweepRead, NEW r \in Req, Replace(r),
           NEW o \in tracked, CircuitOpen(states[o]), o \in Evicted
    PROVE  sweep.untouched = {} \/ o \in sweep.opened
<1>1. sweep.untouched \subseteq sweep.idle
  BY DEF Replace, SweepRead
<1>2. sweep.idle # {} => o \in sweep.idle
  BY DEF Evicted, LeastRecent
<1>3. o \in sweep.idle => o \in sweep.opened
  BY DEF SweepRead
<1> QED  BY <1>1, <1>2, <1>3

(* An open circuit of an origin ends only with its time, with an answer of  *)
(* the origin, or with a sweep during which no entry stayed idle or the     *)
(* circuit itself opened.                                                   *)
THEOREM BackoffCorrect == Spec => BackoffPersists
<1> DEFINE Persists(o) ==
        \/ /\ states'[o] = states[o]
           /\ failures'[states[o]].open_until >= failures[states[o]].open_until
        \/ \E r \in Req : pc'[r] = "noted"
             /\ pc[r] = "note" /\ report[r] = [st |-> states[o], outcome |-> "Success"]
        \/ /\ states'[o] = None /\ sweep # NoSweep /\ sweep' = NoSweep
           /\ sweep.untouched = {} \/ o \in sweep.opened
<1>1. ASSUME ControllerInv, OpenBounded, [Next]_vars, NEW o \in tracked, CircuitOpen(states[o])
      PROVE  Persists(o)
  <2>t. TypeOK /\ SweepOwned /\ SweepRead
    BY <1>1 DEF ControllerInv
  <2>0. o \in Origin /\ states[o] \in Object /\ failures[states[o]].open_until \in Nat
    BY <2>t, OriginAssumption DEF tracked, TypeOK, None, Object, FailureState
  <2>1. CASE states'[o] = states[o] /\ failures' = failures
    BY <2>0, <2>1
  <2>2. ASSUME NEW r \in Req, Replace(r) PROVE Persists(o)
    <3>1. failures' = failures /\ sweep # NoSweep /\ sweep' = NoSweep
      BY <2>2, <2>t DEF Replace, SweepOwned
    <3>2. o # key[r]
      BY <2>2, <2>t DEF Replace, SweepOwned
    <3>3. CASE o \in Evicted
      <4>1. states'[o] = None
        BY <2>0, <2>2, <3>2, <3>3 DEF Replace
      <4>2. sweep.untouched = {} \/ o \in sweep.opened
        BY <1>1, <2>2, <2>t, <3>3, BackedOffEvicted
      <4> QED  BY <3>1, <4>1, <4>2
    <3>4. CASE o \notin Evicted
      <4>1. states'[o] = states[o]
        BY <2>0, <2>2, <3>2, <3>4 DEF Replace
      <4> QED  BY <2>1, <3>1, <4>1
    <3> QED  BY <3>3, <3>4
  <2>3. ASSUME NEW r \in Req, Note(r) PROVE Persists(o)
    <3>1. pc[r] = "note" /\ report[r] \in [st : 0..MaxObjects, outcome : FailureClass \cup {"Success", "None"}]
      BY <2>t, <2>3 DEF Note, TypeOK
    <3>2. CASE report[r].st # states[o]
      BY <2>t, <2>0, <2>3, <3>2, NotedUntil
    <3>3. CASE report[r].st = states[o] /\ report[r].outcome = "Success"
      BY <2>t, <2>3, <3>1, <3>3, NotedUntil
    <3>4. CASE report[r].st = states[o] /\ report[r].outcome # "Success"
      BY <1>1, <2>t, <2>0, <2>3, <3>4, NotedUntil DEF OpenBounded
    <3> QED  BY <3>2, <3>3, <3>4
  <2>4. ASSUME NEW r \in Req, NEW class \in FailureClass, RecordFailure(r, class) PROVE Persists(o)
    <3>1. key[r] \in Origin /\ failures' = failures
      BY <2>t, <2>4 DEF RecordFailure, TypeOK
    <3>2. states'[o] = states[o]
      BY <2>t, <2>4, <3>1, LookupKeepsOthers DEF RecordFailure, BeginSweep, table
    <3> QED  BY <2>1, <3>1, <3>2
  <2>5. ASSUME NEW r \in Req, NEW q \in Origin, LookUp(r, q) PROVE Persists(o)
    <3>1. states'[o] = states[o] /\ failures' = failures
      BY <2>t, <2>5, LookupKeepsOthers DEF LookUp, BeginSweep, table
    <3> QED  BY <2>1, <3>1
  <2>6. ASSUME UNCHANGED <<states, failures>> PROVE Persists(o)
    BY <2>1, <2>6
  <2>7. ASSUME NEW r \in Req,
               See(r) \/ Acquire(r) \/ TimeOut(r) \/ RecordSuccess(r) \/ NextHop(r) \/ Release(r)
        PROVE  UNCHANGED <<states, failures>>
    BY <2>7 DEF See, Acquire, PassCircuit, RejectAtCircuit, Take, Queue, Admit, RejectAfterWait,
                TimeOut, RecordSuccess, NextHop, Release, table
  <2>8. ASSUME Tick \/ UNCHANGED vars PROVE UNCHANGED <<states, failures>>
    BY <2>8 DEF Tick, vars, table
  <2> HIDE DEF Persists
  <2> QED
    BY <1>1, <2>2, <2>3, <2>4, <2>5, <2>6, <2>7, <2>8 DEF Next, Report
<1>2. ControllerInv /\ OpenBounded /\ [Next]_vars
        => [\A o \in tracked : CircuitOpen(states[o]) => Persists(o)]_vars
  BY <1>1
<1>3. Init => OpenBounded
  BY OpenBoundedInit
<1>4. ControllerInv /\ OpenBounded /\ [Next]_vars => OpenBounded'
  BY OpenBoundedStep DEF ControllerInv
<1> QED  BY <1>2, <1>3, <1>4, ControllerInvariant, PTL DEF Spec, BackoffPersists

-----------------------------------------------------------------------------
(* The table's bound.  A sweep of a full table always finds a victim.       *)

(* A nonempty set of naturals has a least element.                          *)
LEMMA LeastNumber ==
    ASSUME NEW S, S \subseteq Nat, S # {}
    PROVE  \E m \in S : \A n \in S : m <= n
<1> DEFINE R == OpToRel(<, Nat)
<1>1. PICK m \in S : \A n \in S : ~(<<n, m>> \in R)
  <2>1. IsWellFoundedOn(R, Nat)
    BY NatLessThanWellFounded
  <2> HIDE DEF R
  <2> QED  BY <2>1, WFMin
<1>2. \A n \in S : ~(n < m)
  BY <1>1 DEF OpToRel
<1> QED  BY <1>2

(* Some entry is the least recently used one, ties broken by key.           *)
LEMMA SomeLeastRecent ==
    ASSUME TypeOK, NEW S, S \subseteq Origin, S # {}
    PROVE  LeastRecent(S) # {}
<1>1. \A o \in S : o \in Nat /\ last_access[o] \in Nat
  BY OriginAssumption DEF TypeOK
<1> DEFINE T == {last_access[o] : o \in S}
<1>2. PICK t \in T : \A u \in T : t <= u
  <2>1. T \subseteq Nat /\ T # {}
    BY <1>1
  <2> QED  BY <2>1, LeastNumber
<1> DEFINE U == {o \in S : last_access[o] = t}
<1>3. PICK o \in U : \A p \in U : o <= p
  <2>1. U \subseteq Nat /\ U # {}
    BY <1>1, <1>2
  <2> QED  BY <2>1, LeastNumber
<1>4. ASSUME NEW p \in S \ {o}
      PROVE  \/ last_access[o] < last_access[p]
             \/ last_access[o] = last_access[p] /\ o < p
  <2>1. last_access[o] = t /\ last_access[p] \in T
    BY <1>3
  <2>2. last_access[o] <= last_access[p]
    BY <1>2, <2>1
  <2>3. last_access[p] = t => o <= p
    BY <1>3
  <2> QED  BY <1>1, <2>1, <2>2, <2>3
<1> QED  BY <1>3, <1>4 DEF LeastRecent

TableInv == IsFiniteSet(tracked) /\ TableBounded

(* A lookup makes an entry in a table with room.                             *)
LEMMA LookupBounded ==
    ASSUME TypeOK, TableInv, NEW o \in Origin, get_or_create_state(o)
    PROVE  TableInv'
<1>1. CASE UNCHANGED states
  BY <1>1 DEF TableInv, TableBounded, tracked
<1>2. CASE /\ o \notin tracked /\ Cardinality(tracked) < max_entries
           /\ made' = made + 1 /\ states' = [states EXCEPT ![o] = made']
  <2>1. tracked' = tracked \cup {o}
    BY <1>2, OriginAssumption DEF tracked, TypeOK, None
  <2>2. /\ IsFiniteSet(tracked') /\ Cardinality(tracked') = Cardinality(tracked) + 1
        /\ Cardinality(tracked) \in Nat
    BY <1>2, <2>1, FS_AddElement, FS_CardinalityType DEF TableInv
  <2> QED  BY <1>2, <2>2, OriginAssumption DEF TableInv, TableBounded
<1> QED  BY <1>1, <1>2 DEF get_or_create_state

(* The end of a sweep drops an entry, unless there is none, and makes one.   *)
LEMMA ReplaceBounded ==
    ASSUME TypeOK, SweepRead, TableInv, NEW r \in Req, Replace(r)
    PROVE  TableInv'
<1> DEFINE kept == tracked \ Evicted
<1>1. tracked' = kept \cup {key[r]} /\ key[r] \in Origin
  <2>1. key[r] \in Origin /\ made \in Nat /\ made' = made + 1
    BY ReplaceTyped
  <2> QED  BY <2>1 DEF Replace, tracked, TypeOK, None
<1>2. IsFiniteSet(kept) /\ Cardinality(kept) \in Nat /\ Cardinality(kept) < max_entries
  <2>1. Cardinality(tracked) \in Nat /\ Cardinality(tracked) <= max_entries /\ max_entries \in Nat \ {0}
    BY FS_CardinalityType, OriginAssumption DEF TableInv, TableBounded
  <2>2. IsFiniteSet(kept) /\ Cardinality(kept) \in Nat
    BY FS_Subset, FS_CardinalityType DEF TableInv
  <2>3. CASE tracked = {}
    BY <2>1, <2>2, <2>3, FS_EmptySet
  <2>4. CASE tracked # {}
    <3> DEFINE S == IF sweep.idle # {} THEN sweep.idle ELSE tracked
    <3>1. S # {} /\ S \subseteq tracked /\ tracked \subseteq Origin
      BY <2>4 DEF SweepRead, tracked
    <3>2. LeastRecent(S) # {}
      BY <3>1, SomeLeastRecent
    <3>3. PICK p \in Evicted : p \in tracked
      BY <3>1, <3>2 DEF Evicted, LeastRecent
    <3>4. kept \subseteq tracked \ {p}
      BY <3>3
    <3>5. IsFiniteSet(tracked \ {p}) /\ Cardinality(tracked \ {p}) = Cardinality(tracked) - 1
      BY <3>3, FS_RemoveElement DEF TableInv
    <3>6. Cardinality(kept) <= Cardinality(tracked) - 1
      BY <3>4, <3>5, FS_Subset
    <3> QED  BY <2>1, <2>2, <3>6
  <2> QED  BY <2>3, <2>4
<1>3. /\ IsFiniteSet(kept \cup {key[r]})
      /\ Cardinality(kept \cup {key[r]}) \in {Cardinality(kept), Cardinality(kept) + 1}
  BY <1>2, FS_AddElement
<1> QED  BY <1>1, <1>2, <1>3, OriginAssumption DEF TableInv, TableBounded

LEMMA TableStep == TypeOK /\ SweepRead /\ TableInv /\ [Next]_vars => TableInv'
<1> SUFFICES ASSUME TypeOK, SweepRead, TableInv, [Next]_vars PROVE TableInv'
  OBVIOUS
<1>0. ASSUME states' = states PROVE TableInv'
  BY <1>0 DEF TableInv, TableBounded, tracked
<1>1. ASSUME NEW r \in Req, NEW o \in Origin, LookUp(r, o) PROVE TableInv'
  BY <1>0, <1>1, LookupBounded DEF LookUp, BeginSweep, table
<1>2. ASSUME NEW r \in Req, NEW class \in FailureClass, RecordFailure(r, class) PROVE TableInv'
  BY <1>0, <1>2, LookupBounded DEF RecordFailure, BeginSweep, table, TypeOK
<1>3. ASSUME NEW r \in Req, Replace(r) PROVE TableInv'
  BY <1>3, ReplaceBounded
<1>4. ASSUME NEW r \in Req,
             \/ See(r) \/ Acquire(r) \/ TimeOut(r) \/ RecordSuccess(r) \/ Note(r)
             \/ NextHop(r) \/ Release(r)
      PROVE  states' = states
  BY <1>4 DEF See, Acquire, PassCircuit, RejectAtCircuit, Take, Queue, Admit, RejectAfterWait,
     TimeOut, RecordSuccess, Note, NextHop, Release, table
<1>5. ASSUME Tick \/ UNCHANGED vars PROVE states' = states
  BY <1>5 DEF Tick, vars, table
<1> QED  BY <1>0, <1>1, <1>2, <1>3, <1>4, <1>5 DEF Next, Report

(* The table never outgrows max_entries, however busy its entries are.      *)
THEOREM TableStaysBounded == Spec => []TableBounded
<1>1. Init => TableInv
  <2>1. Init => tracked = {}
    BY DEF Init, tracked
  <2> QED  BY <2>1, FS_EmptySet, OriginAssumption DEF TableInv, TableBounded
<1>2. TableInv => TableBounded
  BY DEF TableInv
<1>3. ControllerInv /\ TableInv /\ [Next]_vars => TableInv'
  BY TableStep DEF ControllerInv
<1> QED  BY <1>1, <1>2, <1>3, ControllerInvariant, PTL DEF Spec

-----------------------------------------------------------------------------
(* Room for all.  A table that has an entry for every origin in use is      *)
(* never swept, so that the exceptions of the properties above do not occur. *)
RoomForAll == IsFiniteSet(Origin) /\ Cardinality(Origin) <= max_entries

NeverEvicted == forced = {} /\ raced = {} /\ Sweepers = {}

LEMMA RoomMeansNoSweep ==
    ASSUME RoomForAll, NEW o \in Origin
    PROVE  ~BeginSweep(o)
<1> SUFFICES ASSUME BeginSweep(o) PROVE FALSE
  OBVIOUS
<1>1. IsFiniteSet(Origin \ {o}) /\ Cardinality(Origin \ {o}) = Cardinality(Origin) - 1
  BY FS_RemoveElement DEF RoomForAll
<1>2. tracked \subseteq Origin \ {o} /\ Cardinality(tracked) >= max_entries
  BY DEF BeginSweep, tracked
<1>3. Cardinality(tracked) <= Cardinality(Origin) - 1
  BY <1>1, <1>2, FS_Subset
<1>4. Cardinality(tracked) \in Nat /\ Cardinality(Origin) \in Nat
  BY <1>1, <1>2, FS_Subset, FS_CardinalityType DEF RoomForAll
<1> QED  BY <1>2, <1>3, <1>4, OriginAssumption DEF RoomForAll

LEMMA NobodySearches ==
    ASSUME NeverEvicted, NEW r \in Req
    PROVE  pc[r] \notin {"make", "remake"} /\ ~See(r) /\ ~Replace(r)
  BY DEF NeverEvicted, Sweepers, See, Replace

LEMMA RoomStep ==
    ASSUME RoomForAll
    PROVE  TypeOK /\ NeverEvicted /\ [Next]_vars => NeverEvicted'
<1> SUFFICES ASSUME TypeOK, NeverEvicted, [Next]_vars PROVE NeverEvicted'
  OBVIOUS
<1>0. ASSUME UNCHANGED history, \A q \in Req : pc'[q] \notin {"make", "remake"} PROVE NeverEvicted'
  BY <1>0 DEF NeverEvicted, Sweepers, history
<1>1. ASSUME NEW r \in Req, NEW p \in Pc \ {"make", "remake"}, pc' = [pc EXCEPT ![r] = p]
      PROVE  \A q \in Req : pc'[q] \notin {"make", "remake"}
  BY <1>1, NobodySearches DEF TypeOK
<1>2. ASSUME NEW r \in Req, NEW o \in Origin, LookUp(r, o) PROVE NeverEvicted'
  <2>1. pc' = [pc EXCEPT ![r] = "check"] /\ UNCHANGED history
    BY <1>2, RoomMeansNoSweep DEF LookUp
  <2> QED  BY <1>0, <1>1, <2>1 DEF Pc
<1>3. ASSUME NEW r \in Req, NEW class \in FailureClass, RecordFailure(r, class) PROVE NeverEvicted'
  <2>1. pc' = [pc EXCEPT ![r] = "note"] /\ UNCHANGED history
    BY <1>3, RoomMeansNoSweep DEF RecordFailure, TypeOK
  <2> QED  BY <1>0, <1>1, <2>1 DEF Pc, HoldingPc
<1>4. ASSUME NEW r \in Req,
             \/ PassCircuit(r) \/ RejectAtCircuit(r) \/ Take(r) \/ Queue(r) \/ Admit(r)
             \/ RecordSuccess(r) \/ Note(r) \/ NextHop(r)
      PROVE  NeverEvicted'
  <2>1. /\ UNCHANGED history
        /\ \E p \in Pc \ {"make", "remake"} : pc' = [pc EXCEPT ![r] = p]
    BY <1>4 DEF PassCircuit, RejectAtCircuit, Take, Queue, Admit, RecordSuccess, Note, NextHop,
                Pc, HoldingPc
  <2> QED  BY <1>0, <1>1, <2>1
<1>5. ASSUME NEW r \in Req, pc[r] \in HoldingPc, GiveBack(r), UNCHANGED history PROVE NeverEvicted'
  <2>1. pc[r] \in HoldingPc \ {"remake"}
    BY <1>5, NobodySearches
  <2> QED  BY <1>0, <1>5, <2>1, GiveBackSearches, NobodySearches
<1>6. ASSUME NEW r \in Req, RejectAfterWait(r) \/ Release(r) \/ TimeOut(r) PROVE NeverEvicted'
  <2>1. UNCHANGED history
    BY <1>6 DEF RejectAfterWait, Release, TimeOut
  <2>2. CASE pc[r] \in HoldingPc /\ GiveBack(r)
    BY <1>5, <2>1, <2>2
  <2>3. CASE pc' = [pc EXCEPT ![r] = "idle"]
    BY <1>0, <1>1, <2>1, <2>3 DEF Pc
  <2> QED  BY <1>6, <2>2, <2>3 DEF RejectAfterWait, Release, TimeOut, HoldingPc
<1>7. ASSUME Tick \/ UNCHANGED vars PROVE NeverEvicted'
  BY <1>0, <1>7, NobodySearches DEF Tick, vars, reqs
<1> QED
  BY <1>2, <1>3, <1>4, <1>6, <1>7, NobodySearches DEF Next, Acquire, Report

(* What the comment in get_or_create_state says of the ceiling, which the   *)
(* window between a lookup and its acquire refutes for a table that is too  *)
(* small, is true of a table with room for every origin in use.             *)
THEOREM RoomKeepsCeiling ==
    ASSUME RoomForAll
    PROVE  Spec => []IdleEvictionKeepsCeiling
<1>1. Init => NeverEvicted
  BY DEF Init, NeverEvicted, Sweepers
<1>2. NeverEvicted /\ CeilingKept => IdleEvictionKeepsCeiling
  BY DEF NeverEvicted, CeilingKept, IdleEvictionKeepsCeiling
<1>3. TypeOK /\ NeverEvicted /\ [Next]_vars => NeverEvicted'
  BY RoomStep
<1> QED  BY <1>1, <1>2, <1>3, TypeCorrect, CeilingCorrect, PTL DEF Spec

-----------------------------------------------------------------------------
(* The queues of the semaphores.  Who waits at one has those ahead who wait *)
(* there too, and all who wait there are in one line.                       *)
SameQueue(q, r) == pc[q] = "wait" /\ pc[r] = "wait" /\ st[q] = st[r] /\ KindOf(q) = KindOf(r)

LineInv ==
    \A r \in Req :
        /\ \A q \in ahead[r] : q # r /\ SameQueue(q, r) /\ ahead[q] \subseteq ahead[r]
        /\ \A q \in Req \ {r} : SameQueue(q, r) => q \in ahead[r] \/ r \in ahead[q]

(* Who leaves a queue leaves the others in line.                            *)
LEMMA LeavingKeepsLine ==
    ASSUME TypeOK, LineInv, NEW h \in Req,
           ahead' = [x \in Req |-> IF x = h THEN {} ELSE ahead[x] \ {h}],
           \A q \in Req : pc'[q] = "wait" <=> pc[q] = "wait" /\ q # h,
           \A q \in Req \ {h} : pc[q] = "wait" => st'[q] = st[q]
    PROVE  LineInv'
<1>1. \A q \in Req, r \in Req : SameQueue(q, r)' <=> SameQueue(q, r) /\ q # h /\ r # h
  BY DEF SameQueue
<1>2. \A r \in Req : \A q \in ahead'[r] : q \in ahead[r] /\ q # h /\ r # h /\ q \in Req
  BY DEF TypeOK
<1>3. \A r \in Req : \A q \in ahead'[r] :
          q # r /\ SameQueue(q, r)' /\ ahead'[q] \subseteq ahead'[r]
  BY <1>1, <1>2 DEF LineInv
<1>4. \A r \in Req : \A q \in Req \ {r} : SameQueue(q, r)' => q \in ahead'[r] \/ r \in ahead'[q]
  BY <1>1 DEF LineInv
<1> QED  BY <1>3, <1>4 DEF LineInv

LEMMA StandingKeepsLine ==
    ASSUME TypeOK, LineInv, UNCHANGED ahead,
           \A q \in Req : pc'[q] = "wait" <=> pc[q] = "wait",
           \A q \in Req : pc[q] = "wait" => st'[q] = st[q]
    PROVE  LineInv'
<1>1. \A q \in Req, r \in Req : SameQueue(q, r)' <=> SameQueue(q, r)
  BY DEF SameQueue
<1>2. \A r \in Req : ahead[r] \subseteq Req
  BY DEF TypeOK
<1> QED  BY <1>1, <1>2 DEF LineInv

LEMMA GiveBackKeepsLine ==
    ASSUME TypeOK, LineInv, NEW r \in Req, pc[r] \in HoldingPc, GiveBack(r)
    PROVE  LineInv'
<1>1. CASE Waiting(st[r], KindOf(r)) = {}
  <2>1. UNCHANGED ahead /\ pc' = [pc EXCEPT ![r] = "idle"] /\ st' = [st EXCEPT ![r] = None]
    BY <1>1 DEF GiveBack, Forget
  <2> QED  BY <2>1, StandingKeepsLine DEF HoldingPc, TypeOK
<1>2. CASE Waiting(st[r], KindOf(r)) # {}
  <2>1. PICK h \in Waiting(st[r], KindOf(r)) :
          /\ ahead[h] = {}
          /\ pc' = [pc EXCEPT ![r] = "idle", ![h] = "recheck"]
          /\ ahead' = [x \in Req |-> ahead[x] \ {h}]
    BY <1>2 DEF GiveBack
  <2>2. h \in Req /\ pc[h] = "wait" /\ h # r
    BY <2>1 DEF Waiting, HoldingPc
  <2>3. st' = [st EXCEPT ![r] = None]
    BY DEF GiveBack, Forget
  <2>4. ahead' = [x \in Req |-> IF x = h THEN {} ELSE ahead[x] \ {h}]
    BY <2>1
  <2>5. \A q \in Req : pc'[q] = "wait" <=> pc[q] = "wait" /\ q # h
    BY <2>1, <2>2 DEF HoldingPc, TypeOK
  <2>6. \A q \in Req \ {h} : pc[q] = "wait" => st'[q] = st[q]
    BY <2>2, <2>3 DEF HoldingPc, TypeOK
  <2> QED  BY <2>2, <2>4, <2>5, <2>6, LeavingKeepsLine
<1> QED  BY <1>1, <1>2

LEMMA LineStep == TypeOK /\ LineInv /\ [Next]_vars => LineInv'
<1> SUFFICES ASSUME TypeOK, LineInv, [Next]_vars PROVE LineInv'
  OBVIOUS
<1>1. ASSUME NEW r \in Req, Queue(r) PROVE LineInv'
  <2>1. /\ pc[r] = "acquire" /\ pc' = [pc EXCEPT ![r] = "wait"] /\ st' = st
        /\ ahead' = [ahead EXCEPT ![r] = Waiting(st[r], KindOf(r))]
    BY <1>1 DEF Queue
  <2>2. \A q \in Req \ {r} : ahead'[q] = ahead[q] /\ r \notin ahead[q]
    BY <2>1 DEF LineInv, SameQueue, TypeOK
  <2>3. \A p \in Req \ {r}, q \in Req \ {r} : SameQueue(p, q)' <=> SameQueue(p, q)
    BY <2>1 DEF SameQueue, TypeOK
  <2>4. \A q \in Req \ {r} : SameQueue(q, r)' /\ SameQueue(r, q)' <=> q \in ahead'[r]
    BY <2>1 DEF SameQueue, Waiting, TypeOK
  <2>5. ahead'[r] \subseteq Req \ {r}
    BY <2>1 DEF Waiting, TypeOK
  <2>6. \A q \in Req \ {r} : SameQueue(q, r)' <=> SameQueue(r, q)'
    BY DEF SameQueue
  <2>7. ASSUME NEW q \in ahead'[r] PROVE ahead'[q] \subseteq ahead'[r]
    <3>1. q \in Req \ {r} /\ SameQueue(q, r)'
      BY <2>4, <2>5
    <3>2. ASSUME NEW p \in ahead[q] PROVE p \in ahead'[r]
      <4>1. p \in Req \ {r} /\ SameQueue(p, q)
        BY <2>2, <3>1 DEF LineInv, TypeOK
      <4>2. SameQueue(p, r)'
        BY <2>3, <3>1, <4>1 DEF SameQueue
      <4> QED  BY <2>4, <2>6, <4>1, <4>2
    <3> QED  BY <2>2, <3>1, <3>2
  <2>8. ASSUME NEW q \in Req \ {r}, NEW p \in ahead'[q]
        PROVE  p # q /\ SameQueue(p, q)' /\ ahead'[p] \subseteq ahead'[q]
    <3>1. p \in Req \ {r} /\ p \in ahead[q]
      BY <2>2 DEF TypeOK
    <3> QED  BY <2>2, <2>3, <3>1 DEF LineInv
  <2>9. ASSUME NEW q \in Req, NEW p \in Req \ {q}, SameQueue(p, q)'
        PROVE  p \in ahead'[q] \/ q \in ahead'[p]
    <3>1. CASE p # r /\ q # r
      BY <2>2, <2>3, <2>9, <3>1 DEF LineInv
    <3>2. CASE p = r \/ q = r
      BY <2>4, <2>6, <2>9, <3>2
    <3> QED  BY <3>1, <3>2
  <2>10. \A q \in ahead'[r] : q # r /\ SameQueue(q, r)' /\ ahead'[q] \subseteq ahead'[r]
    BY <2>4, <2>5, <2>7
  <2> QED  BY <2>8, <2>9, <2>10 DEF LineInv
<1>2. ASSUME NEW r \in Req, TimeOut(r) PROVE LineInv'
  <2>1. CASE pc[r] = "recheck" /\ GiveBack(r)
    BY <2>1, GiveBackKeepsLine DEF HoldingPc
  <2>2. CASE /\ pc' = [pc EXCEPT ![r] = "idle"] /\ Forget(r)
             /\ ahead' = [x \in Req |-> IF x = r THEN {} ELSE ahead[x] \ {r}]
    BY <2>2, LeavingKeepsLine DEF Forget, TypeOK
  <2>3. CASE /\ pc[r] = "make" /\ pc' = [pc EXCEPT ![r] = "idle"] /\ Forget(r)
             /\ UNCHANGED sems
    BY <2>3, StandingKeepsLine DEF Forget, sems, TypeOK
  <2> QED  BY <1>2, <2>1, <2>2, <2>3 DEF TimeOut
<1>3. ASSUME NEW r \in Req, RejectAfterWait(r) \/ Release(r) PROVE LineInv'
  BY <1>3, GiveBackKeepsLine DEF RejectAfterWait, Release, HoldingPc
<1>4. ASSUME NEW r \in Req, NEW p \in Pc \ {"wait"}, pc[r] # "wait",
             pc' = [pc EXCEPT ![r] = p], UNCHANGED ahead, \A q \in Req \ {r} : st'[q] = st[q]
      PROVE  LineInv'
  BY <1>4, StandingKeepsLine DEF TypeOK
<1>5. ASSUME NEW r \in Req, NEW o \in Origin, LookUp(r, o) PROVE LineInv'
  BY <1>4, <1>5 DEF LookUp, Pc, sems, TypeOK
<1>6. ASSUME NEW r \in Req, PassCircuit(r) \/ RejectAtCircuit(r) \/ Take(r) \/ Admit(r) PROVE LineInv'
  BY <1>4, <1>6 DEF PassCircuit, RejectAtCircuit, Take, Admit, Forget, Pc, HoldingPc, sems, TypeOK
<1>7. ASSUME NEW r \in Req, Report(r) \/ NextHop(r) PROVE LineInv'
  BY <1>4, <1>7 DEF Report, RecordSuccess, RecordFailure, Note, NextHop, Pc, HoldingPc, sems
<1>8. ASSUME \/ Tick \/ UNCHANGED vars \/ \E r \in Req : See(r)
      PROVE  LineInv'
  BY <1>8, StandingKeepsLine DEF Tick, See, vars, sems, reqs
<1>9. ASSUME NEW r \in Req, Replace(r) PROVE LineInv'
  BY <1>4, <1>9 DEF Replace, Sweepers, Pc, HoldingPc, sems, TypeOK
<1> QED  BY <1>1, <1>2, <1>3, <1>5, <1>6, <1>7, <1>8, <1>9 DEF Next, Acquire

(* A permit that is given back always finds the one who has waited longest: *)
(* of those who wait at a semaphore one has nobody ahead, and is ahead of   *)
(* all others.  Without it a dropped permit would be lost, or its holder    *)
(* could not get rid of it.                                                 *)
FirstInLine ==
    \A s \in Object, k \in Kind : Waiting(s, k) # {} =>
        \E h \in Waiting(s, k) : ahead[h] = {} /\ \A q \in Waiting(s, k) \ {h} : h \in ahead[q]

LEMMA LineHasFirst == TypeOK /\ LineInv => FirstInLine
<1> SUFFICES ASSUME TypeOK, LineInv, NEW s \in Object, NEW k \in Kind, Waiting(s, k) # {}
             PROVE  \E h \in Waiting(s, k) :
                        ahead[h] = {} /\ \A q \in Waiting(s, k) \ {h} : h \in ahead[q]
  BY DEF FirstInLine
<1>1. \A q \in Waiting(s, k) : IsFiniteSet(ahead[q]) /\ Cardinality(ahead[q]) \in Nat
  <2>1. ASSUME NEW q \in Waiting(s, k) PROVE ahead[q] \subseteq Req
    BY DEF Waiting, TypeOK
  <2> QED  BY <2>1, OriginAssumption, FS_Subset, FS_CardinalityType
<1> DEFINE N == {Cardinality(ahead[q]) : q \in Waiting(s, k)}
<1>2. PICK n \in N : \A m \in N : n <= m
  <2>1. N \subseteq Nat /\ N # {}
    BY <1>1
  <2> QED  BY <2>1, LeastNumber
<1>3. PICK h \in Waiting(s, k) : Cardinality(ahead[h]) = n
  OBVIOUS
<1>4. h \in Req /\ pc[h] = "wait" /\ st[h] = s /\ KindOf(h) = k
  BY DEF Waiting
<1>5. ahead[h] = {}
  <2> SUFFICES ASSUME NEW q \in ahead[h] PROVE FALSE
    OBVIOUS
  <2>1. q \in Waiting(s, k) /\ ahead[q] \subseteq ahead[h]
    BY <1>4 DEF LineInv, SameQueue, Waiting, TypeOK
  <2>2. q \notin ahead[q]
    BY <2>1 DEF LineInv, Waiting
  <2>3. ahead[q] \subseteq ahead[h] \ {q}
    BY <2>1, <2>2
  <2>4. IsFiniteSet(ahead[h] \ {q}) /\ Cardinality(ahead[h] \ {q}) = Cardinality(ahead[h]) - 1
    BY <1>1, FS_RemoveElement
  <2>5. Cardinality(ahead[q]) <= Cardinality(ahead[h]) - 1
    BY <2>3, <2>4, FS_Subset
  <2>6. Cardinality(ahead[q]) \in N /\ Cardinality(ahead[q]) \in Nat /\ Cardinality(ahead[h]) \in Nat
    BY <1>1, <2>1
  <2> QED  BY <1>2, <1>3, <2>5, <2>6
<1>6. ASSUME NEW q \in Waiting(s, k) \ {h} PROVE h \in ahead[q]
  BY <1>4, <1>5 DEF LineInv, SameQueue, Waiting
<1> QED  BY <1>5, <1>6

(* The controller never loses the order of its queues.                      *)
THEOREM FirstInLineCorrect == Spec => []FirstInLine
<1>1. Init => LineInv
  BY DEF Init, LineInv, SameQueue
<1> QED  BY <1>1, LineStep, LineHasFirst, TypeCorrect, PTL DEF Spec

-----------------------------------------------------------------------------
(* The controller keeps the promise of OriginPermits, if no entry is ever   *)
(* evicted: then an origin has one object from its first use on, objects    *)
(* that are not made yet are blank, and an outcome is noted in the object   *)
(* of the origin whose permit is held.                                      *)

EntryInv ==
    /\ \A s \in Object : s > made => failures[s] = NewFailures
    /\ \A o \in tracked, p \in tracked : states[o] = states[p] => o = p
    /\ \A r \in Req : pc[r] = "note" => r \notin Render /\ report[r].st = states[key[r]]

LEMMA UsersTracked ==
    ASSUME TypeOK, NeverEvicted, ReferencesCurrent, NEW r \in Req, pc[r] # "idle"
    PROVE  key[r] \in tracked /\ st[r] = states[key[r]] /\ states[key[r]] \in Object
  BY NobodySearches, ObjectTyped, OriginAssumption
     DEF TypeOK, NeverEvicted, ReferencesCurrent, tracked, None, Object

(* A lookup leaves the entries there are, and adds a blank one at most.     *)
LEMMA LookupKeepsEntries ==
    ASSUME TypeOK, EntryInv, NEW o \in Origin, get_or_create_state(o), UNCHANGED failures
    PROVE  /\ \A s \in Object : s > made' => failures'[s] = NewFailures
           /\ \A p \in tracked', q \in tracked' : states'[p] = states'[q] => p = q
           /\ tracked \subseteq tracked' /\ \A p \in tracked : states'[p] = states[p]
           /\ \A p \in tracked' \ tracked : p \in Origin /\ failures'[states'[p]] = NewFailures
<1>0. made \in Nat /\ states \in [Origin -> 0..made] /\ MaxObjects \in Nat /\ made <= MaxObjects
  BY OriginAssumption DEF TypeOK
<1>1. CASE UNCHANGED <<states, made>>
  BY <1>1 DEF EntryInv, tracked
<1>2. CASE /\ o \notin tracked /\ made < MaxObjects /\ made' = made + 1
           /\ states' = [states EXCEPT ![o] = made']
  <2>1. tracked' = tracked \cup {o} /\ \A p \in tracked : p # o /\ states'[p] = states[p]
    BY <1>0, <1>2 DEF tracked, None
  <2>2. states'[o] = made + 1 /\ made + 1 \in Object
    BY <1>0, <1>2 DEF Object
  <2>3. \A p \in tracked : states[p] \in 1..made
    BY <1>0 DEF tracked, None
  <2>4. failures[made + 1] = NewFailures
    BY <1>0, <2>2 DEF EntryInv
  <2>5. \A s \in Object : s > made + 1 => s > made
    BY <1>0 DEF Object
  <2>6. \A s \in Object : s > made' => failures'[s] = NewFailures
    BY <1>2, <2>5 DEF EntryInv
  <2>7. \A p \in tracked', q \in tracked' : states'[p] = states'[q] => p = q
    BY <1>0, <2>1, <2>2, <2>3 DEF EntryInv
  <2> QED  BY <2>1, <2>2, <2>4, <2>6, <2>7
<1> QED  BY <1>1, <1>2 DEF get_or_create_state

LEMMA EntryStep ==
    ASSUME RoomForAll
    PROVE  TypeOK /\ NeverEvicted /\ ReferencesCurrent /\ EntryInv /\ [Next]_vars => EntryInv'
<1> SUFFICES ASSUME TypeOK, NeverEvicted, ReferencesCurrent, EntryInv, [Next]_vars PROVE EntryInv'
  OBVIOUS
<1>t. \A q \in Req : pc[q] # "idle" => key[q] \in tracked
  BY UsersTracked
<1>1. ASSUME NEW r \in Req, NEW o \in Origin, LookUp(r, o) PROVE EntryInv'
  <2>1. get_or_create_state(o) /\ UNCHANGED failures
    BY <1>1, RoomMeansNoSweep DEF LookUp
  <2>2. \A q \in Req : pc'[q] = "note" => pc[q] = "note" /\ report'[q] = report[q] /\ key'[q] = key[q]
    BY <1>1 DEF LookUp, TypeOK
  <2> QED  BY <1>t, <2>1, <2>2, LookupKeepsEntries DEF EntryInv
<1>2. ASSUME NEW r \in Req, NEW class \in FailureClass, RecordFailure(r, class) PROVE EntryInv'
  <2>1. get_or_create_state(key[r]) /\ UNCHANGED <<failures, key>> /\ key[r] \in Origin /\ r \notin Render
    BY <1>2, RoomMeansNoSweep DEF RecordFailure, KindOf, TypeOK
  <2>2. report'[r].st = states'[key[r]]
    BY <1>2, <2>1, RoomMeansNoSweep DEF RecordFailure, TypeOK
  <2>3. \A q \in Req \ {r} : pc'[q] = "note" => pc[q] = "note" /\ report'[q] = report[q]
    BY <1>2 DEF RecordFailure, TypeOK
  <2> QED  BY <1>t, <2>1, <2>2, <2>3, LookupKeepsEntries DEF EntryInv
<1>3. ASSUME NEW r \in Req, RecordSuccess(r) PROVE EntryInv'
  <2>1. UNCHANGED <<states, made, failures, key>> /\ r \notin Render
    BY <1>3 DEF RecordSuccess, KindOf, table
  <2>2. pc'[r] = "note" => report'[r].st = states[key[r]]
    BY <1>3 DEF RecordSuccess, TypeOK
  <2>3. \A q \in Req \ {r} : pc'[q] = "note" => pc[q] = "note" /\ report'[q] = report[q]
    BY <1>3 DEF RecordSuccess, TypeOK
  <2> QED  BY <2>1, <2>2, <2>3 DEF EntryInv, tracked
<1>4. ASSUME NEW r \in Req, Note(r) PROVE EntryInv'
  <2>1. UNCHANGED <<states, made, key>>
    BY <1>4 DEF Note, table
  <2>2. \A q \in Req : pc'[q] = "note" => pc[q] = "note" /\ report'[q] = report[q]
    BY <1>4 DEF Note, TypeOK
  <2>3. \A s \in Object : s > made => failures'[s] = failures[s]
    <3>1. report[r].st \in 1..made /\ made \in Nat
      BY <1>4, OriginAssumption DEF Note, TypeOK
    <3> QED  BY <1>4, <3>1, NotedUntil DEF Object
  <2> QED  BY <2>1, <2>2, <2>3 DEF EntryInv, tracked
<1>5. ASSUME UNCHANGED <<states, made, failures>>,
             \A q \in Req : pc'[q] = "note" => pc[q] = "note" /\ report'[q] = report[q] /\ key'[q] = key[q]
      PROVE  EntryInv'
  BY <1>5 DEF EntryInv, tracked
<1>6. ASSUME NEW r \in Req, NEW p \in Pc \ {"note"}, pc' = [pc EXCEPT ![r] = p],
             UNCHANGED <<states, made, failures>>,
             \A q \in Req \ {r} : report'[q] = report[q] /\ key'[q] = key[q]
      PROVE  EntryInv'
  BY <1>5, <1>6 DEF TypeOK
<1>7. ASSUME NEW r \in Req, GiveBack(r), pc[r] \in HoldingPc, UNCHANGED <<table, failures>> PROVE EntryInv'
  <2>1. \A q \in Req \ {r} : report'[q] = report[q] /\ key'[q] = key[q]
    BY <1>7 DEF GiveBack, Forget, TypeOK
  <2>2. \A q \in Req : pc'[q] = "note" => q # r /\ pc[q] = "note"
    <3>1. CASE Waiting(st[r], KindOf(r)) = {}
      BY <1>7, <3>1 DEF GiveBack, TypeOK
    <3>2. CASE Waiting(st[r], KindOf(r)) # {}
      <4>1. PICK h \in Waiting(st[r], KindOf(r)) : pc' = [pc EXCEPT ![r] = "idle", ![h] = "recheck"]
        BY <1>7, <3>2 DEF GiveBack
      <4>2. h \in Req /\ h # r
        BY <1>7 DEF Waiting, HoldingPc
      <4> QED  BY <4>1, <4>2 DEF TypeOK
    <3> QED  BY <3>1, <3>2
  <2> QED  BY <1>5, <1>7, <2>1, <2>2 DEF table
<1>8. ASSUME NEW r \in Req, Acquire(r) PROVE EntryInv'
  BY <1>6, <1>7, <1>8 DEF Acquire, PassCircuit, RejectAtCircuit, Take, Queue, Admit, RejectAfterWait,
     Forget, Pc, HoldingPc, table, TypeOK
<1>9. ASSUME NEW r \in Req, TimeOut(r) \/ NextHop(r) \/ Release(r) PROVE EntryInv'
  BY <1>6, <1>7, <1>9 DEF TimeOut, NextHop, Release, Forget, Pc, HoldingPc, table, TypeOK
<1>10. CASE Tick \/ UNCHANGED vars
  BY <1>5, <1>10 DEF Tick, vars, table, reqs
<1> QED  BY <1>1, <1>2, <1>3, <1>4, <1>8, <1>9, <1>10, NobodySearches DEF Next, Report

(* The state of every origin's circuit, as its users see it, stands.        *)
LEMMA CircuitsStand ==
    ASSUME TypeOK, UNCHANGED <<failures, now>>,
           tracked \subseteq tracked' /\ tracked' \subseteq Origin,
           \A p \in tracked : states'[p] = states[p],
           \A p \in tracked' \ tracked : failures'[states'[p]] = NewFailures
    PROVE  UNCHANGED <<Count, BackedOff>>
<1>1. now \in Nat /\ Capped(0) = 0
  BY OriginAssumption DEF TypeOK, Capped
<1>2. ASSUME NEW p \in Origin PROVE Count'[p] = Count[p] /\ BackedOff'[p] = BackedOff[p]
  <2>1. CASE p \in tracked
    BY <2>1 DEF Count, BackedOff, CircuitOpen, Capped
  <2>2. CASE p \in tracked' \ tracked
    BY <1>1, <2>2 DEF Count, BackedOff, CircuitOpen, Capped, NewFailures
  <2>3. CASE p \notin tracked'
    BY <2>3 DEF Count, BackedOff
  <2> QED  BY <2>1, <2>2, <2>3
<1> QED  BY <1>2 DEF Count, BackedOff

(* Nobody begins to use an origin in this step.                             *)
NobodyLetIn == \A r \in Req \ Render : pc'[r] \in InUse => pc[r] \in InUse /\ key'[r] = key[r]

LEMMA UsersGiveBack ==
    ASSUME NobodyLetIn
    PROVE  \E S \in SUBSET FetchUser : Promise!GiveBackOf(S)
<1> DEFINE S == {r \in FetchUser : HeldAt'[r] # HeldAt[r]}
<1>1. \A r \in FetchUser : HeldAt'[r] = IF r \in S THEN None ELSE HeldAt[r]
  BY DEF HeldAt, FetchUser, NobodyLetIn
<1>2. HeldAt' = [r \in FetchUser |-> HeldAt'[r]]
  BY DEF HeldAt
<1>3. HeldAt' = [r \in FetchUser |-> IF r \in S THEN None ELSE HeldAt[r]]
  BY <1>1, <1>2, Zenon
<1> QED  BY <1>3 DEF Promise!GiveBackOf

LEMMA OnlyLeaves ==
    ASSUME NobodyLetIn, UNCHANGED <<Count, BackedOff>>
    PROVE  Promise!PermitNext
  BY UsersGiveBack DEF Promise!PermitNext, Promise!Leaves

(* A permit given back goes to one who is still to be checked.              *)
LEMMA GiveBackLetsNobodyIn ==
    ASSUME TypeOK, NEW r \in Req, pc[r] \in HoldingPc, GiveBack(r)
    PROVE  NobodyLetIn
<1>1. \A q \in Req \ {r} : key'[q] = key[q]
  BY DEF GiveBack, Forget, TypeOK
<1>2. CASE Waiting(st[r], KindOf(r)) = {}
  BY <1>1, <1>2 DEF GiveBack, NobodyLetIn, InUse, TypeOK
<1>3. CASE Waiting(st[r], KindOf(r)) # {}
  <2>1. PICK h \in Waiting(st[r], KindOf(r)) : pc' = [pc EXCEPT ![r] = "idle", ![h] = "recheck"]
    BY <1>3 DEF GiveBack
  <2>2. h \in Req /\ h # r
    BY DEF Waiting, HoldingPc
  <2> QED  BY <1>1, <2>1, <2>2 DEF NobodyLetIn, InUse, TypeOK
<1> QED  BY <1>2, <1>3

LEMMA SameCardinality ==
    ASSUME NEW S
    PROVE  Promise!Cardinality(S) = Cardinality(S)
  BY DEF Promise!Cardinality, Cardinality

(* One who is let through has a permit already, so that the users there are *)
(* are fewer than the ceiling.                                              *)
LEMMA AdmitPromised ==
    ASSUME TypeOK, NeverEvicted, ReferencesCurrent, CeilingKept, NEW r \in Req, Admit(r),
           UNCHANGED <<Count, BackedOff>>
    PROVE  Promise!PermitNext
<1>1. CASE r \in Render
  <2>1. NobodyLetIn
    BY <1>1 DEF Admit, NobodyLetIn, TypeOK
  <2> QED  BY <2>1, OnlyLeaves
<1>2. CASE r \notin Render
  <2> DEFINE U == Promise!UsersOf(key[r])  H == Users(key[r], "http")
  <2>1. r \in FetchUser /\ key[r] \in Origin /\ key[r] \in tracked
    BY <1>2, UsersTracked DEF Admit, FetchUser, TypeOK
  <2>2. HeldAt[r] = None /\ ~BackedOff[key[r]]
    BY <2>1, UsersTracked DEF Admit, HeldAt, InUse, BackedOff
  <2>3. HeldAt' = [HeldAt EXCEPT ![r] = key[r]]
    BY <2>1 DEF Admit, HeldAt, InUse, FetchUser, TypeOK
  <2>4. U \subseteq H \ {r} /\ r \in H
    BY <1>2, <2>1, <2>2, OriginAssumption
       DEF Promise!UsersOf, HeldAt, FetchUser, Users, InUse, HoldingPc, KindOf, Admit, None
  <2>5. IsFiniteSet(H) /\ Cardinality(H) \in Nat /\ Cardinality(H) <= http_concurrency
    <3>1. H \subseteq Req
      BY DEF Users
    <3>2. Cardinality(H) <= Concurrency["http"]
      BY <2>1 DEF CeilingKept, NeverEvicted, Kind
    <3> QED  BY <3>1, <3>2, OriginAssumption, FS_Subset, FS_CardinalityType DEF Concurrency
  <2>6. Cardinality(U) < http_concurrency
    <3>1. IsFiniteSet(H \ {r}) /\ Cardinality(H \ {r}) = Cardinality(H) - 1
      BY <2>4, <2>5, FS_RemoveElement
    <3>2. IsFiniteSet(U) /\ Cardinality(U) <= Cardinality(H \ {r})
      BY <2>4, <3>1, FS_Subset
    <3>3. Cardinality(U) \in Nat
      BY <3>2, FS_CardinalityType
    <3> QED  BY <2>5, <3>1, <3>2, <3>3, OriginAssumption
  <2>7. Promise!Cardinality(U) = Cardinality(U)
    BY SameCardinality
  <2>8. Promise!AdmitUser(r, key[r])
    BY <2>2, <2>3, <2>6, <2>7 DEF Promise!AdmitUser
  <2> QED  BY <2>1, <2>8 DEF Promise!PermitNext
<1> QED  BY <1>1, <1>2

(* What is noted in the object of an origin is what the promise records.    *)
LEMMA NotedAsPromised ==
    ASSUME TypeOK, NEW f \in FailureState, NEW outcome \in {"Success", "Retryable", "NonRetryable"}
    PROVE  LET g == Noted(f, outcome)
               n == IF Capped(f.count) < circuit_failure_threshold
                    THEN Capped(f.count) + 1 ELSE circuit_failure_threshold
           IN /\ outcome = "Success" => Capped(g.count) = 0 /\ ~(now < g.open_until)
              /\ outcome = "NonRetryable" => Capped(g.count) = 0 /\ g.open_until = f.open_until
              /\ outcome = "Retryable" =>
                    /\ Capped(g.count) = n
                    /\ n = circuit_failure_threshold => now < g.open_until
                    /\ n # circuit_failure_threshold => g.open_until = f.open_until
<1> DEFINE g == Noted(f, outcome)
           n == IF Capped(f.count) < circuit_failure_threshold
                THEN Capped(f.count) + 1 ELSE circuit_failure_threshold
           m == IF f.count < U8_MAX THEN f.count + 1 ELSE f.count
<1>0. /\ f.count \in 0..U8_MAX /\ f.open_until \in Nat /\ now \in Nat
      /\ U8_MAX \in Nat /\ circuit_duration \in Nat \ {0}
      /\ circuit_failure_threshold \in Nat \ {0} /\ circuit_failure_threshold <= U8_MAX
  BY OriginAssumption DEF FailureState, TypeOK
<1>1. CASE outcome = "Success"
  BY <1>0, <1>1 DEF Noted, NewFailures, Capped
<1>2. CASE outcome = "NonRetryable"
  BY <1>0, <1>2 DEF Noted, FailureState, Capped
<1>3. CASE outcome = "Retryable"
  <2>1. m \in Nat /\ n = Capped(m)
    BY <1>0 DEF Capped
  <2>2. CASE m < circuit_failure_threshold
    <3>1. g = [f EXCEPT !.count = m]
      BY <1>0, <1>3, <2>1, <2>2 DEF Noted
    <3>2. g.count = m /\ g.open_until = f.open_until
      BY <3>1 DEF FailureState
    <3>3. n = m
      BY <2>1, <2>2 DEF Capped
    <3> HIDE DEF g, n, m
    <3> QED  BY <1>0, <1>3, <2>1, <2>2, <3>2, <3>3 DEF g, n
  <2>3. CASE m >= circuit_failure_threshold
    <3>1. g = [count |-> m, open_until |-> now + circuit_duration]
      BY <1>0, <1>3, <2>1, <2>3 DEF Noted
    <3>2. g.count = m /\ g.open_until = now + circuit_duration
      BY <3>1
    <3>3. n = circuit_failure_threshold
      BY <1>0, <2>1, <2>3 DEF Capped
    <3>4. now < now + circuit_duration
      BY <1>0
    <3> HIDE DEF g, n, m
    <3> QED  BY <1>3, <2>1, <3>2, <3>3, <3>4 DEF g, n
  <2>4. m < circuit_failure_threshold \/ m >= circuit_failure_threshold
    BY <1>0
  <2> QED  BY <2>2, <2>3, <2>4
<1> QED  BY <1>1, <1>2, <1>3

LEMMA NotePromised ==
    ASSUME TypeOK, NeverEvicted, ReferencesCurrent, EntryInv, NEW r \in Req, Note(r)
    PROVE  Promise!PermitNext
<1> DEFINE o == key[r]  s0 == states[o]  f == failures[s0]  x == report[r].outcome
           n == IF Count[o] < circuit_failure_threshold
                THEN Count[o] + 1 ELSE circuit_failure_threshold
<1>1. pc[r] = "note" /\ r \in FetchUser /\ report[r].st = s0 /\ r \notin Render
  BY DEF Note, EntryInv, FetchUser
<1>2. o \in tracked /\ o \in Origin /\ s0 \in Object /\ f \in FailureState
  BY <1>1, UsersTracked DEF tracked, TypeOK
<1>3. x \in {"Success", "Retryable", "NonRetryable"}
  BY <1>1, OriginAssumption DEF TypeOK
<1>4. /\ UNCHANGED <<states, now, key>>
      /\ failures' = [failures EXCEPT ![s0] = Noted(f, x)]
      /\ failures'[s0] = Noted(f, x)
  BY <1>1, <1>2 DEF Note, table, TypeOK
<1>5. tracked' = tracked
  BY <1>4 DEF tracked
<1>6. ASSUME NEW p \in Origin, p # o PROVE Count'[p] = Count[p] /\ BackedOff'[p] = BackedOff[p]
  <2>1. CASE p \in tracked
    <3>1. states[p] # s0
      BY <1>2, <1>6, <2>1 DEF EntryInv
    <3>2. failures'[states[p]] = failures[states[p]]
      BY <1>4, <3>1 DEF TypeOK
    <3> QED  BY <1>4, <1>5, <3>2 DEF Count, BackedOff, CircuitOpen, Capped
  <2>2. CASE p \notin tracked
    BY <1>5, <2>2 DEF Count, BackedOff
  <2> QED  BY <2>1, <2>2
<1>7. /\ Count[o] = Capped(f.count) /\ Count'[o] = Capped(Noted(f, x).count)
      /\ BackedOff[o] = (now < f.open_until) /\ BackedOff'[o] = (now < Noted(f, x).open_until)
  BY <1>2, <1>4, <1>5 DEF Count, BackedOff, CircuitOpen, Capped
<1>n. /\ x = "Success" => Capped(Noted(f, x).count) = 0 /\ ~(now < Noted(f, x).open_until)
      /\ x = "NonRetryable" => /\ Capped(Noted(f, x).count) = 0
                               /\ Noted(f, x).open_until = f.open_until
      /\ x = "Retryable" =>
            /\ Capped(Noted(f, x).count) = n
            /\ n = circuit_failure_threshold => now < Noted(f, x).open_until
            /\ n # circuit_failure_threshold => Noted(f, x).open_until = f.open_until
  BY <1>2, <1>3, <1>7, NotedAsPromised
<1>8. /\ Count' = [Count EXCEPT ![o] = Count'[o]]
      /\ BackedOff' = [BackedOff EXCEPT ![o] = BackedOff'[o]]
  BY <1>6 DEF Count, BackedOff
<1>9. Promise!Answers(o) \/ Promise!Refuses(o) \/ Promise!Fails(o)
  <2>1. CASE x = "Success"
    <3>1. Count'[o] = 0 /\ BackedOff'[o] = FALSE
      <4>1. Count'[o] = 0 /\ ~BackedOff'[o]
        BY <1>7, <1>n, <2>1
      <4>2. BackedOff'[o] \in BOOLEAN
        BY <1>2 DEF BackedOff
      <4> QED  BY <4>1, <4>2
    <3> QED  BY <1>8, <3>1 DEF Promise!Answers
  <2>2. CASE x = "NonRetryable"
    <3>1. Count'[o] = 0 /\ BackedOff'[o] = BackedOff[o]
      BY <1>7, <1>n, <2>2
    <3>2. BackedOff' = BackedOff
      BY <1>8, <3>1 DEF BackedOff
    <3> QED  BY <1>8, <3>1, <3>2 DEF Promise!Refuses
  <2>3. CASE x = "Retryable"
    <3>1. /\ Count'[o] = n
          /\ n = circuit_failure_threshold => BackedOff'[o]
          /\ n # circuit_failure_threshold => BackedOff'[o] = BackedOff[o]
      BY <1>7, <1>n, <2>3
    <3>2. BackedOff[o] \in BOOLEAN /\ BackedOff'[o] \in BOOLEAN
      BY <1>7
    <3>3. BackedOff'[o] = (BackedOff[o] \/ n = circuit_failure_threshold)
      BY <3>1, <3>2, Zenon
    <3> QED  BY <1>8, <3>1, <3>3 DEF Promise!Fails
  <2> QED  BY <1>3, <2>1, <2>2, <2>3
<1>10. Promise!UsersOf(o) # {}
  BY <1>1 DEF Promise!UsersOf, HeldAt, InUse
<1>11. NobodyLetIn
  BY <1>1, <1>4 DEF Note, NobodyLetIn, InUse, TypeOK
<1>12. Promise!Record(o)
  BY <1>9, <1>10, <1>11, UsersGiveBack DEF Promise!Record
<1> QED  BY <1>2, <1>12 DEF Promise!PermitNext

(* The clock only closes circuits.                                          *)
LEMMA TickPromised ==
    ASSUME TypeOK, Tick
    PROVE  Promise!PermitNext
<1> DEFINE S == {o \in Origin : ~BackedOff'[o]}
<1>1. UNCHANGED <<Count, HeldAt>> /\ tracked' = tracked
  BY DEF Tick, table, reqs, Count, HeldAt, Capped, tracked
<1>2. ASSUME NEW o \in Origin PROVE BackedOff'[o] = (BackedOff[o] /\ o \notin S)
  <2>1. CASE o \in tracked
    <3>1. failures[states[o]] \in FailureState
      BY <2>1, OriginAssumption DEF TypeOK, tracked, None, Object
    <3>2. BackedOff[o] <=> now < failures[states[o]].open_until
      BY <2>1 DEF BackedOff, CircuitOpen
    <3>3. BackedOff'[o] <=> now + 1 < failures[states[o]].open_until
      BY <1>1, <2>1 DEF BackedOff, CircuitOpen, Tick, table
    <3>4. now + 1 < failures[states[o]].open_until => now < failures[states[o]].open_until
      BY <3>1, OriginAssumption DEF TypeOK, FailureState
    <3>5. BackedOff'[o] \in BOOLEAN /\ BackedOff[o] \in BOOLEAN
      BY DEF BackedOff
    <3>6. o \notin S <=> BackedOff'[o]
      OBVIOUS
    <3> HIDE DEF S
    <3> QED  BY <3>2, <3>3, <3>4, <3>5, <3>6, Zenon
  <2>2. CASE o \notin tracked
    BY <1>1, <2>2 DEF BackedOff
  <2> QED  BY <2>1, <2>2
<1>3. BackedOff' = [o \in Origin |-> BackedOff'[o]]
  BY DEF BackedOff
<1>4. BackedOff' = [o \in Origin |-> BackedOff[o] /\ o \notin S]
  BY <1>2, <1>3, Zenon
<1>5. Promise!TimePasses
  BY <1>1, <1>4 DEF Promise!TimePasses
<1> QED  BY <1>5 DEF Promise!PermitNext

LEMMA PermitStep ==
    ASSUME RoomForAll
    PROVE  TypeOK /\ NeverEvicted /\ ReferencesCurrent /\ CeilingKept /\ EntryInv /\ [Next]_vars
             => [Promise!PermitNext]_(Promise!permitVars)
<1> SUFFICES ASSUME TypeOK, NeverEvicted, ReferencesCurrent, CeilingKept, EntryInv, [Next]_vars
             PROVE  Promise!PermitNext
  OBVIOUS
<1>s. ASSUME UNCHANGED <<states, failures, now>> PROVE UNCHANGED <<Count, BackedOff>>
  BY <1>s, CircuitsStand DEF tracked
<1>l. ASSUME NEW o \in Origin, get_or_create_state(o), UNCHANGED <<failures, now>>
      PROVE  UNCHANGED <<Count, BackedOff>>
  BY <1>l, LookupKeepsEntries, CircuitsStand DEF tracked
<1>1. ASSUME NEW r \in Req, NEW o \in Origin, LookUp(r, o) PROVE Promise!PermitNext
  <2>1. NobodyLetIn
    BY <1>1 DEF LookUp, NobodyLetIn, InUse, TypeOK
  <2> QED  BY <1>1, <1>l, <2>1, OnlyLeaves, RoomMeansNoSweep DEF LookUp
<1>2. ASSUME NEW r \in Req, NEW class \in FailureClass, RecordFailure(r, class)
      PROVE  Promise!PermitNext
  <2>1. NobodyLetIn
    BY <1>2 DEF RecordFailure, NobodyLetIn, InUse, TypeOK
  <2>2. key[r] \in Origin
    BY <1>2 DEF RecordFailure, TypeOK
  <2> QED  BY <1>2, <1>l, <2>1, <2>2, OnlyLeaves, RoomMeansNoSweep DEF RecordFailure
<1>3. ASSUME NEW r \in Req, Note(r) PROVE Promise!PermitNext
  BY <1>3, NotePromised
<1>4. ASSUME NEW r \in Req, RecordSuccess(r) \/ NextHop(r) PROVE Promise!PermitNext
  <2>1. NobodyLetIn /\ UNCHANGED <<states, failures, now>>
    BY <1>4 DEF RecordSuccess, NextHop, NobodyLetIn, InUse, table, TypeOK
  <2> QED  BY <1>s, <2>1, OnlyLeaves
<1>5. ASSUME NEW r \in Req, pc[r] \in HoldingPc, GiveBack(r), UNCHANGED <<states, failures, now>>
      PROVE  Promise!PermitNext
  BY <1>5, <1>s, GiveBackLetsNobodyIn, OnlyLeaves
<1>6. ASSUME NEW r \in Req, Admit(r) PROVE Promise!PermitNext
  BY <1>6, <1>s, AdmitPromised DEF Admit, table
<1>7. ASSUME NEW r \in Req, RejectAfterWait(r) \/ Release(r) PROVE Promise!PermitNext
  BY <1>5, <1>7 DEF RejectAfterWait, Release, HoldingPc, table
<1>8. ASSUME NEW r \in Req, PassCircuit(r) \/ RejectAtCircuit(r) \/ Take(r) \/ Queue(r)
      PROVE  Promise!PermitNext
  <2>1. NobodyLetIn
    BY <1>8 DEF PassCircuit, RejectAtCircuit, Take, Queue, Forget, NobodyLetIn, InUse, TypeOK
  <2>2. UNCHANGED <<states, failures, now>>
    BY <1>8 DEF PassCircuit, RejectAtCircuit, Take, Queue, table
  <2> QED  BY <1>s, <2>1, <2>2, OnlyLeaves
<1>9. ASSUME NEW r \in Req, TimeOut(r) PROVE Promise!PermitNext
  <2>1. UNCHANGED <<states, failures, now>>
    BY <1>9 DEF TimeOut, table
  <2>2. CASE pc[r] = "recheck" /\ GiveBack(r)
    BY <1>5, <2>1, <2>2 DEF HoldingPc
  <2>3. CASE pc' = [pc EXCEPT ![r] = "idle"] /\ Forget(r)
    <3>1. NobodyLetIn
      BY <2>3 DEF Forget, NobodyLetIn, InUse, TypeOK
    <3> QED  BY <1>s, <2>1, <3>1, OnlyLeaves
  <2> QED  BY <1>9, <2>2, <2>3 DEF TimeOut
<1>10. CASE Tick
  BY <1>10, TickPromised
<1>11. CASE UNCHANGED vars
  <2>1. NobodyLetIn /\ UNCHANGED <<states, failures, now>>
    BY <1>11 DEF vars, table, reqs, NobodyLetIn
  <2> QED  BY <1>s, <2>1, OnlyLeaves
<1> QED
  BY <1>1, <1>2, <1>3, <1>4, <1>6, <1>7, <1>8, <1>9, <1>10, <1>11, NobodySearches
     DEF Next, Acquire, Report

(* A controller with room for every origin in use keeps its promise to all  *)
(* of them: its table, its objects, and the references that requests keep   *)
(* across their waits come to a ceiling and a circuit per origin.           *)
THEOREM ImplementsPermits ==
    ASSUME RoomForAll
    PROVE  Spec => PermitSpec
<1>1. Init => NeverEvicted /\ EntryInv /\ Promise!PermitInit
  <2>1. Init => tracked = {}
    BY DEF Init, tracked
  <2> QED
    BY <2>1 DEF Init, NeverEvicted, Sweepers, EntryInv, Promise!PermitInit, HeldAt, Count, BackedOff,
                InUse, FetchUser
<1>2. TypeOK /\ NeverEvicted /\ [Next]_vars => NeverEvicted'
  BY RoomStep
<1>3. TypeOK /\ NeverEvicted /\ ReferencesCurrent /\ EntryInv /\ [Next]_vars => EntryInv'
  BY EntryStep
<1>4. TypeOK /\ NeverEvicted /\ ReferencesCurrent /\ CeilingKept /\ EntryInv /\ [Next]_vars
        => [Promise!PermitNext]_(Promise!permitVars)
  BY PermitStep
<1> QED
  BY <1>1, <1>2, <1>3, <1>4, ControllerInvariant, CeilingCorrect, PTL
     DEF Spec, ControllerInv, PermitSpec, Promise!PermitSpec
=============================================================================
