---------------------------- MODULE OriginControl ----------------------------
(***************************************************************************)
(* OriginController (src/fetch/origin.rs): a bounded table of per-origin    *)
(* limiters shared by every fetch of the server.  An entry is an           *)
(* OriginState object: a semaphore per kind of request (HTTP fetch,        *)
(* browser render) and the failure counter with its circuit breaker.       *)
(*                                                                         *)
(* A request keeps a reference to the object it looked up while it waits   *)
(* and while it holds a permit; the table may drop that object meanwhile   *)
(* and make another one for the same origin.                              *)
(***************************************************************************)
EXTENDS Integers, FiniteSets

CONSTANTS
    Origin,                     \* origin keys, in their order (positive naturals)
    Req,                        \* concurrent users of the controller
    Bounded,                    \* those that wait under a timeout
    Render,                     \* those that ask for a browser permit
    FailureClass,               \* classes of failures that they report
    http_concurrency,
    browser_concurrency,
    circuit_failure_threshold,
    circuit_duration,           \* circuit_duration_ms, in clock ticks, at most 120 s
    max_entries,
    U8_MAX,                     \* where the failure counter saturates (255)
    MaxObjects,                 \* bound: OriginState objects ever made
    MaxTime                     \* bound: clock

\* Configuration::validate refuses a zero.  Only acquire_bounded (redirect
\* hops) and acquire_browser (under the deadline of run_web_fetch) give up.
ASSUME OriginAssumption ==
    /\ Origin \subseteq Nat \ {0}
    /\ IsFiniteSet(Req) /\ Bounded \subseteq Req /\ Render \subseteq Bounded
    /\ FailureClass \subseteq {"Retryable", "NonRetryable"}
    /\ http_concurrency \in Nat \ {0} /\ browser_concurrency \in Nat \ {0}
    /\ circuit_failure_threshold \in Nat \ {0}
    /\ U8_MAX \in Nat /\ circuit_failure_threshold <= U8_MAX
    /\ circuit_duration \in Nat \ {0}
    /\ max_entries \in Nat \ {0}
    /\ MaxObjects \in Nat /\ MaxTime \in Nat

Kind == {"http", "browser"}
Concurrency == [http |-> http_concurrency, browser |-> browser_concurrency]
KindOf(r) == IF r \in Render THEN "browser" ELSE "http"

Object == 1..MaxObjects
None == 0

\* RateLimited and Retryable differ only in the delay reported to the caller;
\* last_failure_class is written and never read.  open_until 0 is None.
FailureState == [count : 0..U8_MAX, open_until : Nat]
NewFailures == [count |-> 0, open_until |-> 0]

NoReport == [st |-> None, outcome |-> "None"]

VARIABLES
    states,         \* the table: the object of every origin, or None
    made,           \* objects made so far
    last_access,    \* last_access_ms of the entry of every origin
    permits,        \* available permits of every object and kind
    ahead,          \* the semaphores' queues: for a waiter, those queued before it
    failures,       \* FailureState of every object
    pc,             \* where every request is
    key,            \* its origin
    st,             \* the object it holds a reference to
    report,         \* the object and outcome of a record_* call in progress
    sweep,          \* the search for a victim, which has the table's mutex, or NoSweep
    now,
    forced,         \* history: origins evicted under a request for want of an idle one
    raced           \* history: origins taken, or about to be, when they were evicted

\* A sweep reads the entries one after the other, in HashMap's order: the
\* permits of one kind, of the other, then the circuit, for which it awaits a
\* lock.  The rest is history: the origins that have been idle ever since it
\* began, those of which a permit was taken after it had seen theirs free, and
\* those whose circuit opened after it had found them idle.
Sweep ==
    {s \in [stage : {"http", "browser", "circuit"}, entry : Origin \cup {None},
            unread : SUBSET Origin, idle : SUBSET Origin,
            untouched : SUBSET Origin, taken : SUBSET Origin, opened : SUBSET Origin] :
        s.stage = "http" <=> s.entry = None}
NoSweep == [stage |-> "none", entry |-> None, unread |-> {}, idle |-> {},
            untouched |-> {}, taken |-> {}, opened |-> {}]

history == <<forced, raced>>
table == <<states, made, last_access>>
sems == <<permits, ahead>>
reqs == <<pc, key, st, report>>
vars == <<table, sems, failures, reqs, sweep, now, history>>

tracked == {o \in Origin : states[o] # None}

CircuitOpen(s) == now < failures[s].open_until

\* Requests that hold a permit of a semaphore.
HoldingPc == {"recheck", "hold", "remake", "note", "noted"}
Holders(s, k) == {r \in Req : pc[r] \in HoldingPc /\ st[r] = s /\ KindOf(r) = k}

Waiting(s, k) == {r \in Req : pc[r] = "wait" /\ st[r] = s /\ KindOf(r) = k}

\* Requests that hold a reference to an object and no place at its semaphore.
Referencing(s) == {r \in Req : pc[r] \in {"check", "acquire"} /\ st[r] = s}

Attached(s) == {r \in Req : pc[r] \notin {"idle", "make"} /\ st[r] = s}

\* Requests that search the table for a victim, for the object they need.
Sweepers == {r \in Req : pc[r] \in {"make", "remake"}}

TableFree == sweep = NoSweep

Init ==
    /\ states = [o \in Origin |-> None]
    /\ made = 0
    /\ last_access = [o \in Origin |-> 0]
    /\ permits = [s \in Object |-> Concurrency]
    /\ ahead = [r \in Req |-> {}]
    /\ failures = [s \in Object |-> NewFailures]
    /\ pc = [r \in Req |-> "idle"]
    /\ key = [r \in Req |-> None]
    /\ st = [r \in Req |-> None]
    /\ report = [r \in Req |-> NoReport]
    /\ sweep = NoSweep
    /\ now = 0
    /\ forced = {}
    /\ raced = {}

-----------------------------------------------------------------------------
(* The table: get_or_create_state, get_state.                              *)

Idle(o) ==
    /\ \A k \in Kind : permits[states[o]][k] >= Concurrency[k]
    /\ ~CircuitOpen(states[o])

\* The caller finds the object in the table, or makes it in a table with room.
get_or_create_state(o) ==
    \/ /\ o \in tracked
       /\ last_access' = [last_access EXCEPT ![o] = now]
       /\ UNCHANGED <<states, made>>
    \/ /\ o \notin tracked /\ Cardinality(tracked) < max_entries
       /\ made < MaxObjects
       /\ made' = made + 1
       /\ states' = [states EXCEPT ![o] = made']
       /\ last_access' = [last_access EXCEPT ![o] = now]

\* A new origin finds the table full: an entry has to go.
BeginSweep(o) ==
    /\ o \notin tracked /\ Cardinality(tracked) >= max_entries
    /\ made < MaxObjects
    /\ sweep' = [NoSweep EXCEPT !.stage = "http", !.unread = tracked,
                               !.untouched = {p \in tracked : Idle(p)}]
    /\ UNCHANGED table

PassOver(o) ==
    [sweep EXCEPT !.stage = "http", !.entry = None, !.unread = @ \ {o}, !.taken = @ \ {o}]

FoundIdle(o) ==
    [sweep EXCEPT !.stage = "http", !.entry = None, !.unread = @ \ {o}, !.idle = @ \cup {o}]

\* MUTANT: the sweep does not look at the permits.
AnyPermits(o, k) == TRUE

AllFree(o, k) == permits[states[o]][k] >= Concurrency[k]

SeeHttp ==
    /\ sweep.stage = "http"
    /\ \E o \in sweep.unread :
        sweep' = IF AllFree(o, "http") THEN [sweep EXCEPT !.stage = "browser", !.entry = o]
                 ELSE PassOver(o)

SeeBrowser ==
    /\ sweep.stage = "browser"
    /\ sweep' = IF AllFree(sweep.entry, "browser") THEN [sweep EXCEPT !.stage = "circuit"]
                ELSE PassOver(sweep.entry)

\* MUTANT: the sweep does not look at the circuit.
SeeNothing ==
    /\ sweep.stage = "circuit"
    /\ sweep' = FoundIdle(sweep.entry)

SeeCircuit ==
    /\ sweep.stage = "circuit"
    /\ sweep' = IF CircuitOpen(states[sweep.entry]) THEN PassOver(sweep.entry)
                ELSE FoundIdle(sweep.entry)

See(r) ==
    /\ r \in Sweepers
    /\ SeeHttp \/ SeeBrowser \/ SeeCircuit
    /\ UNCHANGED <<table, sems, failures, reqs, now, history>>

LeastRecent(S) ==
    {o \in S : \A p \in S \ {o} :
        \/ last_access[o] < last_access[p]
        \/ last_access[o] = last_access[p] /\ o < p}

\* MUTANT: the fallback is missing, only an idle entry is evicted.
EvictedIfIdle == LeastRecent(sweep.idle)

\* The victim: the least recently used of the entries found idle, ties broken
\* by key, or the least recently used of all if none was.
Evicted == LeastRecent(IF sweep.idle # {} THEN sweep.idle ELSE tracked)

\* The victim is removed and the object that the caller needs is made.
Replace(r) ==
    /\ r \in Sweepers /\ sweep.stage = "http" /\ sweep.unread = {}
    /\ made < MaxObjects
    /\ made' = made + 1
    /\ states' = [p \in Origin |->
                    IF p = key[r] THEN made' ELSE IF p \in Evicted THEN None ELSE states[p]]
    /\ last_access' = [p \in Origin |->
                         IF p = key[r] THEN now ELSE IF p \in Evicted THEN 0 ELSE last_access[p]]
    /\ sweep' = NoSweep
    /\ forced' = forced \cup {p \in Evicted : Attached(states[p]) # {} /\ sweep.untouched = {}}
    /\ raced' = raced \cup {p \in Evicted :
                               p \in sweep.taken \/ Referencing(states[p]) # {}}
    /\ \/ /\ pc[r] = "make"
          /\ pc' = [pc EXCEPT ![r] = "check"]
          /\ st' = [st EXCEPT ![r] = made']
          /\ UNCHANGED report
       \/ /\ pc[r] = "remake"
          /\ pc' = [pc EXCEPT ![r] = "note"]
          /\ report' = [report EXCEPT ![r].st = made']
          /\ UNCHANGED st
    /\ UNCHANGED <<sems, failures, key, now>>

\* Of the origins S, the one whose object is s.
With(s, S) == {o \in tracked \cap S : states[o] = s}

-----------------------------------------------------------------------------
(* acquire, acquire_bounded and acquire_browser.                           *)

\* The request is over: it drops its reference.
Forget(r) ==
    /\ key' = [key EXCEPT ![r] = None]
    /\ st' = [st EXCEPT ![r] = None]
    /\ report' = [report EXCEPT ![r] = NoReport]

\* MUTANT: the permit of a request that was turned away is lost.
GiveBackLost(r) ==
    /\ pc' = [pc EXCEPT ![r] = "idle"]
    /\ Forget(r)
    /\ UNCHANGED sems

\* MUTANT: the permit goes to any waiter.
GiveBackUnfair(r) ==
    LET s == st[r]  k == KindOf(r) IN
    /\ IF Waiting(s, k) = {}
       THEN /\ permits' = [permits EXCEPT ![s][k] = @ + 1]
            /\ pc' = [pc EXCEPT ![r] = "idle"]
            /\ UNCHANGED ahead
       ELSE \E h \in Waiting(s, k) :
            /\ pc' = [pc EXCEPT ![r] = "idle", ![h] = "recheck"]
            /\ ahead' = [x \in Req |-> IF x = h THEN {} ELSE ahead[x] \ {h}]
            /\ UNCHANGED permits
    /\ Forget(r)

\* A dropped permit goes to the first waiter, if there is one.
GiveBack(r) ==
    LET s == st[r]  k == KindOf(r) IN
    /\ IF Waiting(s, k) = {}
       THEN /\ permits' = [permits EXCEPT ![s][k] = @ + 1]
            /\ pc' = [pc EXCEPT ![r] = "idle"]
            /\ UNCHANGED ahead
       ELSE \E h \in Waiting(s, k) :
            /\ ahead[h] = {}
            /\ pc' = [pc EXCEPT ![r] = "idle", ![h] = "recheck"]
            /\ ahead' = [x \in Req |-> ahead[x] \ {h}]
            /\ UNCHANGED permits
    /\ Forget(r)

LookUp(r, o) ==
    /\ pc[r] = "idle" /\ TableFree
    /\ \/ /\ get_or_create_state(o)
          /\ pc' = [pc EXCEPT ![r] = "check"]
          /\ st' = [st EXCEPT ![r] = states'[o]]
          /\ UNCHANGED sweep
       \/ /\ BeginSweep(o)
          /\ pc' = [pc EXCEPT ![r] = "make"]
          /\ UNCHANGED st
    /\ key' = [key EXCEPT ![r] = o]
    /\ UNCHANGED <<sems, failures, report, now, history>>

PassCircuit(r) ==
    /\ pc[r] = "check" /\ ~CircuitOpen(st[r])
    /\ pc' = [pc EXCEPT ![r] = "acquire"]
    /\ UNCHANGED <<table, sems, failures, key, st, report, sweep, now, history>>

RejectAtCircuit(r) ==
    /\ pc[r] = "check" /\ CircuitOpen(st[r])
    /\ pc' = [pc EXCEPT ![r] = "idle"]
    /\ Forget(r)
    /\ UNCHANGED <<table, sems, failures, sweep, now, history>>

\* MUTANT: the semaphore is not asked for a permit.
TakeFreely(r) ==
    /\ pc[r] = "acquire"
    /\ permits' = [permits EXCEPT ![st[r]][KindOf(r)] = @ - 1]
    /\ pc' = [pc EXCEPT ![r] = "recheck"]
    /\ UNCHANGED <<table, ahead, failures, key, st, report, sweep, now, history>>

Take(r) ==
    /\ pc[r] = "acquire" /\ permits[st[r]][KindOf(r)] > 0
    /\ permits' = [permits EXCEPT ![st[r]][KindOf(r)] = @ - 1]
    /\ pc' = [pc EXCEPT ![r] = "recheck"]
    /\ sweep' = [sweep EXCEPT
                   !.untouched = @ \ With(st[r], @),
                   !.taken = @ \cup With(st[r], sweep.idle \cup {sweep.entry})]
    /\ UNCHANGED <<table, ahead, failures, key, st, report, now, history>>

Queue(r) ==
    /\ pc[r] = "acquire" /\ permits[st[r]][KindOf(r)] = 0
    /\ ahead' = [ahead EXCEPT ![r] = Waiting(st[r], KindOf(r))]
    /\ pc' = [pc EXCEPT ![r] = "wait"]
    /\ UNCHANGED <<table, permits, failures, key, st, report, sweep, now, history>>

\* MUTANT: the circuit is not looked at again after the wait.
AdmitUnchecked(r) ==
    /\ pc[r] = "recheck"
    /\ pc' = [pc EXCEPT ![r] = "hold"]
    /\ UNCHANGED <<table, sems, failures, key, st, report, sweep, now, history>>

Admit(r) ==
    /\ pc[r] = "recheck" /\ ~CircuitOpen(st[r])
    /\ pc' = [pc EXCEPT ![r] = "hold"]
    /\ UNCHANGED <<table, sems, failures, key, st, report, sweep, now, history>>

RejectAfterWait(r) ==
    /\ pc[r] = "recheck" /\ CircuitOpen(st[r])
    /\ GiveBack(r)
    /\ UNCHANGED <<table, failures, sweep, now, history>>

\* The timeout drops the acquire future wherever it is, with the place in the
\* queue or the permit it has, or the sweep that awaits the lock of a circuit.
TimeOut(r) ==
    /\ r \in Bounded
    /\ \/ /\ pc[r] \in {"check", "acquire", "wait"}
          /\ pc' = [pc EXCEPT ![r] = "idle"]
          /\ ahead' = [x \in Req |-> IF x = r THEN {} ELSE ahead[x] \ {r}]
          /\ Forget(r)
          /\ UNCHANGED <<permits, sweep>>
       \/ pc[r] = "recheck" /\ GiveBack(r) /\ UNCHANGED sweep
       \/ /\ pc[r] = "make" /\ sweep.stage = "circuit"
          /\ pc' = [pc EXCEPT ![r] = "idle"]
          /\ Forget(r)
          /\ sweep' = NoSweep
          /\ UNCHANGED sems
    /\ UNCHANGED <<table, failures, now, history>>

-----------------------------------------------------------------------------
(* record_success and record_failure, called with the permit in hand.      *)

RecordFailure(r, class) ==
    /\ pc[r] = "hold" /\ KindOf(r) = "http" /\ TableFree
    /\ \/ /\ get_or_create_state(key[r])
          /\ report' = [report EXCEPT ![r] = [st |-> states'[key[r]], outcome |-> class]]
          /\ pc' = [pc EXCEPT ![r] = "note"]
          /\ UNCHANGED sweep
       \/ /\ BeginSweep(key[r])
          /\ report' = [report EXCEPT ![r].outcome = class]
          /\ pc' = [pc EXCEPT ![r] = "remake"]
    /\ UNCHANGED <<sems, failures, key, st, now, history>>

\* A success of an origin that is not in the table is dropped.
RecordSuccess(r) ==
    /\ pc[r] = "hold" /\ KindOf(r) = "http" /\ TableFree
    /\ \/ /\ key[r] \in tracked
          /\ report' = [report EXCEPT ![r] = [st |-> states[key[r]], outcome |-> "Success"]]
          /\ pc' = [pc EXCEPT ![r] = "note"]
       \/ /\ key[r] \notin tracked
          /\ pc' = [pc EXCEPT ![r] = "noted"]
          /\ UNCHANGED report
    /\ UNCHANGED <<table, sems, failures, key, st, sweep, now, history>>

\* MUTANT: any answer of the origin closes the circuit.
NotedClosing(f, outcome) ==
    LET n == IF f.count < U8_MAX THEN f.count + 1 ELSE f.count IN
    IF outcome = "Retryable" /\ n >= circuit_failure_threshold
    THEN [count |-> n, open_until |-> now + circuit_duration]
    ELSE [count |-> IF outcome = "Retryable" THEN n ELSE 0, open_until |-> 0]

\* The FailureState after an outcome.  A non-retryable failure resets the
\* counter and leaves an open circuit open.
Noted(f, outcome) ==
    LET n == IF f.count < U8_MAX THEN f.count + 1 ELSE f.count IN
    CASE outcome = "Success" -> NewFailures
      [] outcome = "NonRetryable" -> [f EXCEPT !.count = 0]
      [] outcome = "Retryable" /\ n < circuit_failure_threshold -> [f EXCEPT !.count = n]
      [] outcome = "Retryable" /\ n >= circuit_failure_threshold ->
           [count |-> n, open_until |-> now + circuit_duration]

Note(r) ==
    /\ pc[r] = "note"
    /\ failures' = [failures EXCEPT ![report[r].st] = Noted(@, report[r].outcome)]
    /\ sweep' = IF ~CircuitOpen(report[r].st) /\ now < failures'[report[r].st].open_until
                THEN [sweep EXCEPT !.untouched = @ \ With(report[r].st, @),
                                   !.opened = @ \cup With(report[r].st, sweep.idle)]
                ELSE sweep
    /\ report' = [report EXCEPT ![r] = NoReport]
    /\ pc' = [pc EXCEPT ![r] = "noted"]
    /\ UNCHANGED <<table, sems, key, st, now, history>>

\* A redirect within the origin goes on under the permit of the hop.
NextHop(r) ==
    /\ pc[r] = "noted" /\ r \in Bounded
    /\ pc' = [pc EXCEPT ![r] = "hold"]
    /\ UNCHANGED <<table, sems, failures, key, st, report, sweep, now, history>>

\* Only renders and redirect hops end without a record.
Release(r) ==
    /\ pc[r] = "noted" \/ (pc[r] = "hold" /\ r \in Bounded)
    /\ GiveBack(r)
    /\ UNCHANGED <<table, failures, sweep, now, history>>

Tick ==
    /\ now < MaxTime
    /\ now' = now + 1
    /\ UNCHANGED <<table, sems, failures, reqs, sweep, history>>

Acquire(r) ==
    \/ PassCircuit(r) \/ RejectAtCircuit(r)
    \/ Take(r) \/ Queue(r)
    \/ Admit(r) \/ RejectAfterWait(r)

Report(r) ==
    \/ RecordSuccess(r)
    \/ \E class \in FailureClass : RecordFailure(r, class)
    \/ Note(r)

Next ==
    \/ \E r \in Req :
        \/ \E o \in Origin : LookUp(r, o)
        \/ See(r) \/ Replace(r)
        \/ Acquire(r) \/ TimeOut(r)
        \/ Report(r) \/ NextHop(r) \/ Release(r)
    \/ Tick

Spec == Init /\ [][Next]_vars

\* Requests run on: network calls have timeouts (client_timeout), redirects
\* are counted (redirect_limit).  Nobody has to come, and no clock to tick.
Fairness ==
    \A r \in Req :
        WF_vars(See(r) \/ Replace(r) \/ Acquire(r) \/ Report(r)) /\ SF_vars(Release(r))

FairSpec == Spec /\ Fairness

-----------------------------------------------------------------------------
(* Properties.                                                             *)

Pc == {"idle", "make", "check", "acquire", "wait"} \cup HoldingPc

\* Every variable has its type; a request that uses the controller has an
\* object, and one that reports has an outcome to report.
TypeOK ==
    /\ states \in [Origin -> 0..made]
    /\ made \in 0..MaxObjects
    /\ last_access \in [Origin -> 0..MaxTime]
    /\ permits \in [Object -> [Kind -> Nat]]
    /\ ahead \in [Req -> SUBSET Req]
    /\ failures \in [Object -> FailureState]
    /\ pc \in [Req -> Pc]
    /\ key \in [Req -> Origin \cup {None}]
    /\ st \in [Req -> 0..MaxObjects]
    /\ report \in [Req -> [st : 0..MaxObjects, outcome : FailureClass \cup {"Success", "None"}]]
    /\ sweep \in Sweep \cup {NoSweep}
    /\ now \in 0..MaxTime
    /\ forced \subseteq Origin /\ raced \subseteq Origin
    /\ \A r \in Req :
        /\ pc[r] # "idle" => key[r] \in Origin
        /\ pc[r] \notin {"idle", "make"} => st[r] \in 1..made
        /\ pc[r] = "note" => report[r].st \in 1..made
        /\ pc[r] \in {"remake", "note"} => report[r].outcome # "None"

\* The table never outgrows max_entries, although an entry that everybody
\* still uses has to go for it.
TableBounded == Cardinality(tracked) <= max_entries

\* Permits are neither lost nor made up, whatever happens to a waiter: at
\* every semaphore, dropped from the table or not, the free permits and the
\* ones in use add up to the concurrency, and nobody waits beside a free one.
PermitAccounting ==
    \A s \in Object, k \in Kind :
        /\ permits[s][k] + Cardinality(Holders(s, k)) = Concurrency[k]
        /\ Waiting(s, k) # {} => permits[s][k] = 0

Users(o, k) == {r \in Req : pc[r] \in HoldingPc /\ key[r] = o /\ KindOf(r) = k}

\* No origin is ever used by more requests than its concurrency, except one
\* that lost its entry under a request while no entry stayed idle, or between
\* a lookup and its acquire, or after its permits had been counted.
CeilingKept ==
    \A o \in Origin \ (forced \cup raced), k \in Kind :
        Cardinality(Users(o, k)) <= Concurrency[k]

\* The comment in get_or_create_state: only an idle entry is evicted (unless
\* none is), so that eviction does not raise an origin's ceiling.
IdleEvictionKeepsCeiling ==
    \A o \in Origin \ forced, k \in Kind :
        Cardinality(Users(o, k)) <= Concurrency[k]

\* Nobody is let through while the circuit of its origin is open, however
\* long ago it was looked up and however long it waited.
NoAdmissionWhileOpen ==
    [][\A r \in Req :
        /\ pc[r] # "hold" /\ pc'[r] = "hold" /\ pc[r] # "noted"
        /\ key[r] \notin forced \cup raced
        => ~CircuitOpen(states[key[r]])]_vars

\* A backoff lasts: the circuit of an entry closes only because its time is
\* over or the origin answered.  The entry goes only at the end of a sweep
\* during which no entry stayed idle, or its own circuit opened.
BackoffPersists ==
    [][\A o \in tracked :
        CircuitOpen(states[o]) =>
            \/ /\ states'[o] = states[o]
               /\ failures'[states[o]].open_until >= failures[states[o]].open_until
            \/ \E r \in Req : pc'[r] = "noted"
                 /\ pc[r] = "note" /\ report[r] = [st |-> states[o], outcome |-> "Success"]
            \/ /\ states'[o] = None /\ sweep # NoSweep /\ sweep' = NoSweep
               /\ sweep.untouched = {} \/ o \in sweep.opened]_vars

\* Nobody waits for a permit for ever.
NoStarvation == \A r \in Req : pc[r] = "wait" ~> pc[r] # "wait"

-----------------------------------------------------------------------------
(* What users of HTTP permits see, as OriginPermits promises it: who was   *)
(* let through uses the origin until it releases the permit, and an origin *)
(* without an entry is one of which nothing is held against it.            *)

InUse == {"hold", "remake", "note", "noted"}

FetchUser == Req \ Render

HeldAt == [r \in FetchUser |-> IF pc[r] \in InUse THEN key[r] ELSE None]

Capped(n) == IF n < circuit_failure_threshold THEN n ELSE circuit_failure_threshold

Count == [o \in Origin |-> IF o \in tracked THEN Capped(failures[states[o]].count) ELSE 0]

BackedOff == [o \in Origin |-> o \in tracked /\ CircuitOpen(states[o])]

Promise == INSTANCE OriginPermits WITH
    User <- FetchUser, Nowhere <- None,
    ceiling <- http_concurrency, threshold <- circuit_failure_threshold,
    at <- HeldAt, count <- Count, backoff <- BackedOff

\* The controller keeps its promise to every origin at once, if its table has
\* room for all of them (an evicted entry takes its permits and circuit along).
PermitSpec == Promise!PermitSpec
=============================================================================
