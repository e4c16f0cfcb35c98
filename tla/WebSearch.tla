----------------------------- MODULE WebSearch -----------------------------
(***************************************************************************)
(* web_search calls: the routing that leaves out providers in cooldown     *)
(* (src/meta/provider_diagnostics.rs), the fan-out to one engine task per  *)
(* provider under one deadline (src/meta/adapter/web.rs), and the health   *)
(* records that a call writes when its fan-out is over (adapter/status.rs) *)
(* and that decide about the next calls.  Every look at the registry and   *)
(* every record takes its lock for itself, so calls interleave there.      *)
(***************************************************************************)
EXTENDS Integers

CONSTANTS
    Search,             \* web_search calls
    Provider,           \* the default providers, all of them built
    COOLDOWN_THRESHOLD

ASSUME SearchAssumption == Provider # {} /\ COOLDOWN_THRESHOLD \in Nat \ {0}

VARIABLES
    search_pc,              \* "idle", "routing", "running" or "recording"
    to_check,               \* providers whose cooldown a search has not looked at
    filtered,               \* providers it has found usable
    engine,                 \* the task of every provider of every search
    consecutive_failures,   \* of every provider; exact up to the threshold
    cooldown                \* "none", "active", or "over" when cooldown_until has passed

search_vars == <<search_pc, to_check, filtered, engine, consecutive_failures, cooldown>>
routing == <<to_check, filtered>>
health == <<consecutive_failures, cooldown>>

(* running: not collected yet, whether it has ended or not; aborted: not    *)
(* collected at the deadline.                                              *)
EngineState == {"none", "running", "result", "failure", "aborted"}
Queried(s) == {p \in Provider : engine[s][p] # "none"}
Pending(s) == {p \in Provider : engine[s][p] = "running"}
Unrecorded(s, states) == {p \in Provider : engine[s][p] \in states}
NoEngine == [p \in Provider |-> "none"]

SearchInit ==
    /\ search_pc = [s \in Search |-> "idle"]
    /\ to_check = [s \in Search |-> {}]
    /\ filtered = [s \in Search |-> {}]
    /\ engine = [s \in Search |-> NoEngine]
    /\ consecutive_failures = [p \in Provider |-> 0]
    /\ cooldown = [p \in Provider |-> "none"]

SearchTo(s, step) == search_pc' = [search_pc EXCEPT ![s] = step]
Engine(s, p, state) == engine' = [engine EXCEPT ![s][p] = state]

-----------------------------------------------------------------------------
(* resolve_provider_routing *)

StartEngines(s, providers) ==
    /\ SearchTo(s, "running")
    /\ engine' = [engine EXCEPT ![s] =
                    [p \in Provider |-> IF p \in providers THEN "running" ELSE "none"]]

\* Explicit providers are asked whatever their health.
SearchExplicit(s, providers) ==
    /\ search_pc[s] = "idle" /\ providers # {}
    /\ StartEngines(s, providers)
    /\ UNCHANGED <<routing, health>>

SearchDefault(s) ==
    /\ search_pc[s] = "idle"
    /\ SearchTo(s, "routing")
    /\ to_check' = [to_check EXCEPT ![s] = Provider]
    /\ UNCHANGED <<filtered, engine, health>>

CheckCooldown(s, p) ==
    /\ search_pc[s] = "routing" /\ p \in to_check[s]
    /\ to_check' = [to_check EXCEPT ![s] = @ \ {p}]
    /\ filtered' = IF cooldown[p] = "active" THEN filtered
                   ELSE [filtered EXCEPT ![s] = @ \cup {p}]
    /\ UNCHANGED <<search_pc, engine, health>>

\* MUTANT: the selection is used also when it is empty.
RouteFiltered(s) ==
    /\ search_pc[s] = "routing" /\ to_check[s] = {}
    /\ StartEngines(s, filtered[s])
    /\ filtered' = [filtered EXCEPT ![s] = {}]
    /\ UNCHANGED <<to_check, health>>

\* When all are in cooldown, all are asked.
Route(s) ==
    /\ search_pc[s] = "routing" /\ to_check[s] = {}
    /\ StartEngines(s, IF filtered[s] = {} THEN Provider ELSE filtered[s])
    /\ filtered' = [filtered EXCEPT ![s] = {}]
    /\ UNCHANGED <<to_check, health>>

-----------------------------------------------------------------------------
(* web_search: the engine tasks and the loop that collects them. *)

\* MUTANT: the first engine that fails ends the loop.
CollectUntilError(s, p) ==
    /\ search_pc[s] = "running" /\ p \in Pending(s)
    /\ \/ Engine(s, p, "result") /\ UNCHANGED search_pc
       \/ Engine(s, p, "failure") /\ SearchTo(s, "recording")
    /\ UNCHANGED <<routing, health>>

\* Results, an error, or a panic (which the task turns into an error).
Collect(s, p) ==
    /\ search_pc[s] = "running" /\ p \in Pending(s)
    /\ \E outcome \in {"result", "failure"} : Engine(s, p, outcome)
    /\ UNCHANGED <<search_pc, routing, health>>

AllCollected(s) ==
    /\ search_pc[s] = "running" /\ Pending(s) = {}
    /\ SearchTo(s, "recording")
    /\ UNCHANGED <<routing, engine, health>>

\* Whoever is not collected is aborted, or too late.
Deadline(s) ==
    /\ search_pc[s] = "running"
    /\ SearchTo(s, "recording")
    /\ engine' = [engine EXCEPT ![s] =
                    [p \in Provider |-> IF p \in Pending(s) THEN "aborted" ELSE engine[s][p]]]
    /\ UNCHANGED <<routing, health>>

-----------------------------------------------------------------------------
(* record_provider_health: results, then failures, then whoever is left. *)

record_success(p) ==
    /\ consecutive_failures' = [consecutive_failures EXCEPT ![p] = 0]
    /\ cooldown' = [cooldown EXCEPT ![p] = "none"]

\* A cooldown that is over may begin again.
record_failure(p) ==
    LET failures == IF consecutive_failures[p] < COOLDOWN_THRESHOLD
                    THEN consecutive_failures[p] + 1 ELSE COOLDOWN_THRESHOLD
    IN  /\ consecutive_failures' = [consecutive_failures EXCEPT ![p] = failures]
        /\ cooldown' = IF failures = COOLDOWN_THRESHOLD
                       THEN [cooldown EXCEPT ![p] = "active"] ELSE cooldown

\* MUTANT: a success clears the count and leaves the cooldown.
RecordSuccessInCooldown(s, p) ==
    /\ search_pc[s] = "recording" /\ engine[s][p] = "result"
    /\ consecutive_failures' = [consecutive_failures EXCEPT ![p] = 0]
    /\ Engine(s, p, "none")
    /\ UNCHANGED <<search_pc, routing, cooldown>>

RecordSuccess(s, p) ==
    /\ search_pc[s] = "recording" /\ engine[s][p] = "result"
    /\ record_success(p)
    /\ Engine(s, p, "none")
    /\ UNCHANGED <<search_pc, routing>>

RecordFailure(s, p) ==
    /\ search_pc[s] = "recording" /\ engine[s][p] = "failure"
    /\ Unrecorded(s, {"result"}) = {}
    /\ record_failure(p)
    /\ Engine(s, p, "none")
    /\ UNCHANGED <<search_pc, routing>>

RecordTimeout(s, p) ==
    /\ search_pc[s] = "recording" /\ p \in Queried(s)
    /\ Unrecorded(s, {"result", "failure"}) = {}
    /\ record_failure(p)
    /\ Engine(s, p, "none")
    /\ UNCHANGED <<search_pc, routing>>

EndOfSearch(s) ==
    /\ SearchTo(s, "idle")
    /\ to_check' = [to_check EXCEPT ![s] = {}]
    /\ filtered' = [filtered EXCEPT ![s] = {}]
    /\ engine' = [engine EXCEPT ![s] = NoEngine]
    /\ UNCHANGED health

Respond(s) ==
    /\ search_pc[s] = "recording" /\ Queried(s) = {}
    /\ EndOfSearch(s)

\* The call is dropped where it awaits: nothing is recorded.
DropSearch(s) == search_pc[s] = "running" /\ EndOfSearch(s)

CooldownEnds(p) ==
    /\ cooldown[p] = "active"
    /\ cooldown' = [cooldown EXCEPT ![p] = "over"]
    /\ UNCHANGED <<search_pc, routing, engine, consecutive_failures>>

-----------------------------------------------------------------------------
SearchNext ==
    \/ \E s \in Search :
        \/ SearchDefault(s) \/ Route(s) \/ AllCollected(s) \/ Deadline(s)
        \/ Respond(s) \/ DropSearch(s)
        \/ \E providers \in SUBSET Provider : SearchExplicit(s, providers)
        \/ \E p \in Provider :
            \/ CheckCooldown(s, p) \/ Collect(s, p)
            \/ RecordSuccess(s, p) \/ RecordFailure(s, p) \/ RecordTimeout(s, p)
    \/ \E p \in Provider : CooldownEnds(p)

SearchSpec == SearchInit /\ [][SearchNext]_search_vars

-----------------------------------------------------------------------------
\* Every variable has its type, and only a search under way has engines.
SearchTypeOK ==
    /\ search_pc \in [Search -> {"idle", "routing", "running", "recording"}]
    /\ to_check \in [Search -> SUBSET Provider]
    /\ filtered \in [Search -> SUBSET Provider]
    /\ engine \in [Search -> [Provider -> EngineState]]
    /\ consecutive_failures \in [Provider -> 0..COOLDOWN_THRESHOLD]
    /\ cooldown \in [Provider -> {"none", "active", "over"}]
    /\ \A s \in Search :
        /\ to_check[s] # {} \/ filtered[s] # {} => search_pc[s] = "routing"
        /\ search_pc[s] \in {"idle", "routing"} => Queried(s) = {}

\* Whatever concurrent searches record in between: a provider has a cooldown,
\* running or over, exactly when its failures have reached the threshold.
CooldownMeansFailures ==
    \A p \in Provider : cooldown[p] # "none" <=> consecutive_failures[p] = COOLDOWN_THRESHOLD

\* A provider is recorded as timed out only by a search that ran into its
\* deadline, never by one whose fan-out ended before.
BlameOnlyAtDeadline ==
    [][\A s \in Search, p \in Provider :
        RecordTimeout(s, p) => engine[s][p] = "aborted"]_search_vars

\* A search asks somebody, also when cooldowns begin while it looks at them
\* one by one and in the end none is left.
AlwaysAsksSomeone == \A s \in Search : search_pc[s] = "running" => Queried(s) # {}
=============================================================================
