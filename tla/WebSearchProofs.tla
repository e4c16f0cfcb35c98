--------------------------- MODULE WebSearchProofs ---------------------------
(***************************************************************************)
(* Proofs about web_search and the health records, for any number of calls *)
(* and providers and any threshold.                                        *)
(***************************************************************************)
EXTENDS WebSearch, TLAPS

-----------------------------------------------------------------------------
(* Type correctness.                                                       *)

LEMMA SearchInitTyped == SearchInit => SearchTypeOK
  BY SearchAssumption DEF SearchInit, SearchTypeOK, NoEngine, EngineState, Queried

(* A search that starts its engines, or that ends, has nothing left to     *)
(* check or to filter.                                                     *)
LEMMA StartTyped ==
    ASSUME SearchTypeOK, NEW s \in Search, NEW providers \in SUBSET Provider,
           StartEngines(s, providers), UNCHANGED health,
           to_check' \in [Search -> SUBSET Provider], filtered' \in [Search -> SUBSET Provider],
           to_check'[s] = {}, filtered'[s] = {},
           \A t \in Search \ {s} : to_check'[t] = to_check[t] /\ filtered'[t] = filtered[t]
    PROVE  SearchTypeOK'
<1>1. search_pc' = [search_pc EXCEPT ![s] = "running"]
  BY DEF StartEngines, SearchTo
<1>2. [p \in Provider |-> IF p \in providers THEN "running" ELSE "none"]
        \in [Provider -> EngineState]
  BY DEF EngineState
<1>3. engine' \in [Search -> [Provider -> EngineState]]
  BY <1>2 DEF StartEngines, SearchTypeOK
<1>4. \A t \in Search \ {s} : search_pc'[t] = search_pc[t] /\ engine'[t] = engine[t]
  BY <1>1 DEF StartEngines, SearchTypeOK
<1>5. /\ search_pc' \in [Search -> {"idle", "routing", "running", "recording"}]
      /\ search_pc'[s] = "running"
  BY <1>1 DEF SearchTypeOK
<1>6. ASSUME NEW t \in Search
      PROVE  /\ to_check'[t] # {} \/ filtered'[t] # {} => search_pc'[t] = "routing"
             /\ search_pc'[t] \in {"idle", "routing"} => Queried(t)' = {}
  <2>1. CASE t = s
    BY <1>5, <2>1
  <2>2. CASE t # s
    BY <1>4, <2>2 DEF SearchTypeOK, Queried
  <2> QED  BY <2>1, <2>2
<1> QED  BY <1>3, <1>5, <1>6 DEF SearchTypeOK, health

LEMMA EndTyped ==
    ASSUME SearchTypeOK, NEW s \in Search, EndOfSearch(s)
    PROVE  SearchTypeOK'
  BY DEF SearchTypeOK, EndOfSearch, SearchTo, NoEngine, EngineState, Queried, health

(* A record keeps the counters and the cooldowns well typed.               *)
LEMMA HealthTyped ==
    ASSUME SearchTypeOK, NEW p \in Provider, record_success(p) \/ record_failure(p)
    PROVE  /\ consecutive_failures' \in [Provider -> 0..COOLDOWN_THRESHOLD]
           /\ cooldown' \in [Provider -> {"none", "active", "over"}]
<1>1. consecutive_failures \in [Provider -> 0..COOLDOWN_THRESHOLD]
        /\ cooldown \in [Provider -> {"none", "active", "over"}]
  BY DEF SearchTypeOK
<1>2. CASE record_success(p)
  BY <1>1, <1>2, SearchAssumption DEF record_success
<1>3. CASE record_failure(p)
  <2>1. (IF consecutive_failures[p] < COOLDOWN_THRESHOLD
         THEN consecutive_failures[p] + 1 ELSE COOLDOWN_THRESHOLD) \in 0..COOLDOWN_THRESHOLD
    BY <1>1, SearchAssumption
  <2>2. consecutive_failures' \in [Provider -> 0..COOLDOWN_THRESHOLD]
    BY <1>1, <1>3, <2>1 DEF record_failure
  <2>3. cooldown' \in {cooldown, [cooldown EXCEPT ![p] = "active"]}
    BY <1>3 DEF record_failure
  <2> QED  BY <1>1, <2>2, <2>3
<1> QED  BY <1>2, <1>3

(* The steps of a search that change the state of one engine.              *)
LEMMA EngineTyped ==
    ASSUME SearchTypeOK, NEW s \in Search, NEW p \in Provider, NEW state \in EngineState,
           search_pc[s] \in {"running", "recording"},
           Engine(s, p, state), UNCHANGED <<search_pc, routing>>,
           consecutive_failures' \in [Provider -> 0..COOLDOWN_THRESHOLD],
           cooldown' \in [Provider -> {"none", "active", "over"}]
    PROVE  SearchTypeOK'
  BY DEF SearchTypeOK, Engine, Queried, routing

LEMMA SearchTyped ==
    ASSUME SearchTypeOK, NEW s \in Search,
           \/ SearchDefault(s) \/ Route(s) \/ AllCollected(s) \/ Deadline(s)
           \/ Respond(s) \/ DropSearch(s)
           \/ \E providers \in SUBSET Provider : SearchExplicit(s, providers)
    PROVE  SearchTypeOK'
<1>1. CASE SearchDefault(s)
  BY <1>1 DEF SearchDefault, SearchTo, health, SearchTypeOK, Queried
<1>2. CASE Route(s)
  <2>1. (IF filtered[s] = {} THEN Provider ELSE filtered[s]) \in SUBSET Provider
    BY DEF SearchTypeOK
  <2> QED  BY <1>2, <2>1, StartTyped DEF Route, SearchTypeOK
<1>3. CASE AllCollected(s)
  BY <1>3 DEF AllCollected, SearchTo, routing, health, SearchTypeOK, Queried
<1>4. CASE Deadline(s)
  BY <1>4 DEF Deadline, SearchTo, routing, health, SearchTypeOK, Queried, Pending, EngineState
<1>5. CASE Respond(s) \/ DropSearch(s)
  BY <1>5, EndTyped DEF Respond, DropSearch
<1>6. ASSUME NEW providers \in SUBSET Provider, SearchExplicit(s, providers) PROVE SearchTypeOK'
  BY <1>6, StartTyped DEF SearchExplicit, routing, SearchTypeOK
<1> QED  BY <1>1, <1>2, <1>3, <1>4, <1>5, <1>6

LEMMA ProviderStepTyped ==
    ASSUME SearchTypeOK, NEW s \in Search, NEW p \in Provider,
           \/ CheckCooldown(s, p) \/ Collect(s, p)
           \/ RecordSuccess(s, p) \/ RecordFailure(s, p) \/ RecordTimeout(s, p)
    PROVE  SearchTypeOK'
<1>1. CASE CheckCooldown(s, p)
  BY <1>1 DEF CheckCooldown, health, SearchTypeOK, Queried
<1>2. CASE Collect(s, p)
  <2>1. PICK outcome \in {"result", "failure"} : Engine(s, p, outcome)
    BY <1>2 DEF Collect
  <2> QED  BY <1>2, <2>1, EngineTyped DEF Collect, EngineState, health, SearchTypeOK
<1>3. CASE RecordSuccess(s, p) \/ RecordFailure(s, p) \/ RecordTimeout(s, p)
  <2>1. /\ search_pc[s] = "recording" /\ Engine(s, p, "none") /\ UNCHANGED <<search_pc, routing>>
        /\ record_success(p) \/ record_failure(p)
    BY <1>3 DEF RecordSuccess, RecordFailure, RecordTimeout
  <2> QED  BY <2>1, HealthTyped, EngineTyped DEF EngineState
<1> QED  BY <1>1, <1>2, <1>3

LEMMA SearchTypePreserved == SearchTypeOK /\ [SearchNext]_search_vars => SearchTypeOK'
<1> SUFFICES ASSUME SearchTypeOK, [SearchNext]_search_vars PROVE SearchTypeOK'
  OBVIOUS
<1>1. ASSUME NEW p \in Provider, CooldownEnds(p) PROVE SearchTypeOK'
  BY <1>1 DEF CooldownEnds, routing, SearchTypeOK, Queried
<1>2. CASE UNCHANGED search_vars
  BY <1>2 DEF search_vars, SearchTypeOK, Queried
<1> QED  BY <1>1, <1>2, SearchTyped, ProviderStepTyped DEF SearchNext

(* The calls and the registry keep their types, and only a search under    *)
(* way has engines.                                                        *)
THEOREM SearchTypeCorrect == SearchSpec => []SearchTypeOK
  BY SearchInitTyped, SearchTypePreserved, PTL DEF SearchSpec

-----------------------------------------------------------------------------
(* Cooldowns and failures                                                  *)

LEMMA CooldownStep ==
    SearchTypeOK /\ CooldownMeansFailures /\ [SearchNext]_search_vars => CooldownMeansFailures'
<1> SUFFICES ASSUME SearchTypeOK, CooldownMeansFailures, [SearchNext]_search_vars
             PROVE  CooldownMeansFailures'
  OBVIOUS
<1>1. CASE UNCHANGED health
  BY <1>1 DEF CooldownMeansFailures, health
<1>2. ASSUME NEW p \in Provider, record_success(p) \/ record_failure(p)
      PROVE  CooldownMeansFailures'
  BY <1>2, SearchAssumption DEF record_success, record_failure, CooldownMeansFailures, SearchTypeOK
<1>3. ASSUME NEW p \in Provider, CooldownEnds(p) PROVE CooldownMeansFailures'
  BY <1>3 DEF CooldownEnds, CooldownMeansFailures, SearchTypeOK
<1>4. ASSUME NEW s \in Search,
             \/ SearchDefault(s) \/ Route(s) \/ AllCollected(s) \/ Deadline(s)
             \/ Respond(s) \/ DropSearch(s)
             \/ \E providers \in SUBSET Provider : SearchExplicit(s, providers)
             \/ \E p \in Provider : CheckCooldown(s, p) \/ Collect(s, p)
      PROVE  UNCHANGED health
  BY <1>4 DEF SearchDefault, Route, AllCollected, Deadline, Respond, DropSearch, EndOfSearch,
     SearchExplicit, CheckCooldown, Collect
<1>5. ASSUME NEW s \in Search, NEW p \in Provider,
             RecordSuccess(s, p) \/ RecordFailure(s, p) \/ RecordTimeout(s, p)
      PROVE  record_success(p) \/ record_failure(p)
  BY <1>5 DEF RecordSuccess, RecordFailure, RecordTimeout
<1>6. CASE UNCHANGED search_vars
  BY <1>1, <1>6 DEF search_vars, health
<1> QED  BY <1>1, <1>2, <1>3, <1>4, <1>5, <1>6 DEF SearchNext

(* Whatever concurrent searches record in between, a provider has a        *)
(* cooldown, running or over, exactly when its failures have reached the   *)
(* threshold (record_success, record_failure).                             *)
THEOREM CooldownCorrect == SearchSpec => []CooldownMeansFailures
<1>1. SearchInit => CooldownMeansFailures
  BY SearchAssumption DEF SearchInit, CooldownMeansFailures
<1> QED  BY <1>1, SearchInitTyped, SearchTypePreserved, CooldownStep, PTL DEF SearchSpec

-----------------------------------------------------------------------------
(* Who is asked, and who is blamed                                         *)

(* A search that collects has asked somebody; one that records has nobody  *)
(* left to collect.                                                        *)
FanOutInv ==
    \A s \in Search :
        /\ search_pc[s] = "running" => Queried(s) # {}
        /\ search_pc[s] = "recording" => Pending(s) = {}

(* Who starts engines asks the providers it routes to.                     *)
LEMMA StartAsks ==
    ASSUME SearchTypeOK, FanOutInv, NEW s \in Search, NEW providers \in SUBSET Provider,
           providers # {}, StartEngines(s, providers)
    PROVE  FanOutInv'
<1>1. PICK p \in providers : TRUE
  OBVIOUS
<1>2. engine'[s][p] = "running" /\ search_pc'[s] = "running"
  BY <1>1 DEF StartEngines, SearchTo, SearchTypeOK
<1>3. ASSUME NEW t \in Search, t # s
      PROVE  search_pc'[t] = search_pc[t] /\ engine'[t] = engine[t]
  BY <1>3 DEF StartEngines, SearchTo, SearchTypeOK
<1> QED  BY <1>1, <1>2, <1>3 DEF FanOutInv, Queried, Pending

LEMMA FanOutStep == SearchTypeOK /\ FanOutInv /\ [SearchNext]_search_vars => FanOutInv'
<1> SUFFICES ASSUME SearchTypeOK, FanOutInv, [SearchNext]_search_vars PROVE FanOutInv'
  OBVIOUS
<1> USE DEF SearchTo, Engine, SearchTypeOK, FanOutInv, Queried, Pending
<1>1. ASSUME NEW s \in Search, Route(s) PROVE FanOutInv'
  BY <1>1, StartAsks, SearchAssumption DEF Route
<1>2. ASSUME NEW s \in Search, NEW providers \in SUBSET Provider, SearchExplicit(s, providers)
      PROVE  FanOutInv'
  BY <1>2, StartAsks DEF SearchExplicit
<1>3. ASSUME NEW s \in Search, SearchDefault(s) \/ AllCollected(s) PROVE FanOutInv'
  BY <1>3 DEF SearchDefault, AllCollected
<1>4. ASSUME NEW s \in Search, Deadline(s) PROVE FanOutInv'
  BY <1>4 DEF Deadline
<1>5. ASSUME NEW s \in Search, EndOfSearch(s) PROVE FanOutInv'
  BY <1>5 DEF EndOfSearch, NoEngine
<1>6. ASSUME NEW s \in Search, NEW p \in Provider, Collect(s, p) PROVE FanOutInv'
  BY <1>6 DEF Collect
<1>7. ASSUME NEW s \in Search, NEW p \in Provider, Engine(s, p, "none"), UNCHANGED search_pc,
             search_pc[s] = "recording"
      PROVE  FanOutInv'
  BY <1>7
<1>8. CASE UNCHANGED <<search_pc, engine>>
  BY <1>8
<1>9. ASSUME NEW s \in Search, NEW p \in Provider, CheckCooldown(s, p) \/ CooldownEnds(p)
      PROVE  UNCHANGED <<search_pc, engine>>
  BY <1>9 DEF CheckCooldown, CooldownEnds
<1>10. CASE SearchNext
  <2> USE <1>10
  <2>1. ASSUME NEW s \in Search, Respond(s) \/ DropSearch(s) PROVE FanOutInv'
    BY <1>5, <2>1 DEF Respond, DropSearch
  <2>2. ASSUME NEW s \in Search, NEW p \in Provider,
               RecordSuccess(s, p) \/ RecordFailure(s, p) \/ RecordTimeout(s, p)
        PROVE  FanOutInv'
    BY <1>7, <2>2 DEF RecordSuccess, RecordFailure, RecordTimeout
  <2>3. ASSUME NEW p \in Provider, CooldownEnds(p) PROVE UNCHANGED <<search_pc, engine>>
    BY <2>3 DEF CooldownEnds
  <2> HIDE DEF FanOutInv
  <2> QED  BY <1>1, <1>2, <1>3, <1>4, <1>6, <1>8, <1>9, <2>1, <2>2, <2>3 DEF SearchNext
<1> QED  BY <1>8, <1>10 DEF search_vars

LEMMA FanOutAlways == SearchSpec => [](SearchTypeOK /\ FanOutInv)
<1>1. SearchInit => FanOutInv
  BY DEF SearchInit, FanOutInv
<1> QED  BY <1>1, SearchInitTyped, SearchTypePreserved, FanOutStep, PTL DEF SearchSpec

(* A search asks somebody, also when cooldowns begin while it looks at     *)
(* them one by one and in the end none is left.                            *)
THEOREM AskCorrect == SearchSpec => []AlwaysAsksSomeone
<1>1. FanOutInv => AlwaysAsksSomeone
  BY DEF FanOutInv, AlwaysAsksSomeone
<1> QED  BY <1>1, FanOutAlways, PTL

(* A provider is recorded as timed out only by a search that ran into its  *)
(* deadline.                                                               *)
THEOREM BlameCorrect == SearchSpec => BlameOnlyAtDeadline
<1>1. ASSUME SearchTypeOK, FanOutInv, NEW s \in Search, NEW p \in Provider, RecordTimeout(s, p)
      PROVE  engine[s][p] = "aborted"
  BY <1>1 DEF RecordTimeout, FanOutInv, SearchTypeOK, EngineState, Queried, Pending, Unrecorded
<1>2. SearchTypeOK /\ FanOutInv =>
        [\A s \in Search, p \in Provider :
            RecordTimeout(s, p) => engine[s][p] = "aborted"]_search_vars
  BY <1>1
<1> QED  BY <1>2, FanOutAlways, PTL DEF BlameOnlyAtDeadline
=============================================================================
