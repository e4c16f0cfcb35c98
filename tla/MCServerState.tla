--------------------------- MODULE MCServerState ---------------------------
(* Instances for TLC of the parts of the server that keep state between the *)
(* calls but share none with each other.  A behaviour is one of one part;   *)
(* the others stay in an initial state (update has several: one of them).   *)
EXTENDS BrowserLifecycle, ProfileLock, FetchCache, WebSearch, BoundedCommand,
    Update, KevCatalogue, ArxivGate, TLC

VARIABLE part

Parts == {"browser", "profile", "cache", "search", "command", "update", "kev", "arxiv"}
state == <<browser_vars, profile_vars, cache_vars, search_vars, command_vars,
           update_vars, kev_vars, arxiv_vars, part>>

CONSTANTS k1, k2, k3

\* One URL grows until its body is larger than the cache (raw_max_bytes = 4).
BodyLen == (k1 :> <<1, 3, 5>>) @@ (k2 :> <<1>>) @@ (k3 :> <<2>>)

StateInit ==
    /\ part \in Parts
    /\ BrowserInit /\ ProfileInit /\ CacheInit /\ SearchInit /\ CommandInit
    /\ UpdateInit /\ KevInit /\ GateInit
    \* Update treats systemd like cron, launchd like Windows, several like none.
    /\ method \in {"none", "systemd", "launchd"}
    /\ part # "update" => linux /\ method = "none" /\ file = 1 /\ server = Down

\* Within one part nothing else changes.
BrowserPart == part = "browser" /\ BrowserNext
    /\ UNCHANGED <<profile_vars, cache_vars, search_vars, command_vars, update_vars,
                   kev_vars, arxiv_vars, part>>
ProfilePart == part = "profile" /\ ProfileNext
    /\ UNCHANGED <<browser_vars, cache_vars, search_vars, command_vars, update_vars,
                   kev_vars, arxiv_vars, part>>
CachePart == part = "cache" /\ CacheNext
    /\ UNCHANGED <<browser_vars, profile_vars, search_vars, command_vars, update_vars,
                   kev_vars, arxiv_vars, part>>
SearchPart == part = "search" /\ SearchNext
    /\ UNCHANGED <<browser_vars, profile_vars, cache_vars, command_vars, update_vars,
                   kev_vars, arxiv_vars, part>>
CommandPart == part = "command" /\ CommandNext
    /\ UNCHANGED <<browser_vars, profile_vars, cache_vars, search_vars, update_vars,
                   kev_vars, arxiv_vars, part>>
UpdatePart == part = "update" /\ UpdateNext
    /\ UNCHANGED <<browser_vars, profile_vars, cache_vars, search_vars, command_vars,
                   kev_vars, arxiv_vars, part>>
KevPart == part = "kev" /\ KevNext
    /\ UNCHANGED <<browser_vars, profile_vars, cache_vars, search_vars, command_vars,
                   update_vars, arxiv_vars, part>>
GatePart == part = "arxiv" /\ GateNext
    /\ UNCHANGED <<browser_vars, profile_vars, cache_vars, search_vars, command_vars,
                   update_vars, kev_vars, part>>

StateNext ==
    BrowserPart \/ ProfilePart \/ CachePart \/ SearchPart \/ CommandPart \/ UpdatePart
    \/ KevPart \/ GatePart
StateSpec ==
    /\ StateInit /\ [][StateNext]_state
    /\ BrowserFairness /\ CommandFairness /\ GateFairness

-----------------------------------------------------------------------------
\* Every variable of every part has its type.
StateTypeOK ==
    /\ BrowserTypeOK /\ ProfileTypeOK /\ CacheTypeOK /\ SearchTypeOK /\ CommandTypeOK
    /\ UpdateTypeOK /\ KevTypeOK /\ GateTypeOK

\* A render, a command or an arXiv search that waits for something does not
\* wait for ever (EveryRenderEnds, EveryCommandReturns, EveryTurnComes).
EveryCallEnds == EveryRenderEnds /\ EveryCommandReturns /\ EveryTurnComes

\* No lookup is told of a catalogue that is too old, and arXiv is asked once at
\* a time and not too often (AnswerRecent, GateSpaced).
EnginesKeepTime == AnswerRecent /\ GateSpaced
=============================================================================
