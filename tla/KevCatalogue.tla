---------------------------- MODULE KevCatalogue ----------------------------
(* The catalogue of known exploited vulnerabilities, cached for all lookups *)
(* of a KevClient: src/meta/engines/kev.rs.  Times are ages, which grow     *)
(* together.  Time passes only while a request is awaited: the steps around *)
(* it take none.                                                            *)
EXTENDS Integers

CONSTANTS
    Lookup,         \* concurrent callers of lookup
    cache_ttl,      \* for how long the catalogue counts as fresh
    KEV_TIMEOUT     \* the longest a request for the catalogue takes

ASSUME KevAssumption == {cache_ttl, KEV_TIMEOUT} \subseteq Nat \ {0}

VARIABLES
    lookup_pc,      \* where a lookup is, or how it ended
    asked,          \* the age of its request for the catalogue
    body,           \* the age of the catalogue in the body it has received
    catalogue,      \* the age of the cached catalogue
    fetched_at      \* the time since it was stored; AgeLimit: never, or long ago

kev_vars == <<lookup_pc, asked, body, catalogue, fetched_at>>

\* Bound: nothing tells ages beyond it apart.
AgeLimit == cache_ttl + KEV_TIMEOUT
Age == 0..AgeLimit
Older(age) == IF age < AgeLimit THEN age + 1 ELSE age

KevTypeOK ==
    /\ lookup_pc \in [Lookup -> {"idle", "fetch", "store", "read", "answered", "error"}]
    /\ asked \in [Lookup -> Age] /\ body \in [Lookup -> Age]
    /\ catalogue \in Age /\ fetched_at \in Age

KevInit ==
    /\ lookup_pc = [l \in Lookup |-> "idle"]
    /\ asked = [l \in Lookup |-> 0]
    /\ body = [l \in Lookup |-> 0]
    /\ catalogue = AgeLimit /\ fetched_at = AgeLimit

LookupGoto(l, step) == lookup_pc' = [lookup_pc EXCEPT ![l] = step]
LookupMoves(l, from, step) ==
    /\ lookup_pc[l] \in from
    /\ LookupGoto(l, step)
    /\ UNCHANGED <<asked, body, catalogue, fetched_at>>

-----------------------------------------------------------------------------
(* A warm cache answers, also that the CVE is not in the catalogue. *)
BeginLookup(l) ==
    \/ fetched_at < cache_ttl /\ LookupMoves(l, {"idle"}, "answered")
    \/ /\ fetched_at >= cache_ttl /\ lookup_pc[l] = "idle"
       /\ LookupGoto(l, "fetch")
       /\ asked' = [asked EXCEPT ![l] = 0]
       /\ UNCHANGED <<body, catalogue, fetched_at>>

(* The server takes its catalogue at any time during the request. *)
ReceiveCatalogue(l) ==
    /\ lookup_pc[l] = "fetch"
    /\ LookupGoto(l, "store")
    /\ \E age \in 0..asked[l] : body' = [body EXCEPT ![l] = age]
    /\ UNCHANGED <<asked, catalogue, fetched_at>>

\* MUTANT: when the catalogue cannot be had, the cached one has to do.
FetchFailsSoft(l) == LookupMoves(l, {"fetch", "store"}, "read")

(* No answer in time, a bad status, too large a body, or one that does not  *)
(* parse.                                                                   *)
FetchFails(l) == LookupMoves(l, {"fetch", "store"}, "error")

StoreCatalogue(l) ==
    /\ lookup_pc[l] = "store"
    /\ catalogue' = body[l] /\ fetched_at' = 0
    /\ LookupGoto(l, "read")
    /\ UNCHANGED <<asked, body>>

AnswerLookup(l) == LookupMoves(l, {"read"}, "answered")

(* A lookup returns, or is dropped where it waits, by a search that runs    *)
(* into its deadline.                                                       *)
LeaveLookup(l) == LookupMoves(l, {"fetch", "store", "read", "answered", "error"}, "idle")

(* A request for the catalogue ends within KEV_TIMEOUT. *)
KevTick ==
    /\ \A l \in Lookup :
          /\ lookup_pc[l] \notin {"store", "read"}
          /\ lookup_pc[l] = "fetch" => asked[l] < KEV_TIMEOUT
    /\ asked' = [l \in Lookup |-> IF lookup_pc[l] = "fetch" THEN asked[l] + 1 ELSE 0]
    /\ body' = [l \in Lookup |-> 0]
    /\ catalogue' = Older(catalogue)
    /\ fetched_at' = Older(fetched_at)
    /\ UNCHANGED lookup_pc

lookup(l) ==
    \/ BeginLookup(l) \/ ReceiveCatalogue(l) \/ FetchFails(l)
    \/ StoreCatalogue(l) \/ AnswerLookup(l) \/ LeaveLookup(l)

KevNext == (\E l \in Lookup : lookup(l)) \/ KevTick
KevSpec == KevInit /\ [][KevNext]_kev_vars

-----------------------------------------------------------------------------
(* Nobody is told what the catalogue said more than cache_ttl and the time  *)
(* of one request ago, although any number of lookups fetch it at once and  *)
(* a slower one puts an older catalogue in the place of a newer one.        *)
AnswerRecent ==
    [][\A l \in Lookup : lookup_pc[l] # "answered" /\ lookup_pc'[l] = "answered" =>
          catalogue < cache_ttl + KEV_TIMEOUT]_kev_vars
=============================================================================
