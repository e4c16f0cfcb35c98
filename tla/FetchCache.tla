----------------------------- MODULE FetchCache -----------------------------
(***************************************************************************)
(* The raw tier of the fetch cache (src/fetch/cache.rs) and the calls of   *)
(* web_fetch and batch_fetch that read it, ask the origin, and write it.   *)
(* Between what a call read and what it writes back there are awaits, in   *)
(* which other calls write and the origin changes its answer.              *)
(*                                                                         *)
(* A body is the version of its URL's content.  Whether an entry is fresh  *)
(* is left open: time and headers decide, and it only tells a hit from a   *)
(* revalidation.  The derived tier is the same structure over documents:   *)
(* here it has, or has not, the one that is asked for.                     *)
(***************************************************************************)
EXTENDS Integers, Sequences, SequencesExt

CONSTANTS
    Call,               \* calls of web_fetch and items of batch_fetch
    BatchCall,          \* those of batch_fetch
    CacheKey,           \* URLs in a scope
    NoKey,              \* a call that has not begun
    body_len,           \* of every URL: the lengths of the versions of its body
    max_raw_entries,
    raw_max_bytes

ASSUME CacheAssumption ==
    /\ BatchCall \subseteq Call
    /\ NoKey \notin CacheKey
    /\ body_len \in [CacheKey -> Seq(Nat)] /\ \A k \in CacheKey : body_len[k] # <<>>
    /\ max_raw_entries \in Nat \ {0} /\ raw_max_bytes \in Nat

VARIABLES
    raw,                \* the entries, the most recently used first
    current_raw_bytes,
    origin_version,     \* what the origin has at every URL
    call_pc,
    call_key,
    call_entry,         \* the version of the entry a call read
    call_answer,        \* the version the origin had when it answered
    passed              \* history: calls behind whose answer another call has written

cache_vars == <<raw, current_raw_bytes, origin_version, call_pc, call_key, call_entry,
                call_answer, passed>>
tier == <<raw, current_raw_bytes>>
reads == <<call_key, call_entry>>

Version(k) == DOMAIN body_len[k]
NoVersion == 0
SomeVersion == (UNION {Version(k) : k \in CacheKey}) \cup {NoVersion}
CallStep == {"idle", "conditional", "confirmed", "request", "fetched"}

EntryLen(e) == body_len[e.key][e.body]
\* What the first n entries of s take, for every n.
Taken(s) == LET sum[n \in 0..Len(s)] == IF n = 0 THEN 0 ELSE sum[n - 1] + EntryLen(s[n])
            IN  sum
Bytes(s) == Taken(s)[Len(s)]
Monus(m, n) == IF m >= n THEN m - n ELSE 0

Cached(k) == \E i \in DOMAIN raw : raw[i].key = k
Place(k) == CHOOSE i \in DOMAIN raw : raw[i].key = k
EntryOf(k) == raw[Place(k)]
Without(k) == IF Cached(k) THEN RemoveAt(raw, Place(k)) ELSE raw

CacheInit ==
    /\ raw = <<>>
    /\ current_raw_bytes = 0
    /\ origin_version = [k \in CacheKey |-> 1]
    /\ call_pc = [c \in Call |-> "idle"]
    /\ call_key = [c \in Call |-> NoKey]
    /\ call_entry = [c \in Call |-> NoVersion]
    /\ call_answer = [c \in Call |-> NoVersion]
    /\ passed = {}

-----------------------------------------------------------------------------
(* insert_raw, under the mutex of the tier *)

\* pop_lru while the counter says that the body does not fit.
Counter(s, kept, bytes) == Monus(bytes, Bytes(SubSeq(s, kept + 1, Len(s))))
Evict(s, bytes, len) ==
    LET fits == {n \in 0..Len(s) : Counter(s, n, bytes) + len <= raw_max_bytes}
    IN  SubSeq(s, 1, IF fits = {} THEN 0 ELSE Max(fits))

\* MUTANT: the entry that push drops at the entry limit keeps its bytes.
PushKeepingBytes(s, bytes, entry) ==
    /\ raw' = <<entry>> \o SubSeq(s, 1, Min({Len(s), max_raw_entries - 1}))
    /\ current_raw_bytes' = bytes + EntryLen(entry)

\* push drops the oldest entry at the entry limit, and returns it.
Push(s, bytes, entry) ==
    LET kept == Min({Len(s), max_raw_entries - 1})
    IN  /\ raw' = <<entry>> \o SubSeq(s, 1, kept)
        /\ current_raw_bytes' = Counter(s, kept, bytes) + EntryLen(entry)

insert_raw(k, v) ==
    LET entry == [key |-> k, body |-> v]
        popped == Without(k)
        bytes == IF Cached(k) THEN Monus(current_raw_bytes, EntryLen(EntryOf(k)))
                 ELSE current_raw_bytes
        s == Evict(popped, bytes, EntryLen(entry))
    IN  IF EntryLen(entry) > raw_max_bytes
        THEN UNCHANGED tier
        ELSE Push(s, Counter(popped, Len(s), bytes), entry)

\* get_raw makes the entry the most recently used one.
Promote(k) == raw' = IF Cached(k) THEN <<EntryOf(k)>> \o Without(k) ELSE raw

-----------------------------------------------------------------------------
CallTo(c, step) == call_pc' = [call_pc EXCEPT ![c] = step]
EndOf(c) ==
    /\ CallTo(c, "idle")
    /\ call_key' = [call_key EXCEPT ![c] = NoKey]
    /\ call_entry' = [call_entry EXCEPT ![c] = NoVersion]
    /\ call_answer' = [call_answer EXCEPT ![c] = NoVersion]

Begin(c, k, step) ==
    /\ call_pc[c] = "idle"
    /\ CallTo(c, step)
    /\ call_key' = [call_key EXCEPT ![c] = k]

\* The entry is fresh: it is the answer, and nothing is written.
Hit(k) ==
    /\ Cached(k)
    /\ Promote(k)
    /\ UNCHANGED <<current_raw_bytes, origin_version, call_pc, reads, call_answer, passed>>

\* The entry is stale or older than max_cache_age_seconds, or cache_policy is
\* "refresh": ask the origin whether it is still good.
Revalidate(c, k) ==
    /\ Cached(k)
    /\ Begin(c, k, "conditional")
    /\ call_entry' = [call_entry EXCEPT ![c] = EntryOf(k).body]
    /\ Promote(k)
    /\ UNCHANGED <<current_raw_bytes, origin_version, call_answer, passed>>

\* A miss, an entry without validators or an open circuit; or cache_policy =
\* "bypass", which does not look.
FetchAnew(c, k) ==
    /\ Begin(c, k, "request")
    /\ Promote(k) \/ UNCHANGED raw
    /\ UNCHANGED <<current_raw_bytes, origin_version, call_entry, call_answer, passed>>

\* MUTANT: any answer to the conditional request counts as 304.
AnyConfirms(c) ==
    /\ call_pc[c] = "conditional"
    /\ CallTo(c, "confirmed")
    /\ call_answer' = [call_answer EXCEPT ![c] = call_entry[c]]
    /\ UNCHANGED <<tier, origin_version, reads, passed>>

\* 304: the origin still has the version that was read.
NotModified(c) ==
    /\ call_pc[c] = "conditional" /\ origin_version[call_key[c]] = call_entry[c]
    /\ CallTo(c, "confirmed")
    /\ call_answer' = [call_answer EXCEPT ![c] = call_entry[c]]
    /\ UNCHANGED <<tier, origin_version, reads, passed>>

\* Another status: the body of that answer is not used.
Modified(c) ==
    /\ call_pc[c] = "conditional" /\ origin_version[call_key[c]] # call_entry[c]
    /\ CallTo(c, "request")
    /\ call_entry' = [call_entry EXCEPT ![c] = NoVersion]
    /\ UNCHANGED <<tier, origin_version, call_key, call_answer, passed>>

\* No answer: batch_fetch asks again.  web_fetch serves the entry it read
\* (EndCall), unless it cannot derive the document from it.
RevalidationFails(c) ==
    /\ call_pc[c] = "conditional"
    /\ CallTo(c, "request")
    /\ call_entry' = [call_entry EXCEPT ![c] = NoVersion]
    /\ UNCHANGED <<tier, origin_version, call_key, call_answer, passed>>

\* The calls that had their answer before this write.
Overtakes(c) ==
    passed' = (passed \ {c}) \cup
        {d \in Call \ {c} : call_key[d] = call_key[c] /\ call_pc[d] \in {"confirmed", "fetched"}}

\* After a 304 the entry that was read is written back with a new lifetime.
WriteBack(c) ==
    /\ call_pc[c] = "confirmed"
    /\ insert_raw(call_key[c], call_entry[c])
    /\ EndOf(c)
    /\ Overtakes(c)
    /\ UNCHANGED origin_version

\* batch_fetch does so only when it has the derived document too.
NotDerived(c) ==
    /\ call_pc[c] = "confirmed" /\ c \in BatchCall
    /\ CallTo(c, "request")
    /\ call_entry' = [call_entry EXCEPT ![c] = NoVersion]
    /\ call_answer' = [call_answer EXCEPT ![c] = NoVersion]
    /\ passed' = passed \ {c}
    /\ UNCHANGED <<tier, origin_version, call_key>>

OriginSends(c) ==
    /\ call_pc[c] = "request"
    /\ CallTo(c, "fetched")
    /\ call_answer' = [call_answer EXCEPT ![c] = origin_version[call_key[c]]]
    /\ UNCHANGED <<tier, origin_version, reads, passed>>

Store(c) ==
    /\ call_pc[c] = "fetched"
    /\ insert_raw(call_key[c], call_answer[c])
    /\ EndOf(c)
    /\ Overtakes(c)
    /\ UNCHANGED origin_version

\* Failed, not cacheable, served from the entry after a revalidation without
\* an answer, or the call is dropped.
EndCall(c) ==
    /\ call_pc[c] # "idle"
    /\ EndOf(c)
    /\ passed' = passed \ {c}
    /\ UNCHANGED <<tier, origin_version>>

-----------------------------------------------------------------------------
\* The content of a URL changes.
Publish(k) ==
    /\ origin_version[k] + 1 \in Version(k)
    /\ origin_version' = [origin_version EXCEPT ![k] = @ + 1]
    /\ UNCHANGED <<tier, call_pc, reads, call_answer, passed>>

CacheNext ==
    \/ \E c \in Call :
        \/ \E k \in CacheKey : Revalidate(c, k) \/ FetchAnew(c, k)
        \/ NotModified(c) \/ Modified(c) \/ RevalidationFails(c)
        \/ WriteBack(c) \/ NotDerived(c) \/ OriginSends(c) \/ Store(c) \/ EndCall(c)
    \/ \E k \in CacheKey : Hit(k) \/ Publish(k)

CacheSpec == CacheInit /\ [][CacheNext]_cache_vars

-----------------------------------------------------------------------------
\* Every variable has its type, and no URL has two entries.
CacheTypeOK ==
    /\ raw \in Seq([key : CacheKey, body : Nat]) /\ \A i \in DOMAIN raw : raw[i].body \in Version(raw[i].key)
    /\ \A i, j \in DOMAIN raw : raw[i].key = raw[j].key => i = j
    /\ current_raw_bytes \in Nat
    /\ origin_version \in [CacheKey -> Nat] /\ \A k \in CacheKey : origin_version[k] \in Version(k)
    /\ call_pc \in [Call -> CallStep]
    /\ call_key \in [Call -> CacheKey \cup {NoKey}]
    /\ \A c \in Call : call_key[c] = NoKey <=> call_pc[c] = "idle"
    /\ call_entry \in [Call -> SomeVersion]
    /\ call_answer \in [Call -> SomeVersion]
    /\ passed \subseteq Call

\* The byte counter of the tier is what its entries take, through replacement,
\* eviction for space and eviction at the entry limit (stats() logs an error
\* when it is not), and neither limit is ever passed.
BytesMatch ==
    /\ current_raw_bytes = Bytes(raw)
    /\ current_raw_bytes <= raw_max_bytes
    /\ Len(raw) <= max_raw_entries

\* An entry gives way to an older version of the same URL only when two calls
\* overlap: the one that writes had its answer before the newer one was
\* written.  A call that asks afterwards never brings the old body back.
NeverGoesBack ==
    [][\A k \in CacheKey :
        Cached(k) /\ Cached(k)' /\ EntryOf(k)'.body < EntryOf(k).body =>
            \E c \in passed : call_key[c] = k /\ call_pc[c] # "idle" /\ call_pc'[c] = "idle"]_cache_vars
=============================================================================
