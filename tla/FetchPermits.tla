---------------------------- MODULE FetchPermits ----------------------------
(***************************************************************************)
(* web_fetch calls and batch_fetch items on their way through the origin   *)
(* permits: the retry loop of the tools (src/mcp/tools/web_fetch.rs,       *)
(* batch_fetch.rs) around the redirect loop of the client                  *)
(* (src/fetch/client.rs).  The tool takes a permit of the URL's origin for *)
(* an attempt; inside it the client of web_fetch takes one more for every  *)
(* other origin a redirect leads to, and gives it back when it leaves it.  *)
(*                                                                         *)
(* The origin controller is the part of it that OriginControl shows of an  *)
(* origin whose entry is not evicted: a permit is given when one is free   *)
(* and the circuit is closed, and who waits is served in turn (the strong  *)
(* fairness below).                                                        *)
(***************************************************************************)
EXTENDS Integers, FiniteSets

CONSTANTS
    Fetch,                      \* web_fetch calls and batch_fetch items
    Batch,                      \* those of batch_fetch
    Origin,                     \* origin keys, positive naturals
    raw_origin,                 \* where a source file of a code host is fetched from
    http_concurrency,
    circuit_failure_threshold,
    retry_max_attempts,
    redirect_limit

ASSUME FetchAssumption ==
    /\ IsFiniteSet(Fetch) /\ Batch \subseteq Fetch
    /\ Origin \subseteq Nat \ {0}
    /\ raw_origin \in [Origin -> Origin]
    /\ http_concurrency \in Nat \ {0}
    /\ circuit_failure_threshold \in Nat \ {0}
    /\ retry_max_attempts \in Nat \ {0}
    /\ redirect_limit \in Nat

FailureClass == {"Retryable", "NonRetryable"}

None == 0

VARIABLES
    pc,             \* where every fetch is
    origin_key,     \* the origin of its URL
    initial_origin, \* where the client starts: that, or the code host's raw origin
    hop_origin,     \* where it is now
    permit,         \* whether it has the attempt's permit, of origin_key
    redirect_permit,\* the origin of the redirect loop's permit
    redirect_count,
    attempt,
    class,          \* how the failure of this attempt was classified
    failures,       \* consecutive retryable failures of every origin
    open            \* whose circuit is open

permits == <<permit, redirect_permit>>
url == <<origin_key, initial_origin>>
circuits == <<failures, open>>
vars == <<pc, url, hop_origin, permits, redirect_count, attempt, class, circuits>>

\* A fetch may hold a permit of each kind at one origin.
Holders(o) == {f \in Fetch : permit[f] /\ origin_key[f] = o}
HopHolders(o) == {f \in Fetch : redirect_permit[f] = o}
Free(o) == Cardinality(Holders(o)) + Cardinality(HopHolders(o)) < http_concurrency

\* MUTANT: every followed redirect counts as one to another origin.
FollowedRedirect(f) == f \notin Batch /\ redirect_count[f] > 0

\* The client asks for a permit, and records outcomes, away from its initial
\* origin.  batch_fetch gives it no controller to do so.
Redirected(f) == f \notin Batch /\ hop_origin[f] # initial_origin[f]

Init ==
    /\ pc = [f \in Fetch |-> "idle"]
    /\ origin_key = [f \in Fetch |-> None]
    /\ initial_origin = [f \in Fetch |-> None]
    /\ hop_origin = [f \in Fetch |-> None]
    /\ permit = [f \in Fetch |-> FALSE]
    /\ redirect_permit = [f \in Fetch |-> None]
    /\ redirect_count = [f \in Fetch |-> 0]
    /\ attempt = [f \in Fetch |-> 0]
    /\ class = [f \in Fetch |-> "None"]
    /\ failures = [o \in Origin |-> 0]
    /\ open = [o \in Origin |-> FALSE]

GoTo(f, place) == pc' = [pc EXCEPT ![f] = place]

\* The call is over, or dropped: its permits go with it.
End(f) ==
    /\ GoTo(f, "idle")
    /\ origin_key' = [origin_key EXCEPT ![f] = None]
    /\ initial_origin' = [initial_origin EXCEPT ![f] = None]
    /\ hop_origin' = [hop_origin EXCEPT ![f] = None]
    /\ permit' = [permit EXCEPT ![f] = FALSE]
    /\ redirect_permit' = [redirect_permit EXCEPT ![f] = None]
    /\ redirect_count' = [redirect_count EXCEPT ![f] = 0]
    /\ attempt' = [attempt EXCEPT ![f] = 0]
    /\ class' = [class EXCEPT ![f] = "None"]

-----------------------------------------------------------------------------
(* The cache: an entry that is not fresh is revalidated, without a permit. *)

Start(f, o) ==
    /\ pc[f] = "idle"
    /\ \E start \in {o, raw_origin[o]}, place \in {"stale", "miss"} :
        /\ initial_origin' = [initial_origin EXCEPT ![f] = start]
        /\ GoTo(f, place)
    /\ origin_key' = [origin_key EXCEPT ![f] = o]
    /\ UNCHANGED <<hop_origin, permits, redirect_count, attempt, class, circuits>>

Revalidate(f) ==
    /\ pc[f] = "stale"
    /\ IF open[origin_key[f]]
       THEN GoTo(f, "miss") /\ UNCHANGED hop_origin
       ELSE GoTo(f, "revalidate") /\ hop_origin' = [hop_origin EXCEPT ![f] = initial_origin[f]]
    /\ UNCHANGED <<url, permits, redirect_count, attempt, class, circuits>>

RevalidateElsewhere(f, o) ==
    /\ pc[f] = "revalidate" /\ redirect_count[f] < redirect_limit
    /\ hop_origin' = [hop_origin EXCEPT ![f] = o]
    /\ redirect_count' = [redirect_count EXCEPT ![f] = @ + 1]
    /\ UNCHANGED <<pc, url, permits, attempt, class, circuits>>

\* The cached document is served, or fetched as if it had not been cached.
Serve(f) ==
    /\ pc[f] = "revalidate"
    /\ End(f)
    /\ UNCHANGED circuits

FetchAnew(f) ==
    /\ pc[f] = "revalidate"
    /\ GoTo(f, "miss")
    /\ hop_origin' = [hop_origin EXCEPT ![f] = None]
    /\ redirect_count' = [redirect_count EXCEPT ![f] = 0]
    /\ UNCHANGED <<url, permits, attempt, class, circuits>>

-----------------------------------------------------------------------------
(* The top of an attempt: controller.acquire, for as long as it takes.     *)

Ask(f) ==
    /\ pc[f] = "miss" /\ ~open[origin_key[f]]
    /\ GoTo(f, "wait")
    /\ UNCHANGED <<url, hop_origin, permits, redirect_count, attempt, class, circuits>>

Admit(f) ==
    /\ pc[f] = "wait" /\ Free(origin_key[f]) /\ ~open[origin_key[f]]
    /\ permit' = [permit EXCEPT ![f] = TRUE]
    /\ hop_origin' = [hop_origin EXCEPT ![f] = initial_origin[f]]
    /\ GoTo(f, "hop")
    /\ UNCHANGED <<url, redirect_permit, redirect_count, attempt, class, circuits>>

\* Turned away before the wait, or after it.
TurnAway(f) ==
    /\ pc[f] = "miss" \/ (pc[f] = "wait" /\ Free(origin_key[f]))
    /\ open[origin_key[f]]
    /\ End(f)
    /\ UNCHANGED circuits

-----------------------------------------------------------------------------
(* fetch_internal: the redirect loop.                                      *)

\* What the controller notes of an origin.  Counting stops at the threshold:
\* beyond it every retryable failure opens the circuit again.
NoteSuccess(o) ==
    /\ failures' = [failures EXCEPT ![o] = 0]
    /\ open' = [open EXCEPT ![o] = FALSE]

NoteFailure(o, c) ==
    IF c = "NonRetryable"
    THEN failures' = [failures EXCEPT ![o] = 0] /\ UNCHANGED open
    ELSE LET n == IF failures[o] < circuit_failure_threshold THEN failures[o] + 1 ELSE failures[o] IN
         /\ failures' = [failures EXCEPT ![o] = n]
         /\ open' = [open EXCEPT ![o] = @ \/ n = circuit_failure_threshold]

\* fetch_internal returns an error, without its permit.
Fail(f, c) ==
    /\ GoTo(f, "failed")
    /\ class' = [class EXCEPT ![f] = c]
    /\ hop_origin' = [hop_origin EXCEPT ![f] = None]
    /\ redirect_permit' = [redirect_permit EXCEPT ![f] = None]
    /\ redirect_count' = [redirect_count EXCEPT ![f] = 0]

\* The head of the loop: a permit of another origin than this one is dropped.
Leave(f) ==
    redirect_permit' =
        [redirect_permit EXCEPT ![f] = IF @ = hop_origin[f] THEN @ ELSE None]

Contact(f) ==
    /\ pc[f] = "hop"
    /\ ~Redirected(f) \/ redirect_permit[f] = hop_origin[f]
    /\ Leave(f)
    /\ GoTo(f, "send")
    /\ UNCHANGED <<url, hop_origin, permit, redirect_count, attempt, class, circuits>>

AskHop(f) ==
    /\ pc[f] = "hop"
    /\ Redirected(f) /\ redirect_permit[f] # hop_origin[f]
    /\ ~open[hop_origin[f]]
    /\ Leave(f)
    /\ GoTo(f, "hop_wait")
    /\ UNCHANGED <<url, hop_origin, permit, redirect_count, attempt, class, circuits>>

AdmitHop(f) ==
    /\ pc[f] = "hop_wait" /\ Free(hop_origin[f]) /\ ~open[hop_origin[f]]
    /\ redirect_permit' = [redirect_permit EXCEPT ![f] = hop_origin[f]]
    /\ GoTo(f, "send")
    /\ UNCHANGED <<url, hop_origin, permit, redirect_count, attempt, class, circuits>>

\* The error is a network error whose text names no connection failure.
TurnAwayHop(f) ==
    /\ \/ pc[f] = "hop" /\ Redirected(f) /\ redirect_permit[f] # hop_origin[f]
       \/ pc[f] = "hop_wait" /\ Free(hop_origin[f])
    /\ open[hop_origin[f]]
    /\ Fail(f, "NonRetryable")
    /\ UNCHANGED <<url, permit, attempt, circuits>>

\* MUTANT: the wait is not bounded (acquire for acquire_bounded).
TimeOutHopNever(f) == pc[f] = "hop_wait" /\ FALSE /\ UNCHANGED vars

\* MUTANT: the error of the acquire is dropped and the request sent.
TimeOutHopUnthrottled(f) ==
    /\ pc[f] = "hop_wait"
    /\ GoTo(f, "send")
    /\ UNCHANGED <<url, hop_origin, permits, redirect_count, attempt, class, circuits>>

TimeOutHop(f) ==
    /\ pc[f] = "hop_wait"
    /\ Fail(f, "NonRetryable")
    /\ UNCHANGED <<url, permit, attempt, circuits>>

\* The target does not validate (its name may not resolve): nothing is sent.
Invalid(f, c) ==
    /\ pc[f] = "send"
    /\ Fail(f, c)
    /\ UNCHANGED <<url, permit, attempt, circuits>>

\* No answer.  The client calls every such failure retryable; the tool goes
\* by the text of the error, by which a time-out is not.
SendFails(f, c) ==
    /\ pc[f] = "send"
    /\ Fail(f, c)
    /\ IF Redirected(f) THEN NoteFailure(hop_origin[f], "Retryable") ELSE UNCHANGED circuits
    /\ UNCHANGED <<url, permit, attempt>>

\* An answer of 400 or more.
Refused(f, c) ==
    /\ pc[f] = "send"
    /\ Fail(f, c)
    /\ IF Redirected(f) THEN NoteFailure(hop_origin[f], c) ELSE UNCHANGED circuits
    /\ UNCHANGED <<url, permit, attempt>>

Answered(f) == IF Redirected(f) THEN NoteSuccess(hop_origin[f]) ELSE UNCHANGED circuits

\* MUTANT: one redirect too many.
RedirectOnceMore(f, o) ==
    /\ pc[f] = "send" /\ redirect_count[f] <= redirect_limit
    /\ Answered(f)
    /\ hop_origin' = [hop_origin EXCEPT ![f] = o]
    /\ redirect_count' = [redirect_count EXCEPT ![f] = @ + 1]
    /\ GoTo(f, "hop")
    /\ UNCHANGED <<url, permits, attempt, class>>

Redirect(f, o) ==
    /\ pc[f] = "send" /\ redirect_count[f] < redirect_limit
    /\ Answered(f)
    /\ hop_origin' = [hop_origin EXCEPT ![f] = o]
    /\ redirect_count' = [redirect_count EXCEPT ![f] = @ + 1]
    /\ GoTo(f, "hop")
    /\ UNCHANGED <<url, permits, attempt, class>>

\* One redirect too many, or a target that may not be fetched.
RedirectFails(f, c) ==
    /\ pc[f] = "send"
    /\ Answered(f)
    /\ Fail(f, c)
    /\ UNCHANGED <<url, permit, attempt>>

Answer(f) ==
    /\ pc[f] = "send"
    /\ Answered(f)
    /\ GoTo(f, "body")
    /\ UNCHANGED <<url, hop_origin, permits, redirect_count, attempt, class>>

BodyFails(f, c) ==
    /\ pc[f] = "body"
    /\ Fail(f, c)
    /\ UNCHANGED <<url, permit, attempt, circuits>>

Fetched(f) ==
    /\ pc[f] = "body"
    /\ GoTo(f, "fetched")
    /\ hop_origin' = [hop_origin EXCEPT ![f] = None]
    /\ redirect_permit' = [redirect_permit EXCEPT ![f] = None]
    /\ redirect_count' = [redirect_count EXCEPT ![f] = 0]
    /\ UNCHANGED <<url, permit, attempt, class, circuits>>

-----------------------------------------------------------------------------
(* The end of an attempt: the outcome is recorded for the URL's origin,    *)
(* whichever origin it came from.                                          *)

Succeed(f) ==
    /\ pc[f] = "fetched"
    /\ NoteSuccess(origin_key[f])
    /\ End(f)

GiveUp(f) ==
    /\ pc[f] = "failed"
    /\ NoteFailure(origin_key[f], class[f])
    /\ \/ class[f] = "NonRetryable"
       \/ failures'[origin_key[f]] = circuit_failure_threshold
       \/ attempt[f] + 1 = retry_max_attempts
    /\ End(f)

\* MUTANT: the permit is kept over the backoff (no drop(_permit)).
RetryKeepingPermit(f) ==
    /\ pc[f] = "failed" /\ class[f] = "Retryable"
    /\ attempt[f] + 1 < retry_max_attempts
    /\ NoteFailure(origin_key[f], class[f])
    /\ failures'[origin_key[f]] < circuit_failure_threshold
    /\ attempt' = [attempt EXCEPT ![f] = @ + 1]
    /\ class' = [class EXCEPT ![f] = "None"]
    /\ GoTo(f, "sleep")
    /\ UNCHANGED <<url, hop_origin, permits, redirect_count>>

\* A backoff: web_fetch gives its permit back first, batch_fetch sleeps on it.
Retry(f) ==
    /\ pc[f] = "failed" /\ class[f] = "Retryable"
    /\ attempt[f] + 1 < retry_max_attempts
    /\ NoteFailure(origin_key[f], class[f])
    /\ failures'[origin_key[f]] < circuit_failure_threshold
    /\ attempt' = [attempt EXCEPT ![f] = @ + 1]
    /\ class' = [class EXCEPT ![f] = "None"]
    /\ permit' = [permit EXCEPT ![f] = f \in Batch]
    /\ GoTo(f, "sleep")
    /\ UNCHANGED <<url, hop_origin, redirect_permit, redirect_count>>

Wake(f) ==
    /\ pc[f] = "sleep"
    /\ permit' = [permit EXCEPT ![f] = FALSE]
    /\ GoTo(f, "miss")
    /\ UNCHANGED <<url, hop_origin, redirect_permit, redirect_count, attempt, class, circuits>>

\* The caller drops the call.
Cancel(f) ==
    /\ pc[f] # "idle"
    /\ End(f)
    /\ UNCHANGED circuits

\* circuit_duration has passed; the count stays.
Cooldown(o) ==
    /\ open[o]
    /\ open' = [open EXCEPT ![o] = FALSE]
    /\ UNCHANGED <<pc, url, hop_origin, permits, redirect_count, attempt, class, failures>>

CacheStep(f) ==
    \/ Revalidate(f) \/ Serve(f) \/ FetchAnew(f)
    \/ \E o \in Origin : RevalidateElsewhere(f, o)

ClientStep(f) ==
    \/ Contact(f) \/ AskHop(f) \/ AdmitHop(f) \/ TurnAwayHop(f) \/ TimeOutHop(f)
    \/ \E c \in FailureClass :
        Invalid(f, c) \/ SendFails(f, c) \/ Refused(f, c) \/ RedirectFails(f, c) \/ BodyFails(f, c)
    \/ \E o \in Origin : Redirect(f, o)
    \/ Answer(f) \/ Fetched(f)

ToolStep(f) == Ask(f) \/ Succeed(f) \/ GiveUp(f) \/ Retry(f) \/ Wake(f)

Admission(f) == Admit(f) \/ TurnAway(f)

Next ==
    \/ \E f \in Fetch :
        \/ \E o \in Origin : Start(f, o)
        \/ CacheStep(f) \/ ClientStep(f) \/ ToolStep(f) \/ Admission(f)
        \/ Cancel(f)
    \/ \E o \in Origin : Cooldown(o)

Spec == Init /\ [][Next]_vars

\* Requests, the wait of a hop and sleeps end by their own timeouts.  The
\* semaphore is a queue: who waits in it while permits come free again and
\* again is served (NoStarvation of OriginControl).
Fairness ==
    \A f \in Fetch :
        /\ WF_vars(CacheStep(f) \/ ClientStep(f) \/ ToolStep(f))
        /\ SF_vars(Admission(f))

FairSpec == Spec /\ Fairness

-----------------------------------------------------------------------------
(* Properties.                                                             *)

Pc == {"idle", "stale", "revalidate", "miss", "wait", "hop", "hop_wait", "send", "body",
       "fetched", "failed", "sleep"}

\* Every variable has its type; a fetch that is under way has a URL, one that
\* is inside the client is somewhere, and one that failed was classified.
TypeOK ==
    /\ pc \in [Fetch -> Pc]
    /\ origin_key \in [Fetch -> Origin \cup {None}]
    /\ initial_origin \in [Fetch -> Origin \cup {None}]
    /\ hop_origin \in [Fetch -> Origin \cup {None}]
    /\ permit \in [Fetch -> BOOLEAN]
    /\ redirect_permit \in [Fetch -> Origin \cup {None}]
    /\ redirect_count \in [Fetch -> 0..redirect_limit]
    /\ attempt \in [Fetch -> 0..(retry_max_attempts - 1)]
    /\ class \in [Fetch -> FailureClass \cup {"None"}]
    /\ failures \in [Origin -> 0..circuit_failure_threshold]
    /\ open \in [Origin -> BOOLEAN]
    /\ \A f \in Fetch :
        /\ pc[f] # "idle" => origin_key[f] \in Origin /\ initial_origin[f] \in Origin
        /\ pc[f] \in {"revalidate", "hop", "hop_wait", "send", "body"} => hop_origin[f] \in Origin
        /\ pc[f] = "failed" => class[f] \in FailureClass

\* Requests on the network at an origin.
InFlight(o) == {f \in Fetch : pc[f] \in {"revalidate", "send", "body"} /\ hop_origin[f] = o}

\* Requests that the code sends past the permits: a revalidation, a batch item
\* behind a redirect to another origin, and a source file at its raw origin.
Unthrottled(f) ==
    \/ pc[f] = "revalidate"
    \/ f \in Batch /\ hop_origin[f] # origin_key[f]
    \/ hop_origin[f] = initial_origin[f] /\ hop_origin[f] # origin_key[f]

\* All other requests together keep to http_concurrency at every origin,
\* whatever redirects lead to it while fetches of its own URLs are going on.
ThrottledWithinCeiling ==
    \A o \in Origin :
        Cardinality({f \in InFlight(o) : ~Unthrottled(f)}) <= http_concurrency

\* The claim of the documentation: so do all requests.
AtMostConcurrentPerOrigin ==
    \A o \in Origin : Cardinality(InFlight(o)) <= http_concurrency

\* A fetch never waits for a permit of an origin of which it holds one
\* already, so that no chain of redirects blocks on itself; except a source
\* file whose raw origin redirects back to the code host.
NeverWaitsForItself ==
    \A f \in Fetch :
        pc[f] = "hop_wait" =>
            /\ redirect_permit[f] = None
            /\ hop_origin[f] = origin_key[f] => initial_origin[f] # origin_key[f]

\* A permit is out only for a request: it is for the origin contacted now or
\* just left, or for the attempt; no backoff of web_fetch keeps one.
PermitsServeRequests ==
    \A f \in Fetch :
        /\ redirect_permit[f] # None => pc[f] \in {"hop", "send", "body"}
        /\ redirect_permit[f] # None /\ pc[f] # "hop" => redirect_permit[f] = hop_origin[f]
        /\ permit[f] =>
            \/ pc[f] \in {"hop", "hop_wait", "send", "body", "fetched", "failed"}
            \/ pc[f] = "sleep" /\ f \in Batch

\* Every fetch ends, though fetches that hold permits wait for those of others.
EveryFetchEnds == \A f \in Fetch : pc[f] # "idle" ~> pc[f] = "idle"

-----------------------------------------------------------------------------
(* What fetches see of the controller, and whether a permit is the         *)
(* attempt's or a hop's, is a use of permits as OriginPermits promises it. *)

PermitUser == Fetch \X {"attempt", "hop"}

HeldAt ==
    [u \in PermitUser |->
        IF u[2] = "hop" THEN redirect_permit[u[1]]
        ELSE IF permit[u[1]] THEN origin_key[u[1]] ELSE None]

Promise == INSTANCE OriginPermits WITH
    User <- PermitUser, Nowhere <- None,
    ceiling <- http_concurrency, threshold <- circuit_failure_threshold,
    at <- HeldAt, count <- failures, backoff <- open

\* The two kinds of permit of a fetch are those of two users of the promise:
\* admitted under the ceiling and with the circuit closed, each at one origin,
\* and recording what came of it only at an origin of which one is held.
PermitSpec == Promise!PermitSpec
=============================================================================
