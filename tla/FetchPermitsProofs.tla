------------------------- MODULE FetchPermitsProofs -------------------------
(***************************************************************************)
(* Proofs about the permits of fetches, for any number of fetches and      *)
(* origins, any concurrency, and any chain of redirects.                   *)
(***************************************************************************)
EXTENDS FetchPermits, FiniteSetTheorems, TLAPS

-----------------------------------------------------------------------------
(* Type correctness.                                                        *)

LEMMA BoundsTyped ==
    /\ redirect_limit \in Nat /\ 0 \in 0..redirect_limit
    /\ retry_max_attempts \in Nat \ {0} /\ 0 \in 0..(retry_max_attempts - 1)
    /\ circuit_failure_threshold \in Nat \ {0} /\ 0 \in 0..circuit_failure_threshold
    /\ None \notin Origin
  BY FetchAssumption DEF None

(* A call that ends leaves the state well typed.                            *)
LEMMA EndTyped ==
    ASSUME TypeOK, NEW f \in Fetch, End(f),
           failures' \in [Origin -> 0..circuit_failure_threshold], open' \in [Origin -> BOOLEAN]
    PROVE  TypeOK'
  BY BoundsTyped DEF TypeOK, End, GoTo, Pc

(* Recording an outcome keeps the counters and circuits well typed.         *)
LEMMA NoteTyped ==
    ASSUME TypeOK, NEW o \in Origin,
           \/ NoteSuccess(o)
           \/ \E c \in FailureClass : NoteFailure(o, c)
           \/ UNCHANGED circuits
    PROVE  failures' \in [Origin -> 0..circuit_failure_threshold] /\ open' \in [Origin -> BOOLEAN]
<1>1. CASE NoteSuccess(o)
  BY <1>1, BoundsTyped DEF NoteSuccess, TypeOK
<1>2. CASE \E c \in FailureClass : NoteFailure(o, c)
  <2>1. failures[o] \in 0..circuit_failure_threshold
    BY DEF TypeOK
  <2>2. CASE failures' = [failures EXCEPT ![o] = 0] /\ UNCHANGED open
    BY <2>2, BoundsTyped DEF TypeOK
  <2>3. CASE \E n \in 0..circuit_failure_threshold :
                /\ failures' = [failures EXCEPT ![o] = n]
                /\ open' = [open EXCEPT ![o] = @ \/ n = circuit_failure_threshold]
    BY <2>3 DEF TypeOK
  <2>4. (IF failures[o] < circuit_failure_threshold THEN failures[o] + 1 ELSE failures[o])
            \in 0..circuit_failure_threshold
    BY <2>1, BoundsTyped
  <2> QED  BY <1>2, <2>2, <2>3, <2>4 DEF NoteFailure
<1>3. CASE UNCHANGED circuits
  BY <1>3 DEF circuits, TypeOK
<1> QED  BY <1>1, <1>2, <1>3

(* A step that ends the client's part of an attempt with an error.          *)
LEMMA FailTyped ==
    ASSUME TypeOK, NEW f \in Fetch, NEW c \in FailureClass, Fail(f, c), pc[f] # "idle",
           UNCHANGED <<url, permit, attempt>>,
           failures' \in [Origin -> 0..circuit_failure_threshold], open' \in [Origin -> BOOLEAN]
    PROVE  TypeOK'
  BY BoundsTyped DEF TypeOK, Fail, GoTo, Pc, url

LEMMA TypeInit == Init => TypeOK
  BY BoundsTyped DEF Init, TypeOK, Pc

LEMMA TypeStep == TypeOK /\ [Next]_vars => TypeOK'
<1> SUFFICES ASSUME TypeOK, [Next]_vars PROVE TypeOK'
  OBVIOUS
<1> USE DEF url, permits, circuits, GoTo
<1>1. ASSUME NEW f \in Fetch, NEW o \in Origin, Start(f, o) PROVE TypeOK'
  <2>1. raw_origin[o] \in Origin
    BY FetchAssumption
  <2> QED  BY <1>1, <2>1 DEF Start, TypeOK, Pc
<1>2. ASSUME NEW f \in Fetch, CacheStep(f) PROVE TypeOK'
  <2>1. CASE Revalidate(f)
    BY <2>1 DEF Revalidate, TypeOK, Pc
  <2>2. CASE Serve(f)
    BY <2>2, EndTyped DEF Serve, TypeOK
  <2>3. CASE FetchAnew(f)
    BY <2>3, BoundsTyped DEF FetchAnew, TypeOK, Pc
  <2>4. ASSUME NEW o \in Origin, RevalidateElsewhere(f, o) PROVE TypeOK'
    BY <2>4, BoundsTyped DEF RevalidateElsewhere, TypeOK, Pc
  <2> QED  BY <1>2, <2>1, <2>2, <2>3, <2>4 DEF CacheStep
<1>3. ASSUME NEW f \in Fetch, ClientStep(f) PROVE TypeOK'
  <2>1. CASE Contact(f)
    BY <2>1 DEF Contact, Leave, TypeOK, Pc
  <2>2. CASE AskHop(f)
    BY <2>2 DEF AskHop, Leave, TypeOK, Pc
  <2>3. CASE AdmitHop(f)
    BY <2>3 DEF AdmitHop, TypeOK, Pc
  <2>4. CASE TurnAwayHop(f)
    BY <2>4, FailTyped DEF TurnAwayHop, FailureClass, TypeOK
  <2>5. CASE TimeOutHop(f)
    BY <2>5, FailTyped DEF TimeOutHop, FailureClass, TypeOK
  <2>6. ASSUME NEW c \in FailureClass, Invalid(f, c) PROVE TypeOK'
    BY <2>6, FailTyped DEF Invalid, TypeOK
  <2>7. ASSUME NEW c \in FailureClass, SendFails(f, c) PROVE TypeOK'
    <3>1. hop_origin[f] \in Origin
      BY <2>7 DEF SendFails, TypeOK
    <3>2. failures' \in [Origin -> 0..circuit_failure_threshold] /\ open' \in [Origin -> BOOLEAN]
      BY <2>7, <3>1, NoteTyped DEF SendFails, FailureClass
    <3> QED  BY <2>7, <3>2, FailTyped DEF SendFails
  <2>8. ASSUME NEW c \in FailureClass, Refused(f, c) PROVE TypeOK'
    <3>1. hop_origin[f] \in Origin
      BY <2>8 DEF Refused, TypeOK
    <3>2. failures' \in [Origin -> 0..circuit_failure_threshold] /\ open' \in [Origin -> BOOLEAN]
      BY <2>8, <3>1, NoteTyped DEF Refused
    <3> QED  BY <2>8, <3>2, FailTyped DEF Refused
  <2>9. ASSUME NEW c \in FailureClass, RedirectFails(f, c) PROVE TypeOK'
    <3>1. hop_origin[f] \in Origin
      BY <2>9 DEF RedirectFails, TypeOK
    <3>2. failures' \in [Origin -> 0..circuit_failure_threshold] /\ open' \in [Origin -> BOOLEAN]
      BY <2>9, <3>1, NoteTyped DEF RedirectFails, Answered
    <3> QED  BY <2>9, <3>2, FailTyped DEF RedirectFails
  <2>10. ASSUME NEW c \in FailureClass, BodyFails(f, c) PROVE TypeOK'
    BY <2>10, FailTyped DEF BodyFails, TypeOK
  <2>11. ASSUME NEW o \in Origin, Redirect(f, o) PROVE TypeOK'
    <3>1. hop_origin[f] \in Origin
      BY <2>11 DEF Redirect, TypeOK
    <3>2. failures' \in [Origin -> 0..circuit_failure_threshold] /\ open' \in [Origin -> BOOLEAN]
      BY <2>11, <3>1, NoteTyped DEF Redirect, Answered
    <3> QED  BY <2>11, <3>2, BoundsTyped DEF Redirect, TypeOK, Pc
  <2>12. CASE Answer(f)
    <3>1. hop_origin[f] \in Origin
      BY <2>12 DEF Answer, TypeOK
    <3>2. failures' \in [Origin -> 0..circuit_failure_threshold] /\ open' \in [Origin -> BOOLEAN]
      BY <2>12, <3>1, NoteTyped DEF Answer, Answered
    <3> QED  BY <2>12, <3>2 DEF Answer, TypeOK, Pc
  <2>13. CASE Fetched(f)
    BY <2>13, BoundsTyped DEF Fetched, TypeOK, Pc
  <2> QED
    BY <1>3, <2>1, <2>2, <2>3, <2>4, <2>5, <2>6, <2>7, <2>8, <2>9, <2>10, <2>11, <2>12, <2>13
       DEF ClientStep
<1>4. ASSUME NEW f \in Fetch, ToolStep(f) PROVE TypeOK'
  <2>1. CASE Ask(f)
    BY <2>1 DEF Ask, TypeOK, Pc
  <2>2. CASE Succeed(f)
    <3>1. origin_key[f] \in Origin
      BY <2>2 DEF Succeed, TypeOK
    <3> QED  BY <2>2, <3>1, NoteTyped, EndTyped DEF Succeed
  <2>3. CASE GiveUp(f)
    <3>1. origin_key[f] \in Origin /\ class[f] \in FailureClass
      BY <2>3 DEF GiveUp, TypeOK
    <3> QED  BY <2>3, <3>1, NoteTyped, EndTyped DEF GiveUp
  <2>4. CASE Retry(f)
    <3>1. origin_key[f] \in Origin /\ class[f] \in FailureClass
      BY <2>4 DEF Retry, TypeOK
    <3>2. failures' \in [Origin -> 0..circuit_failure_threshold] /\ open' \in [Origin -> BOOLEAN]
      BY <2>4, <3>1, NoteTyped DEF Retry
    <3>3. attempt' \in [Fetch -> 0..(retry_max_attempts - 1)]
      BY <2>4, BoundsTyped DEF Retry, TypeOK
    <3> QED  BY <2>4, <3>2, <3>3 DEF Retry, TypeOK, Pc
  <2>5. CASE Wake(f)
    BY <2>5 DEF Wake, TypeOK, Pc
  <2> QED  BY <1>4, <2>1, <2>2, <2>3, <2>4, <2>5 DEF ToolStep
<1>5. ASSUME NEW f \in Fetch, Admission(f) PROVE TypeOK'
  <2>1. CASE Admit(f)
    BY <2>1 DEF Admit, TypeOK, Pc
  <2>2. CASE TurnAway(f)
    BY <2>2, EndTyped DEF TurnAway, TypeOK
  <2> QED  BY <1>5, <2>1, <2>2 DEF Admission
<1>6. ASSUME NEW f \in Fetch, Cancel(f) PROVE TypeOK'
  BY <1>6, EndTyped DEF Cancel, TypeOK
<1>7. ASSUME NEW o \in Origin, Cooldown(o) PROVE TypeOK'
  BY <1>7 DEF Cooldown, TypeOK
<1>8. CASE UNCHANGED vars
  BY <1>8 DEF vars, TypeOK
<1> QED
  BY <1>1, <1>2, <1>3, <1>4, <1>5, <1>6, <1>7, <1>8 DEF Next

(* In every behaviour the state is well typed.                              *)
THEOREM TypeCorrect == Spec => []TypeOK
<1> QED  BY TypeInit, TypeStep, PTL DEF Spec

-----------------------------------------------------------------------------
(* Where the permits are.  Inside an attempt its permit is held; a request  *)
(* away from the initial origin has one of the origin it contacts, and one  *)
(* that waits for such a permit has none.                                   *)

Attempting == {"hop", "hop_wait", "send", "body", "fetched", "failed"}

PlaceInv ==
    /\ PermitsServeRequests
    /\ \A f \in Fetch :
        /\ pc[f] \in Attempting => permit[f]
        /\ pc[f] \in {"send", "body"} /\ Redirected(f) => redirect_permit[f] = hop_origin[f]
        /\ pc[f] = "hop_wait" => Redirected(f) /\ redirect_permit[f] = None

(* What PlaceInv says of one fetch.                                         *)
Placed(f) ==
    /\ redirect_permit[f] # None => pc[f] \in {"hop", "send", "body"}
    /\ redirect_permit[f] # None /\ pc[f] # "hop" => redirect_permit[f] = hop_origin[f]
    /\ permit[f] => pc[f] \in Attempting \/ (pc[f] = "sleep" /\ f \in Batch)
    /\ pc[f] \in Attempting => permit[f]
    /\ pc[f] \in {"send", "body"} /\ Redirected(f) => redirect_permit[f] = hop_origin[f]
    /\ pc[f] = "hop_wait" => Redirected(f) /\ redirect_permit[f] = None

LEMMA PlaceInvPlaced == PlaceInv <=> \A f \in Fetch : Placed(f)
  BY DEF PlaceInv, Placed, PermitsServeRequests, Attempting

LEMMA PlaceInit == Init => PlaceInv
  BY DEF Init, PlaceInv, PermitsServeRequests, Attempting

(* A step concerns one fetch and leaves the others where they are.          *)
Elsewhere(f) ==
    \A g \in Fetch \ {f} :
        /\ pc'[g] = pc[g] /\ permit'[g] = permit[g]
        /\ redirect_permit'[g] = redirect_permit[g] /\ hop_origin'[g] = hop_origin[g]
        /\ initial_origin'[g] = initial_origin[g] /\ origin_key'[g] = origin_key[g]

LEMMA PlaceOfOne ==
    ASSUME PlaceInv, NEW f \in Fetch, Elsewhere(f), Placed(f)'
    PROVE  PlaceInv'
<1>1. ASSUME NEW g \in Fetch \ {f} PROVE Placed(g)'
  BY <1>1, PlaceInvPlaced DEF Elsewhere, Placed, Redirected
<1>2. \A g \in Fetch : Placed(g)'
  BY <1>1
<1> QED
  BY <1>2 DEF PlaceInv, Placed, PermitsServeRequests, Attempting, Redirected

LEMMA EndPlaced ==
    ASSUME TypeOK, NEW f \in Fetch, End(f)
    PROVE  Elsewhere(f) /\ Placed(f)'
  BY DEF TypeOK, End, GoTo, Elsewhere, Placed, Attempting, Redirected

LEMMA FailPlaced ==
    ASSUME TypeOK, PlaceInv, NEW f \in Fetch, NEW c \in FailureClass, Fail(f, c),
           pc[f] \in Attempting, UNCHANGED <<url, permit>>
    PROVE  Elsewhere(f) /\ Placed(f)'
  BY PlaceInvPlaced DEF TypeOK, Fail, GoTo, Elsewhere, Placed, Attempting, Redirected, url

LEMMA PlaceStep == TypeOK /\ PlaceInv /\ [Next]_vars => PlaceInv'
<1> SUFFICES ASSUME TypeOK, PlaceInv, [Next]_vars PROVE PlaceInv'
  OBVIOUS
<1> USE DEF url, permits, circuits, GoTo
<1>p. \A f \in Fetch : Placed(f)
  BY PlaceInvPlaced
<1>1. ASSUME NEW f \in Fetch, NEW o \in Origin, Start(f, o) PROVE PlaceInv'
  <2>1. Elsewhere(f) /\ Placed(f)'
    BY <1>1, <1>p DEF Start, Elsewhere, Placed, Redirected, Attempting, TypeOK
  <2> QED  BY <2>1, PlaceOfOne
<1>2. ASSUME NEW f \in Fetch, CacheStep(f) PROVE PlaceInv'
  <2>1. CASE Serve(f)
    BY <2>1, EndPlaced, PlaceOfOne DEF Serve
  <2>2. CASE Revalidate(f)
    <3>1. Elsewhere(f) /\ Placed(f)'
      BY <2>2, <1>p DEF Revalidate, Elsewhere, Placed, Redirected, Attempting, TypeOK
    <3> QED  BY <3>1, PlaceOfOne
  <2>3. CASE FetchAnew(f)
    <3>1. Elsewhere(f) /\ Placed(f)'
      BY <2>3, <1>p DEF FetchAnew, Elsewhere, Placed, Redirected, Attempting, TypeOK
    <3> QED  BY <3>1, PlaceOfOne
  <2>4. ASSUME NEW o \in Origin, RevalidateElsewhere(f, o) PROVE PlaceInv'
    <3>1. Elsewhere(f) /\ Placed(f)'
      BY <2>4, <1>p DEF RevalidateElsewhere, Elsewhere, Placed, Redirected, Attempting, TypeOK
    <3> QED  BY <3>1, PlaceOfOne
  <2> QED  BY <1>2, <2>1, <2>2, <2>3, <2>4 DEF CacheStep
<1>3. ASSUME NEW f \in Fetch, ClientStep(f) PROVE PlaceInv'
  <2>f. FailureClass = {"Retryable", "NonRetryable"}
    BY DEF FailureClass
  <2>1. CASE Contact(f)
    <3>1. Elsewhere(f) /\ Placed(f)'
      BY <2>1, <1>p DEF Contact, Leave, Elsewhere, Placed, Redirected, Attempting, TypeOK
    <3> QED  BY <3>1, PlaceOfOne
  <2>2. CASE AskHop(f)
    <3>1. Elsewhere(f) /\ Placed(f)'
      BY <2>2, <1>p DEF AskHop, Leave, Elsewhere, Placed, Redirected, Attempting, TypeOK
    <3> QED  BY <3>1, PlaceOfOne
  <2>3. CASE AdmitHop(f)
    <3>1. Elsewhere(f) /\ Placed(f)'
      BY <2>3, <1>p DEF AdmitHop, Elsewhere, Placed, Redirected, Attempting, TypeOK
    <3> QED  BY <3>1, PlaceOfOne
  <2>4. CASE TurnAwayHop(f)
    BY <2>4, <2>f, FailPlaced, PlaceOfOne DEF TurnAwayHop, Attempting
  <2>5. CASE TimeOutHop(f)
    BY <2>5, <2>f, FailPlaced, PlaceOfOne DEF TimeOutHop, Attempting
  <2>6. ASSUME NEW c \in FailureClass, Invalid(f, c) PROVE PlaceInv'
    BY <2>6, FailPlaced, PlaceOfOne DEF Invalid, Attempting
  <2>7. ASSUME NEW c \in FailureClass, SendFails(f, c) PROVE PlaceInv'
    BY <2>7, FailPlaced, PlaceOfOne DEF SendFails, Attempting
  <2>8. ASSUME NEW c \in FailureClass, Refused(f, c) PROVE PlaceInv'
    BY <2>8, FailPlaced, PlaceOfOne DEF Refused, Attempting
  <2>9. ASSUME NEW c \in FailureClass, RedirectFails(f, c) PROVE PlaceInv'
    BY <2>9, FailPlaced, PlaceOfOne DEF RedirectFails, Attempting
  <2>10. ASSUME NEW c \in FailureClass, BodyFails(f, c) PROVE PlaceInv'
    BY <2>10, FailPlaced, PlaceOfOne DEF BodyFails, Attempting
  <2>11. ASSUME NEW o \in Origin, Redirect(f, o) PROVE PlaceInv'
    <3>1. Elsewhere(f) /\ Placed(f)'
      BY <2>11, <1>p DEF Redirect, Elsewhere, Placed, Redirected, Attempting, TypeOK
    <3> QED  BY <3>1, PlaceOfOne
  <2>12. CASE Answer(f)
    <3>1. Elsewhere(f) /\ Placed(f)'
      BY <2>12, <1>p DEF Answer, Elsewhere, Placed, Redirected, Attempting, TypeOK
    <3> QED  BY <3>1, PlaceOfOne
  <2>13. CASE Fetched(f)
    <3>1. Elsewhere(f) /\ Placed(f)'
      BY <2>13, <1>p DEF Fetched, Elsewhere, Placed, Redirected, Attempting, TypeOK
    <3> QED  BY <3>1, PlaceOfOne
  <2> QED
    BY <1>3, <2>1, <2>2, <2>3, <2>4, <2>5, <2>6, <2>7, <2>8, <2>9, <2>10, <2>11, <2>12, <2>13
       DEF ClientStep
<1>4. ASSUME NEW f \in Fetch, ToolStep(f) PROVE PlaceInv'
  <2>1. CASE Ask(f)
    <3>1. Elsewhere(f) /\ Placed(f)'
      BY <2>1, <1>p DEF Ask, Elsewhere, Placed, Redirected, Attempting, TypeOK
    <3> QED  BY <3>1, PlaceOfOne
  <2>2. CASE Succeed(f) \/ GiveUp(f)
    BY <2>2, EndPlaced, PlaceOfOne DEF Succeed, GiveUp
  <2>3. CASE Retry(f)
    <3>1. Elsewhere(f) /\ Placed(f)'
      BY <2>3, <1>p DEF Retry, Elsewhere, Placed, Redirected, Attempting, TypeOK
    <3> QED  BY <3>1, PlaceOfOne
  <2>4. CASE Wake(f)
    <3>1. Elsewhere(f) /\ Placed(f)'
      BY <2>4, <1>p DEF Wake, Elsewhere, Placed, Redirected, Attempting, TypeOK
    <3> QED  BY <3>1, PlaceOfOne
  <2> QED  BY <1>4, <2>1, <2>2, <2>3, <2>4 DEF ToolStep
<1>5. ASSUME NEW f \in Fetch, Admission(f) PROVE PlaceInv'
  <2>1. CASE Admit(f)
    <3>1. Elsewhere(f) /\ Placed(f)'
      BY <2>1, <1>p DEF Admit, Elsewhere, Placed, Redirected, Attempting, TypeOK
    <3> QED  BY <3>1, PlaceOfOne
  <2>2. CASE TurnAway(f)
    BY <2>2, EndPlaced, PlaceOfOne DEF TurnAway
  <2> QED  BY <1>5, <2>1, <2>2 DEF Admission
<1>6. ASSUME NEW f \in Fetch, Cancel(f) PROVE PlaceInv'
  BY <1>6, EndPlaced, PlaceOfOne DEF Cancel
<1>7. CASE (\E o \in Origin : Cooldown(o)) \/ UNCHANGED vars
  BY <1>7 DEF Cooldown, vars, PlaceInv, PermitsServeRequests, Redirected
<1> QED
  BY <1>1, <1>2, <1>3, <1>4, <1>5, <1>6, <1>7 DEF Next

(* A permit is out only for a request that it is for.                       *)
THEOREM PermitsServeCorrect == Spec => []PermitsServeRequests
<1>1. PlaceInv => PermitsServeRequests
  BY DEF PlaceInv
<1> QED  BY <1>1, TypeInit, TypeStep, PlaceInit, PlaceStep, PTL DEF Spec

(* Nobody waits for a permit of an origin of which it holds one already,    *)
(* but a source file whose raw origin redirects to the code host.           *)
THEOREM NeverWaitsCorrect == Spec => []NeverWaitsForItself
<1>1. PlaceInv => NeverWaitsForItself
  BY DEF PlaceInv, NeverWaitsForItself, Redirected
<1> QED  BY <1>1, TypeInit, TypeStep, PlaceInit, PlaceStep, PTL DEF Spec

-----------------------------------------------------------------------------
(* The permits of an origin that are out, of both kinds, are at most        *)
(* http_concurrency.  A step that admits nobody takes none; an admission    *)
(* takes one, and only if there is one.                                     *)

PermitsWithinCeiling ==
    \A o \in Origin :
        Cardinality(Holders(o)) + Cardinality(HopHolders(o)) <= http_concurrency

LEMMA HoldersFinite ==
    ASSUME NEW o
    PROVE  /\ IsFiniteSet(Holders(o)) /\ Cardinality(Holders(o)) \in Nat
           /\ IsFiniteSet(HopHolders(o)) /\ Cardinality(HopHolders(o)) \in Nat
<1>1. Holders(o) \subseteq Fetch /\ HopHolders(o) \subseteq Fetch
  BY DEF Holders, HopHolders
<1> QED  BY <1>1, FetchAssumption, FS_Subset, FS_CardinalityType

LEMMA HoldersFinitePrime ==
    ASSUME NEW o
    PROVE  /\ IsFiniteSet(Holders(o)') /\ Cardinality(Holders(o)') \in Nat
           /\ IsFiniteSet(HopHolders(o)') /\ Cardinality(HopHolders(o)') \in Nat
<1>1. Holders(o)' \subseteq Fetch /\ HopHolders(o)' \subseteq Fetch
  BY DEF Holders, HopHolders
<1> QED  BY <1>1, FetchAssumption, FS_Subset, FS_CardinalityType

LEMMA NobodyAdmitted ==
    ASSUME PermitsWithinCeiling, FetchAssumption,
           \A o \in Origin : Holders(o)' \subseteq Holders(o) /\ HopHolders(o)' \subseteq HopHolders(o)
    PROVE  PermitsWithinCeiling'
<1> SUFFICES ASSUME NEW o \in Origin
             PROVE  Cardinality(Holders(o)') + Cardinality(HopHolders(o)') <= http_concurrency
  BY DEF PermitsWithinCeiling
<1>1. /\ Cardinality(Holders(o)') <= Cardinality(Holders(o))
      /\ Cardinality(HopHolders(o)') <= Cardinality(HopHolders(o))
  BY HoldersFinite, FS_Subset
<1> QED
  BY <1>1, HoldersFinite, HoldersFinitePrime DEF PermitsWithinCeiling, FetchAssumption

LEMMA CeilingInit == Init => PermitsWithinCeiling
<1> SUFFICES ASSUME Init, NEW o \in Origin
             PROVE  Cardinality(Holders(o)) + Cardinality(HopHolders(o)) <= http_concurrency
  BY DEF PermitsWithinCeiling
<1>1. Holders(o) = {} /\ HopHolders(o) = {}
  BY FetchAssumption DEF Init, Holders, HopHolders, None
<1> QED  BY <1>1, FS_EmptySet, FetchAssumption

LEMMA AdmitKeepsCeiling ==
    ASSUME TypeOK, PermitsWithinCeiling, NEW f \in Fetch, Admit(f)
    PROVE  PermitsWithinCeiling'
<1> SUFFICES ASSUME NEW o \in Origin
             PROVE  Cardinality(Holders(o)') + Cardinality(HopHolders(o)') <= http_concurrency
  BY DEF PermitsWithinCeiling
<1>1. HopHolders(o)' = HopHolders(o)
  BY DEF Admit, HopHolders
<1>2. CASE o = origin_key[f]
  <2>1. Holders(o)' \subseteq Holders(o) \cup {f}
    BY DEF Admit, Holders, url, TypeOK
  <2>2. Cardinality(Holders(o)') <= Cardinality(Holders(o) \cup {f})
    BY <2>1, HoldersFinite, FS_AddElement, FS_Subset
  <2>3. Cardinality(Holders(o) \cup {f}) <= Cardinality(Holders(o)) + 1
    <3>1. \/ Cardinality(Holders(o) \cup {f}) = Cardinality(Holders(o))
          \/ Cardinality(Holders(o) \cup {f}) = Cardinality(Holders(o)) + 1
      BY HoldersFinite, FS_AddElement, Zenon
    <3> QED  BY <3>1, HoldersFinite
  <2>4. Cardinality(Holders(o)) + Cardinality(HopHolders(o)) < http_concurrency
    BY <1>2 DEF Admit, Free
  <2>5. Cardinality(Holders(o) \cup {f}) \in Nat
    BY HoldersFinite, FS_AddElement, FS_CardinalityType
  <2> QED
    BY <1>1, <2>2, <2>3, <2>4, <2>5, HoldersFinite, HoldersFinitePrime, FetchAssumption
<1>3. CASE o # origin_key[f]
  <2>1. Holders(o)' = Holders(o)
    BY <1>3 DEF Admit, Holders, url, TypeOK
  <2> QED  BY <1>1, <2>1 DEF PermitsWithinCeiling
<1> QED  BY <1>2, <1>3

LEMMA AdmitHopKeepsCeiling ==
    ASSUME TypeOK, PermitsWithinCeiling, NEW f \in Fetch, AdmitHop(f)
    PROVE  PermitsWithinCeiling'
<1> SUFFICES ASSUME NEW o \in Origin
             PROVE  Cardinality(Holders(o)') + Cardinality(HopHolders(o)') <= http_concurrency
  BY DEF PermitsWithinCeiling
<1>1. Holders(o)' = Holders(o)
  BY DEF AdmitHop, Holders, url
<1>2. CASE o = hop_origin[f]
  <2>1. HopHolders(o)' \subseteq HopHolders(o) \cup {f}
    BY DEF AdmitHop, HopHolders, TypeOK
  <2>2. Cardinality(HopHolders(o)') <= Cardinality(HopHolders(o) \cup {f})
    BY <2>1, HoldersFinite, FS_AddElement, FS_Subset
  <2>3. Cardinality(HopHolders(o) \cup {f}) <= Cardinality(HopHolders(o)) + 1
    <3>1. \/ Cardinality(HopHolders(o) \cup {f}) = Cardinality(HopHolders(o))
          \/ Cardinality(HopHolders(o) \cup {f}) = Cardinality(HopHolders(o)) + 1
      BY HoldersFinite, FS_AddElement, Zenon
    <3> QED  BY <3>1, HoldersFinite
  <2>4. Cardinality(Holders(o)) + Cardinality(HopHolders(o)) < http_concurrency
    BY <1>2 DEF AdmitHop, Free
  <2>5. Cardinality(HopHolders(o) \cup {f}) \in Nat
    BY HoldersFinite, FS_AddElement, FS_CardinalityType
  <2> QED
    BY <1>1, <2>2, <2>3, <2>4, <2>5, HoldersFinite, HoldersFinitePrime, FetchAssumption
<1>3. CASE o # hop_origin[f]
  <2>1. HopHolders(o)' \subseteq HopHolders(o)
    BY <1>3 DEF AdmitHop, HopHolders, TypeOK
  <2>2. Cardinality(HopHolders(o)') <= Cardinality(HopHolders(o))
    BY <2>1, HoldersFinite, FS_Subset
  <2> QED
    BY <1>1, <2>2, HoldersFinite, HoldersFinitePrime, FetchAssumption DEF PermitsWithinCeiling
<1> QED  BY <1>2, <1>3

LEMMA CeilingStep ==
    TypeOK /\ PlaceInv /\ PermitsWithinCeiling /\ [Next]_vars => PermitsWithinCeiling'
<1> SUFFICES ASSUME TypeOK, PlaceInv, PermitsWithinCeiling, [Next]_vars
             PROVE  PermitsWithinCeiling'
  OBVIOUS
<1> DEFINE Less == \A o \in Origin :
               Holders(o)' \subseteq Holders(o) /\ HopHolders(o)' \subseteq HopHolders(o)
<1>l. Less => PermitsWithinCeiling'
  BY NobodyAdmitted, FetchAssumption
<1>e. ASSUME NEW f \in Fetch, End(f) PROVE Less
  BY <1>e, BoundsTyped DEF End, Holders, HopHolders, TypeOK
<1>f. ASSUME NEW f \in Fetch, NEW c \in FailureClass, Fail(f, c), UNCHANGED <<url, permit>> PROVE Less
  BY <1>f, BoundsTyped DEF Fail, url, Holders, HopHolders, TypeOK
<1> HIDE DEF Less
<1>1. ASSUME NEW f \in Fetch, NEW o \in Origin, Start(f, o) PROVE Less
  <2>1. ~permit[f]
    BY <1>1, PlaceInvPlaced DEF Start, Placed, Attempting
  <2> QED  BY <1>1, <2>1 DEF Less, Start, permits, Holders, HopHolders, TypeOK
<1>2. ASSUME NEW f \in Fetch, CacheStep(f) PROVE Less
  <2>1. CASE UNCHANGED <<url, permits>>
    BY <2>1 DEF Less, url, permits, Holders, HopHolders
  <2>2. CASE Serve(f)
    BY <2>2, <1>e DEF Serve
  <2> QED  BY <1>2, <2>1, <2>2 DEF CacheStep, Revalidate, FetchAnew, RevalidateElsewhere
<1>3. ASSUME NEW f \in Fetch, ClientStep(f) PROVE PermitsWithinCeiling'
  <2>1. CASE AdmitHop(f)
    BY <2>1, AdmitHopKeepsCeiling
  <2>2. CASE UNCHANGED <<url, permits>>
    BY <2>2, <1>l DEF Less, url, permits, Holders, HopHolders
  <2>3. CASE (Contact(f) \/ AskHop(f)) \/ Fetched(f)
    <3>1. Less
      BY <2>3, BoundsTyped DEF Less, Contact, AskHop, Fetched, Leave, url, Holders, HopHolders, TypeOK
    <3> QED  BY <3>1, <1>l
  <2>4. CASE \E c \in FailureClass : Fail(f, c) /\ UNCHANGED <<url, permit>>
    BY <2>4, <1>f, <1>l
  <2>5. "NonRetryable" \in FailureClass
    BY DEF FailureClass
  <2> QED
    BY <1>3, <2>1, <2>2, <2>3, <2>4, <2>5
       DEF ClientStep, TurnAwayHop, TimeOutHop, Invalid, SendFails, Refused, RedirectFails,
           BodyFails, Redirect, Answer
<1>4. ASSUME NEW f \in Fetch, ToolStep(f) PROVE Less
  <2>1. CASE Ask(f)
    BY <2>1 DEF Less, Ask, url, permits, Holders, HopHolders
  <2>2. CASE Succeed(f) \/ GiveUp(f)
    BY <2>2, <1>e DEF Succeed, GiveUp
  <2>3. CASE Retry(f)
    <3>1. permit[f]
      BY <2>3, PlaceInvPlaced DEF Retry, Placed, Attempting
    <3> QED  BY <2>3, <3>1 DEF Less, Retry, url, Holders, HopHolders, TypeOK
  <2>4. CASE Wake(f)
    BY <2>4 DEF Less, Wake, url, Holders, HopHolders, TypeOK
  <2> QED  BY <1>4, <2>1, <2>2, <2>3, <2>4 DEF ToolStep
<1>5. ASSUME NEW f \in Fetch, Admission(f) PROVE PermitsWithinCeiling'
  BY <1>5, <1>l, <1>e, AdmitKeepsCeiling DEF Admission, TurnAway
<1>6. ASSUME NEW f \in Fetch, Cancel(f) PROVE Less
  BY <1>6, <1>e DEF Cancel
<1>7. CASE (\E o \in Origin : Cooldown(o)) \/ UNCHANGED vars
  <2>1. UNCHANGED <<url, permits>>
    BY <1>7 DEF Cooldown, vars
  <2> QED  BY <2>1, <1>l DEF Less, url, permits, Holders, HopHolders
<1> QED
  BY <1>1, <1>2, <1>3, <1>4, <1>5, <1>6, <1>7, <1>l DEF Next

(* A throttled request on the network at an origin holds a permit of it.    *)
LEMMA ThrottledHoldPermits ==
    ASSUME TypeOK, PlaceInv, PermitsWithinCeiling, NEW o \in Origin
    PROVE  Cardinality({f \in InFlight(o) : ~Unthrottled(f)}) <= http_concurrency
<1> DEFINE T == {f \in InFlight(o) : ~Unthrottled(f)}
<1>1. T \subseteq Holders(o) \cup HopHolders(o)
  BY PlaceInvPlaced
     DEF InFlight, Unthrottled, Holders, HopHolders, Placed, Attempting, Redirected
<1>2. /\ IsFiniteSet(Holders(o) \cup HopHolders(o))
      /\ Cardinality(Holders(o) \cup HopHolders(o))
           = Cardinality(Holders(o)) + Cardinality(HopHolders(o))
               - Cardinality(Holders(o) \cap HopHolders(o))
  BY HoldersFinite, FS_Union
<1>3. /\ IsFiniteSet(Holders(o) \cap HopHolders(o))
      /\ Cardinality(Holders(o) \cap HopHolders(o)) \in Nat
  BY HoldersFinite, FS_Intersection, FS_CardinalityType
<1>4. IsFiniteSet(T) /\ Cardinality(T) <= Cardinality(Holders(o) \cup HopHolders(o))
  BY <1>1, <1>2, FS_Subset
<1>5. Cardinality(T) \in Nat
  BY <1>4, FS_CardinalityType
<1> HIDE DEF T
<1>6. Cardinality(T) <= http_concurrency
  BY <1>2, <1>3, <1>4, <1>5, HoldersFinite, FetchAssumption DEF PermitsWithinCeiling
<1> QED  BY <1>6 DEF T

(* Requests that go through the permits keep to the ceiling of every        *)
(* origin, those that come by redirect included.                            *)
THEOREM CeilingCorrect == Spec => []ThrottledWithinCeiling
<1>1. TypeOK /\ PlaceInv /\ PermitsWithinCeiling => ThrottledWithinCeiling
  BY ThrottledHoldPermits DEF ThrottledWithinCeiling
<1> QED
  BY <1>1, TypeInit, TypeStep, PlaceInit, PlaceStep, CeilingInit, CeilingStep, PTL DEF Spec

-----------------------------------------------------------------------------
(* FetchPermits uses its permits as OriginPermits promises them.  What the  *)
(* two users of a fetch hold.                                               *)

LEMMA HeldOfFetch ==
    ASSUME NEW f \in Fetch
    PROVE  /\ <<f, "attempt">> \in PermitUser /\ <<f, "hop">> \in PermitUser
           /\ HeldAt[<<f, "attempt">>] = (IF permit[f] THEN origin_key[f] ELSE None)
           /\ HeldAt[<<f, "hop">>] = redirect_permit[f]
  BY DEF HeldAt, PermitUser

LEMMA HeldOfFetchPrime ==
    ASSUME NEW f \in Fetch
    PROVE  /\ HeldAt'[<<f, "attempt">>] = (IF permit'[f] THEN origin_key'[f] ELSE None)
           /\ HeldAt'[<<f, "hop">>] = redirect_permit'[f]
  BY DEF HeldAt, PermitUser

LEMMA UserIsFetch ==
    ASSUME NEW u \in PermitUser
    PROVE  \E f \in Fetch : u = <<f, "attempt">> \/ u = <<f, "hop">>
  BY DEF PermitUser

(* Each kind of permit of a fetch stays as it is or is given back.          *)
GivesBack ==
    \A f \in Fetch :
        /\ \/ permit'[f] = permit[f] /\ (permit[f] => origin_key'[f] = origin_key[f])
           \/ ~permit'[f]
        /\ redirect_permit'[f] \in {redirect_permit[f], None}

LEMMA GivenBack ==
    ASSUME GivesBack
    PROVE  \E S \in SUBSET PermitUser : Promise!GiveBackOf(S)
<1> DEFINE S == {u \in PermitUser : HeldAt'[u] # HeldAt[u]}
<1>1. ASSUME NEW u \in PermitUser PROVE HeldAt'[u] = HeldAt[u] \/ HeldAt'[u] = None
  <2>1. PICK f \in Fetch : u = <<f, "attempt">> \/ u = <<f, "hop">>
    BY UserIsFetch
  <2>2. CASE u = <<f, "attempt">>
    BY <2>2, HeldOfFetch, HeldOfFetchPrime DEF GivesBack
  <2>3. CASE u = <<f, "hop">>
    BY <2>3, HeldOfFetch, HeldOfFetchPrime DEF GivesBack
  <2> QED  BY <2>1, <2>2, <2>3
<1>2. HeldAt' = [u \in PermitUser |-> HeldAt'[u]]
  BY DEF HeldAt
<1>3. \A u \in PermitUser : HeldAt'[u] = (IF u \in S THEN None ELSE HeldAt[u])
  BY <1>1
<1>4. HeldAt' = [u \in PermitUser |-> IF u \in S THEN None ELSE HeldAt[u]]
  BY <1>2, <1>3, Zenon
<1>5. S \in SUBSET PermitUser
  OBVIOUS
<1> QED  BY <1>4, <1>5 DEF Promise!GiveBackOf

(* A step that records nothing and admits nobody is one of leaving.         *)
LEMMA OnlyLeaves ==
    ASSUME GivesBack, UNCHANGED circuits
    PROVE  Promise!PermitNext
  BY GivenBack DEF circuits, Promise!PermitNext, Promise!Leaves

(* An outcome is recorded at an origin of which a permit is held.           *)
LEMMA NoteRecords ==
    ASSUME TypeOK, NEW o \in Origin, GivesBack,
           NoteSuccess(o) \/ (\E c \in FailureClass : NoteFailure(o, c)),
           \E u \in PermitUser : HeldAt[u] = o
    PROVE  Promise!PermitNext
<1>1. Promise!UsersOf(o) # {}
  BY DEF Promise!UsersOf
<1>2. failures[o] \in 0..circuit_failure_threshold
  BY DEF TypeOK
<1>3. Promise!Answers(o) \/ Promise!Refuses(o) \/ Promise!Fails(o)
  <2>1. CASE NoteSuccess(o)
    BY <2>1 DEF NoteSuccess, Promise!Answers
  <2>2. ASSUME NEW c \in FailureClass, NoteFailure(o, c), c = "NonRetryable" PROVE Promise!Refuses(o)
    BY <2>2 DEF NoteFailure, Promise!Refuses
  <2>3. ASSUME NEW c \in FailureClass, NoteFailure(o, c), c # "NonRetryable" PROVE Promise!Fails(o)
    <3>1. (IF failures[o] < circuit_failure_threshold THEN failures[o] + 1 ELSE failures[o])
            = (IF failures[o] < circuit_failure_threshold
               THEN failures[o] + 1 ELSE circuit_failure_threshold)
      BY <1>2, BoundsTyped
    <3> QED  BY <2>3, <3>1 DEF NoteFailure, Promise!Fails
  <2> QED  BY <2>1, <2>2, <2>3
<1>4. Promise!Record(o)
  BY <1>1, <1>3, GivenBack DEF Promise!Record
<1> QED  BY <1>4 DEF Promise!PermitNext

(* The users of an origin are no more than the permits of it that are out.  *)
LEMMA UsersCounted ==
    ASSUME NEW o \in Origin
    PROVE  /\ Cardinality(Promise!UsersOf(o)) \in Nat
           /\ Cardinality(Promise!UsersOf(o))
                <= Cardinality(Holders(o)) + Cardinality(HopHolders(o))
<1> DEFINE A == {<<f, "attempt">> : f \in Holders(o)}
           H == {<<f, "hop">> : f \in HopHolders(o)}
<1>1. Promise!UsersOf(o) \subseteq A \cup H
  <2> SUFFICES ASSUME NEW u \in PermitUser, HeldAt[u] = o PROVE u \in A \cup H
    BY DEF Promise!UsersOf
  <2>1. PICK f \in Fetch : u = <<f, "attempt">> \/ u = <<f, "hop">>
    BY UserIsFetch
  <2>2. CASE u = <<f, "attempt">>
    <3>1. f \in Holders(o)
      BY <2>2, HeldOfFetch, BoundsTyped DEF Holders
    <3> QED  BY <2>2, <3>1
  <2>3. CASE u = <<f, "hop">>
    <3>1. f \in HopHolders(o)
      BY <2>3, HeldOfFetch DEF HopHolders
    <3> QED  BY <2>3, <3>1
  <2> QED  BY <2>1, <2>2, <2>3
<1>2. IsFiniteSet(A) /\ Cardinality(A) <= Cardinality(Holders(o))
  <2>1. [f \in Holders(o) |-> <<f, "attempt">>] \in Surjection(Holders(o), A)
    BY DEF Surjection
  <2> QED  BY <2>1, HoldersFinite, FS_Surjection
<1>3. IsFiniteSet(H) /\ Cardinality(H) <= Cardinality(HopHolders(o))
  <2>1. [f \in HopHolders(o) |-> <<f, "hop">>] \in Surjection(HopHolders(o), H)
    BY DEF Surjection
  <2> QED  BY <2>1, HoldersFinite, FS_Surjection
<1> HIDE DEF A, H
<1>4. /\ IsFiniteSet(A \cup H)
      /\ Cardinality(A \cup H) = Cardinality(A) + Cardinality(H) - Cardinality(A \cap H)
  BY <1>2, <1>3, FS_Union
<1>5. IsFiniteSet(A \cap H) /\ Cardinality(A \cap H) \in Nat
  BY <1>2, <1>3, FS_Intersection, FS_CardinalityType
<1>6. /\ Cardinality(A) \in Nat /\ Cardinality(H) \in Nat
      /\ IsFiniteSet(Promise!UsersOf(o)) /\ Cardinality(Promise!UsersOf(o)) \in Nat
  BY <1>1, <1>2, <1>3, <1>4, FS_Subset, FS_CardinalityType
<1>7. Cardinality(Promise!UsersOf(o)) <= Cardinality(A \cup H)
  BY <1>1, <1>4, FS_Subset
<1> QED  BY <1>2, <1>3, <1>4, <1>5, <1>6, <1>7, HoldersFinite

LEMMA SameCardinality ==
    ASSUME NEW S
    PROVE  Promise!Cardinality(S) = Cardinality(S)
  BY DEF Promise!Cardinality, Cardinality

(* A free permit is one the promise may give.                               *)
LEMMA FreeMeansRoom ==
    ASSUME NEW o \in Origin, Free(o)
    PROVE  Promise!Cardinality(Promise!UsersOf(o)) < http_concurrency
<1>1. /\ Cardinality(Promise!UsersOf(o)) \in Nat
      /\ Cardinality(Promise!UsersOf(o)) <= Cardinality(Holders(o)) + Cardinality(HopHolders(o))
  BY UsersCounted
<1>2. Cardinality(Holders(o)) + Cardinality(HopHolders(o)) < http_concurrency
  BY DEF Free
<1>3. Cardinality(Holders(o)) \in Nat /\ Cardinality(HopHolders(o)) \in Nat
  BY HoldersFinite
<1>4. Promise!Cardinality(Promise!UsersOf(o)) = Cardinality(Promise!UsersOf(o))
  BY SameCardinality
<1> QED  BY <1>1, <1>2, <1>3, <1>4, FetchAssumption

LEMMA AdmissionPromised ==
    ASSUME TypeOK, PlaceInv, NEW f \in Fetch, Admit(f) \/ AdmitHop(f)
    PROVE  Promise!PermitNext
<1>1. CASE Admit(f)
  <2> DEFINE u == <<f, "attempt">>  o == origin_key[f]
  <2>1. o \in Origin /\ Free(o) /\ ~open[o]
    BY <1>1 DEF Admit, TypeOK
  <2>2. HeldAt[u] = None
    BY <1>1, HeldOfFetch, PlaceInvPlaced DEF Admit, Placed, Attempting
  <2>3. HeldAt' = [HeldAt EXCEPT ![u] = o]
    <3>1. ASSUME NEW v \in PermitUser
          PROVE  HeldAt'[v] = IF v = u THEN o ELSE HeldAt[v]
      <4>1. PICK g \in Fetch : v = <<g, "attempt">> \/ v = <<g, "hop">>
        BY UserIsFetch
      <4> QED
        BY <1>1, <4>1, HeldOfFetch, HeldOfFetchPrime DEF Admit, url, TypeOK
    <3> HIDE DEF u, o
    <3> QED  BY <3>1 DEF HeldAt
  <2>4. Promise!AdmitUser(u, o)
    BY <1>1, <2>1, <2>2, <2>3, FreeMeansRoom
       DEF Promise!AdmitUser, Admit, circuits
  <2> QED  BY <2>1, <2>4, HeldOfFetch DEF Promise!PermitNext
<1>2. CASE AdmitHop(f)
  <2> DEFINE u == <<f, "hop">>  o == hop_origin[f]
  <2>1. o \in Origin /\ Free(o) /\ ~open[o]
    BY <1>2 DEF AdmitHop, TypeOK
  <2>2. HeldAt[u] = None
    BY <1>2, HeldOfFetch, PlaceInvPlaced DEF AdmitHop, Placed, Attempting
  <2>3. HeldAt' = [HeldAt EXCEPT ![u] = o]
    <3>1. ASSUME NEW v \in PermitUser
          PROVE  HeldAt'[v] = IF v = u THEN o ELSE HeldAt[v]
      <4>1. PICK g \in Fetch : v = <<g, "attempt">> \/ v = <<g, "hop">>
        BY UserIsFetch
      <4> QED
        BY <1>2, <4>1, HeldOfFetch, HeldOfFetchPrime DEF AdmitHop, url, TypeOK
    <3> HIDE DEF u, o
    <3> QED  BY <3>1 DEF HeldAt
  <2>4. Promise!AdmitUser(u, o)
    BY <1>2, <2>1, <2>2, <2>3, FreeMeansRoom
       DEF Promise!AdmitUser, AdmitHop, circuits
  <2> QED  BY <2>1, <2>4, HeldOfFetch DEF Promise!PermitNext
<1> QED  BY <1>1, <1>2

(* A request records nothing, or something of the origin whose permit its   *)
(* redirect loop holds.                                                     *)
LEMMA RequestPromised ==
    ASSUME TypeOK, PlaceInv, NEW f \in Fetch, GivesBack, pc[f] = "send",
           IF Redirected(f)
           THEN \/ NoteSuccess(hop_origin[f])
                \/ \E c \in FailureClass : NoteFailure(hop_origin[f], c)
           ELSE UNCHANGED circuits
    PROVE  Promise!PermitNext
<1>1. CASE Redirected(f)
  <2>1. HeldAt[<<f, "hop">>] = hop_origin[f] /\ hop_origin[f] \in Origin
    BY <1>1, HeldOfFetch, PlaceInvPlaced DEF Placed, TypeOK
  <2> QED  BY <1>1, <2>1, HeldOfFetch, NoteRecords
<1>2. CASE ~Redirected(f)
  BY <1>2, OnlyLeaves
<1> QED  BY <1>1, <1>2

(* The end of an attempt records its outcome under the attempt's permit.    *)
LEMMA AttemptPromised ==
    ASSUME TypeOK, PlaceInv, NEW f \in Fetch, GivesBack, pc[f] \in {"fetched", "failed"},
           \/ NoteSuccess(origin_key[f])
           \/ \E c \in FailureClass : NoteFailure(origin_key[f], c)
    PROVE  Promise!PermitNext
<1>1. permit[f] /\ origin_key[f] \in Origin
  BY PlaceInvPlaced DEF Placed, Attempting, TypeOK
<1>2. HeldAt[<<f, "attempt">>] = origin_key[f]
  BY <1>1, HeldOfFetch
<1> QED  BY <1>1, <1>2, HeldOfFetch, NoteRecords

LEMMA EndGivesBack ==
    ASSUME TypeOK, NEW f \in Fetch, End(f)
    PROVE  GivesBack
  BY DEF TypeOK, End, GivesBack

LEMMA FailGivesBack ==
    ASSUME TypeOK, NEW f \in Fetch, NEW c \in FailureClass, Fail(f, c), UNCHANGED <<url, permit>>
    PROVE  GivesBack
  BY DEF TypeOK, Fail, url, GivesBack

LEMMA PermitStep == TypeOK /\ PlaceInv /\ [Next]_vars => [Promise!PermitNext]_(Promise!permitVars)
<1> SUFFICES ASSUME TypeOK, PlaceInv, [Next]_vars PROVE Promise!PermitNext
  OBVIOUS
<1>u. ASSUME UNCHANGED <<url, permits>> PROVE GivesBack
  BY <1>u DEF url, permits, GivesBack
<1>c. "NonRetryable" \in FailureClass /\ "Retryable" \in FailureClass
  BY DEF FailureClass
<1>1. ASSUME NEW f \in Fetch, NEW o \in Origin, Start(f, o) PROVE Promise!PermitNext
  <2>1. ~permit[f]
    BY <1>1, PlaceInvPlaced DEF Start, Placed, Attempting
  <2>2. GivesBack
    BY <1>1, <2>1 DEF Start, permits, GivesBack, TypeOK
  <2> QED  BY <1>1, <2>2, OnlyLeaves DEF Start
<1>2. ASSUME NEW f \in Fetch, CacheStep(f) PROVE Promise!PermitNext
  <2>1. CASE Serve(f)
    BY <2>1, EndGivesBack, OnlyLeaves DEF Serve
  <2>2. CASE UNCHANGED <<url, permits, circuits>>
    BY <2>2, <1>u, OnlyLeaves
  <2> QED  BY <1>2, <2>1, <2>2 DEF CacheStep, Revalidate, FetchAnew, RevalidateElsewhere
<1>3. ASSUME NEW f \in Fetch, ClientStep(f) PROVE Promise!PermitNext
  <2>1. CASE AdmitHop(f)
    BY <2>1, AdmissionPromised
  <2>2. CASE Contact(f) \/ AskHop(f) \/ Fetched(f)
    <3>1. GivesBack
      BY <2>2 DEF Contact, AskHop, Fetched, Leave, url, GivesBack, TypeOK
    <3>2. UNCHANGED circuits
      BY <2>2 DEF Contact, AskHop, Fetched
    <3> QED  BY <3>1, <3>2, OnlyLeaves
  <2>3. CASE \E c \in FailureClass : Fail(f, c) /\ UNCHANGED <<url, permit, circuits>>
    BY <2>3, FailGivesBack, OnlyLeaves
  <2>4. ASSUME NEW c \in FailureClass, SendFails(f, c) \/ Refused(f, c) \/ RedirectFails(f, c)
        PROVE  Promise!PermitNext
    <3>1. pc[f] = "send" /\ GivesBack
      BY <2>4, FailGivesBack DEF SendFails, Refused, RedirectFails
    <3> QED
      BY <2>4, <3>1, <1>c, RequestPromised DEF SendFails, Refused, RedirectFails, Answered
  <2>5. CASE Answer(f) \/ \E o \in Origin : Redirect(f, o)
    <3>1. pc[f] = "send" /\ GivesBack
      BY <2>5, <1>u DEF Answer, Redirect
    <3> QED  BY <2>5, <3>1, RequestPromised DEF Answer, Redirect, Answered
  <2> QED
    BY <1>3, <2>1, <2>2, <2>3, <2>4, <2>5, <1>c
       DEF ClientStep, TurnAwayHop, TimeOutHop, Invalid, BodyFails
<1>4. ASSUME NEW f \in Fetch, ToolStep(f) PROVE Promise!PermitNext
  <2>1. CASE Ask(f)
    BY <2>1, <1>u, OnlyLeaves DEF Ask
  <2>2. CASE Succeed(f) \/ GiveUp(f)
    <3>1. GivesBack
      BY <2>2, EndGivesBack DEF Succeed, GiveUp
    <3>2. pc[f] = "failed" => class[f] \in FailureClass
      BY DEF TypeOK
    <3> QED  BY <2>2, <3>1, <3>2, AttemptPromised DEF Succeed, GiveUp
  <2>3. CASE Retry(f)
    <3>1. permit[f] /\ class[f] \in FailureClass
      BY <2>3, PlaceInvPlaced DEF Retry, Placed, Attempting, TypeOK
    <3>2. GivesBack
      BY <2>3, <3>1 DEF Retry, url, GivesBack, TypeOK
    <3> QED  BY <2>3, <3>1, <3>2, AttemptPromised DEF Retry
  <2>4. CASE Wake(f)
    <3>1. GivesBack
      BY <2>4 DEF Wake, url, GivesBack, TypeOK
    <3> QED  BY <2>4, <3>1, OnlyLeaves DEF Wake
  <2> QED  BY <1>4, <2>1, <2>2, <2>3, <2>4 DEF ToolStep
<1>5. ASSUME NEW f \in Fetch, Admission(f) PROVE Promise!PermitNext
  BY <1>5, AdmissionPromised, EndGivesBack, OnlyLeaves DEF Admission, TurnAway
<1>6. ASSUME NEW f \in Fetch, Cancel(f) PROVE Promise!PermitNext
  BY <1>6, EndGivesBack, OnlyLeaves DEF Cancel
<1>7. ASSUME NEW o \in Origin, Cooldown(o) PROVE Promise!PermitNext
  <2>1. open' = [p \in Origin |-> open[p] /\ p \notin {o}]
    BY <1>7 DEF Cooldown, TypeOK
  <2>2. UNCHANGED <<HeldAt, failures>>
    BY <1>7 DEF Cooldown, url, permits, HeldAt
  <2> QED  BY <2>1, <2>2 DEF Promise!PermitNext, Promise!TimePasses
<1>8. CASE UNCHANGED vars
  BY <1>8, <1>u, OnlyLeaves DEF vars
<1> QED
  BY <1>1, <1>2, <1>3, <1>4, <1>5, <1>6, <1>7, <1>8 DEF Next

LEMMA PermitInitial == Init => Promise!PermitInit
<1> SUFFICES ASSUME Init PROVE Promise!PermitInit
  OBVIOUS
<1>1. HeldAt = [u \in PermitUser |-> None]
  BY DEF Init, HeldAt, PermitUser
<1> QED  BY <1>1 DEF Init, Promise!PermitInit

(* Fetches use the permits of origins as the controller promises them: at   *)
(* most http_concurrency users of an origin, nobody admitted under an open  *)
(* circuit, and outcomes recorded only by who holds a permit there.         *)
THEOREM ImplementsPermits == Spec => PermitSpec
<1> QED
  BY PermitInitial, PermitStep, TypeInit, TypeStep, PlaceInit, PlaceStep, PTL
     DEF Spec, PermitSpec, Promise!PermitSpec
=============================================================================
