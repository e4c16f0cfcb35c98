--------------------------- MODULE MCFetchPermits ---------------------------
(* Instances of FetchPermits for TLC: two origins, of which the second one  *)
(* serves the raw source files of the first.                               *)
EXTENDS FetchPermits

CONSTANTS web, other, item

RawOrigin == [o \in Origin |-> 2]
=============================================================================
