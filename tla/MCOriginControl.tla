--------------------------- MODULE MCOriginControl ---------------------------
(* Instances of OriginControl for TLC: a fetch that waits for ever for its *)
(* first permit, redirect hops and renders that give up.                   *)
EXTENDS OriginControl

CONSTANTS fetch, hop, other, render
=============================================================================
