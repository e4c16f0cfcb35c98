----------------------------- MODULE MCDispatch -----------------------------
(* Instances of Dispatch for TLC: two or three subqueries, three providers. *)
EXTENDS Dispatch

CONSTANTS advisory, vendor, defensive

MCSubquery == 1..2
MCProvider == 1..3
MCPriority == {0, 1}

\* repo, research and security plans give every subquery its own id.
MCDistinct == <<advisory, vendor>>

\* exact-error plans emit one "error_code" subquery per code in the query
\* (src/core/error_query.rs, generate_error_subqueries).
MCRepeated == <<advisory, advisory>>

\* Every subquery goes to every selected engine with its one role, as a job of
\* one kind or the other: supported are those in `can'.
Plan(subqueries, engines, can) ==
    {[sq |-> s, pr |-> p, kind |-> IF <<s, p>> \in can THEN "Supported" ELSE "Unsupported"]
        : s \in subqueries, p \in engines}

\* One to three engines; the third supports at most the first subquery's role.
MCPlans ==
    UNION {{Plan(MCSubquery, 1..n, can) :
                can \in SUBSET ((MCSubquery \X (1..n)) \ {<<2, 3>>})} : n \in 0..3}

\* security_search sends its three subqueries to all its engines; an engine for
\* documentation and issues (FirecrawlDeveloperEngine) supports none of them.
MCThree == 1..3
MCSecurity == <<advisory, vendor, defensive>>
MCSecurityPlan == {Plan(MCThree, MCProvider, MCThree \X {1, 2})}
=============================================================================
