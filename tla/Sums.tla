---------------------------------- MODULE Sums ----------------------------------
(***************************************************************************)
(* The counters the proxy adds up in loops: images of a body, headers of a *)
(* request.                                                                *)
(***************************************************************************)
EXTENDS Integers, FiniteSets

\* The sum of the values of f, as the size of a disjoint union.
Total(f) == Cardinality(UNION {{<<n, i>> : i \in 1 .. f[n]} : n \in DOMAIN f})
=================================================================================
