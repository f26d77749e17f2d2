------------------------------- MODULE Lists --------------------------------
(***************************************************************************)
(* What several parts of the system do with lists, as recursive functions: *)
(* a comprehension with a condition keeps some places of a list.           *)
(***************************************************************************)
EXTENDS Naturals, Sequences

\* the numbers up to n that are in a set, in their order
InOrder(places, n) ==
    LET some[x \in 0..n] == IF x = 0 THEN <<>> ELSE IF x \in places THEN Append(some[x - 1], x) ELSE some[x - 1]
    IN  some[n]

\* the list at those places: [x for x in list if ...]
Picked(list, places) ==
    LET at == InOrder(places, Len(list)) IN [k \in 1..Len(at) |-> list[at[k]]]
=============================================================================
