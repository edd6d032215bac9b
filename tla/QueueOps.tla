------------------------------- MODULE QueueOps -------------------------------
(***************************************************************************)
(* What the components do with their arrays: filtering and sorting them    *)
(* in place, stated by where each element comes to stand.                  *)
(***************************************************************************)
EXTENDS Naturals, Sequences, FiniteSets

\* The elements of q at the indices of place, each where place puts it.
Placed(q, place) ==
    [n \in 1..Cardinality(DOMAIN place) |->
        q[CHOOSE i \in DOMAIN place : place[i] = n]]

\* The elements of q at the indices of I, in their order.
Picked(q, I) == Placed(q, [i \in I |-> Cardinality({j \in I : j <= i})])

\* q without the elements of C, the others in their order.
Without(q, C) == Picked(q, {i \in DOMAIN q : q[i] \notin C})
=============================================================================
