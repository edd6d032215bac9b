------------------------ MODULE MCVectorizationQueue ------------------------
EXTENDS VectorizationQueue, TLC

CONSTANTS c1, c2, b1, b2, alice, bob

\* Alice has a chunk and two lore-book entries, Bob a chunk.
TwoOwners == (c1 :> alice) @@ (c2 :> bob) @@ (b1 :> alice) @@ (b2 :> alice)

\* Sorted and Picked are the stable sort and the filter of arrays.
SmallQueues ==
    UNION {[1..n -> {[priority |-> p, id |-> i] : p \in 0..2, i \in 1..2}] :
           n \in 0..3}

ASSUME SortIsStable ==
    \A q \in SmallQueues :
        Sorted(q) = FlattenSeq([k \in 1..3 |->
            SelectSeq(q, LAMBDA x : x.priority = 3 - k)])

ASSUME PickedFilters ==
    \A q \in SmallQueues, p \in 0..2 :
        Picked(q, {i \in DOMAIN q : q[i].priority = p}) =
            SelectSeq(q, LAMBDA x : x.priority = p)

ASSUME RequeuedFolds ==
    \A n \in 0..3 : \A retries \in [1..n -> Sources \X {0, 1}] :
        LET Jobs == [i \in 1..n |-> [source |-> retries[i][1], forced |-> FALSE,
                                     priority |-> retries[i][2], age |-> 0]]
        IN  Requeued(<<>>, Jobs) = FoldLeft(Added, <<>>, Jobs)
=============================================================================
