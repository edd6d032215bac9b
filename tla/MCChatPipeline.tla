---------------------------- MODULE MCChatPipeline ----------------------------
EXTENDS ChatPipeline

\* Without is the filter the code applies to its arrays.
SmallQueues == UNION {[1..n -> 1..3] : n \in 0..4}

ASSUME WithoutFilters ==
    \A q \in SmallQueues, C \in SUBSET (1..3) :
        Without(q, C) = SelectSeq(q, LAMBDA x : x \notin C)
=============================================================================
