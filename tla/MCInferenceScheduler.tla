------------------------ MODULE MCInferenceScheduler ------------------------
(***************************************************************************)
(* Small instances of InferenceScheduler for TLC.                          *)
(***************************************************************************)
EXTENDS InferenceScheduler, TLC

CONSTANTS r1, r2, r3, alice, bob

Setting(n, preempt, aging, maxWait) ==
    [enabled |-> TRUE, concurrency |-> n, preempt |-> preempt,
     agingTicks |-> aging, maxWait |-> maxWait]

ThreeRequests == {r1, r2, r3}
BothUsers     == {alice, bob}
OneUser       == {alice}

\* Two accounts may disagree about everything, or switch scheduling off.
SharedConfigs == {Setting(1, TRUE, 1, FALSE),
                  Setting(2, FALSE, 0, TRUE),
                  [Setting(1, FALSE, 0, FALSE) EXCEPT !.enabled = FALSE]}

\* One account that changes its limit and its queue timeout, always with aging
\* and preemption.
AgedConfigs == {Setting(2, TRUE, 1, FALSE), Setting(1, TRUE, 1, TRUE)}

BothSymmetry3 == Permutations(ThreeRequests) \cup Permutations(BothUsers)
=============================================================================
