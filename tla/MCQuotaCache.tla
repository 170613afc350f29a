----------------------------- MODULE MCQuotaCache -----------------------------
(* An instance of QuotaCache for TLC.                                       *)
EXTENDS QuotaCache, TLC

CONSTANTS j1, j2, j3, k1

MCJobs == {j1, j2, j3}
MCKeys == {k1}

Symmetry == Permutations(Jobs)

\* No event is left to happen, and every job is done or waits for one.
Finished ==
    /\ clock = MaxClock /\ lock = NoJob
    /\ \A j \in Jobs : pc[j] \in {"Idle", "Change"}
    /\ UNCHANGED vars

MCSpec == Init /\ [][Next \/ Finished]_vars
=============================================================================
