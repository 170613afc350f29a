----------------------------- MODULE MCCredentials -----------------------------
(* Instances of Credentials for TLC.                                        *)
EXTENDS Credentials, TLC

CONSTANTS p1, p2, a1, a2

Symmetry == Permutations(Procs) \cup Permutations(Accounts)

\* The bounded system has run all its commands.
Finished ==
    /\ commands = MaxCommands /\ \A p \in Procs : pc[p] = "Idle"
    /\ UNCHANGED vars

MCSpec == Init /\ [][Next \/ Finished]_vars
=============================================================================
