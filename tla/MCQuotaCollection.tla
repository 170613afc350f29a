-------------------------- MODULE MCQuotaCollection --------------------------
(* Instances of QuotaCollection for TLC.                                    *)
EXTENDS QuotaCollection, Functions, TLC

CONSTANTS p1, p2, p3, a1, a2, a3

OneAccount  == {a1}
ThreeAccounts == {a1, a2, a3}
TwoProcs    == {p1, p2}
ThreeProcs  == {p1, p2, p3}

\* a3 is of a provider of its own.
Providers == [a \in Accounts |-> IF a = a3 THEN "codex" ELSE "claude"]

Symmetry == Permutations(Procs)

\* The bounded system has made all its calls and its clock has stopped.
Finished ==
    /\ now = MaxTime /\ late = {}
    /\ \A p \in Procs : pc[p] = "Idle" /\ calls[p] = MaxCalls
    /\ UNCHANGED vars

MCNext == Next \/ Finished
MCSpec == Init /\ [][MCNext]_vars

\* Every write lands before the clock moves: the disk is never slow.
PromptNext ==
    MCNext /\ (now' # now => late = {} /\ \A p \in Procs : pc[p] \notin Writing)
PromptSpec == Init /\ [][PromptNext]_vars

MCFairSpec == MCSpec /\ Fairness

\* Two processes ask about one account; the third has made its calls.
Pair ==
    /\ Quiet /\ faults = 0
    /\ \E p \in Procs : calls = [q \in Procs |-> IF q = p THEN MaxCalls ELSE 0]

\* Each process has reserved its last request, for an account of its own, and
\* looks for a slot.
Crowd ==
    LET reserved == NewRecord("Pending", Never, now + MinRefresh, 0, Empty) IN
    /\ now = MaxTime - 1
    /\ \E owner \in Bijection(Accounts, Procs) :
         /\ lock = owner
         /\ call = [p \in Procs |->
               [NewCall(CHOOSE a \in Accounts : owner[a] = p, Never, NoAnswer)
                   EXCEPT !.draft = reserved, !.deadline = now + SlotWait]]
    /\ record = [a \in Accounts |-> reserved]
    /\ cache = [a \in Accounts |-> NoEntry]
    /\ global = {} /\ perProvider = {} /\ late = {}
    /\ pc = [p \in Procs |-> "Slot"]
    /\ calls = [p \in Procs |-> MaxCalls] /\ faults = MaxFaults
    /\ notBefore = [a \in Accounts |-> now + MinRefresh]
    /\ removedAt = [a \in Accounts |-> Never]
    /\ observed = [a \in Accounts |-> {}]

\* Next, with calls about a1 only, and without late writes.
BothNext ==
    \/ Tick
    \/ \E p \in Procs : Advance(p) \/ QueryAgain(p) \/ Break(p) \/ Start(p, a1)
    \/ \E a \in Accounts : Damage(a)
    \/ Finished
BothSpec == (Pair \/ Crowd) /\ [][BothNext]_vars
=============================================================================
