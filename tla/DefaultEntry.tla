----------------------------- MODULE DefaultEntry -----------------------------
(***************************************************************************)
(* One invocation of `subswap` without arguments (crates/cli/src/cmd/      *)
(* default.rs, fill_quotas_progressively): it shows what is cached, has    *)
(* the stale accounts queried and, after every answer, applies the policy  *)
(* to what it knows so far.                                                *)
(*                                                                         *)
(* Abstractions.  One provider: its accounts are queried one after the     *)
(* other in the order of the listing, which may be any.  The manual hold   *)
(* is a file that others write: whether it is in force when a decision is  *)
(* made is left open.  Queries are the quota collector's                   *)
(* (QuotaCollection): here they answer with any reading.                   *)
(***************************************************************************)
EXTENDS AutoPolicy

CONSTANT Readings   \* what the cache and the queries may show of an account

ASSUME ReadingsAssumption == Readings \subseteq Reading

VARIABLES
    snap,       \* snapshots: the reading of each account
    shown,      \* the account the snapshot has as active
    jobs,       \* accounts whose query has not answered
    pc,
    target,     \* the account being activated
    activated,  \* AutoSwapProgress.activated_targets
    abandoned,  \* AutoSwapProgress.abandoned
    \* History, read by properties only:
    past,       \* the accounts that have been active before
    last        \* how the latest decision ended

vars == <<snap, shown, jobs, pc, target, activated, abandoned, past, last>>

Maybe == Accounts \cup {NoAccount}

TypeOK ==
    /\ snap \in [Accounts -> Readings]
    /\ shown \in Maybe /\ target \in Maybe /\ activated \in Maybe
    /\ jobs \subseteq Accounts
    /\ pc \in {"Wait", "Decide", "Activate", "Done"}
    /\ abandoned \subseteq Accounts /\ past \subseteq Accounts
    /\ last \in {"None", "Held", "Failed", "Settled"}

\* merge_cached_state: whatever is cached. An account that is not queried has a
\* fresh reading, or is in its failure backoff.
Init ==
    /\ snap \in [Accounts -> Readings]
    /\ shown \in Maybe
    /\ jobs \in SUBSET Accounts
    /\ \A a \in Accounts : snap[a].state = "Loading" => a \in jobs
    /\ pc = "Wait"
    /\ target = NoAccount /\ activated = NoAccount
    /\ abandoned = {} /\ past = {}
    /\ last = "None"

-----------------------------------------------------------------------------
Settle(outcome) ==
    /\ pc' = "Wait" /\ last' = outcome
    /\ UNCHANGED <<snap, jobs>>

\* Mutant of Answer: only the answer of the active account is acted upon.
AnswerOfActive(a, r) ==
    /\ pc = "Wait" /\ a \in jobs
    /\ r.state # "Loading"
    /\ snap' = [snap EXCEPT ![a] = r]
    /\ jobs' = jobs \ {a}
    /\ pc' = IF shown \in {a, NoAccount} THEN "Decide" ELSE "Wait"
    /\ UNCHANGED <<shown, target, activated, abandoned, past, last>>

\* A query answers: apply_quota_update.
Answer(a, r) ==
    /\ pc = "Wait" /\ a \in jobs
    /\ r.state # "Loading"
    /\ snap' = [snap EXCEPT ![a] = r]
    /\ jobs' = jobs \ {a}
    /\ pc' = "Decide"
    /\ UNCHANGED <<shown, target, activated, abandoned, past, last>>

(* try_auto_swap_ready_provider *)

Held ==
    /\ pc = "Decide"
    /\ Settle("Held")
    /\ UNCHANGED <<shown, target, activated, abandoned, past>>

\* Nothing to do, or the target has been left or activated before.
Keep ==
    /\ pc = "Decide"
    /\ Decide(snap, shown) \subseteq abandoned \cup {activated}
    /\ Settle("Settled")
    /\ UNCHANGED <<shown, target, activated, abandoned, past>>

\* Mutant of Choose: an account that has been left is chosen again.
ChooseAgain ==
    /\ pc = "Decide"
    /\ target' \in Decide(snap, shown) \ {activated}
    /\ pc' = "Activate"
    /\ UNCHANGED <<snap, shown, jobs, activated, abandoned, past, last>>

Choose ==
    /\ pc = "Decide"
    /\ target' \in Decide(snap, shown) \ (abandoned \cup {activated})
    /\ pc' = "Activate"
    /\ UNCHANGED <<snap, shown, jobs, activated, abandoned, past, last>>

\* Mutant of Switch: having had no account is remembered as an account left.
SwitchFromNobody ==
    /\ pc = "Activate"
    /\ shown' = target /\ activated' = target /\ target' = NoAccount
    /\ abandoned' = abandoned \cup {shown}
    /\ past' = past \cup ({shown} \ {NoAccount})
    /\ Settle("Settled")

\* activate, then mark_active and the progress of this invocation.
Switch ==
    /\ pc = "Activate"
    /\ shown' = target /\ activated' = target /\ target' = NoAccount
    /\ abandoned' = abandoned \cup ({shown} \ {NoAccount})
    /\ past' = past \cup ({shown} \ {NoAccount})
    /\ Settle("Settled")

SwitchFails ==
    /\ pc = "Activate"
    /\ target' = NoAccount
    /\ Settle("Failed")
    /\ UNCHANGED <<shown, activated, abandoned, past>>

\* The last sender is gone.
Finish ==
    /\ pc = "Wait" /\ jobs = {}
    /\ pc' = "Done"
    /\ UNCHANGED <<snap, shown, jobs, target, activated, abandoned, past, last>>

Done == pc = "Done" /\ UNCHANGED vars

Next ==
    \/ \E a \in Accounts, r \in Readings : Answer(a, r)
    \/ Held \/ Keep \/ Choose \/ Switch \/ SwitchFails \/ Finish \/ Done

Spec == Init /\ [][Next]_vars

-----------------------------------------------------------------------------
(* Properties                                                              *)

\* The policy settles: once its decision is carried out it asks for no other
\* move while the readings stay the same. The strict comparison of the
\* all-exhausted fallback, and the agreement of is_viable_candidate with
\* account_needs_swap, are what keeps two accounts from taking turns.
Settles == \A to \in Decide(snap, shown) : Decide(snap, to) = {}

\* Whatever order the queries answer in, what has been decided last is what the
\* policy asks for, given all that is known: no usable account that arrived
\* early or late is missed, but for those this invocation has left.
UpToDate ==
    pc \in {"Wait", "Done"} /\ last = "Settled" => Decide(snap, shown) \subseteq abandoned

\* An invocation only goes forward: no account that was active before becomes
\* active again, however the readings change under it.
NeverReturns == [][shown' # shown => shown' \notin past]_vars
=============================================================================
