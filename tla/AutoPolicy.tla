------------------------------ MODULE AutoPolicy ------------------------------
(***************************************************************************)
(* The switching policy (crates/core/src/auto_policy.rs): a pure function  *)
(* from one provider's accounts and their quota readings to the account to *)
(* switch to, if any.                                                      *)
(*                                                                         *)
(* Abstractions.  An account is its id, a number: `decide` orders ids.     *)
(* Usage is what the policy makes of it: whether a window is over the      *)
(* threshold, and a rank.  The switch that turns the policy off and the    *)
(* manual hold are the caller's (AutoSwap).  NoOp and Degraded differ in   *)
(* their wording only: both keep the current account.  allow_unknown is    *)
(* false, as it is in every caller.                                        *)
(***************************************************************************)
EXTENDS Naturals

CONSTANTS
    Accounts,    \* the accounts of one provider
    NoAccount,   \* "no account is active"
    ManualOnly,  \* accounts only the user may switch to and from
    Priority,    \* of each account; lower goes first
    Parallel     \* the provider declares parallel pools (Cursor)

ASSUME PolicyAssumption ==
    /\ Accounts \subseteq Nat /\ NoAccount \notin Accounts
    /\ ManualOnly \subseteq Accounts
    /\ Priority \in [Accounts -> Nat]
    /\ Parallel \in BOOLEAN

Unknown == 0   \* reset_at is missing

PoolWindows == {"FirstPartyModels", "Credits", "Api"}

Windows == {"FiveHour", "Long", "ResetCredits"} \cup PoolWindows

Quota == [window : Windows,
          status : {"Ok", "Warn", "Exhausted", "Unknown"},
          metered : BOOLEAN,   \* limit > 0
          above : BOOLEAN,     \* is_above: at or over the threshold
          reset : Nat,         \* reset_at, or Unknown
          used : Nat]          \* usage_ratio

Reading == [state : {"Loading", "Ready", "Failed", "Stale"}, quotas : SUBSET Quota]

-----------------------------------------------------------------------------
(* What one reading says                                                   *)

\* auto_swap_quotas: reset credits do not count beside other windows.
Gating(r) ==
    LET gating == {q \in r.quotas : q.window # "ResetCredits"}
    IN IF gating # {} THEN gating ELSE r.quotas

\* parallel_pools: one usable pool is enough.
ParallelPools(r) == Parallel /\ \E q \in Gating(r) : q.window \in PoolWindows

Dead(q) == q.metered /\ q.status = "Exhausted"

\* quota_exceeds_auto_threshold
OverThreshold(q) == q.window = "FiveHour" /\ q.status # "Unknown" /\ q.metered /\ q.above

\* is_blocking
Blocking(q) == Dead(q) \/ OverThreshold(q)

Usable(q) == q.metered /\ q.status \in {"Ok", "Warn"}

\* account_needs_swap
NeedsSwap(r) ==
    /\ Gating(r) # {}
    /\ IF ParallelPools(r)
         THEN \/ \E q \in Gating(r) : OverThreshold(q)
              \/ \A q \in Gating(r) : Dead(q)
         ELSE \E q \in Gating(r) : Blocking(q)

\* is_viable_candidate, but for manual_only
Viable(r) ==
    /\ r.state = "Ready"
    /\ \A q \in Gating(r) : ~OverThreshold(q)
    /\ \E q \in Gating(r) : Usable(q)
    /\ ~ParallelPools(r) => \A q \in Gating(r) : q.status # "Exhausted"

\* The least and the greatest of a set of times, Unknown if it is empty.
Earliest(S) ==
    IF \E t \in S : \A u \in S : t <= u
      THEN CHOOSE t \in S : \A u \in S : t <= u ELSE Unknown

Latest(S) ==
    IF \E t \in S : \A u \in S : u <= t
      THEN CHOOSE t \in S : \A u \in S : u <= t ELSE Unknown

Resets(S) == {q.reset : q \in S}

\* effective_recovery: when every blocking window has reset, or any pool has.
Recovery(r) ==
    LET blocking == Resets({q \in Gating(r) : Blocking(q)})
    IN IF ParallelPools(r) THEN Earliest(Resets(Gating(r)) \ {Unknown})
       ELSE IF Unknown \in blocking THEN Unknown
       ELSE Latest(blocking)

\* All gating windows are confirmed.
Confirmed(r) ==
    /\ r.state = "Ready" /\ Gating(r) # {}
    /\ \A q \in Gating(r) : q.metered /\ q.status # "Unknown"

-----------------------------------------------------------------------------
(* Choosing between accounts                                               *)

\* compare_optional_reset: a missing reset comes last.
Sooner(t, u) == t # u /\ (u = Unknown \/ (t # Unknown /\ t < u))

\* The tie-break: priority, then id.
Precedes(a, b) ==
    Priority[a] < Priority[b] \/ (Priority[a] = Priority[b] /\ a < b)

\* busiest_used
Busiest(r) == Latest({q.used : q \in {p \in Gating(r) : p.metered}})

\* compare_candidates
Preferred(snap, a, b) ==
    LET reset == [c \in {a, b} |-> Earliest(Resets(Gating(snap[c])) \ {Unknown})]
        busiest == [c \in {a, b} |-> Busiest(snap[c])]
    IN \/ Sooner(reset[a], reset[b])
       \/ /\ reset[a] = reset[b]
          /\ \/ busiest[a] < busiest[b]
             \/ busiest[a] = busiest[b] /\ Precedes(a, b)

Others(active) == Accounts \ ({active} \cup ManualOnly)

Candidates(snap, active) == {a \in Others(active) : Viable(snap[a])}

BestCandidate(snap, active) ==
    LET S == Candidates(snap, active)
    IN {a \in S : \A b \in S \ {a} : Preferred(snap, a, b)}

\* The pool of fallback_to_soonest_recovery: confirmed dead, recovery known.
Pool(snap, active) ==
    {a \in Others(active) : /\ Confirmed(snap[a]) /\ NeedsSwap(snap[a])
                            /\ Recovery(snap[a]) # Unknown}

\* Mutant of Fallback: a tie with the current account is enough to leave it.
FallbackOnTie(snap, active) ==
    LET S == Pool(snap, active)
        rank == [a \in S |-> Recovery(snap[a])]
    IN IF active # NoAccount /\ ~(\E q \in Gating(snap[active]) : Dead(q)) THEN {}
       ELSE {a \in S : /\ \A b \in S \ {a} :
                            rank[a] < rank[b] \/ (rank[a] = rank[b] /\ Precedes(a, b))
                       /\ active # NoAccount => ~Sooner(Recovery(snap[active]), rank[a])}

\* fallback_to_soonest_recovery: the account that recovers first, if that is
\* strictly before the current one, which must be confirmed dead.
Fallback(snap, active) ==
    LET S == Pool(snap, active)
        rank == [a \in S |-> Recovery(snap[a])]
    IN IF active # NoAccount /\ ~(\E q \in Gating(snap[active]) : Dead(q)) THEN {}
       ELSE {a \in S : /\ \A b \in S \ {a} :
                            rank[a] < rank[b] \/ (rank[a] = rank[b] /\ Precedes(a, b))
                       /\ active # NoAccount => Sooner(rank[a], Recovery(snap[active]))}

\* decide: the account to switch to, as a set of at most one.
Decide(snap, active) ==
    IF active # NoAccount
         /\ (active \in ManualOnly \/ snap[active].state # "Ready" \/ ~NeedsSwap(snap[active]))
      THEN {}
    ELSE IF Candidates(snap, active) # {} THEN BestCandidate(snap, active)
    ELSE Fallback(snap, active)
=============================================================================
