------------------------------- MODULE AutoSwap -------------------------------
(***************************************************************************)
(* The daemon's automatic switching (crates/daemon/src/unix.rs, state.rs)  *)
(* of one provider, beside a user who swaps by hand (crates/cli/src/cmd/   *)
(* swap.rs, core/src/manual_hold.rs) or logs in within the client.         *)
(*                                                                         *)
(* A cycle collects the accounts and their readings, decides, looks again  *)
(* which account is active, activates, and records the switch in the       *)
(* daemon's memory: a cooldown per target, and the history that the flap   *)
(* brake reads.                                                            *)
(*                                                                         *)
(* Abstractions.  Instants are timers: what is left of a window, or the    *)
(* age of an event, counted up to where it no longer matters.  A list of   *)
(* switches is the set of its entries, each with its rank from the newest. *)
(* A cycle may take any time, and so may the sleep after it.  Activating   *)
(* is one step, taken under the provider's lock.                           *)
(***************************************************************************)
EXTENDS AutoPolicy, FiniteSets

CONSTANTS
    Observations,    \* the readings a cycle may collect
    Cooldown, FlapWindow, MaxFlap, OscillationWindow, DegradedWindow, HoldWindow,
    MaxManual,       \* bound: manual swaps and native logins
    MaxFaults        \* bound: failed activations and restarts

ASSUME AutoSwapAssumption ==
    /\ Observations \subseteq [Accounts -> Reading]
    /\ \A n \in {Cooldown, FlapWindow, MaxFlap, OscillationWindow, DegradedWindow,
                 HoldWindow, MaxManual, MaxFaults} : n \in Nat
    /\ FlapWindow <= OscillationWindow /\ OscillationWindow < DegradedWindow
    /\ MaxFlap >= 2

VARIABLES
    active,     \* the account marked as active
    hold,       \* what is left of the manual hold (a file)
    user,       \* where the user's `subswap swap` is
    pc,         \* where the daemon's cycle is
    from,       \* the active account of its snapshot
    seen,       \* the readings of its snapshot
    to,         \* the account it is about to activate
    cooled,     \* last_swap_at: what is left of each account's cooldown
    history,    \* swap_history
    degraded,   \* degraded_until: what is left of it
    manual, faults,   \* bounded by MaxManual and MaxFaults
    \* History, read by properties only:
    made,       \* this daemon's switches, while they matter
    overrides   \* automatic switches since the hold was last recorded

daemon == <<pc, from, seen, to, cooled, history, degraded, made>>
vars == <<active, hold, user, manual, faults, overrides, daemon>>

Maybe == Accounts \cup {NoAccount}

\* No age above it matters.
Old == OscillationWindow + 1

Swap == [id : Accounts, age : 0 .. Old, nr : Nat \ {0}]

TypeOK ==
    /\ active \in Maybe /\ from \in Maybe /\ to \in Maybe
    /\ hold \in 0 .. HoldWindow
    /\ user \in {"Idle", "Swapped", "Opened"}
    /\ pc \in {"Sleep", "Decide", "Recheck", "Activate"}
    /\ seen \in Observations
    /\ cooled \in [Accounts -> 0 .. Cooldown]
    /\ history \subseteq Swap
    /\ degraded \in 0 .. DegradedWindow
    /\ manual \in 0 .. MaxManual /\ faults \in 0 .. MaxFaults
    /\ made \subseteq [id : Accounts, left : Maybe, age : 0 .. Old, nr : Nat \ {0}]
    /\ overrides \in Nat

NewDaemon ==
    /\ pc = "Sleep" /\ from = NoAccount /\ to = NoAccount
    /\ cooled = [a \in Accounts |-> 0]
    /\ history = {} /\ degraded = 0 /\ made = {}

Init ==
    /\ active \in Maybe
    /\ hold = 0 /\ user = "Idle"
    /\ seen \in Observations
    /\ NewDaemon
    /\ manual = 0 /\ faults = 0 /\ overrides = 0

-----------------------------------------------------------------------------
(* The user                                                                *)

ByHand == manual < MaxManual /\ manual' = manual + 1

\* `subswap swap a`: activates first, and records the hold afterwards.
ManualSwap(a) ==
    /\ user = "Idle" /\ ByHand
    /\ active' = a /\ user' = "Swapped"
    /\ UNCHANGED <<hold, faults, overrides, daemon>>

\* The write is not atomic: it empties the file first, and an empty file is no
\* hold.
OpenHold ==
    /\ user = "Swapped" /\ user' = "Opened"
    /\ hold' = 0
    /\ UNCHANGED <<active, manual, faults, overrides, daemon>>

RecordHold ==
    /\ user = "Opened" /\ user' = "Idle"
    /\ hold' = HoldWindow
    /\ overrides' = 0
    /\ UNCHANGED <<active, manual, faults, daemon>>

\* The write fails, or the command is killed before it ends.
RecordHoldFails ==
    /\ user \in {"Swapped", "Opened"} /\ user' = "Idle"
    /\ UNCHANGED <<active, hold, manual, faults, overrides, daemon>>

\* The user logs in within the client, and subswap finds it.
NativeLogin(a) ==
    /\ ByHand
    /\ active' = a
    /\ UNCHANGED <<hold, user, faults, overrides, daemon>>

-----------------------------------------------------------------------------
(* The daemon                                                              *)

Goto(next) ==
    /\ pc' = next
    /\ UNCHANGED <<active, hold, user, manual, cooled, history, degraded, made, overrides>>

\* collect_snapshots: the accounts are listed first, their quotas follow.
Collect(o) ==
    /\ pc = "Sleep" /\ Goto("Decide")
    /\ from' = active /\ seen' = o
    /\ UNCHANGED <<to, faults>>

\* Mutant of Held: the policy is not asked about the hold.
NeverHeld == FALSE

\* decide, with the hold file as it is now.
Held == hold > 0

\* The provider is degraded or held, the policy keeps the account, or its
\* choice is cooling down.
Skip ==
    /\ pc = "Decide" /\ Goto("Sleep")
    /\ \/ degraded > 0 \/ Held
       \/ \A a \in Decide(seen, from) : cooled[a] > 0
    /\ UNCHANGED <<from, seen, to, faults>>

Choose ==
    /\ pc = "Decide" /\ Goto("Recheck")
    /\ degraded = 0 /\ ~Held
    /\ to' \in {a \in Decide(seen, from) : cooled[a] = 0}
    /\ UNCHANGED <<from, seen, faults>>

\* Mutant of StillAllowed: nobody being active is never what was expected.
StillSomebody == active = from /\ active # NoAccount /\ active \notin ManualOnly

\* auto_swap_still_allowed
StillAllowed == active = from /\ active \notin ManualOnly

Recheck ==
    /\ pc = "Recheck" /\ Goto(IF StillAllowed THEN "Activate" ELSE "Sleep")
    /\ UNCHANGED <<from, seen, to, faults>>

\* in_cooldown, record_swap: the window of the target starts.
Cooled(a) == [cooled EXCEPT ![a] = Cooldown]

\* push: the newest entry has rank 1.
Push(h, s) == {[t EXCEPT !.nr = @ + 1] : t \in h} \cup {s}

\* Mutant of Recorded: the account that was left is recorded.
RecordedLeft(a) ==
    Push({s \in history : s.age <= OscillationWindow}, [id |-> from, age |-> 0, nr |-> 1])

\* record_swap: the new switch, and the older ones that still matter.
Recorded(a) ==
    Push({s \in history : s.age <= OscillationWindow}, [id |-> a, age |-> 0, nr |-> 1])

\* Mutant of Flaps: only the count within the flap window.
FlapsByCount(h) == Cardinality({s \in h : s.age <= FlapWindow}) >= MaxFlap

\* detect_flap: too many switches, or the same target twice.
Flaps(h) ==
    \/ Cardinality({s \in h : s.age <= FlapWindow}) >= MaxFlap
    \/ \E s, t \in h : s # t /\ s.id = t.id

\* activate, record_swap, and mark_degraded if that was a flap.
Activate ==
    LET h == Recorded(to)
    IN /\ pc = "Activate" /\ pc' = "Sleep"
       /\ active' = to
       /\ cooled' = Cooled(to)
       /\ history' = IF Flaps(h) THEN {} ELSE h
       /\ degraded' = IF Flaps(h) THEN DegradedWindow ELSE degraded
       /\ made' = Push(made, [id |-> to, left |-> active, age |-> 0, nr |-> 1])
       /\ overrides' = IF hold > 0 THEN overrides + 1 ELSE overrides
       /\ UNCHANGED <<hold, user, from, seen, to, manual, faults>>

Fault == faults < MaxFaults /\ faults' = faults + 1

\* The accounts cannot be listed again, or the activation fails and rolls back:
\* it is logged or audited, nothing else.
CycleFails ==
    /\ pc \in {"Recheck", "Activate"} /\ Goto("Sleep") /\ Fault
    /\ UNCHANGED <<from, seen, to>>

\* The daemon ends and another one starts, knowing nothing.
Restart ==
    /\ Fault
    /\ pc' = "Sleep" /\ from' = NoAccount /\ to' = NoAccount
    /\ cooled' = [a \in Accounts |-> 0]
    /\ history' = {} /\ degraded' = 0 /\ made' = {}
    /\ UNCHANGED <<active, hold, user, manual, seen, overrides>>

-----------------------------------------------------------------------------
Less(n) == IF n = 0 THEN 0 ELSE n - 1

Aged(h) == {[s EXCEPT !.age = IF @ = Old THEN Old ELSE @ + 1] : s \in h}

\* Time passes.
Tick ==
    /\ hold' = Less(hold) /\ degraded' = Less(degraded)
    /\ cooled' = [a \in Accounts |-> Less(cooled[a])]
    /\ history' = Aged(history)
    /\ made' = {s \in Aged(made) : s.age < Old}
    /\ UNCHANGED <<active, user, pc, from, seen, to, manual, faults, overrides>>

Cycle == (\E o \in Observations : Collect(o)) \/ Skip \/ Choose \/ Recheck \/ Activate

Next ==
    \/ \E a \in Accounts : ManualSwap(a) \/ NativeLogin(a)
    \/ OpenHold \/ RecordHold \/ RecordHoldFails
    \/ Cycle \/ CycleFails \/ Restart \/ Tick

\* The daemon runs its loop for as long as it lives, and time passes.
Spec == Init /\ [][Next]_vars /\ WF_vars(Cycle) /\ WF_vars(Tick)

-----------------------------------------------------------------------------
(* Properties                                                              *)

\* The brake holds: whatever the quotas do, one daemon switches a provider at
\* most MaxFlap times within the flap window, and to no account more than twice
\* within the oscillation window.
BrakeHolds ==
    /\ Cardinality({s \in made : s.age <= FlapWindow}) <= MaxFlap
    /\ \A a \in Accounts : Cardinality({s \in made : s.id = a}) <= 2

\* At most the one switch that was under way when the user's hold was recorded
\* is carried out in spite of it.
OneOverride == overrides <= 1

\* If the readings stop changing, switching stops, at an account the policy is
\* content with: neither the cooldown, the brake nor the hold keeps the daemon
\* from getting there.
Converges ==
    \A o \in Observations : <>[](seen = o) => <>[](Decide(o, active) = {})

\* The design document: "a successful manual `swap` / `login` suspends all
\* automatic switching for `auto_swap.manual_hold_ms`, including confirmed
\* exhaustion" (docs/design/AUTO_SWAP_DESIGN.md:81).
HoldSuspends == overrides = 0

\* The comment at the cooldown check: an account "just switched away from, or to"
\* is not selected again for a while (crates/daemon/src/unix.rs:385).
LeftAccountsCool ==
    \A s, t \in made : t.nr < s.nr /\ t.id = s.left => s.age - t.age >= Cooldown
=============================================================================
