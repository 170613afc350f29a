----------------------------- MODULE QuotaSchedule -----------------------------
(***************************************************************************)
(* When the daemon asks for quotas (core/src/quota_schedule.rs,            *)
(* collect_snapshots and the sleep of daemon/src/unix.rs).  A cycle reads  *)
(* the cache and the collector's records, picks the accounts whose         *)
(* interval is over, whose reset has passed, or that may soon be switched  *)
(* to, collects them, merges the answers with the cache and computes how   *)
(* long to sleep.                                                          *)
(*                                                                         *)
(* The collector (QuotaCollection) is here what a call of it does at one   *)
(* instant: ask, reuse or refuse.  Other processes call it, too.  A        *)
(* millisecond is less than a unit of time: a sleep of 1 ms takes no time. *)
(***************************************************************************)
EXTENDS Naturals, FiniteSets

CONSTANTS
    Accounts,           \* 1 .. n: identifiers in their order
    Priority, ManualOnly, Hash,    \* per account: rank; no automatic switch; stable_hash
    Semantics,          \* quota pools: "stacked" or "parallel"
    Interval,           \* class -> basic interval
    MinRefresh, DecisionMaxAge, CandidateLimit, JitterPct, ResetDelay,
    Poll, IdlePoll,     \* sleep while the user is active, and idle
    Backoff,            \* the collector's delay after a failure
    Answers,            \* what a provider may answer: sets of [window, level, left]
    MaxClock,           \* bound: time
    MaxAsks,            \* bound: requests
    MaxOutside          \* bound: requests of others, switches, failed listings, unreadable records

ScheduleAssumption ==
    /\ Accounts \subseteq Nat /\ IsFiniteSet(Accounts) /\ ManualOnly \subseteq Accounts
    /\ Priority \in [Accounts -> Nat] /\ Hash \in [Accounts -> Nat]
    /\ Semantics \in {"stacked", "parallel"}
    /\ Interval \in [{"active", "parked", "exhausted"} -> Nat]
    /\ MinRefresh \in Nat \ {0} /\ DecisionMaxAge \in Nat /\ CandidateLimit \in Nat
    /\ JitterPct \in 0 .. 100 /\ ResetDelay \in Nat
    /\ Poll \in Nat \ {0} /\ IdlePoll \in Nat \ {0} /\ Backoff \in Nat \ {0}
    /\ \A answer \in Answers : \A w \in answer : w.left \in Nat
    /\ MaxClock \in Nat \ {0} /\ MaxAsks \in Nat /\ MaxOutside \in Nat

VARIABLES
    now, active,        \* the clock; the account that is switched to
    record,             \* the collector's records
    cached, failure,    \* quota_cache.json
    phase,              \* "Asleep", "Plan", "Collect", "Schedule"
    seen,               \* the cached readings as the cycle began
    listed,             \* accounts whose provider could list them
    jobs, answered,     \* accounts to collect; the answers so far
    snapshot,           \* what the cycle made of each account
    handled,            \* ResetTracker
    wakeAt,             \* the end of the sleep
    asks, outside,
    \* History, read by properties only:
    asked,              \* when each account was last asked for
    planned,            \* when the last cycle began, and whether anything else happened since
    woken,              \* resets for which an account was collected
    repeated            \* ... of those, the ones it was collected for again

cycle == <<phase, seen, listed, jobs, answered, snapshot, handled, wakeAt>>
quotaFiles == <<record, cached, failure>>
limits == <<asks, outside>>
scheduleVars == <<now, active, quotaFiles, cycle, limits, asked, planned, woken, repeated>>

Never == 0
Times == 1 .. MaxClock
Later(t, u) == IF t > u THEN t ELSE u
Earliest(ts) == CHOOSE t \in ts : \A u \in ts : t <= u

-----------------------------------------------------------------------------
(* Pure functions of quota_schedule.rs                                      *)

Gating(quotas) == {q \in quotas : q.window # "ResetCredits"}
ParallelPools(gating) ==
    Semantics = "parallel" /\ \E q \in gating : q.window \in {"FirstPartyModels", "Credits", "Api"}

ConfirmedExhausted(quotas) ==
    LET gating == Gating(quotas)
        empty == {q \in gating : q.level = "exhausted"}
    IN gating # {} /\ IF ParallelPools(gating) THEN empty = gating ELSE empty # {}

RefreshClass(a, quotas) ==
    IF a = active THEN "active" ELSE IF ConfirmedExhausted(quotas) THEN "exhausted" ELSE "parked"

IntervalFor(class) == Later(Interval[class], MinRefresh)

\* Later by up to JitterPct, by at least one unit, and by as much every time.
Jittered(a, interval) ==
    LET most == (interval * JitterPct) \div 100
    IN IF most = 0 THEN interval ELSE interval + 1 + (Hash[a] % most)

\* next_due_at_with_deadline.  Never is less than every time.
DueAt(a, quotas, at, deadline, t) ==
    Later(IF at = Never THEN t ELSE at + Jittered(a, IntervalFor(RefreshClass(a, quotas))), deadline)

FreshForDecision(at, t) == at # Never /\ at <= t /\ t - at <= DecisionMaxAge

NeedsCandidate(quotas) ==
    \E q \in Gating(quotas) : q.level = "exhausted" \/ (q.window = "FiveHour" /\ q.level = "near")

\* candidate_refresh_plan: accounts without a reading first, then by priority
\* and identifier, up to the limit.
Sooner(b, a, at) ==
    LET rank(c) == IF at[c] = Never THEN 0 ELSE 1
    IN \/ rank(b) < rank(a)
       \/ rank(b) = rank(a) /\ Priority[b] < Priority[a]
       \/ rank(b) = rank(a) /\ Priority[b] = Priority[a] /\ b < a
CandidatesToRefresh(all, quotas, at, t) ==
    LET open == {a \in all \ (ManualOnly \cup {active}) : ~FreshForDecision(at[a], t)}
    IN IF /\ active \in all \ ManualOnly
          /\ FreshForDecision(at[active], t) /\ NeedsCandidate(quotas[active])
       THEN {a \in open : Cardinality({b \in open : Sooner(b, a, at)}) < CandidateLimit}
       ELSE {}

GatingResets(quotas) == {q.reset : q \in Gating(quotas)} \ {Never}
ResetCandidates(a, quotas, deadline) ==
    [account : {a}, reset : GatingResets(quotas), notBefore : {deadline}]
ResetKey(c) == <<c.account, c.reset>>
WakeAt(c) == Later(c.reset + ResetDelay, c.notBefore)
Pending(candidates) == {c \in candidates : ResetKey(c) \notin handled}

\* Mutant of NextSleep: what is overdue is tried again at once.
NextSleepAtOnce(t, userActive, due, reset) ==
    Earliest({t + (IF userActive THEN Poll ELSE IdlePoll)}
             \cup (IF userActive /\ due # Never THEN {Later(due, t)} ELSE {})
             \cup (IF reset # Never THEN {Later(reset, t)} ELSE {}))

\* next_sleep, as the instant of the wake.  An idle user's daemon only wakes
\* for resets; an overdue account is tried again after a poll, an overdue
\* reset at once.
NextSleep(t, userActive, due, reset) ==
    Earliest({t + (IF userActive THEN Poll ELSE IdlePoll)}
             \cup (IF userActive /\ due # Never THEN {IF due > t THEN due ELSE t + Poll} ELSE {})
             \cup (IF reset # Never THEN {Later(reset, t)} ELSE {}))

-----------------------------------------------------------------------------
(* Records, cache and the collector                                         *)

Quotas(t, answer) ==
    {[window |-> w.window, level |-> w.level, reset |-> IF w.left = 0 THEN Never ELSE t + w.left] : w \in answer}
NoReading == [quotas |-> {}, at |-> Never]
NoRecord == [state |-> "none", at |-> Never, next |-> Never, quotas |-> {}]
NoFailure == [at |-> Never, auth |-> FALSE]
NoAnswer == [kind |-> "none", auth |-> FALSE, quotas |-> {}, at |-> Never]
Error(auth) == [NoAnswer EXCEPT !.kind = "error", !.auth = auth]
Reading(quotas, at) == [NoAnswer EXCEPT !.kind = "reading", !.quotas = quotas, !.at = at]

\* QuotaCache::get leaves out windows that have been reset.
Valid(entry, t) ==
    LET quotas == {q \in entry.quotas : q.reset = Never \/ q.reset > t}
    IN IF quotas = {} THEN NoReading ELSE [quotas |-> quotas, at |-> entry.at]

\* A request, what it leaves in record and cache, and its result.
Succeed(a, quotas) ==
    /\ record' = [record EXCEPT ![a] = [state |-> "success", at |-> now, next |-> now + MinRefresh, quotas |-> quotas]]
    /\ cached' = [cached EXCEPT ![a] = [quotas |-> quotas, at |-> now]]
    /\ failure' = [failure EXCEPT ![a] = NoFailure]
    /\ woken' = {k \in woken : k[1] # a \/ k[2] \in GatingResets(quotas)}
Fail(a, auth) ==
    /\ record' = [record EXCEPT ![a] = [state |-> "failure", at |-> Never, next |-> now + Backoff, quotas |-> {}]]
    /\ cached' = IF auth THEN [cached EXCEPT ![a] = NoReading] ELSE cached
    /\ failure' = [failure EXCEPT ![a] = [at |-> now, auth |-> auth]]
    /\ UNCHANGED woken

\* The server may still report the windows of the last reading.
Answerable(a) == {Quotas(now, answer) : answer \in Answers} \cup ({cached[a].quotas} \ {{}})

Ask(a) ==
    /\ record[a].state # "unreadable" /\ record[a].next <= now /\ asks < MaxAsks
    /\ asks' = asks + 1 /\ asked' = [asked EXCEPT ![a] = now]

-----------------------------------------------------------------------------
(* The cycle                                                                *)

ReadCache ==
    /\ phase = "Asleep" /\ now >= wakeAt
    /\ seen' = cached /\ phase' = "Plan" /\ wakeAt' = Never
    /\ UNCHANGED <<now, active, quotaFiles, listed, jobs, answered, snapshot, handled,
                   limits, asked, planned, woken, repeated>>

Deadline(a) == IF record[a].state = "unreadable" THEN Never ELSE record[a].next

\* Of an account as the cycle begins: its reading, or the time of a success
\* that had no windows.
SeenQuotas(a) == Valid(seen[a], now).quotas
SeenAt(a) == LET at == Valid(seen[a], now).at
             IN IF at = Never /\ record[a].state = "success" THEN record[a].at ELSE at

\* Mutant of ResetQuotas: of the cache, which leaves out what has been reset.
ResetQuotasCached(a, current) == current

\* Windows whose reset is awaited: the record's, or those in the cache file as
\* they are.  Without either, the current ones.
ResetQuotas(a, current) ==
    IF record[a].state # "unreadable" /\ record[a].quotas # {} THEN record[a].quotas
    ELSE IF seen[a].quotas # {} THEN seen[a].quotas
    ELSE current

\* Mutant of Marked: a reset is only taken note of by the query's success.
MarkedNot(due) == handled

\* due_wake and mark_handled: before the query is made.
Marked(due) == handled \cup {ResetKey(c) : c \in due}

Plan ==
    /\ phase = "Plan"
    /\ \E all \in SUBSET Accounts :
          LET candidates == UNION {ResetCandidates(a, ResetQuotas(a, SeenQuotas(a)), Deadline(a)) : a \in all}
              due == {c \in Pending(candidates) : WakeAt(c) <= now}
              ready == {a \in all : record[a].state # "unreadable" /\ Deadline(a) <= now}
              wanted == {a \in all : now >= DueAt(a, SeenQuotas(a), SeenAt(a), Deadline(a), now)}
                        \cup {c.account : c \in due}
                        \cup CandidatesToRefresh(all, [a \in all |-> SeenQuotas(a)], [a \in all |-> SeenAt(a)], now)
          IN /\ outside' = outside + (IF all = Accounts THEN 0 ELSE 1)
             /\ listed' = all /\ handled' = Marked(due) /\ jobs' = wanted \cap ready
             /\ planned' = [at |-> now, since |-> all # Accounts]
             /\ woken' = {k \in woken : k[1] \in all} \cup {ResetKey(c) : c \in due}
             /\ repeated' = repeated \cup ({ResetKey(c) : c \in due} \cap woken)
    /\ outside' <= MaxOutside
    /\ phase' = "Collect" /\ answered' = [a \in Accounts |-> NoAnswer]
    /\ UNCHANGED <<now, active, quotaFiles, seen, snapshot, wakeAt, asks, asked>>

\* collect_quota of one account: asks, or answers from the record if another
\* process has asked meanwhile.
Collect(a) ==
    /\ phase = "Collect" /\ a \in jobs /\ jobs' = jobs \ {a}
    /\ \/ /\ Ask(a)
          /\ \/ \E quotas \in Answerable(a) : Succeed(a, quotas)
                                             /\ answered' = [answered EXCEPT ![a] = Reading(quotas, now)]
             \/ \E auth \in BOOLEAN : Fail(a, auth) /\ answered' = [answered EXCEPT ![a] = Error(auth)]
          /\ UNCHANGED outside
       \/ /\ record[a].state # "unreadable" /\ record[a].next > now
          /\ answered' = [answered EXCEPT ![a] = IF record[a].state = "success"
                                                THEN Reading(record[a].quotas, record[a].at)
                                                ELSE Error(failure[a].auth)]
          /\ UNCHANGED <<quotaFiles, limits, asked, woken>>
       \/ /\ record[a].state = "unreadable" /\ answered' = [answered EXCEPT ![a] = Error(FALSE)]
          /\ UNCHANGED <<quotaFiles, limits, asked, woken>>
    /\ UNCHANGED <<now, active, phase, seen, listed, snapshot, handled, wakeAt, planned, repeated>>

Shown(quotas, at, state) == [quotas |-> quotas, at |-> at, state |-> state]
ByAge(entry) == Shown(entry.quotas, entry.at, IF FreshForDecision(entry.at, now) THEN "Ready" ELSE "Stale")

\* Mutant of AfterFailure: a reading is shown whatever came after it.
AfterFailureNot(a, entry) == ByAge(entry)

\* A reading that a later failure of the account puts in doubt.
AfterFailure(a, entry) ==
    IF failure[a].at <= entry.at THEN ByAge(entry)
    ELSE IF failure[a].auth THEN Shown({}, entry.at, "Failed")
    ELSE Shown(entry.quotas, entry.at, "Stale")

\* merge_collected_state
MergedState(a) ==
    LET answer == answered[a]
        entry == Valid(cached[a], now)
        failed == Shown({}, Never, "Failed")
    IN CASE answer.kind = "reading" -> AfterFailure(a, [quotas |-> answer.quotas, at |-> answer.at])
         [] answer.kind = "error" ->
              IF answer.auth \/ entry = NoReading THEN failed ELSE Shown(entry.quotas, entry.at, "Stale")
         [] answer.kind = "none" /\ entry # NoReading ->
              IF failure[a] = NoFailure THEN ByAge(entry)
              ELSE IF failure[a].auth THEN failed ELSE Shown(entry.quotas, entry.at, "Stale")
         [] OTHER -> IF failure[a] = NoFailure THEN Shown({}, Never, "Loading") ELSE failed

Merge ==
    /\ phase = "Collect" /\ jobs = {}
    /\ snapshot' = [a \in Accounts |-> IF a \in listed THEN MergedState(a) ELSE Shown({}, Never, "Loading")]
    /\ phase' = "Schedule"
    /\ UNCHANGED <<now, active, quotaFiles, seen, listed, jobs, answered, handled, wakeAt,
                   limits, asked, planned, woken, repeated>>

\* Handled resets that are no longer awaited are forgotten, and the sleep is
\* computed from what is known now.
Schedule ==
    LET candidates == UNION {ResetCandidates(a, ResetQuotas(a, snapshot[a].quotas), Deadline(a)) : a \in listed}
        dues == {DueAt(a, snapshot[a].quotas, snapshot[a].at, Deadline(a), now) : a \in listed}
        resets == {WakeAt(c) : c \in Pending(candidates)}
        first(ts) == IF ts = {} THEN Never ELSE Earliest(ts)
    IN /\ phase = "Schedule" /\ phase' = "Asleep"
       /\ handled' = handled \cap {ResetKey(c) : c \in candidates}
       /\ \E userActive \in BOOLEAN : wakeAt' = NextSleep(now, userActive, first(dues), first(resets))
       /\ seen' = [a \in Accounts |-> NoReading] /\ answered' = [a \in Accounts |-> NoAnswer]
       /\ snapshot' = [a \in Accounts |-> Shown({}, Never, "Loading")]
       /\ UNCHANGED <<now, active, quotaFiles, listed, jobs, limits, asked, planned, woken, repeated>>

-----------------------------------------------------------------------------
(* Everything else                                                          *)

Meanwhile == outside < MaxOutside /\ outside' = outside + 1 /\ planned' = [planned EXCEPT !.since = TRUE]

OtherAsks(a) ==
    /\ Meanwhile /\ Ask(a)
    /\ \/ \E quotas \in Answerable(a) : Succeed(a, quotas)
       \/ \E auth \in BOOLEAN : Fail(a, auth)
    /\ UNCHANGED <<now, active, cycle, repeated>>

Switch(a) ==
    /\ Meanwhile /\ phase = "Asleep" /\ a # active /\ active' = a
    /\ UNCHANGED <<now, quotaFiles, cycle, asks, asked, woken, repeated>>

\* A record that cannot be read is not written again either.
Damage(a) ==
    /\ Meanwhile /\ record[a].state # "unreadable"
    /\ record' = [record EXCEPT ![a] = [NoRecord EXCEPT !.state = "unreadable"]]
    /\ UNCHANGED <<now, active, cached, failure, cycle, asks, asked, woken, repeated>>

Tick ==
    /\ now < MaxClock /\ now' = now + 1
    /\ phase = "Collect" \/ (phase = "Asleep" /\ now < wakeAt)
    /\ UNCHANGED <<active, quotaFiles, cycle, limits, asked, planned, woken, repeated>>

\* Readings from before the collector kept records may be in the cache.
Init ==
    /\ now = 1 /\ active \in Accounts
    /\ record = [a \in Accounts |-> NoRecord] /\ failure = [a \in Accounts |-> NoFailure]
    /\ cached \in [Accounts -> {NoReading} \cup {[quotas |-> Quotas(1, answer), at |-> 1] : answer \in Answers}]
    /\ phase = "Asleep" /\ wakeAt = 1 /\ handled = {}
    /\ seen = [a \in Accounts |-> NoReading] /\ listed = {} /\ jobs = {}
    /\ answered = [a \in Accounts |-> NoAnswer]
    /\ snapshot = [a \in Accounts |-> Shown({}, Never, "Loading")]
    /\ asks = 0 /\ outside = 0
    /\ asked = [a \in Accounts |-> Never] /\ planned = [at |-> Never, since |-> FALSE]
    /\ woken = {} /\ repeated = {}

Next ==
    \/ ReadCache \/ Plan \/ Merge \/ Schedule \/ Tick
    \/ \E a \in Accounts : Collect(a) \/ OtherAsks(a) \/ Switch(a) \/ Damage(a)

Spec == Init /\ [][Next]_scheduleVars

-----------------------------------------------------------------------------
(* Properties                                                               *)

Quotes ==
    [window : {w.window : w \in UNION Answers}, level : {w.level : w \in UNION Answers}, reset : Nat]
Dates == 0 .. MaxClock
Readings == [quotas : SUBSET Quotes, at : Dates]

ScheduleTypeOK ==
    /\ now \in Times /\ active \in Accounts
    /\ record \in [Accounts -> [state : {"none", "success", "failure", "unreadable"}, at : Dates,
                               next : Nat, quotas : SUBSET Quotes]]
    /\ cached \in [Accounts -> Readings] /\ seen \in [Accounts -> Readings]
    /\ failure \in [Accounts -> [at : Dates, auth : BOOLEAN]]
    /\ answered \in [Accounts -> [kind : {"none", "reading", "error"}, auth : BOOLEAN,
                                 quotas : SUBSET Quotes, at : Dates]]
    /\ snapshot \in [Accounts -> [quotas : SUBSET Quotes, at : Dates,
                                 state : {"Ready", "Stale", "Failed", "Loading"}]]
    /\ phase \in {"Asleep", "Plan", "Collect", "Schedule"} /\ wakeAt \in Nat
    /\ listed \subseteq Accounts /\ jobs \subseteq listed
    /\ handled \cup woken \cup repeated \subseteq Accounts \X Nat
    /\ asks \in 0 .. MaxAsks /\ outside \in 0 .. MaxOutside
    /\ asked \in [Accounts -> Dates] /\ planned \in [at : Dates, since : BOOLEAN]

\* Once a reset is over by the delay, the account is asked for again at the
\* next cycle, be it idle, parked or failing: when a cycle is over, every
\* account it could list has been asked for since each of its resets that the
\* cycle found to be due (unix.rs:623: the cache leaves the reset windows out;
\* quota_schedule.rs:642: also if the query fails).
ResetFollowed ==
    phase = "Asleep" =>
        \A a \in listed :
            record[a].state # "unreadable" /\ record[a].next <= planned.at =>
                \A r \in GatingResets(record[a].quotas \cup cached[a].quotas) :
                    r + ResetDelay <= planned.at => asked[a] >= r

\* An account is collected once for a reset, as long as its answers name it
\* and its provider can list its accounts (quota_schedule.rs:606).
OncePerReset == repeated = {}

\* Cycles do not follow each other without a pause: what remains due after a
\* cycle is never tried again at once (quota_schedule.rs:746, next_sleep), unless
\* something else has happened since.
Pauses == phase = "Plan" => planned.at < now \/ planned.since

MergesCurrent ==
    phase = "Collect" /\ phase' = "Schedule" =>
        \A a \in listed : snapshot'[a].state = "Ready" =>
            /\ FreshForDecision(snapshot'[a].at, now)
            /\ failure[a].at <= snapshot'[a].at

\* The policy takes a reading for current only if it is young and no later
\* event of the account, not even one of another process while the cycle
\* collected, puts it in doubt (unix.rs:951, merge_collected_state).
ReadyIsCurrent == [][MergesCurrent]_scheduleVars

\* What these rest on.  Record and cache of an account hold one reading, and a
\* cycle has seen what was in the cache, but for what is still to come.
Resets(a) == GatingResets(record[a].quotas \cup cached[a].quotas \cup seen[a].quotas)
ReadingsKept ==
    /\ planned.at <= now /\ (phase # "Collect" => jobs = {})
    /\ \A a \in Accounts :
          /\ record[a].quotas # {} => record[a].quotas = cached[a].quotas
          /\ record[a].state = "unreadable" => record[a].quotas = {}
          /\ phase = "Plan" =>
                \A r \in GatingResets(cached[a].quotas) : r > now \/ r \in GatingResets(seen[a].quotas)

\* A reset that an account was collected for is remembered for as long as it is
\* in any reading of it.
KeysKept ==
    /\ \A k \in handled : k[2] <= planned.at
    /\ \A k \in woken :
          /\ k[1] \in listed /\ k[2] <= planned.at
          /\ k[2] \in Resets(k[1]) => k \in handled
          /\ phase # "Asleep" /\ k[2] \in GatingResets(cached[k[1]].quotas) =>
                k[2] \in GatingResets(seen[k[1]].quotas)

\* Who is to be asked, or was.
Unreadable(a) == record[a].state = "unreadable"
JobsKept ==
    /\ \A a \in jobs : record[a].next <= planned.at \/ asked[a] >= planned.at \/ Unreadable(a)
    /\ \A k \in handled : k[1] \in jobs \/ asked[k[1]] >= k[2] \/ Unreadable(k[1])
    /\ \A a \in listed :
          ~Unreadable(a) /\ record[a].next <= planned.at =>
             \A r \in GatingResets(record[a].quotas \cup cached[a].quotas) :
                r + ResetDelay <= planned.at => a \in jobs \/ asked[a] >= r

\* In a cycle that takes no time, whatever is due is marked or must not be asked
\* for yet.
Waits(a) == ~Unreadable(a) /\ record[a].next > now
PausesKept ==
    planned.at = now /\ ~planned.since =>
        /\ phase # "Plan" /\ (phase = "Asleep" => wakeAt > now)
        /\ \A a \in listed :
              /\ phase \in {"Collect", "Schedule"} =>
                    \/ Waits(a)
                    \/ \A r \in GatingResets(ResetQuotas(a, {})) :
                          r + ResetDelay <= now => <<a, r>> \in handled
              /\ phase = "Collect" /\ answered[a].kind = "reading" => Waits(a)
              /\ phase = "Schedule" => Waits(a) \/ \A r \in GatingResets(snapshot[a].quotas) : r > now
=============================================================================
