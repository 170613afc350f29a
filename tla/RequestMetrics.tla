---------------------------- MODULE RequestMetrics ----------------------------
(***************************************************************************)
(* The request counters (core/request_metrics.rs): every process adds its  *)
(* events to one file, under an exclusive flock, by reading the file,      *)
(* adding and renaming a new file over it.  Readers take no lock.          *)
(*                                                                         *)
(* An event is the start of a request (Start) or its completion with a     *)
(* status code; the other kinds are counted as Start is.  An account       *)
(* stands for its provider too: both scopes are kept by the same code with *)
(* a cap of their own.  The clock runs in minutes and is read before the   *)
(* lock is taken.                                                          *)
(***************************************************************************)
EXTENDS Integers, FiniteSets, Sequences, SequencesExt, Bags

CONSTANTS
    Writers,         \* the processes
    MetricAccounts,  \* the accounts they count for (naturals: ties go by name)
    Codes,           \* status codes, less than OtherCode
    MaxMinutes, MaxAccounts, MaxStatuses,   \* the caps of the source
    MaxMinute,       \* bound: the clock
    MaxEvents,       \* bound: events recorded
    MaxMetricFaults  \* bound: crashes, and files found damaged

Start == 0
OtherCode == 600

MetricsAssumption ==
    /\ MetricAccounts \subseteq Nat /\ MetricAccounts # {} /\ IsFiniteSet(MetricAccounts)
    /\ Codes \subseteq 100 .. 599
    /\ MaxMinutes \in Nat \ {0} /\ MaxAccounts \in Nat \ {0} /\ MaxStatuses \in Nat \ {0, 1}
    /\ MaxMinute \in Nat /\ MaxEvents \in Nat /\ MaxMetricFaults \in Nat

VARIABLES
    minute,      \* the clock
    file,        \* the file: what it is, and its state when it can be read; "newer"
                 \* is a later schema
    corrupt,     \* the one quarantined copy is there
    metricLock,  \* the holders of the flock: one, as long as it works
    doing,       \* the step of a writer
    event,       \* its event: what, for which account, and when
    copy,        \* what it has read and added to
    events, metricFaults,   \* bounded
    \* History, read by properties only:
    counted      \* the events recorded since the file was begun

metricVars == <<minute, file, corrupt, metricLock, doing, event, copy, events, metricFaults, counted>>

\* A bag of what happened: one requests/collections pair with its statuses.
NoCount == [starts |-> 0, completes |-> 0, statuses |-> <<>>]
Bucket(m) == [minute |-> m, count |-> NoCount]
NewScope == [count |-> NoCount, minutes |-> <<>>, seen |-> 0]
NewState == [totals |-> NewScope, accounts |-> <<>>]

NoEvent == [what |-> Start, account |-> CHOOSE a \in MetricAccounts : TRUE, minute |-> 0]
Event == [what : Codes \cup {Start}, account : MetricAccounts, minute : 0 .. MaxMinute]
Holds(state) == [is |-> "readable", state |-> state]
Useless(is) == [is |-> is, state |-> NewState]

-----------------------------------------------------------------------------
(* Adding                                                                  *)

\* `add_status`: a code of its own, or "other" when there are too many.
AddStatus(statuses, code, n) ==
    LET room == Cardinality(DOMAIN statuses) < MaxStatuses - 1
        key == IF code \in DOMAIN statuses \/ room THEN code ELSE OtherCode
        had == IF key \in DOMAIN statuses THEN statuses[key] ELSE 0
    IN  [k \in DOMAIN statuses \cup {key} |-> IF k = key THEN had + n ELSE statuses[k]]

\* `bump_parts`.
Bump(count, what) ==
    IF what = Start THEN [count EXCEPT !.starts = @ + 1]
    ELSE [count EXCEPT !.completes = @ + 1, !.statuses = AddStatus(@, what, 1)]

\* Mutant of Trim: the newest are dropped.
TrimNewest(buckets) ==
    IF Len(buckets) <= MaxMinutes THEN buckets ELSE SubSeq(buckets, 1, MaxMinutes)

\* The newest MaxMinutes of the buckets.
Trim(buckets) ==
    IF Len(buckets) <= MaxMinutes THEN buckets
    ELSE SubSeq(buckets, Len(buckets) - MaxMinutes + 1, Len(buckets))

\* `bump_minutes`: the bucket of the minute, sorted in between the others, which
\* are in order, and the newest are kept.
BumpMinutes(buckets, m, what) ==
    LET has == \E i \in DOMAIN buckets : buckets[i].minute = m
        place == CHOOSE k \in 1 .. Len(buckets) + 1 :
                    \A i \in DOMAIN buckets : buckets[i].minute < m <=> i < k
        all == IF has THEN buckets ELSE InsertAt(buckets, place, Bucket(m))
    IN  Trim([all EXCEPT ![place].count = Bump(@, what)])

AddTo(scope, e) ==
    [count |-> Bump(scope.count, e.what), minutes |-> BumpMinutes(scope.minutes, e.minute, e.what),
     seen |-> e.minute]

\* `scope_mut`: a new key takes the place of the one seen longest ago.
MakeRoom(scopes, key) ==
    IF key \in DOMAIN scopes \/ Cardinality(DOMAIN scopes) < MaxAccounts THEN scopes
    ELSE LET older(x, y) == \/ scopes[x].seen < scopes[y].seen
                            \/ scopes[x].seen = scopes[y].seen /\ x < y
             oldest == CHOOSE x \in DOMAIN scopes : \A y \in DOMAIN scopes \ {x} : older(x, y)
         IN  [x \in DOMAIN scopes \ {oldest} |-> scopes[x]]

\* `apply_event`: to the totals and to the account.
Apply(state, e) ==
    LET kept == MakeRoom(state.accounts, e.account)
        mine == IF e.account \in DOMAIN kept THEN kept[e.account] ELSE NewScope
    IN  [totals |-> AddTo(state.totals, e),
         accounts |-> [x \in DOMAIN kept \cup {e.account} |->
                            IF x = e.account THEN AddTo(mine, e) ELSE kept[x]]]

-----------------------------------------------------------------------------
(* Reading                                                                 *)

\* `merge_statuses`, code by code in their order.
MergeStatuses(target, source) ==
    FoldLeft(LAMBDA t, code : AddStatus(t, code, source[code]),
             target, SetToSortSeq(DOMAIN source, <))

\* `merge_requests` and `merge_collections`.
Merge(target, source) ==
    [starts |-> target.starts + source.starts, completes |-> target.completes + source.completes,
     statuses |-> MergeStatuses(target.statuses, source.statuses)]

\* `finalize_scope`: the sum of the buckets of the last MaxMinutes minutes.
LastHour(scope, at) ==
    LET recent == SelectSeq(scope.minutes, LAMBDA b : b.minute >= at - (MaxMinutes - 1))
    IN  FoldLeft(LAMBDA sum, b : Merge(sum, b.count), NoCount, Trim(recent))

\* `snapshot_at` and `render`: what cannot be read is shown as an empty state.
ShownTotals == [ever |-> file.state.totals.count, hour |-> LastHour(file.state.totals, minute)]

-----------------------------------------------------------------------------
(* Recording                                                               *)

Init ==
    /\ minute = 0 /\ file = Useless("absent") /\ corrupt = FALSE /\ metricLock = {}
    /\ doing = [w \in Writers |-> "Idle"]
    /\ event = [w \in Writers |-> NoEvent]
    /\ copy = [w \in Writers |-> NewState]
    /\ events = 0 /\ metricFaults = 0 /\ counted = <<>>

Goto(w, step) == doing' = [doing EXCEPT ![w] = step]

\* Unlocked, and done with the event.
End(w) ==
    /\ Goto(w, "Idle")
    /\ metricLock' = metricLock \ {w}
    /\ event' = [event EXCEPT ![w] = NoEvent] /\ copy' = [copy EXCEPT ![w] = NewState]

\* `record_at`: the time is taken here, the rest waits for a thread and the lock.
Record(w) ==
    /\ doing[w] = "Idle" /\ events < MaxEvents
    /\ \E what \in Codes \cup {Start}, a \in MetricAccounts :
        event' = [event EXCEPT ![w] = [what |-> what, account |-> a, minute |-> minute]]
    /\ events' = events + 1
    /\ Goto(w, "Lock")
    /\ UNCHANGED <<minute, file, corrupt, metricLock, copy, metricFaults, counted>>

\* Mutant of LockMetrics: without the exclusive flock.
LockMetricsNot(w) ==
    /\ doing[w] = "Lock"
    /\ metricLock' = metricLock \cup {w}
    /\ Goto(w, "Load")
    /\ UNCHANGED <<minute, file, corrupt, event, copy, events, metricFaults, counted>>

LockMetrics(w) ==
    /\ doing[w] = "Lock" /\ metricLock = {}
    /\ metricLock' = {w}
    /\ Goto(w, "Load")
    /\ UNCHANGED <<minute, file, corrupt, event, copy, events, metricFaults, counted>>

\* `load_locked`: a damaged file is put aside, in place of an earlier one, and
\* a new one begun; a newer schema is never overwritten, and the event is lost.
Load(w) ==
    /\ doing[w] = "Load"
    /\ CASE file.is = "newer" -> End(w) /\ UNCHANGED <<file, corrupt>>
         [] file.is = "damaged" ->
              /\ corrupt' = TRUE /\ file' = Useless("absent")
              /\ Goto(w, "Write") /\ UNCHANGED <<metricLock, event, copy>>
         [] OTHER ->
              /\ copy' = [copy EXCEPT ![w] = file.state]
              /\ Goto(w, "Write") /\ UNCHANGED <<file, corrupt, metricLock, event>>
    /\ UNCHANGED <<minute, events, metricFaults, counted>>

\* `apply_event` and `write_atomic`: the rename is one step, and unlocks.
Write(w) ==
    /\ doing[w] = "Write"
    /\ file' = Holds(Apply(copy[w], event[w]))
    /\ counted' = Append(counted, event[w])
    /\ End(w)
    /\ UNCHANGED <<minute, corrupt, events, metricFaults>>

\* The process ends, or the write fails: the event is lost, and nothing else.
Lose(w) ==
    /\ doing[w] # "Idle" /\ metricFaults < MaxMetricFaults
    /\ metricFaults' = metricFaults + 1
    /\ End(w)
    /\ UNCHANGED <<minute, file, corrupt, events, counted>>

\* The machine has stopped before the new file was on the disk (it is not
\* synced), or a later version of subswap has written it.
Damage ==
    /\ file.is = "readable" /\ metricLock = {} /\ metricFaults < MaxMetricFaults
    /\ metricFaults' = metricFaults + 1
    /\ \E is \in {"damaged", "newer"} : file' = Useless(is)
    /\ counted' = <<>>
    /\ UNCHANGED <<minute, corrupt, metricLock, doing, event, copy, events>>

Pass ==
    /\ minute < MaxMinute /\ minute' = minute + 1
    /\ UNCHANGED <<file, corrupt, metricLock, doing, event, copy, events, metricFaults, counted>>

Next ==
    \/ Pass \/ Damage
    \/ \E w \in Writers : Record(w) \/ LockMetrics(w) \/ Load(w) \/ Write(w) \/ Lose(w)

Spec == Init /\ [][Next]_metricVars

-----------------------------------------------------------------------------
(* Properties                                                              *)

\* What n events can have counted: one code is left for "other".
Statuses(n) == UNION {[codes -> 1 .. n] : codes \in SUBSET (Codes \cup {OtherCode})}
Counts(n) ==
    {c \in [starts : 0 .. n, completes : 0 .. n, statuses : Statuses(n)] :
        Cardinality(DOMAIN c.statuses \ {OtherCode}) < MaxStatuses}
Scopes(n) ==
    {s \in [count : Counts(n), minutes : Seq([minute : 0 .. MaxMinute, count : Counts(n)]),
            seen : 0 .. MaxMinute] :
        /\ Len(s.minutes) <= MaxMinutes
        /\ \A i, j \in DOMAIN s.minutes : i < j => s.minutes[i].minute < s.minutes[j].minute}
StateOK(s, n) ==
    /\ s = [totals |-> s.totals, accounts |-> s.accounts] /\ s.totals \in Scopes(n)
    /\ DOMAIN s.accounts \subseteq MetricAccounts /\ Cardinality(DOMAIN s.accounts) <= MaxAccounts
    /\ \A a \in DOMAIN s.accounts : s.accounts[a] \in Scopes(n)

\* Every dimension of the file stays within its cap, and no count exceeds what
\* was recorded.
MetricsTypeOK ==
    /\ minute \in 0 .. MaxMinute /\ metricLock \subseteq Writers
    /\ doing \in [Writers -> {"Idle", "Lock", "Load", "Write"}]
    /\ event \in [Writers -> Event] /\ events \in 0 .. MaxEvents
    /\ metricFaults \in 0 .. MaxMetricFaults /\ corrupt \in BOOLEAN
    /\ counted \in Seq(Event)
    /\ file.is \in {"absent", "damaged", "newer", "readable"} /\ StateOK(file.state, Len(counted))
    /\ copy = [w \in Writers |-> copy[w]] /\ \A w \in Writers : StateOK(copy[w], Len(counted))

\* The counts of the recorded events that `is` are the indexes of, and a code for
\* each completion.
Starts(is) == {i \in is : counted[i].what = Start}
Sums(count, is) ==
    /\ count.starts = Cardinality(Starts(is)) /\ count.completes = Cardinality(is \ Starts(is))
Coded(count) == BagCardinality(count.statuses) = count.completes

Recorded == DOMAIN counted
Of(a) == {i \in Recorded : counted[i].account = a}
Since(m) == {i \in Recorded : counted[i].minute >= m}
Seen == {counted[i].account : i \in Recorded}

\* The totals count every event written since the file was begun, each once,
\* whatever the processes did at the same time and whoever crashed; so does every
\* account, until one has been evicted (request_metrics.rs: the flock around read,
\* apply and rename).
EventsSummed ==
    /\ Sums(file.state.totals.count, Recorded)
    /\ Cardinality(Seen) <= MaxAccounts =>
        /\ DOMAIN file.state.accounts = Seen
        /\ \A a \in Seen : Sums(file.state.accounts[a].count, Of(a))

\* The last hour counts exactly the events of its minutes, in whatever order their
\* clocks were read, and every completion has a code, however many there were (the
\* buckets cut to the newest 60; the codes beyond 31 as one).
EventsCounted ==
    /\ EventsSummed
    /\ Sums(ShownTotals.hour, Since(minute - (MaxMinutes - 1)))
    /\ Coded(ShownTotals.ever) /\ Coded(ShownTotals.hour)
    /\ Cardinality(Seen) <= MaxAccounts => \A a \in Seen : Coded(file.state.accounts[a].count)

\* What these rest on: the lock has one holder, and who writes has read what the
\* file still holds.
Busy(w) == doing[w] \in {"Load", "Write"}
UpdatesKept ==
    /\ \A w \in Writers : w \in metricLock <=> Busy(w)
    /\ \A w \in Writers : copy[w] = IF doing[w] = "Write" THEN file.state ELSE NewState
    /\ \A w, u \in metricLock : w = u
    /\ file.is # "readable" => file.state = NewState /\ counted = <<>>
=============================================================================
