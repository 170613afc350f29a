--------------------------- MODULE QuotaCollection ---------------------------
(***************************************************************************)
(* The cross-process quota collector of subswap                            *)
(* (crates/core/src/quota_collection.rs, with the retry loop of            *)
(* quota_query.rs and the view of quota_cache.rs one collector has).       *)
(*                                                                         *)
(* A "process" is one task of the CLI or of the daemon that asks for the   *)
(* quota of an account (collect_quota) or invalidates it for `rm`.         *)
(* Processes share nothing but files: a flock per account, a coordination  *)
(* record per account, the quota cache, and two families of slot files.    *)
(* Between two file operations anything may happen, and a process may be   *)
(* killed or one of its tasks dropped at any await.                        *)
(*                                                                         *)
(* Abstractions.  The quota windows of a reading are one number, the time  *)
(* at which the last of them has been reset (Empty for an account without  *)
(* quota); error texts are their class; flock files and paths are gone.    *)
(* Times that differ by less than a tick are equal here, later steps being *)
(* the later instants.                                                     *)
(***************************************************************************)
EXTENDS Integers, FiniteSets

CONSTANTS
    Procs,            \* concurrent callers of the collector
    Accounts,         \* (provider, account) pairs
    ProviderOf,       \* the provider of each account
    NoProc,           \* "the flock is free"
    MinRefresh,       \* quota.min_refresh_interval_ms, in ticks
    BackoffMax,       \* quota.failure_backoff_max_ms
    WaitBudget,       \* wait_budget(cfg): how long a late-comer waits
    SlotWait,         \* slot_wait_budget(cfg): how long a holder queues for a slot
    GlobalSlots,      \* max_concurrent_fetches.clamp(1, 64)
    ProviderSlots,    \* max_concurrent_per_provider.clamp(1, 32)
    Retries,          \* quota.fetch_retries.min(5)
    RetryAfters,      \* Retry-After delays a 429 may carry; 0 is "no header"
    Lifetimes,        \* for how long the windows of a reading last; 0 is "no windows"
    LateWrites,       \* a dropped task may leave a file write running (spawn_blocking)
    MaxTime,          \* bound: the clock stops here
    MaxCalls,         \* bound: calls each process makes
    MaxFaults         \* bound: kills, drops, failed writes and damaged files, together

ASSUME ConstantsAssumption ==
    /\ NoProc \notin Procs /\ Accounts # {}
    /\ MinRefresh \in Nat \ {0} /\ BackoffMax \in Nat
    /\ WaitBudget \in Nat /\ SlotWait \in Nat
    /\ GlobalSlots \in 1..64 /\ ProviderSlots \in 1..32
    /\ Retries \in 0..5
    /\ RetryAfters \subseteq Nat /\ Lifetimes \subseteq Nat
    /\ LateWrites \in BOOLEAN
    /\ MaxTime \in Nat /\ MaxCalls \in Nat /\ MaxFaults \in Nat

VARIABLES
    now,         \* the wall clock
    lock,        \* holder of each account's flock
    record,      \* each account's coordination record on disk
    cache,       \* each account's part of quota_cache.json
    global,      \* processes that hold a global slot file
    perProvider, \* processes that hold a slot file of their provider
    pc,          \* where each process is
    call,        \* the arguments, locals and last answer of each process
    late,        \* record writes of dropped tasks that have not landed
    calls,       \* bounded by MaxCalls
    faults,      \* bounded by MaxFaults
    \* History, read by properties only:
    notBefore,   \* the strongest durable promise "no request before"
    removedAt,   \* when the account was last removed
    observed     \* the real measurements of each account

vars == <<now, lock, record, cache, global, perProvider, pc, call, late,
          calls, faults, notBefore, removedAt, observed>>

disk    == <<record, cache>>
slots   == <<global, perProvider>>
history == <<notBefore, removedAt, observed>>
bounds  == <<calls, faults>>

-----------------------------------------------------------------------------
(* Records, readings and the quota cache                                   *)

Time == Nat
Never == 0                      \* Option<DateTime>::None: the clock starts at 1
Empty == 0                      \* a successful reading without windows

\* A coordination record: `next` is its next_attempt_at, `expires` its quotas.
NewRecord(state, observed_at, next, failures, expires) ==
    [state |-> state, observed_at |-> observed_at, next |-> next,
     failures |-> failures, expires |-> expires]

Missing    == NewRecord("Missing", Never, Never, 0, Empty)
Unreadable == NewRecord("Unreadable", Never, Never, 0, Empty)

States == {"Missing", "Unreadable", "Pending", "Success", "Failure",
           "Deferred", "Removed"}

Record == [state : States, observed_at : Time, next : Time,
           failures : Nat, expires : Time]

Readable(r) == r.state # "Unreadable"

\* `next_attempt_at.is_some_and(|deadline| deadline > now)`
Cooling(r) == r.next > now

\* current_quotas(...) leaves something, or there was no window to begin with
Usable(r) == r.expires = Empty \/ r.expires > now

NoEntry == [cached_at |-> Never, expires |-> Empty, failed_at |-> Never,
            consecutive |-> 0, auth |-> FALSE, removed_at |-> Never]

CacheEntry == [cached_at : Time, expires : Time, failed_at : Time,
               consecutive : Nat, auth : BOOLEAN, removed_at : Time]

NoAnswer == [kind |-> "none", observed_at |-> Never, expires |-> Empty]
Failed   == [NoAnswer EXCEPT !.kind = "error"]
Reading(at, exp) == [kind |-> "reading", observed_at |-> at, expires |-> exp]
Reused(at, exp) == [kind |-> "reused", observed_at |-> at, expires |-> exp]

Answer == [kind : {"none", "error", "reading", "reused"},
           observed_at : Time, expires : Time]

\* 1 << n for the shift a backoff may have, which is capped at 16
Doubling == <<1, 2, 4, 8, 16, 32, 64, 128, 256, 512, 1024, 2048, 4096, 8192,
              16384, 32768, 65536>>

Shift(failures) == IF failures <= 1 THEN 0
                   ELSE IF failures > 17 THEN 16 ELSE failures - 1

Least(a, b) == IF a <= b THEN a ELSE b
Most(a, b)  == IF a <= b THEN b ELSE a

Backoff(failures, cap) ==
    Least(MinRefresh * Doubling[Shift(failures) + 1], Most(cap, MinRefresh))

\* The delay before the next request after the n-th failure in a row: an
\* authentication failure keeps the base interval.
FailureDelay(failures, auth) ==
    IF auth THEN MinRefresh ELSE Backoff(failures, BackoffMax)

\* QuotaCache::fresh(.., min_refresh)
Fresh(c) == /\ ~(c.failed_at # Never /\ c.auth)
            /\ c.cached_at # Never
            /\ now - c.cached_at < MinRefresh
            /\ c.expires > now

\* QuotaCache::in_failure_backoff
InBackoff(c) ==
    /\ c.failed_at # Never
    /\ now - c.failed_at < Backoff(c.consecutive,
                                   IF c.auth THEN MinRefresh ELSE BackoffMax)

\* load; set_at; save: a success clears the failures that are not newer
CacheSet(c, at, exp) ==
    IF c.removed_at > at THEN c
    ELSE LET base == IF c.failed_at <= at THEN NoEntry ELSE c
         IN [base EXCEPT !.cached_at = at, !.expires = exp, !.removed_at = Never]

\* load; record_failure; save: an authentication failure also drops the entry
CacheFail(c, auth) ==
    LET failed == [c EXCEPT !.failed_at = now, !.auth = auth,
                            !.consecutive = c.consecutive + 1]
    IN IF auth
         THEN [failed EXCEPT !.cached_at = Never, !.expires = Empty,
                             !.removed_at = now]
         ELSE failed

\* load; remove; save
CacheRemove == [NoEntry EXCEPT !.removed_at = now]

-----------------------------------------------------------------------------
(* Processes                                                               *)

\* The account's flock is held at these.
Holding == {"Held", "Reserve", "Slot", "SlotProvider", "SlotBusy", "Defer",
            "Query", "Save", "Persist", "Handover", "RmRecord", "RmCache"}

\* A request for the account may be sent, or its result stored, at these.
Collecting == {"Slot", "SlotProvider", "SlotBusy", "Defer", "Query", "Save"}

\* A record write runs in spawn_blocking at these.
Writing == {"Reserve", "Defer", "Save"}

PCs == Holding \cup {"Idle", "TryLock", "WaitRead", "WaitLock", "RmLock"}

Call == [acct     : Accounts,   \* the account the call is about
         since    : Time,       \* its removedAt when the call began
         attempt  : 0..1,       \* of the two attempts of collect_impl
         deadline : Time,       \* of the poll loop the process is in
         draft    : Record,     \* the record it is about to write
         denied   : BOOLEAN,    \* the failure in `draft` is a 401 or 403
         owed     : Time,       \* until when the server asked us to wait
         tries    : 0..Retries, \* requests repeated in this collection
         answer   : Answer]     \* what its last call returned

NewCall(a, since, answer) ==
    [acct |-> a, since |-> since, attempt |-> 0, deadline |-> Never,
     draft |-> Missing, denied |-> FALSE, owed |-> Never, tries |-> 0,
     answer |-> answer]

TypeOK ==
    /\ now \in Time
    /\ lock \in [Accounts -> Procs \cup {NoProc}]
    /\ record \in [Accounts -> Record]
    /\ cache \in [Accounts -> CacheEntry]
    /\ global \subseteq Procs /\ perProvider \subseteq Procs
    /\ pc \in [Procs -> PCs]
    /\ call \in [Procs -> Call]
    /\ late \subseteq (Accounts \X Record)
    /\ calls \in [Procs -> Nat] /\ faults \in Nat
    /\ notBefore \in [Accounts -> Time]
    /\ removedAt \in [Accounts -> Time]
    /\ observed \in [Accounts -> SUBSET (Time \X Time)]

Quiet ==
    /\ now = 1
    /\ lock = [a \in Accounts |-> NoProc]
    /\ record = [a \in Accounts |-> Missing]
    /\ cache = [a \in Accounts |-> NoEntry]
    /\ global = {} /\ perProvider = {}
    /\ pc = [p \in Procs |-> "Idle"]
    /\ call = [p \in Procs |-> NewCall(CHOOSE a \in Accounts : TRUE, Never, NoAnswer)]
    /\ late = {}
    /\ notBefore = [a \in Accounts |-> Never]
    /\ removedAt = [a \in Accounts |-> Never]
    /\ observed = [a \in Accounts |-> {}]

Init == Quiet /\ calls = [p \in Procs |-> 0] /\ faults = 0

-----------------------------------------------------------------------------
(* What the actions are made of                                            *)

Goto(p, from, to) == pc[p] = from /\ pc' = [pc EXCEPT ![p] = to]

Locked(p) == lock[call[p].acct] # NoProc

Acquire(p) == /\ ~Locked(p)
              /\ lock' = [lock EXCEPT ![call[p].acct] = p]

Release(p) == lock' = [lock EXCEPT ![call[p].acct] = NoProc]

FreeSlots(p) == global' = global \ {p} /\ perProvider' = perProvider \ {p}

\* The call of p ends with `ans`; its other locals are gone.
Return(p, ans) ==
    call' = [call EXCEPT ![p] = NewCall(@.acct, @.since, ans)]

Fault == faults < MaxFaults /\ faults' = faults + 1

\* A poll loop gives up at its deadline; the run's clock stops at MaxTime.
Late(p) == now >= call[p].deadline \/ now = MaxTime

\* A new call of p about account a. It touches no file but the cache it reads.
Begin(p, a, to, ans) ==
    /\ Goto(p, "Idle", to)
    /\ calls[p] < MaxCalls /\ calls' = [calls EXCEPT ![p] = @ + 1]
    /\ call' = [call EXCEPT ![p] = NewCall(a, removedAt[a], ans)]
    /\ UNCHANGED <<now, lock, disk, slots, late, faults, history>>

-----------------------------------------------------------------------------
(* collect_impl                                                            *)

\* A fresh cache entry answers the call, with the time it was measured.
CacheHit(p, a) ==
    /\ Fresh(cache[a])
    /\ Begin(p, a, "Idle", Reused(cache[a].cached_at, cache[a].expires))

\* The cache says the account is backing off after a failure.
CacheBackoff(p, a) ==
    /\ ~Fresh(cache[a]) /\ InBackoff(cache[a])
    /\ Begin(p, a, "Idle", Failed)

CacheMiss(p, a) ==
    /\ ~Fresh(cache[a]) /\ ~InBackoff(cache[a])
    /\ Begin(p, a, "TryLock", NoAnswer)

\* try_account_lock of either attempt succeeds.
TakeLock(p) ==
    /\ Goto(p, "TryLock", "Held")
    /\ Acquire(p)
    /\ UNCHANGED <<now, disk, slots, call, late, bounds, history>>

\* The first attempt finds the account locked: wait for its holder.
JoinHolder(p) ==
    /\ Goto(p, "TryLock", "WaitRead")
    /\ Locked(p) /\ call[p].attempt = 0
    /\ call' = [call EXCEPT ![p].deadline = now + WaitBudget]
    /\ UNCHANGED <<now, lock, disk, slots, late, bounds, history>>

\* The second attempt finds it locked again: "already in progress".
GiveUp(p) ==
    /\ Goto(p, "TryLock", "Idle")
    /\ Locked(p) /\ call[p].attempt = 1
    /\ Return(p, Failed)
    /\ UNCHANGED <<now, lock, disk, slots, late, bounds, history>>

-----------------------------------------------------------------------------
(* wait_for_coalesced: a late-comer polls the record, then the lock        *)

\* Mutant of Conclusive: an old success is taken for the holder's result.
ConclusiveOldSuccess(r) ==
    ~Readable(r) \/ r.state = "Success" \/ (Cooling(r) /\ r.state # "Pending")

\* The record already holds what the waiter waits for, or cannot be read.
Conclusive(r) == ~Readable(r) \/ (Cooling(r) /\ r.state # "Pending")

\* Mutant of RecordAnswer: a reused reading is stamped with the current time.
RecordAnswerRestamped(r) ==
    IF r.state = "Success" /\ Usable(r) THEN Reused(now, r.expires) ELSE Failed

\* What a cooling record answers, to a waiter and to the holder of the lock.
RecordAnswer(r) ==
    IF r.state = "Success" /\ Usable(r) THEN Reused(r.observed_at, r.expires)
                                        ELSE Failed

WaitReadConclusive(p) ==
    /\ Goto(p, "WaitRead", "Idle")
    /\ Conclusive(record[call[p].acct])
    /\ Return(p, RecordAnswer(record[call[p].acct]))
    /\ UNCHANGED <<now, lock, disk, slots, late, bounds, history>>

WaitReadPending(p) ==
    /\ Goto(p, "WaitRead", "WaitLock")
    /\ ~Conclusive(record[call[p].acct])
    /\ UNCHANGED <<now, lock, disk, slots, call, late, bounds, history>>

\* The holder has gone: its lock is taken, and dropped at once for a retry.
WaitTakeover(p) ==
    /\ Goto(p, "WaitLock", "Handover")
    /\ Acquire(p)
    /\ UNCHANGED <<now, disk, slots, call, late, bounds, history>>

Handover(p) ==
    /\ Goto(p, "Handover", "TryLock")
    /\ Release(p)
    /\ call' = [call EXCEPT ![p] = [@ EXCEPT !.attempt = 1, !.deadline = Never]]
    /\ UNCHANGED <<now, disk, slots, late, bounds, history>>

\* Still locked, and there is time left to poll again.
WaitAgain(p) ==
    /\ Goto(p, "WaitLock", "WaitRead")
    /\ Locked(p) /\ ~Late(p)
    /\ UNCHANGED <<now, lock, disk, slots, call, late, bounds, history>>

\* Still locked at the deadline: the holder may have filled the cache already.
WaitTimeout(p) ==
    LET c == cache[call[p].acct]
    IN /\ Goto(p, "WaitLock", "Idle")
       /\ Locked(p) /\ Late(p)
       /\ Return(p, IF Fresh(c) THEN Reused(c.cached_at, c.expires) ELSE Failed)
       /\ UNCHANGED <<now, lock, disk, slots, late, bounds, history>>

-----------------------------------------------------------------------------
(* fetch_with_lock: the account's flock is held                            *)

\* Mutant of HeldAnswer: the early return forgets the flock.
HeldAnswerLeaks(p) ==
    /\ Goto(p, "Held", "Idle")
    /\ Conclusive(record[call[p].acct]) \/ Cooling(record[call[p].acct])
    /\ Return(p, RecordAnswer(record[call[p].acct]))
    /\ UNCHANGED <<now, lock, disk, slots, late, bounds, history>>

\* An unreadable record fails closed; a deadline in the future answers the
\* call from the record, however the attempt that wrote it ended.
HeldAnswer(p) ==
    LET r == record[call[p].acct]
    IN /\ Goto(p, "Held", "Idle")
       /\ ~Readable(r) \/ Cooling(r)
       /\ Return(p, RecordAnswer(r))
       /\ Release(p)
       /\ UNCHANGED <<now, disk, slots, late, bounds, history>>

\* Otherwise the attempt is reserved: the write of a Pending record starts.
HeldReserve(p) ==
    LET r == record[call[p].acct]
    IN /\ Goto(p, "Held", "Reserve")
       /\ Readable(r) /\ ~Cooling(r)
       /\ call' = [call EXCEPT ![p].draft =
              NewRecord("Pending", Never, now + MinRefresh, r.failures, Empty)]
       /\ UNCHANGED <<now, lock, disk, slots, late, bounds, history>>

\* write_record: the draft is on disk, and its deadline is a promise.
Write(p) ==
    LET a == call[p].acct
    IN /\ record' = [record EXCEPT ![a] = call[p].draft]
       /\ notBefore' = [notBefore EXCEPT ![a] =
              Most(@, Most(call[p].draft.next, call[p].owed))]
       /\ UNCHANGED <<cache, removedAt, observed>>

ReserveLands(p) ==
    /\ Goto(p, "Reserve", "Slot")
    /\ Write(p)
    /\ call' = [call EXCEPT ![p].deadline = now + SlotWait]
    /\ UNCHANGED <<now, lock, slots, late, bounds>>

\* Mutant of ReserveFails: the error is only logged, as for the other writes.
ReserveFailsLogged(p) ==
    /\ Goto(p, "Reserve", "Slot")
    /\ Fault
    /\ UNCHANGED <<now, lock, disk, slots, call, late, calls, history>>

\* Without a reservation on disk no request is sent.
ReserveFails(p) ==
    /\ Goto(p, "Reserve", "Idle")
    /\ Fault
    /\ Return(p, Failed)
    /\ Release(p)
    /\ UNCHANGED <<now, disk, slots, late, calls, history>>

-----------------------------------------------------------------------------
(* acquire_slots: a global slot, then one of the provider's; a process that *)
(* finds no provider slot gives the global one back and polls again.       *)

SameProviderAs(p) ==
    {q \in Procs : ProviderOf[call[q].acct] = ProviderOf[call[p].acct]}

ProviderFree(p) == Cardinality(perProvider \cap SameProviderAs(p)) < ProviderSlots

TakeGlobal(p) ==
    /\ Goto(p, "Slot", "SlotProvider")
    /\ Cardinality(global) < GlobalSlots
    /\ global' = global \cup {p}
    /\ UNCHANGED <<now, lock, disk, perProvider, call, late, bounds, history>>

GlobalFull(p) ==
    /\ Goto(p, "Slot", "SlotBusy")
    /\ Cardinality(global) >= GlobalSlots
    /\ UNCHANGED <<now, lock, disk, slots, call, late, bounds, history>>

TakeProvider(p) ==
    /\ Goto(p, "SlotProvider", "Query")
    /\ ProviderFree(p)
    /\ perProvider' = perProvider \cup {p}
    /\ UNCHANGED <<now, lock, disk, global, call, late, bounds, history>>

\* Mutant of ProviderFull: the global slot is kept while polling.
ProviderFullHoards(p) ==
    /\ Goto(p, "SlotProvider", "SlotBusy")
    /\ ~ProviderFree(p)
    /\ UNCHANGED <<now, lock, disk, slots, call, late, bounds, history>>

ProviderFull(p) ==
    /\ Goto(p, "SlotProvider", "SlotBusy")
    /\ ~ProviderFree(p)
    /\ FreeSlots(p)
    /\ UNCHANGED <<now, lock, disk, call, late, bounds, history>>

SlotAgain(p) ==
    /\ Goto(p, "SlotBusy", "Slot")
    /\ ~Late(p)
    /\ UNCHANGED <<now, lock, disk, slots, call, late, bounds, history>>

\* No request was sent: the reservation stays, as a deferred attempt.
SlotTimeout(p) ==
    /\ Goto(p, "SlotBusy", "Defer")
    /\ Late(p)
    /\ call' = [call EXCEPT ![p].draft.state = "Deferred"]
    /\ UNCHANGED <<now, lock, disk, slots, late, bounds, history>>

DeferLands(p) ==
    /\ Goto(p, "Defer", "Idle")
    /\ Write(p)
    /\ Return(p, Failed)
    /\ Release(p)
    /\ UNCHANGED <<now, slots, late, bounds>>

-----------------------------------------------------------------------------
(* raw_query_quota_with_retry, then the result is stored                   *)

\* Mutant of QueryAgain: one request too many.
QueryAgainOffByOne(p) ==
    /\ pc[p] = "Query" /\ call[p].tries <= Retries
    /\ call' = [call EXCEPT ![p].tries = @ + 1]
    /\ UNCHANGED <<now, lock, disk, slots, pc, late, bounds, history>>

\* A timeout, or an error that is worth another request.
QueryAgain(p) ==
    /\ pc[p] = "Query" /\ call[p].tries < Retries
    /\ call' = [call EXCEPT ![p].tries = @ + 1]
    /\ UNCHANGED <<now, lock, disk, slots, pc, late, bounds, history>>

\* Mutant of QuerySucceeds: the flock is dropped together with the slots.
QuerySucceedsUnlocked(p, life) ==
    /\ Goto(p, "Query", "Save")
    /\ FreeSlots(p) /\ Release(p)
    /\ call' = [call EXCEPT ![p].draft =
           NewRecord("Success", now, now + MinRefresh, 0, Empty)]
    /\ observed' = [observed EXCEPT ![call[p].acct] = @ \cup {<<now, Empty>>}]
    /\ UNCHANGED <<now, disk, late, bounds, notBefore, removedAt>>

\* The provider answers: the measurement is of this instant.
QuerySucceeds(p, life) ==
    LET exp == IF life = 0 THEN Empty ELSE now + life
    IN /\ Goto(p, "Query", "Save")
       /\ FreeSlots(p)
       /\ call' = [call EXCEPT ![p].draft =
              NewRecord("Success", now, now + MinRefresh, 0, exp)]
       /\ observed' = [observed EXCEPT ![call[p].acct] = @ \cup {<<now, exp>>}]
       /\ UNCHANGED <<now, lock, disk, late, bounds, notBefore, removedAt>>

\* Mutant of QueryFails: Retry-After is ignored.
QueryFailsImpatient(p, auth, retryAfter) ==
    LET n == call[p].draft.failures + 1
    IN /\ Goto(p, "Query", "Save")
       /\ FreeSlots(p)
       /\ call' = [call EXCEPT ![p] = [@ EXCEPT
              !.draft = NewRecord("Failure", Never,
                            now + FailureDelay(n, auth), n, Empty),
              !.denied = auth, !.owed = now + retryAfter]]
       /\ UNCHANGED <<now, lock, disk, late, bounds, history>>

\* A 401 or 403 (auth), a 429 with or without Retry-After, or the last try.
QueryFails(p, auth, retryAfter) ==
    LET n == call[p].draft.failures + 1
    IN /\ Goto(p, "Query", "Save")
       /\ auth => retryAfter = 0
       /\ FreeSlots(p)
       /\ call' = [call EXCEPT ![p] = [@ EXCEPT
              !.draft = NewRecord("Failure", Never,
                  now + Most(FailureDelay(n, auth), retryAfter), n, Empty),
              !.denied = auth, !.owed = now + retryAfter]]
       /\ UNCHANGED <<now, lock, disk, late, bounds, history>>

SaveLands(p) ==
    /\ Goto(p, "Save", "Persist")
    /\ Write(p)
    /\ UNCHANGED <<now, lock, slots, call, late, bounds>>

\* The record could not be written: only logged, and the reservation remains.
SaveFails(p) ==
    /\ Goto(p, "Save", "Persist")
    /\ Fault
    /\ UNCHANGED <<now, lock, disk, slots, call, late, calls, history>>

\* persist_success or persist_failure, then the call returns its own result.
Persist(p) ==
    LET a == call[p].acct
        r == call[p].draft
        ok == r.state = "Success"
    IN /\ Goto(p, "Persist", "Idle")
       /\ cache' = [cache EXCEPT ![a] =
              IF ok THEN CacheSet(@, r.observed_at, r.expires)
                    ELSE CacheFail(@, call[p].denied)]
       /\ Return(p, IF ok THEN Reading(r.observed_at, r.expires) ELSE Failed)
       /\ Release(p)
       /\ UNCHANGED <<now, record, slots, late, bounds, history>>

\* The cache could not be written: only logged, the record paces the account.
PersistFails(p) ==
    LET r == call[p].draft
    IN /\ Goto(p, "Persist", "Idle")
       /\ Fault
       /\ Return(p, IF r.state = "Success" THEN Reading(r.observed_at, r.expires)
                                          ELSE Failed)
       /\ Release(p)
       /\ UNCHANGED <<now, disk, slots, late, calls, history>>

-----------------------------------------------------------------------------
(* invalidate_collection_state, for `rm`                                   *)

RmBegin(p, a) == Begin(p, a, "RmLock", NoAnswer)

RmTakeLock(p) ==
    /\ Goto(p, "RmLock", "RmRecord")
    /\ Acquire(p)
    /\ UNCHANGED <<now, disk, slots, call, late, bounds, history>>

\* The floor survives; an unreadable record is reset, and its floor with it.
RmRecord(p) ==
    LET a == call[p].acct
        known == Readable(record[a])
        floor == IF known THEN Most(record[a].next, now) ELSE now
    IN /\ Goto(p, "RmRecord", "RmCache")
       /\ record' = [record EXCEPT ![a] =
              NewRecord("Removed", Never, floor, 0, Empty)]
       /\ notBefore' = [notBefore EXCEPT ![a] = IF known THEN @ ELSE floor]
       /\ UNCHANGED <<now, lock, cache, slots, call, late, bounds, removedAt,
                      observed>>

\* The write fails: the cache is invalidated all the same.
RmRecordFails(p) ==
    /\ Goto(p, "RmRecord", "RmCache")
    /\ Fault
    /\ UNCHANGED <<now, lock, disk, slots, call, late, calls, history>>

\* Mutant of RmCache: the record is removed, the cached reading stays.
RmCacheSkipped(p) ==
    /\ Goto(p, "RmCache", "Idle")
    /\ removedAt' = [removedAt EXCEPT ![call[p].acct] = now]
    /\ Release(p)
    /\ UNCHANGED <<now, disk, slots, call, late, bounds, notBefore, observed>>

RmCache(p) ==
    LET a == call[p].acct
    IN /\ Goto(p, "RmCache", "Idle")
       /\ cache' = [cache EXCEPT ![a] = CacheRemove]
       /\ removedAt' = [removedAt EXCEPT ![a] =
              IF record[a].state = "Removed" THEN now ELSE @]
       /\ Release(p)
       /\ UNCHANGED <<now, record, slots, call, late, bounds, notBefore,
                      observed>>

\* The cache could not be written: only logged, and nothing is promised.
RmCacheFails(p) ==
    /\ Goto(p, "RmCache", "Idle")
    /\ Fault
    /\ Release(p)
    /\ UNCHANGED <<now, disk, slots, call, late, calls, history>>

-----------------------------------------------------------------------------
(* The environment                                                         *)

Tick == /\ now < MaxTime
        /\ now' = now + 1
        /\ UNCHANGED <<lock, disk, slots, pc, call, late, bounds, history>>

\* p stops: what it held is released, and what it knew is lost.
Stop(p) ==
    /\ Goto(p, pc[p], "Idle")
    /\ Fault
    /\ IF pc[p] \in Holding THEN Release(p) ELSE UNCHANGED lock
    /\ FreeSlots(p)
    /\ Return(p, NoAnswer)
    /\ UNCHANGED <<now, calls, disk, history>>

\* The process of p is killed, or an error of the file system ends its call; a
\* write it was in has landed or never will.
Kill(p) == pc[p] # "Idle" /\ Stop(p) /\ UNCHANGED late

\* The task of p is dropped at an await while spawn_blocking still runs its
\* record write: the flock is released first, the write lands at any time.
Drop(p) ==
    /\ LateWrites /\ pc[p] \in Writing
    /\ Stop(p)
    /\ late' = late \cup {<<call[p].acct, call[p].draft>>}

LateWrite(w) ==
    /\ late' = late \ {w}
    /\ record' = [record EXCEPT ![w[1]] = w[2]]
    /\ notBefore' = [notBefore EXCEPT ![w[1]] = Most(@, w[2].next)]
    /\ UNCHANGED <<now, lock, cache, slots, pc, call, bounds, removedAt, observed>>

\* The record file is damaged from outside.
Damage(a) ==
    /\ Fault
    /\ record[a].state \notin {"Missing", "Unreadable"}
    /\ record' = [record EXCEPT ![a] = Unreadable]
    /\ UNCHANGED <<now, lock, cache, slots, pc, call, late, calls, history>>

-----------------------------------------------------------------------------

Advance(p) ==
    \/ TakeLock(p) \/ JoinHolder(p) \/ GiveUp(p)
    \/ WaitReadConclusive(p) \/ WaitReadPending(p) \/ WaitTakeover(p)
    \/ Handover(p) \/ WaitAgain(p) \/ WaitTimeout(p)
    \/ HeldAnswer(p) \/ HeldReserve(p) \/ ReserveLands(p)
    \/ TakeGlobal(p) \/ GlobalFull(p) \/ TakeProvider(p) \/ ProviderFull(p)
    \/ SlotAgain(p) \/ SlotTimeout(p) \/ DeferLands(p)
    \/ \E life \in Lifetimes : QuerySucceeds(p, life)
    \/ \E auth \in BOOLEAN, d \in RetryAfters : QueryFails(p, auth, d)
    \/ SaveLands(p) \/ Persist(p)
    \/ RmTakeLock(p) \/ RmRecord(p) \/ RmCache(p)

Start(p, a) ==
    CacheHit(p, a) \/ CacheBackoff(p, a) \/ CacheMiss(p, a) \/ RmBegin(p, a)

Break(p) ==
    \/ ReserveFails(p) \/ SaveFails(p) \/ PersistFails(p)
    \/ RmRecordFails(p) \/ RmCacheFails(p)
    \/ Kill(p) \/ Drop(p)

Next ==
    \/ Tick
    \/ \E p \in Procs : Advance(p) \/ QueryAgain(p) \/ Break(p)
    \/ \E p \in Procs, a \in Accounts : Start(p, a)
    \/ \E w \in late : LateWrite(w)
    \/ \E a \in Accounts : Damage(a)

\* Time passes, and a task that can run is run: nothing else is assumed.
Fairness == WF_vars(Tick) /\ \A p \in Procs : WF_vars(Advance(p))

Spec == Init /\ [][Next]_vars

-----------------------------------------------------------------------------
(* Properties                                                              *)

\* However callers, kills and takeovers interleave, at most one of them is
\* between reserving a request for an account and storing its result.
OneCollectorPerAccount ==
    \A p, q \in Procs :
        /\ pc[p] \in Collecting /\ pc[q] \in Collecting
        /\ call[p].acct = call[q].acct
        => p = q

\* From before the request is sent until its result is stored, the disk holds a
\* reservation as strong as every promise made: a kill in between leaves a floor.
RequestIsReserved ==
    \A p \in Procs : pc[p] \in Collecting =>
        LET a == call[p].acct
        IN Readable(record[a]) =>
               record[a].state = "Pending" /\ record[a].next >= notBefore[a]

\* No collection starts before any deadline that reached the disk: not after a
\* kill, not after a later failure with a shorter delay, not after `rm`.
NoEarlyCollection ==
    [][\A p \in Procs : pc[p] = "Held" /\ pc'[p] = "Reserve" =>
          now >= notBefore[call[p].acct]]_vars

\* Requests in flight exceed neither the global nor the provider's slots, and
\* a process that waits for its provider keeps no global slot from the others.
RequestsWithinSlots ==
    LET flying == {p \in Procs : pc[p] = "Query"}
    IN /\ Cardinality(flying) <= GlobalSlots
       /\ \A p \in flying :
             Cardinality(flying \cap SameProviderAs(p)) <= ProviderSlots
       /\ \A p \in global : pc[p] \in {"SlotProvider", "Query"}

Got(p) == call[p].answer.kind \in {"reading", "reused"}

\* A call never returns numbers with a time at which they were not measured:
\* reuse and coalescing keep the original observed_at.
AnswersAreMeasurements ==
    \A p \in Procs : Got(p) =>
        <<call[p].answer.observed_at, call[p].answer.expires>>
            \in observed[call[p].acct]

\* A call that starts after an account was removed never gets what was
\* measured before.
RemovedStaysRemoved ==
    \A p \in Procs : Got(p) => call[p].answer.observed_at >= call[p].since

\* A reused answer is younger than the refresh interval and its windows have
\* not all been reset when it is handed out.
ReuseIsCurrent ==
    [][\A p \in Procs :
          call'[p].answer.kind = "reused" /\ call'[p] # call[p] =>
              /\ now < call'[p].answer.observed_at + MinRefresh
              /\ \/ call'[p].answer.expires = Empty
                 \/ now < call'[p].answer.expires]_vars

\* Every call returns: nobody waits for ever for a lock, a slot or a holder.
EveryCallReturns == \A p \in Procs : pc[p] # "Idle" ~> pc[p] = "Idle"
=============================================================================
