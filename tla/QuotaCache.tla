------------------------------ MODULE QuotaCache ------------------------------
(***************************************************************************)
(* The merging quota cache (crates/core/src/quota_cache.rs): one JSON file *)
(* that the CLI, the daemon and `rm` all update.                           *)
(*                                                                         *)
(* Every writer is a job of its own: it loads the file without a lock,     *)
(* changes one account in its copy, and saves.  `save` takes the cache's   *)
(* flock, reads the file again and merges only what the job changed, by    *)
(* the time of the event.  Jobs of one account do overlap: a dropped task  *)
(* leaves its spawn_blocking job running after the account's flock is      *)
(* released.                                                               *)
(*                                                                         *)
(* Abstractions.  A reading, a failure, a tombstone and a clear are the    *)
(* instant of their event, 0 when absent; readings, error texts and the    *)
(* count of failures in a row are left out.  Utc::now() has nanoseconds:   *)
(* two events never share an instant.                                      *)
(***************************************************************************)
EXTENDS Naturals

CONSTANTS
    Jobs,       \* jobs that update the cache
    Keys,       \* accounts ("provider::account")
    NoJob,      \* "the cache's flock is free"
    MaxClock,   \* bound: events that happen
    MaxFaults   \* bound: failed saves, kills and damaged files, together

ASSUME CacheAssumption ==
    /\ NoJob \notin Jobs /\ Keys # {}
    /\ MaxClock \in Nat /\ MaxFaults \in Nat

VARIABLES
    clock,    \* the instant of the latest event
    disk,     \* the file
    lock,     \* holder of the cache's flock
    pc,       \* where each job is
    job,      \* what each job does, and its copy of the file
    faults,   \* bounded by MaxFaults
    \* History, read by properties only:
    newest,   \* the newest saved event of each kind
    damaged   \* the file has been lost at least once

vars == <<clock, disk, lock, pc, job, faults, newest, damaged>>

-----------------------------------------------------------------------------
Time == Nat
None == 0

\* One account's part of a QuotaCache.
Slot == [entry : Time,      \* entries: cached_at
         failure : Time,    \* failures: failed_at
         removal : Time,    \* removals: the tombstone
         clear : Time]      \* failure_clears

Cleared == [entry |-> None, failure |-> None, removal |-> None, clear |-> None]

Ops == {"success", "failure", "auth", "remove"}

\* The parts of a slot a job can mark as its own: the dirty_* sets.
Parts == {"entry", "failure", "removal", "clear"}

Job == [op : Ops, key : Keys, at : Time,
        view : [Keys -> Slot], dirty : SUBSET Parts]

NewJob(op, k, at, view) ==
    [op |-> op, key |-> k, at |-> at, view |-> view, dirty |-> {}]

EmptyFile == [k \in Keys |-> Cleared]

NoWork == NewJob("remove", CHOOSE k \in Keys : TRUE, None, EmptyFile)

PCs == {"Idle", "Load", "Change", "Save", "Locked"}

Newest == [success : Time, removal : Time, failure : Time, rm : Time]

NothingSaved ==
    [k \in Keys |->
        [success |-> None, removal |-> None, failure |-> None, rm |-> None]]

\* The type invariant; the flock is held by the one job that is saving.
TypeOK ==
    /\ clock \in Time
    /\ disk \in [Keys -> Slot]
    /\ lock \in Jobs \cup {NoJob}
    /\ pc \in [Jobs -> PCs]
    /\ job \in [Jobs -> Job]
    /\ faults \in Nat
    /\ newest \in [Keys -> Newest]
    /\ damaged \in BOOLEAN
    /\ \A j \in Jobs : lock = j <=> pc[j] = "Locked"

Init ==
    /\ clock = 0
    /\ disk = EmptyFile
    /\ lock = NoJob
    /\ pc = [j \in Jobs |-> "Idle"]
    /\ job = [j \in Jobs |-> NoWork]
    /\ faults = 0
    /\ newest = NothingSaved
    /\ damaged = FALSE

Most(a, b) == IF a <= b THEN b ELSE a

Goto(j, from, to) == pc[j] = from /\ pc' = [pc EXCEPT ![j] = to]

Fault == faults < MaxFaults /\ faults' = faults + 1

-----------------------------------------------------------------------------
(* What an operation does to its job's copy: the slot it leaves, and the   *)
(* parts of it that are dirty.                                             *)

\* set_at: a success clears the failures that are not newer. One that is older
\* than a known removal changes nothing.
SetAt(s, at) ==
    IF s.removal > at THEN [slot |-> s, dirty |-> {}]
    ELSE LET clears == s.failure <= at
         IN [slot |-> [entry |-> at, removal |-> None,
                       failure |-> IF clears THEN None ELSE s.failure,
                       clear |-> IF clears THEN at ELSE s.clear],
             dirty |-> {"entry"}
                       \cup (IF s.removal # None THEN {"removal"} ELSE {})
                       \cup (IF clears THEN {"failure", "clear"} ELSE {})]

\* record_failure: one of authentication also buries the cached reading.
RecordFailure(s, at, auth) ==
    [slot |-> [entry |-> IF auth THEN None ELSE s.entry,
               removal |-> IF auth THEN at ELSE s.removal,
               failure |-> at, clear |-> None],
     dirty |-> {"failure"} \cup (IF auth THEN {"entry", "removal"} ELSE {})
                           \cup (IF s.clear # None THEN {"clear"} ELSE {})]

\* remove
Remove(at) ==
    [slot |-> [entry |-> None, failure |-> None, removal |-> at, clear |-> at],
     dirty |-> Parts]

Changed(op, s, at) ==
    CASE op = "success" -> SetAt(s, at)
      [] op = "failure" -> RecordFailure(s, at, FALSE)
      [] op = "auth"    -> RecordFailure(s, at, TRUE)
      [] op = "remove"  -> Remove(at)

-----------------------------------------------------------------------------
(* save: the merge of one dirty slot into the file as it is now            *)

\* The part of a local slot that takes part in the merge.
Own(s, dirty, part) == IF part \in dirty THEN s[part] ELSE None

\* The newer of two events, if it is newer than the event that undoes it.
Survivor(a, b, undone) == IF Most(a, b) > undone THEN Most(a, b) ELSE None

\* Mutant of MergeEntry: the tombstone of the file is not looked at.
MergeEntryResurrects(d, s, dirty) ==
    LET entry == Survivor(d.entry, Own(s, dirty, "entry"), Own(s, dirty, "removal"))
    IN [d EXCEPT !.entry = entry, !.removal = None]

\* merge_entry, with the tombstones already merged: a reading newer than every
\* tombstone wins and drops them.
MergeEntry(d, s, dirty) ==
    LET removal == Most(d.removal, Own(s, dirty, "removal"))
        entry == Survivor(d.entry, Own(s, dirty, "entry"), removal)
    IN [[d EXCEPT !.entry = entry]
          EXCEPT !.removal = IF entry # None THEN None ELSE removal]

\* Mutant of MergeFailure: the local failure always wins.
MergeFailureLocalWins(d, s, dirty) ==
    LET clear == Most(Most(d.clear, Own(s, dirty, "clear")), d.entry)
        own == Own(s, dirty, "failure")
        failure == IF own # None THEN own ELSE Survivor(d.failure, None, clear)
    IN [[d EXCEPT !.failure = failure]
          EXCEPT !.clear = IF failure # None THEN None ELSE clear]

\* merge_failure: the winning reading is a clear, too.
MergeFailure(d, s, dirty) ==
    LET clear == Most(Most(d.clear, Own(s, dirty, "clear")), d.entry)
        failure == Survivor(d.failure, Own(s, dirty, "failure"), clear)
    IN [[d EXCEPT !.failure = failure]
          EXCEPT !.clear = IF failure # None THEN None ELSE clear]

\* merge_into, for the key of the job: entries first, then failures.
Merge(d, s, dirty) ==
    LET e == IF dirty \cap {"entry", "removal"} # {} THEN MergeEntry(d, s, dirty)
                                                      ELSE d
    IN IF dirty \cap {"failure", "clear"} # {} THEN MergeFailure(e, s, dirty) ELSE e

-----------------------------------------------------------------------------
(* Jobs                                                                    *)

\* A measurement is made: its instant is the provider's answer, long before the
\* job that stores it runs.
Observe(j, k) ==
    /\ Goto(j, "Idle", "Load")
    /\ clock < MaxClock /\ clock' = clock + 1
    /\ job' = [job EXCEPT ![j] = NewJob("success", k, clock + 1, EmptyFile)]
    /\ UNCHANGED <<disk, lock, faults, newest, damaged>>

\* QuotaCache::load, without a lock.
Load(j) ==
    /\ Goto(j, "Load", "Change")
    /\ job' = [job EXCEPT ![j] = [@ EXCEPT !.view = disk]]
    /\ UNCHANGED <<clock, disk, lock, faults, newest, damaged>>

\* The job of a failure or a removal begins with its load; its instant is only
\* taken when it changes its copy.
Begin(j, k, op) ==
    /\ Goto(j, "Idle", "Change")
    /\ op # "success"
    /\ job' = [job EXCEPT ![j] = NewJob(op, k, None, disk)]
    /\ UNCHANGED <<clock, disk, lock, faults, newest, damaged>>

\* The operation, on the copy. A job that changed nothing saves nothing.
Change(j) ==
    LET k == job[j].key
        measured == job[j].op = "success"
        at == IF measured THEN job[j].at ELSE clock + 1
        c == Changed(job[j].op, job[j].view[k], at)
    IN /\ ~measured => clock < MaxClock
       /\ clock' = IF measured THEN clock ELSE at
       /\ IF c.dirty = {}
            THEN Goto(j, "Change", "Idle") /\ job' = [job EXCEPT ![j] = NoWork]
            ELSE /\ Goto(j, "Change", "Save")
                 /\ job' = [job EXCEPT ![j] = [NewJob(@.op, k, at, [@.view EXCEPT ![k] = c.slot])
                                              EXCEPT !.dirty = c.dirty]]
       /\ UNCHANGED <<disk, lock, faults, newest, damaged>>

TakeLock(j) ==
    /\ Goto(j, "Save", "Locked")
    /\ lock = NoJob /\ lock' = j
    /\ UNCHANGED <<clock, disk, job, faults, newest, damaged>>

\* What the saved events amount to, with the one of job j.
Saved(j) ==
    LET e == job[j]
        n == newest[e.key]
    IN [newest EXCEPT ![e.key] =
          [success |-> IF e.op = "success" THEN Most(n.success, e.at) ELSE n.success,
           removal |-> IF e.op \in {"auth", "remove"} THEN Most(n.removal, e.at)
                                                       ELSE n.removal,
           failure |-> IF e.op \in {"auth", "failure"} THEN Most(n.failure, e.at)
                                                        ELSE n.failure,
           rm |-> IF e.op = "remove" THEN Most(n.rm, e.at) ELSE n.rm]]

\* Under the flock: read the file again, merge, replace it.
Commit(j) ==
    LET k == job[j].key
    IN /\ Goto(j, "Locked", "Idle")
       /\ disk' = [disk EXCEPT ![k] = Merge(@, job[j].view[k], job[j].dirty)]
       /\ lock' = NoJob
       /\ job' = [job EXCEPT ![j] = NoWork]
       /\ newest' = Saved(j)
       /\ UNCHANGED <<clock, faults, damaged>>

\* Mutant of Abort: the error path keeps the flock.
AbortKeepsLock(j) ==
    /\ pc[j] # "Idle" /\ Fault
    /\ pc' = [pc EXCEPT ![j] = "Idle"] /\ job' = [job EXCEPT ![j] = NoWork]
    /\ UNCHANGED <<clock, disk, lock, newest, damaged>>

\* The save fails, or the job's process is killed: nothing is written.
Abort(j) ==
    /\ pc[j] # "Idle" /\ Fault
    /\ pc' = [pc EXCEPT ![j] = "Idle"] /\ job' = [job EXCEPT ![j] = NoWork]
    /\ lock' = IF lock = j THEN NoJob ELSE lock
    /\ UNCHANGED <<clock, disk, newest, damaged>>

\* The file is lost, or damaged so that it loads as an empty cache.
Damage ==
    /\ Fault
    /\ disk' = EmptyFile
    /\ newest' = NothingSaved
    /\ damaged' = TRUE
    /\ UNCHANGED <<clock, lock, pc, job>>

Next ==
    \/ \E j \in Jobs, k \in Keys : Observe(j, k)
    \/ \E j \in Jobs, k \in Keys, op \in Ops : Begin(j, k, op)
    \/ \E j \in Jobs : Load(j) \/ Change(j) \/ TakeLock(j) \/ Commit(j) \/ Abort(j)
    \/ Damage

Spec == Init /\ [][Next]_vars

-----------------------------------------------------------------------------
(* Properties                                                              *)

\* Whatever order the jobs load and save in, the file shows the newest saved
\* reading of an account, unless a newer removal or authentication failure was
\* saved: no update is lost, and nothing removed is resurrected.
NewestReading ==
    \A k \in Keys : disk[k].entry =
        IF newest[k].success > newest[k].removal THEN newest[k].success ELSE None

\* It shows the newest saved failure, unless a newer success or removal was
\* saved: a late failure does not restart a backoff that has been cleared.
NewestFailure ==
    ~damaged => \A k \in Keys : disk[k].failure =
        IF newest[k].failure > Most(newest[k].success, newest[k].rm)
          THEN newest[k].failure ELSE None
=============================================================================
