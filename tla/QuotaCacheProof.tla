--------------------------- MODULE QuotaCacheProof ---------------------------
(* What TLAPS proves about the merging cache, for any jobs, accounts and     *)
(* bounds: whatever order jobs load and save in, the file is a function of   *)
(* the newest saved events.                                                  *)
EXTENDS QuotaCache, TLAPS

USE CacheAssumption DEF Time, None

\* Every mutation of a copy leaves a well formed slot.
LEMMA ChangedType ==
    ASSUME NEW s \in Slot, NEW at \in Time, NEW op \in Ops
    PROVE  Changed(op, s, at).slot \in Slot /\ Changed(op, s, at).dirty \in SUBSET Parts
<1>1. SetAt(s, at).slot \in Slot /\ SetAt(s, at).dirty \in SUBSET Parts
  BY DEF SetAt, Slot, Parts
<1>2. ASSUME NEW b \in BOOLEAN
      PROVE  RecordFailure(s, at, b).slot \in Slot
             /\ RecordFailure(s, at, b).dirty \in SUBSET Parts
  BY DEF RecordFailure, Slot, Parts
<1>3. Remove(at).slot \in Slot /\ Remove(at).dirty \in SUBSET Parts
  BY DEF Remove, Slot, Parts
<1> QED BY <1>1, <1>2, <1>3 DEF Changed, Ops

\* Merging a job's slot leaves a well formed slot.
LEMMA MergeType ==
    ASSUME NEW d \in Slot, NEW s \in Slot, NEW dirty \in SUBSET Parts
    PROVE  Merge(d, s, dirty) \in Slot
<1>1. \A part \in Parts : Own(s, dirty, part) \in Nat
  BY DEF Own, Slot, Parts
<1>2. \A a, b, c \in Nat : Most(a, b) \in Nat /\ Survivor(a, b, c) \in Nat
  BY DEF Most, Survivor
<1>3. MergeEntry(d, s, dirty) \in Slot
  BY <1>1, <1>2 DEF MergeEntry, Slot, Parts
<1>4. ASSUME NEW e \in Slot PROVE MergeFailure(e, s, dirty) \in Slot
  BY <1>1, <1>2 DEF MergeFailure, Slot, Parts
<1> QED BY <1>3, <1>4 DEF Merge

\* A new job is well formed.
LEMMA NewJobType ==
    ASSUME NEW op \in Ops, NEW k \in Keys, NEW at \in Nat, NEW view \in [Keys -> Slot]
    PROVE  NewJob(op, k, at, view) \in Job
BY DEF NewJob, Job, Parts

\* An empty file, and an idle job, are well formed.
LEMMA EmptyType == EmptyFile \in [Keys -> Slot] /\ NoWork \in Job
<1>1. EmptyFile \in [Keys -> Slot] BY DEF EmptyFile, Cleared, Slot
<1>2. (CHOOSE k \in Keys : TRUE) \in Keys OBVIOUS
<1> QED BY <1>1, <1>2, NewJobType DEF NoWork, Ops

-----------------------------------------------------------------------------
(* Type correctness                                                          *)

LEMMA InitType == Init => TypeOK
<1> SUFFICES ASSUME Init PROVE TypeOK OBVIOUS
<1>1. NothingSaved \in [Keys -> Newest] BY DEF NothingSaved, Newest
<1> QED BY <1>1, EmptyType DEF Init, TypeOK, PCs

LEMMA NextType == TypeOK /\ [Next]_vars => TypeOK'
<1> SUFFICES ASSUME TypeOK, [Next]_vars PROVE TypeOK' OBVIOUS
<1> USE DEF TypeOK
<1>1. CASE UNCHANGED vars BY <1>1 DEF vars
<1>2. ASSUME NEW j \in Jobs, NEW k \in Keys, Observe(j, k) PROVE TypeOK'
  <2>1. NewJob("success", k, clock + 1, EmptyFile) \in Job
    BY EmptyType, NewJobType DEF Ops
  <2> QED BY <1>2, <2>1 DEF Observe, Goto, PCs
<1>3. ASSUME NEW j \in Jobs, NEW k \in Keys, NEW op \in Ops, Begin(j, k, op)
      PROVE  TypeOK'
  <2>1. NewJob(op, k, None, disk) \in Job BY NewJobType
  <2> QED BY <1>3, <2>1 DEF Begin, Goto, PCs
<1>4. ASSUME NEW j \in Jobs, Load(j) PROVE TypeOK'
  <2>1. [job[j] EXCEPT !.view = disk] \in Job BY DEF Job
  <2> QED BY <1>4, <2>1 DEF Load, Goto, PCs
<1>5. ASSUME NEW j \in Jobs, Change(j) PROVE TypeOK'
  <2> DEFINE k == job[j].key
             at == IF job[j].op = "success" THEN job[j].at ELSE clock + 1
             c == Changed(job[j].op, job[j].view[k], at)
             done == [NewJob(job[j].op, k, at, [job[j].view EXCEPT ![k] = c.slot])
                        EXCEPT !.dirty = c.dirty]
  <2>1. job[j] \in Job OBVIOUS
  <2>2. k \in Keys /\ at \in Nat /\ job[j].op \in Ops /\ job[j].view \in [Keys -> Slot]
    BY <2>1 DEF Job
  <2>3. c.slot \in Slot /\ c.dirty \in SUBSET Parts BY <2>2, ChangedType
  <2>4. done \in Job BY <2>2, <2>3 DEF NewJob, Job
  <2>5. NoWork \in Job BY EmptyType
  <2>6. job' = [job EXCEPT ![j] = NoWork] \/ job' = [job EXCEPT ![j] = done]
    BY <1>5 DEF Change
  <2>7. clock' \in Nat BY <1>5 DEF Change
  <2>8. \/ pc' = [pc EXCEPT ![j] = "Idle"] /\ pc[j] = "Change"
        \/ pc' = [pc EXCEPT ![j] = "Save"] /\ pc[j] = "Change"
    BY <1>5 DEF Change, Goto
  <2> HIDE DEF done
  <2>9. job' \in [Jobs -> Job] BY <2>4, <2>5, <2>6
  <2>10. UNCHANGED <<disk, lock, faults, newest, damaged>> BY <1>5 DEF Change
  <2> QED BY <2>7, <2>8, <2>9, <2>10 DEF PCs
<1>6. ASSUME NEW j \in Jobs, TakeLock(j) PROVE TypeOK'
  BY <1>6 DEF TakeLock, Goto, PCs
<1>7. ASSUME NEW j \in Jobs, Commit(j) PROVE TypeOK'
  <2>1. job[j] \in Job OBVIOUS
  <2>2. Merge(disk[job[j].key], job[j].view[job[j].key], job[j].dirty) \in Slot
    BY <2>1, MergeType DEF Job
  <2>3. disk' \in [Keys -> Slot] BY <1>7, <2>2 DEF Commit
  <2>4. newest' \in [Keys -> Newest]
    <3>1. newest[job[j].key] \in Newest BY <2>1 DEF Job
    <3>2. \A a, b \in Nat : Most(a, b) \in Nat BY DEF Most
    <3> QED BY <1>7, <2>1, <3>1, <3>2 DEF Commit, Saved, Job, Newest
  <2>5. job' \in [Jobs -> Job] BY <1>7, EmptyType DEF Commit
  <2> QED BY <1>7, <2>3, <2>4, <2>5 DEF Commit, Goto, PCs
<1>8. ASSUME NEW j \in Jobs, Abort(j) PROVE TypeOK'
  <2>1. job' \in [Jobs -> Job] BY <1>8, EmptyType DEF Abort
  <2> QED BY <1>8, <2>1 DEF Abort, Fault, PCs
<1>9. CASE Damage
  <2>1. NothingSaved \in [Keys -> Newest] BY DEF NothingSaved, Newest
  <2> QED BY <1>9, <2>1, EmptyType DEF Damage, Fault
<1> QED BY <1>1, <1>2, <1>3, <1>4, <1>5, <1>6, <1>7, <1>8, <1>9 DEF Next

\* The variables of the cache keep their types, and the flock always has the
\* one holder that is saving: no error path of save_locked leaves it held.
THEOREM TypeCorrect == Spec => []TypeOK
<1>1. Init => TypeOK BY InitType
<1>2. TypeOK /\ [Next]_vars => TypeOK' BY NextType
<1> QED BY <1>1, <1>2, PTL DEF Spec

-----------------------------------------------------------------------------
(* The inductive invariant: what the file holds, and what a job that is      *)
(* about to save brings to it.                                               *)

\* The reading and the tombstone are those of the newest saved events n.
EntrySlot(d, n) ==
    /\ d.entry = IF n.success > n.removal THEN n.success ELSE None
    /\ d.removal = IF n.success > n.removal THEN None ELSE n.removal

\* So are the failure and the clear. A success clears even where a newer
\* tombstone buries its reading.
FailureSlot(d, n) ==
    LET cleared == Most(n.success, n.rm)
    IN /\ d.failure = IF n.failure > cleared THEN n.failure ELSE None
       /\ d.clear = IF n.failure > cleared THEN None ELSE cleared

\* What a job has changed in its copy: the event it stands for.
Brings(op, at, s, dirty) ==
    /\ op = "success" =>
          /\ "entry" \in dirty /\ s.entry = at /\ s.removal = None
          /\ "failure" \in dirty <=> "clear" \in dirty
          /\ "clear" \in dirty => s.failure = None /\ s.clear = at
          /\ "clear" \notin dirty => s.failure > at
    /\ op = "failure" =>
          /\ dirty \cap {"entry", "removal"} = {}
          /\ "failure" \in dirty /\ s.failure = at /\ s.clear = None
    /\ op = "auth" =>
          /\ {"entry", "removal", "failure"} \subseteq dirty
          /\ s.entry = None /\ s.removal = at
          /\ s.failure = at /\ s.clear = None
    /\ op = "remove" =>
          /\ Parts \subseteq dirty
          /\ s.entry = None /\ s.failure = None /\ s.removal = at /\ s.clear = at

JobSlot(j) == job[j].view[job[j].key]

JobBrings ==
    \A j \in Jobs : pc[j] \in {"Save", "Locked"} =>
        Brings(job[j].op, job[j].at, JobSlot(j), job[j].dirty)

\* The failure a job saw when it loaded is no newer than the saved ones.
JobSaw ==
    ~damaged => \A j \in Jobs :
        \/ pc[j] = "Change"
        \/ pc[j] \in {"Save", "Locked"} /\ job[j].op = "success"
        => JobSlot(j).failure <= newest[job[j].key].failure

CacheInv ==
    /\ TypeOK
    /\ \A k \in Keys : EntrySlot(disk[k], newest[k])
    /\ ~damaged => \A k \in Keys : FailureSlot(disk[k], newest[k])
    /\ JobBrings
    /\ JobSaw

\* The newest events once the event of an operation is saved.
With(n, op, at) ==
    [success |-> IF op = "success" THEN Most(n.success, at) ELSE n.success,
     removal |-> IF op \in {"auth", "remove"} THEN Most(n.removal, at) ELSE n.removal,
     failure |-> IF op \in {"auth", "failure"} THEN Most(n.failure, at) ELSE n.failure,
     rm |-> IF op = "remove" THEN Most(n.rm, at) ELSE n.rm]

\* An operation leaves in the copy what it brings to the file.
LEMMA ChangeBrings ==
    ASSUME NEW s \in Slot, NEW at \in Time, NEW op \in Ops,
           Changed(op, s, at).dirty # {}
    PROVE  /\ Brings(op, at, Changed(op, s, at).slot, Changed(op, s, at).dirty)
           /\ op = "success" => Changed(op, s, at).slot.failure <= s.failure
<1>1. CASE op = "success"
  BY <1>1 DEF Changed, SetAt, Brings, Slot
<1>2. CASE op = "failure"
  BY <1>2 DEF Changed, RecordFailure, Brings, Slot
<1>3. CASE op = "auth"
  BY <1>3 DEF Changed, RecordFailure, Brings, Slot
<1>4. CASE op = "remove"
  BY <1>4 DEF Changed, Remove, Brings, Slot, Parts
<1> QED BY <1>1, <1>2, <1>3, <1>4 DEF Ops

\* merge_entry keeps the reading a function of the newest events.
LEMMA EntryMerged ==
    ASSUME NEW d \in Slot, NEW s \in Slot, NEW dirty \in SUBSET Parts, NEW n \in Newest,
           NEW op \in Ops, NEW at \in Time,
           Brings(op, at, s, dirty), EntrySlot(d, n)
    PROVE  EntrySlot(Merge(d, s, dirty), With(n, op, at))
<1> DEFINE e == IF dirty \cap {"entry", "removal"} # {}
                  THEN MergeEntry(d, s, dirty) ELSE d
<1>1. e \in Slot /\ EntrySlot(e, With(n, op, at))
  <2> DEFINE removal == Most(d.removal, Own(s, dirty, "removal"))
             entry == Survivor(d.entry, Own(s, dirty, "entry"), removal)
  <2>1. CASE op = "failure"
    BY <2>1 DEF Brings, EntrySlot, With, Slot, Newest
  <2>2. CASE op # "failure"
    <3>1. e = MergeEntry(d, s, dirty) BY <2>2 DEF Brings, Ops, Parts
    <3>2. /\ Own(s, dirty, "entry") = IF op = "success" THEN at ELSE None
          /\ Own(s, dirty, "removal") = IF op = "success" THEN None ELSE at
      BY <2>2 DEF Brings, Ops, Parts, Own
    <3>3. entry \in Nat /\ removal \in Nat
      BY <3>2 DEF Slot, Survivor, Most
    <3>4. /\ e \in Slot /\ e.entry = entry
          /\ e.removal = IF entry # None THEN None ELSE removal
      BY <3>1, <3>3 DEF MergeEntry, Slot
    <3>5. CASE op = "success"
      BY <3>2, <3>4, <3>5 DEF EntrySlot, With, Survivor, Most, Slot, Newest
    <3>6. CASE op # "success"
      <4>1. With(n, op, at).removal = Most(n.removal, at)
            /\ With(n, op, at).success = n.success
        BY <2>2, <3>6 DEF With, Ops
      <4> QED
        BY <3>2, <3>4, <3>6, <4>1 DEF EntrySlot, Survivor, Most, Slot, Newest
    <3> QED BY <3>5, <3>6
  <2> QED BY <2>1, <2>2
<1> HIDE DEF e
<1>2. MergeFailure(e, s, dirty).entry = e.entry
      /\ MergeFailure(e, s, dirty).removal = e.removal
  BY <1>1 DEF MergeFailure, Slot
<1>3. Merge(d, s, dirty) = e \/ Merge(d, s, dirty) = MergeFailure(e, s, dirty)
  BY DEF Merge, e
<1> QED BY <1>1, <1>2, <1>3 DEF EntrySlot

\* merge_failure keeps the failure one, too, if the job saw no newer failure
\* than the saved ones.
LEMMA FailureMerged ==
    ASSUME NEW d \in Slot, NEW s \in Slot, NEW dirty \in SUBSET Parts, NEW n \in Newest,
           NEW op \in Ops, NEW at \in Time,
           Brings(op, at, s, dirty), EntrySlot(d, n), FailureSlot(d, n),
           op = "success" => s.failure <= n.failure
    PROVE  FailureSlot(Merge(d, s, dirty), With(n, op, at))
<1> DEFINE e == IF dirty \cap {"entry", "removal"} # {}
                  THEN MergeEntry(d, s, dirty) ELSE d
<1>1. /\ e \in Slot /\ e.failure = d.failure /\ e.clear = d.clear
      /\ e.entry \in {None, With(n, op, at).success}
  <2>1. e \in Slot /\ e.failure = d.failure /\ e.clear = d.clear
    <3>1. e = d \/ e = MergeEntry(d, s, dirty) OBVIOUS
    <3>2. MergeEntry(d, s, dirty) \in Slot
          /\ MergeEntry(d, s, dirty).failure = d.failure
          /\ MergeEntry(d, s, dirty).clear = d.clear
      BY DEF MergeEntry, Own, Survivor, Most, Slot, Parts
    <3> QED BY <3>1, <3>2
  <2>2. EntrySlot(Merge(d, s, dirty), With(n, op, at)) BY EntryMerged
  <2>3. Merge(d, s, dirty).entry = e.entry
    BY <2>1 DEF Merge, MergeFailure, Slot
  <2> QED BY <2>1, <2>2, <2>3 DEF EntrySlot
<1>2. Merge(d, s, dirty) = IF dirty \cap {"failure", "clear"} # {}
                             THEN MergeFailure(e, s, dirty) ELSE e
  BY DEF Merge
<1> HIDE DEF e
<1>3. CASE op = "success" /\ "clear" \in dirty
  <2>1. Merge(d, s, dirty) = MergeFailure(e, s, dirty) BY <1>2, <1>3
  <2> QED BY <1>1, <1>3, <2>1
          DEF Brings, FailureSlot, With, MergeFailure, Own, Survivor, Most, Slot, Newest
<1>4. CASE op = "success" /\ "clear" \notin dirty
  <2>1. Merge(d, s, dirty) = e BY <1>2, <1>4 DEF Brings
  <2> QED BY <1>1, <1>4, <2>1 DEF Brings, FailureSlot, With, Most, Slot, Newest
<1>5. CASE op = "failure" \/ op = "auth"
  <2>1. Merge(d, s, dirty) = MergeFailure(e, s, dirty) BY <1>2, <1>5 DEF Brings
  <2> QED BY <1>1, <1>5, <2>1
          DEF Brings, FailureSlot, With, MergeFailure, Own, Survivor, Most, Slot, Newest
<1>6. CASE op = "remove"
  <2>1. Merge(d, s, dirty) = MergeFailure(e, s, dirty)
    BY <1>2, <1>6 DEF Brings, Parts
  <2> QED BY <1>1, <1>6, <2>1
          DEF Brings, FailureSlot, With, MergeFailure, Own, Survivor, Most, Slot, Newest,
              Parts
<1> QED BY <1>3, <1>4, <1>5, <1>6 DEF Ops
-----------------------------------------------------------------------------
LEMMA InitInv == Init => CacheInv
<1> SUFFICES ASSUME Init PROVE CacheInv OBVIOUS
<1>1. TypeOK BY InitType
<1>2. \A k \in Keys : EntrySlot(disk[k], newest[k]) /\ FailureSlot(disk[k], newest[k])
  BY DEF Init, EmptyFile, NothingSaved, Cleared, EntrySlot, FailureSlot, Most
<1>3. JobBrings /\ JobSaw BY DEF Init, JobBrings, JobSaw
<1> QED BY <1>1, <1>2, <1>3 DEF CacheInv

\* The failure in the file is no newer than the saved ones.
LEMMA FileShowsSaved ==
    ASSUME CacheInv, ~damaged, NEW k \in Keys
    PROVE  disk[k].failure <= newest[k].failure
<1>1. FailureSlot(disk[k], newest[k]) BY DEF CacheInv
<1>2. newest[k] \in Newest BY DEF CacheInv, TypeOK
<1> QED BY <1>1, <1>2 DEF FailureSlot, Newest, Most

\* A step that leaves the file, the events and all jobs but one alone, keeps
\* the invariant if it keeps what that job brings and saw.
LEMMA OneJobMoves ==
    ASSUME CacheInv, TypeOK', NEW j \in Jobs, UNCHANGED <<disk, newest, damaged>>,
           \A i \in Jobs \ {j} : pc'[i] = pc[i] /\ job'[i] = job[i],
           pc'[j] \in {"Save", "Locked"} =>
              Brings(job'[j].op, job'[j].at, JobSlot(j)', job'[j].dirty),
           ~damaged /\ (\/ pc'[j] = "Change"
                        \/ pc'[j] \in {"Save", "Locked"} /\ job'[j].op = "success")
              => JobSlot(j)'.failure <= newest[job'[j].key].failure
    PROVE  CacheInv'
<1>1. JobBrings'
  <2> SUFFICES ASSUME NEW i \in Jobs, pc'[i] \in {"Save", "Locked"}
               PROVE  Brings(job'[i].op, job'[i].at, JobSlot(i)', job'[i].dirty)
    BY DEF JobBrings
  <2>1. CASE i = j BY <2>1
  <2>2. CASE i # j BY <2>2 DEF CacheInv, JobBrings, JobSlot
  <2> QED BY <2>1, <2>2
<1>2. JobSaw'
  <2> SUFFICES ASSUME NEW i \in Jobs, ~damaged,
                      \/ pc'[i] = "Change"
                      \/ pc'[i] \in {"Save", "Locked"} /\ job'[i].op = "success"
               PROVE  JobSlot(i)'.failure <= newest[job'[i].key].failure
    BY DEF JobSaw
  <2>1. CASE i = j BY <2>1
  <2>2. CASE i # j BY <2>2 DEF CacheInv, JobSaw, JobSlot
  <2> QED BY <2>1, <2>2
<1> QED BY <1>1, <1>2 DEF CacheInv

LEMMA ChangeInv ==
    ASSUME CacheInv, TypeOK', NEW j \in Jobs, Change(j) PROVE CacheInv'
<1> DEFINE k == job[j].key
           at == IF job[j].op = "success" THEN job[j].at ELSE clock + 1
           c == Changed(job[j].op, job[j].view[k], at)
<1>1. job[j] \in Job BY DEF CacheInv, TypeOK
<1>2. /\ k \in Keys /\ at \in Nat /\ job[j].op \in Ops
      /\ job[j].view \in [Keys -> Slot]
  BY <1>1 DEF Job, CacheInv, TypeOK
<1>3. UNCHANGED <<disk, newest, damaged>> BY DEF Change
<1>4. \A i \in Jobs \ {j} : pc'[i] = pc[i] /\ job'[i] = job[i]
  BY DEF Change, Goto, CacheInv, TypeOK
<1>5. CASE c.dirty = {}
  <2>1. pc'[j] = "Idle" BY <1>5 DEF Change, Goto, CacheInv, TypeOK
  <2> QED BY <1>3, <1>4, <2>1, OneJobMoves
<1>6. CASE c.dirty # {}
  <2>1. pc[j] = "Change" /\ pc'[j] = "Save"
    BY <1>6 DEF Change, Goto, CacheInv, TypeOK
  <2>2. job'[j] = [NewJob(job[j].op, k, at, [job[j].view EXCEPT ![k] = c.slot])
                     EXCEPT !.dirty = c.dirty]
    BY <1>6 DEF Change, CacheInv, TypeOK
  <2>3. /\ job'[j].op = job[j].op /\ job'[j].key = k /\ job'[j].at = at
        /\ job'[j].dirty = c.dirty
        /\ job'[j].view = [job[j].view EXCEPT ![k] = c.slot]
    BY <2>2 DEF NewJob
  <2>4. JobSlot(j)' = c.slot BY <1>2, <2>3 DEF JobSlot
  <2>5. job[j].view[k] \in Slot BY <1>2
  <2> HIDE DEF at
  <2>6. /\ Brings(job[j].op, at, c.slot, c.dirty)
        /\ job[j].op = "success" => c.slot.failure <= job[j].view[k].failure
    BY <1>2, <1>6, <2>5, ChangeBrings
  <2>7. ~damaged => job[j].view[k].failure <= newest[k].failure
    BY <2>1 DEF CacheInv, JobSaw, JobSlot
  <2>8. c.slot.failure \in Nat /\ job[j].view[k].failure \in Nat
        /\ newest[k].failure \in Nat
    <3>1. c.slot \in Slot BY <1>2, <2>5, ChangedType
    <3> QED BY <1>2, <2>5, <3>1 DEF CacheInv, TypeOK, Slot, Newest
  <2>9. ~damaged /\ job[j].op = "success" => c.slot.failure <= newest[k].failure
    BY <2>6, <2>7, <2>8
  <2> HIDE DEF c, k
  <2> QED BY <1>3, <1>4, <2>1, <2>3, <2>4, <2>6, <2>9, OneJobMoves
<1> QED BY <1>5, <1>6

LEMMA CommitInv ==
    ASSUME CacheInv, TypeOK', NEW j \in Jobs, Commit(j) PROVE CacheInv'
<1> DEFINE e == job[j]
           k == job[j].key
           merged == Merge(disk[k], JobSlot(j), e.dirty)
           n == With(newest[k], e.op, e.at)
<1> USE DEF CacheInv
<1>1. e \in Job BY DEF TypeOK
<1>2. /\ k \in Keys /\ e.op \in Ops /\ e.at \in Nat /\ e.dirty \in SUBSET Parts
      /\ JobSlot(j) \in Slot /\ disk[k] \in Slot /\ newest[k] \in Newest
  BY <1>1 DEF Job, JobSlot, TypeOK
<1>3. pc[j] = "Locked" BY DEF Commit, Goto
<1>4. Brings(e.op, e.at, JobSlot(j), e.dirty) BY <1>3 DEF JobBrings
<1>5. disk' = [disk EXCEPT ![k] = merged] /\ newest' = [newest EXCEPT ![k] = n]
  BY DEF Commit, Saved, JobSlot, With
<1>6. UNCHANGED damaged BY DEF Commit
<1>7. EntrySlot(merged, n) BY <1>2, <1>4, EntryMerged
<1>8. ~damaged => FailureSlot(merged, n)
  <2>1. ~damaged /\ e.op = "success" => JobSlot(j).failure <= newest[k].failure
    BY <1>3 DEF JobSaw
  <2> QED BY <1>2, <1>4, <2>1, FailureMerged
<1>9. \A i \in Jobs \ {j} : pc'[i] = pc[i] /\ job'[i] = job[i]
  BY DEF Commit, Goto, TypeOK
<1>10. pc'[j] = "Idle" BY DEF Commit, Goto, TypeOK
<1>11. \A l \in Keys : newest[l].failure <= newest'[l].failure
  <2>1. newest[k].failure <= n.failure BY <1>2 DEF With, Most, Newest
  <2>2. \A l \in Keys : newest[l].failure \in Nat BY DEF TypeOK, Newest
  <2> HIDE DEF n, k
  <2> QED BY <1>2, <1>5, <2>1, <2>2 DEF TypeOK
<1> HIDE DEF merged, n, k, e
<1>12. \A l \in Keys : EntrySlot(disk'[l], newest'[l])
  BY <1>2, <1>5, <1>7 DEF TypeOK
<1>13. ~damaged => \A l \in Keys : FailureSlot(disk'[l], newest'[l])
  BY <1>2, <1>5, <1>8 DEF TypeOK
<1>14. JobBrings'
  <2> SUFFICES ASSUME NEW i \in Jobs, pc'[i] \in {"Save", "Locked"}
               PROVE  Brings(job'[i].op, job'[i].at, JobSlot(i)', job'[i].dirty)
    BY DEF JobBrings
  <2>1. i # j BY <1>10
  <2> QED BY <1>9, <2>1 DEF JobBrings, JobSlot
<1>15. JobSaw'
  <2> SUFFICES ASSUME NEW i \in Jobs, ~damaged,
                      \/ pc'[i] = "Change"
                      \/ pc'[i] \in {"Save", "Locked"} /\ job'[i].op = "success"
               PROVE  JobSlot(i)'.failure <= newest'[job'[i].key].failure
    BY <1>6 DEF JobSaw
  <2>1. i # j BY <1>10
  <2>2. JobSlot(i)' = JobSlot(i) /\ job'[i].key = job[i].key BY <1>9, <2>1 DEF JobSlot
  <2>3. JobSlot(i).failure <= newest[job[i].key].failure BY <1>9, <2>1 DEF JobSaw
  <2>4. job[i].key \in Keys /\ JobSlot(i).failure \in Nat
    <3>1. job[i] \in Job BY DEF TypeOK
    <3> QED BY <3>1 DEF JobSlot, Job, Slot
  <2>5. newest[job[i].key].failure \in Nat /\ newest'[job[i].key].failure \in Nat
    BY <2>4 DEF TypeOK, Newest
  <2> QED BY <1>11, <2>2, <2>3, <2>4, <2>5
<1> QED BY <1>6, <1>12, <1>13, <1>14, <1>15

LEMMA NextInv == CacheInv /\ [Next]_vars => CacheInv'
<1> SUFFICES ASSUME CacheInv, [Next]_vars PROVE CacheInv' OBVIOUS
<1>0. TypeOK /\ TypeOK' BY NextType DEF CacheInv
<1>1. CASE UNCHANGED vars
  <2>1. UNCHANGED <<disk, newest, damaged, pc, job>> BY <1>1 DEF vars
  <2>2. JobBrings' BY <2>1 DEF CacheInv, JobBrings, JobSlot
  <2>3. JobSaw' BY <2>1 DEF CacheInv, JobSaw, JobSlot
  <2> QED BY <1>0, <2>1, <2>2, <2>3 DEF CacheInv
<1>2. ASSUME NEW j \in Jobs, NEW k \in Keys, Observe(j, k) PROVE CacheInv'
  <2>1. pc'[j] = "Load" BY <1>0, <1>2 DEF Observe, Goto, TypeOK
  <2>2. \A i \in Jobs \ {j} : pc'[i] = pc[i] /\ job'[i] = job[i]
    BY <1>0, <1>2 DEF Observe, Goto, TypeOK
  <2>3. UNCHANGED <<disk, newest, damaged>> BY <1>2 DEF Observe
  <2> QED BY <1>0, <2>1, <2>2, <2>3, OneJobMoves
<1>3. ASSUME NEW j \in Jobs, NEW k \in Keys, NEW op \in Ops, Begin(j, k, op)
      PROVE  CacheInv'
  <2>1. pc'[j] = "Change" /\ job'[j] = NewJob(op, k, None, disk)
    BY <1>0, <1>3 DEF Begin, Goto, TypeOK
  <2>2. \A i \in Jobs \ {j} : pc'[i] = pc[i] /\ job'[i] = job[i]
    BY <1>0, <1>3 DEF Begin, Goto, TypeOK
  <2>3. UNCHANGED <<disk, newest, damaged>> BY <1>3 DEF Begin
  <2>4. JobSlot(j)' = disk[k] /\ job'[j].key = k BY <2>1 DEF JobSlot, NewJob
  <2>5. ~damaged => disk[k].failure <= newest[k].failure BY FileShowsSaved
  <2> QED BY <1>0, <2>1, <2>2, <2>3, <2>4, <2>5, OneJobMoves
<1>4. ASSUME NEW j \in Jobs, Load(j) PROVE CacheInv'
  <2>1. pc'[j] = "Change" /\ job'[j] = [job[j] EXCEPT !.view = disk]
    BY <1>0, <1>4 DEF Load, Goto, TypeOK
  <2>2. \A i \in Jobs \ {j} : pc'[i] = pc[i] /\ job'[i] = job[i]
    BY <1>0, <1>4 DEF Load, Goto, TypeOK
  <2>3. UNCHANGED <<disk, newest, damaged>> BY <1>4 DEF Load
  <2>4. job[j].key \in Keys /\ job'[j].key = job[j].key /\ job'[j].view = disk
    BY <1>0, <2>1 DEF TypeOK, Job
  <2>5. JobSlot(j)' = disk[job[j].key] BY <2>4 DEF JobSlot
  <2>6. ~damaged => disk[job[j].key].failure <= newest[job[j].key].failure
    BY <2>4, FileShowsSaved
  <2>7. ~damaged => JobSlot(j)'.failure <= newest[job'[j].key].failure
    BY <2>4, <2>5, <2>6
  <2>8. pc'[j] = "Change" BY <2>1
  <2> QED BY <1>0, <2>2, <2>3, <2>7, <2>8, OneJobMoves
<1>5. ASSUME NEW j \in Jobs, Change(j) PROVE CacheInv'
  BY <1>0, <1>5, ChangeInv
<1>6. ASSUME NEW j \in Jobs, TakeLock(j) PROVE CacheInv'
  <2>1. pc[j] = "Save" /\ pc'[j] = "Locked" /\ job' = job
    BY <1>0, <1>6 DEF TakeLock, Goto, TypeOK
  <2>2. \A i \in Jobs \ {j} : pc'[i] = pc[i] /\ job'[i] = job[i]
    BY <1>0, <1>6 DEF TakeLock, Goto, TypeOK
  <2>3. UNCHANGED <<disk, newest, damaged>> BY <1>6 DEF TakeLock
  <2>4. JobSlot(j)' = JobSlot(j) BY <2>1 DEF JobSlot
  <2>5. Brings(job[j].op, job[j].at, JobSlot(j), job[j].dirty)
    BY <2>1 DEF CacheInv, JobBrings
  <2>6. ~damaged /\ job[j].op = "success"
          => JobSlot(j).failure <= newest[job[j].key].failure
    BY <2>1 DEF CacheInv, JobSaw
  <2> QED BY <1>0, <2>1, <2>2, <2>3, <2>4, <2>5, <2>6, OneJobMoves
<1>7. ASSUME NEW j \in Jobs, Commit(j) PROVE CacheInv'
  BY <1>0, <1>7, CommitInv
<1>8. ASSUME NEW j \in Jobs, Abort(j) PROVE CacheInv'
  <2>1. pc'[j] = "Idle" BY <1>0, <1>8 DEF Abort, TypeOK
  <2>2. \A i \in Jobs \ {j} : pc'[i] = pc[i] /\ job'[i] = job[i]
    BY <1>0, <1>8 DEF Abort, TypeOK
  <2>3. UNCHANGED <<disk, newest, damaged>> BY <1>8 DEF Abort
  <2> QED BY <1>0, <2>1, <2>2, <2>3, OneJobMoves
<1>9. CASE Damage
  <2>1. \A k \in Keys : EntrySlot(disk'[k], newest'[k])
    BY <1>9 DEF Damage, EmptyFile, NothingSaved, Cleared, EntrySlot
  <2>2. damaged' /\ pc' = pc /\ job' = job BY <1>9 DEF Damage
  <2>3. JobBrings' BY <2>2 DEF CacheInv, JobBrings, JobSlot
  <2> QED BY <1>0, <2>1, <2>2, <2>3 DEF CacheInv, JobSaw
<1> QED BY <1>1, <1>2, <1>3, <1>4, <1>5, <1>6, <1>7, <1>8, <1>9 DEF Next

LEMMA InvAlways == Spec => []CacheInv
<1>1. Init => CacheInv BY InitInv
<1>2. CacheInv /\ [Next]_vars => CacheInv' BY NextInv
<1> QED BY <1>1, <1>2, PTL DEF Spec

\* Whatever order jobs load and save in, and whatever is lost in between, the
\* cache shows the newest saved reading of each account, unless a newer removal
\* or authentication failure was saved: save's merge loses no update and
\* resurrects nothing.
THEOREM ReadingsAreNewest == Spec => []NewestReading
<1>1. CacheInv => NewestReading BY DEF CacheInv, EntrySlot, NewestReading
<1> QED BY <1>1, InvAlways, PTL

\* As long as the file was not lost, the cache shows the newest saved failure,
\* unless a newer success or removal was saved: a backoff that has been cleared
\* stays cleared, and one that is due is not forgotten.
THEOREM FailuresAreNewest == Spec => []NewestFailure
<1>1. CacheInv => NewestFailure BY DEF CacheInv, FailureSlot, NewestFailure
<1> QED BY <1>1, InvAlways, PTL
=============================================================================
