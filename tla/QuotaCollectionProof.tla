------------------------ MODULE QuotaCollectionProof ------------------------
(* What TLAPS proves about the quota collector, for any processes, accounts, *)
(* limits and bounds.                                                        *)
EXTENDS QuotaCollection, FiniteSetTheorems, TLAPS

USE ConstantsAssumption DEF Time, Never, Empty

\* The initial coordination record and cache entry are well formed.
LEMMA EmptyFilesType == Missing \in Record /\ Unreadable \in Record /\ NoEntry \in CacheEntry
BY DEF Missing, Unreadable, NewRecord, Record, States, NoEntry, CacheEntry

\* The delay after a failure is a number, and never below the refresh interval.
LEMMA DelayAtLeastRefresh ==
    ASSUME NEW n \in Nat, NEW auth \in BOOLEAN
    PROVE  FailureDelay(n, auth) \in Nat /\ FailureDelay(n, auth) >= MinRefresh
<1>1. Shift(n) \in 0..16 BY DEF Shift
<1>2. Doubling[Shift(n) + 1] \in Nat /\ Doubling[Shift(n) + 1] >= 1
  BY <1>1 DEF Doubling
<1>3. MinRefresh * Doubling[Shift(n) + 1] \in Nat
      /\ MinRefresh * Doubling[Shift(n) + 1] >= MinRefresh
  <2> DEFINE d == Doubling[Shift(n) + 1]
  <2> HIDE DEF d
  <2>1. d \in Nat /\ d >= 1 BY <1>2 DEF d
  <2>2. MinRefresh * d \in Nat /\ MinRefresh * d >= MinRefresh BY <2>1
  <2> QED BY <2>2 DEF d
<1> QED BY <1>3 DEF FailureDelay, Backoff, Least, Most

-----------------------------------------------------------------------------
(* Type correctness                                                          *)

\* Every answer, and every call that has just begun or ended, is well formed.
LEMMA CallTypes ==
    /\ \A at, exp \in Nat : Reading(at, exp) \in Answer /\ Reused(at, exp) \in Answer
    /\ NoAnswer \in Answer /\ Failed \in Answer
    /\ \A a \in Accounts, t \in Nat, ans \in Answer :
          NewCall(a, t, ans) \in Call
<1>1. Retries \in Nat OBVIOUS
<1>2. Missing \in Record BY EmptyFilesType
<1>3. NoAnswer \in Answer /\ Failed \in Answer BY DEF NoAnswer, Failed, Answer
<1> QED BY <1>1, <1>2, <1>3 DEF Reading, Reused, NoAnswer, Answer, NewCall, Call

\* The answer a record gives is well formed.
LEMMA RecordAnswerType ==
    ASSUME NEW r \in Record PROVE RecordAnswer(r) \in Answer
BY CallTypes DEF RecordAnswer, Record

\* What a call stores in the cache is well formed.
LEMMA CacheTypes ==
    ASSUME NEW c \in CacheEntry, now \in Nat
    PROVE  /\ \A at, exp \in Nat : CacheSet(c, at, exp) \in CacheEntry
           /\ \A auth \in BOOLEAN : CacheFail(c, auth) \in CacheEntry
           /\ CacheRemove \in CacheEntry
<1>1. ASSUME NEW at \in Nat, NEW exp \in Nat PROVE CacheSet(c, at, exp) \in CacheEntry
  BY EmptyFilesType DEF CacheSet, CacheEntry
<1>2. ASSUME NEW auth \in BOOLEAN PROVE CacheFail(c, auth) \in CacheEntry
  <2> DEFINE f == [c EXCEPT !.failed_at = now, !.auth = auth,
                            !.consecutive = c.consecutive + 1]
  <2>0. f = [[[c EXCEPT !.failed_at = now] EXCEPT !.auth = auth]
                EXCEPT !.consecutive = c.consecutive + 1]
    OBVIOUS
  <2>a. [c EXCEPT !.failed_at = now] \in CacheEntry BY DEF CacheEntry
  <2>b. [[c EXCEPT !.failed_at = now] EXCEPT !.auth = auth] \in CacheEntry
    BY <2>a DEF CacheEntry
  <2>1. f \in CacheEntry
    <3> DEFINE g == [[c EXCEPT !.failed_at = now] EXCEPT !.auth = auth]
    <3> HIDE DEF f, g
    <3>1. c.consecutive + 1 \in Nat BY DEF CacheEntry
    <3>2. g \in CacheEntry BY <2>b DEF g
    <3>3. [g EXCEPT !.consecutive = c.consecutive + 1] \in CacheEntry
      BY <3>1, <3>2 DEF CacheEntry
    <3> QED BY <3>3, <2>0 DEF g
  <2>2. [f EXCEPT !.cached_at = Never, !.expires = Empty, !.removed_at = now]
           \in CacheEntry
    BY <2>1 DEF CacheEntry
  <2> QED BY <2>1, <2>2 DEF CacheFail
<1>3. CacheRemove \in CacheEntry BY EmptyFilesType DEF CacheRemove, CacheEntry
<1> QED BY <1>1, <1>2, <1>3

\* The program starts well typed.
LEMMA InitType == Init => TypeOK
<1> SUFFICES ASSUME Init PROVE TypeOK OBVIOUS
<1>1. (CHOOSE a \in Accounts : TRUE) \in Accounts OBVIOUS
<1>2. call \in [Procs -> Call] BY <1>1, CallTypes DEF Init, Quiet
<1>3. record \in [Accounts -> Record] /\ cache \in [Accounts -> CacheEntry]
  BY EmptyFilesType DEF Init, Quiet
<1> QED BY <1>2, <1>3 DEF Init, Quiet, TypeOK, PCs

\* Returning keeps the calls well formed.
LEMMA ReturnType ==
    ASSUME TypeOK, NEW p \in Procs, NEW ans \in Answer, Return(p, ans)
    PROVE  call' \in [Procs -> Call]
<1>1. call[p] \in Call BY DEF TypeOK
<1>2. call[p].acct \in Accounts /\ call[p].since \in Nat BY <1>1 DEF Call
<1>3. NewCall(call[p].acct, call[p].since, ans) \in Call
  BY <1>2, CallTypes
<1> QED BY <1>3 DEF Return, TypeOK

\* Writing the draft keeps the disk and the history well formed.
LEMMA WriteType ==
    ASSUME TypeOK, NEW p \in Procs, Write(p)
    PROVE  /\ record' \in [Accounts -> Record]
           /\ notBefore' \in [Accounts -> Nat]
<1>1. call[p] \in Call BY DEF TypeOK
<1>2. call[p].acct \in Accounts /\ call[p].draft \in Record /\ call[p].owed \in Nat
  BY <1>1 DEF Call
<1>3. call[p].draft.next \in Nat BY <1>2 DEF Record
<1> QED BY <1>2, <1>3 DEF Write, TypeOK, Most

\* Each step of a process keeps the types.
LEMMA AdvanceType ==
    ASSUME TypeOK, NEW p \in Procs, Advance(p) PROVE TypeOK'
<1> DEFINE a == call[p].acct
<1> USE DEF disk, slots, history, bounds, PCs, Holding
<1>0. /\ call[p] \in Call /\ a \in Accounts /\ call[p].draft \in Record
      /\ record[a] \in Record /\ cache[a] \in CacheEntry /\ call[p].since \in Nat
  BY DEF TypeOK, Call
<1>1. CASE TakeLock(p) \/ WaitTakeover(p) \/ RmTakeLock(p)
  BY <1>0, <1>1 DEF TypeOK, TakeLock, WaitTakeover, RmTakeLock, Goto, Acquire
<1>2. CASE JoinHolder(p)
  <2>1. call' \in [Procs -> Call] BY <1>0, <1>2 DEF JoinHolder, TypeOK, Call
  <2> QED BY <2>1, <1>2 DEF JoinHolder, TypeOK, Goto
<1>3. CASE GiveUp(p) \/ WaitReadConclusive(p)
  <2>1. Failed \in Answer /\ RecordAnswer(record[a]) \in Answer
    BY <1>0, CallTypes, RecordAnswerType
  <2>2. call' \in [Procs -> Call]
    BY <2>1, <1>3, ReturnType DEF GiveUp, WaitReadConclusive
  <2> QED BY <2>2, <1>3 DEF GiveUp, WaitReadConclusive, TypeOK, Goto
<1>4. CASE WaitReadPending(p) \/ WaitAgain(p) \/ SlotAgain(p) \/ GlobalFull(p)
  BY <1>4 DEF TypeOK, WaitReadPending, WaitAgain, SlotAgain, GlobalFull, Goto
<1>5. CASE Handover(p)
  <2> DEFINE c == [call[p] EXCEPT !.attempt = 1, !.deadline = Never]
             g == [call[p] EXCEPT !.attempt = 1]
  <2>0. c = [g EXCEPT !.deadline = Never] OBVIOUS
  <2>a. g \in Call BY <1>0 DEF Call
  <2> HIDE DEF c, g
  <2>1. c \in Call BY <2>0, <2>a DEF Call
  <2>2. call' = [call EXCEPT ![p] = c] BY <1>5 DEF Handover, c
  <2>3. call' \in [Procs -> Call] BY <2>1, <2>2 DEF TypeOK
  <2> QED BY <2>3, <1>0, <1>5 DEF Handover, TypeOK, Goto, Release
<1>6. CASE WaitTimeout(p)
  <2> DEFINE c == cache[a]
             ans == IF Fresh(c) THEN Reused(c.cached_at, c.expires) ELSE Failed
  <2>1. ans \in Answer BY <1>0, CallTypes DEF CacheEntry
  <2>2. call' \in [Procs -> Call] BY <2>1, <1>6, ReturnType DEF WaitTimeout
  <2> QED BY <2>2, <1>6 DEF WaitTimeout, TypeOK, Goto
<1>7. CASE HeldAnswer(p)
  <2>1. call' \in [Procs -> Call]
    BY <1>0, <1>7, ReturnType, RecordAnswerType DEF HeldAnswer
  <2> QED BY <2>1, <1>0, <1>7 DEF HeldAnswer, TypeOK, Goto, Release
<1>8. CASE HeldReserve(p)
  <2> DEFINE d == NewRecord("Pending", Never, now + MinRefresh, record[a].failures, Empty)
  <2>1. d \in Record BY <1>0 DEF NewRecord, Record, States, TypeOK
  <2> HIDE DEF d
  <2>2. call' = [call EXCEPT ![p].draft = d] BY <1>8 DEF HeldReserve, d
  <2>3. call' \in [Procs -> Call] BY <2>1, <2>2, <1>0 DEF TypeOK, Call
  <2> QED BY <2>3, <1>8 DEF HeldReserve, TypeOK, Goto
<1>9. CASE ReserveLands(p)
  <2>1. call' \in [Procs -> Call] BY <1>0, <1>9 DEF ReserveLands, TypeOK, Call
  <2> QED BY <2>1, <1>9, WriteType DEF ReserveLands, Write, TypeOK, Goto
<1>10. CASE TakeGlobal(p) \/ TakeProvider(p)
  BY <1>10 DEF TakeGlobal, TakeProvider, TypeOK, Goto
<1>11. CASE ProviderFull(p)
  BY <1>11 DEF ProviderFull, FreeSlots, TypeOK, Goto
<1>12. CASE SlotTimeout(p)
  <2>1. [call[p].draft EXCEPT !.state = "Deferred"] \in Record
    BY <1>0 DEF Record, States
  <2>2. call' \in [Procs -> Call]
    BY <2>1, <1>0, <1>12 DEF SlotTimeout, TypeOK, Call
  <2> QED BY <2>2, <1>12 DEF SlotTimeout, TypeOK, Goto
<1>13. CASE DeferLands(p)
  <2>1. call' \in [Procs -> Call] BY <1>13, CallTypes, ReturnType DEF DeferLands
  <2> QED BY <2>1, <1>0, <1>13, WriteType DEF DeferLands, Write, TypeOK, Goto, Release
<1>14. ASSUME NEW life \in Lifetimes, QuerySucceeds(p, life) PROVE TypeOK'
  <2> DEFINE exp == IF life = 0 THEN Empty ELSE now + life
             d == NewRecord("Success", now, now + MinRefresh, 0, exp)
  <2>1. exp \in Nat /\ now \in Nat BY DEF TypeOK
  <2> HIDE DEF exp
  <2>2. d \in Record BY <2>1 DEF NewRecord, Record, States
  <2> HIDE DEF d
  <2>3. /\ call' = [call EXCEPT ![p].draft = d]
        /\ observed' = [observed EXCEPT ![a] = @ \cup {<<now, exp>>}]
    BY <1>14 DEF QuerySucceeds, d, exp
  <2>4. call' \in [Procs -> Call] BY <2>2, <2>3, <1>0 DEF TypeOK, Call
  <2>5. observed' \in [Accounts -> SUBSET (Time \X Time)]
    BY <2>1, <2>3, <1>0 DEF TypeOK
  <2> QED BY <2>4, <2>5, <1>14 DEF QuerySucceeds, FreeSlots, TypeOK, Goto
<1>15. ASSUME NEW auth \in BOOLEAN, NEW d \in RetryAfters, QueryFails(p, auth, d)
       PROVE  TypeOK'
  <2> DEFINE n == call[p].draft.failures + 1
             t == now + Most(FailureDelay(n, auth), d)
             r == NewRecord("Failure", Never, t, n, Empty)
  <2>1. n \in Nat BY <1>0 DEF Record
  <2> HIDE DEF n
  <2>2. t \in Nat BY <2>1, DelayAtLeastRefresh DEF Most, TypeOK
  <2> HIDE DEF t
  <2>3. r \in Record BY <2>1, <2>2 DEF NewRecord, Record, States
  <2> HIDE DEF r
  <2> DEFINE c == [call[p] EXCEPT !.draft = r, !.denied = auth, !.owed = now + d]
             g == [[call[p] EXCEPT !.draft = r] EXCEPT !.denied = auth]
  <2>a. c = [g EXCEPT !.owed = now + d] OBVIOUS
  <2>b. g \in Call BY <2>3, <1>0 DEF Call
  <2> HIDE DEF c, g
  <2>4. c \in Call BY <2>a, <2>b DEF Call, TypeOK
  <2>c. call' = [call EXCEPT ![p] = c] BY <1>15 DEF QueryFails, n, t, r, c
  <2>5. call' \in [Procs -> Call] BY <2>4, <2>c DEF TypeOK
  <2> QED BY <2>5, <1>15 DEF QueryFails, FreeSlots, TypeOK, Goto
<1>16. CASE SaveLands(p)
  BY <1>16, WriteType DEF SaveLands, Write, TypeOK, Goto
<1>17. CASE Persist(p)
  <2> DEFINE r == call[p].draft
             ans == IF r.state = "Success" THEN Reading(r.observed_at, r.expires)
                                           ELSE Failed
             c == IF r.state = "Success"
                    THEN CacheSet(cache[a], r.observed_at, r.expires)
                    ELSE CacheFail(cache[a], call[p].denied)
  <2>1. r.observed_at \in Nat /\ r.expires \in Nat /\ call[p].denied \in BOOLEAN
        /\ now \in Nat
    BY <1>0 DEF Record, Call, TypeOK
  <2>2. ans \in Answer BY <2>1, CallTypes
  <2>3. c \in CacheEntry BY <2>1, <1>0, CacheTypes
  <2> HIDE DEF ans, c
  <2>4. Return(p, ans) /\ cache' = [cache EXCEPT ![a] = c]
    BY <1>17 DEF Persist, ans, c
  <2>5. call' \in [Procs -> Call] BY <2>2, <2>4, ReturnType
  <2>6. cache' \in [Accounts -> CacheEntry] BY <2>3, <2>4, <1>0 DEF TypeOK
  <2> QED BY <2>5, <2>6, <1>0, <1>17 DEF Persist, Release, TypeOK, Goto
<1>18. CASE RmRecord(p)
  <2> DEFINE known == Readable(record[a])
             floor == IF known THEN Most(record[a].next, now) ELSE now
             r == NewRecord("Removed", Never, floor, 0, Empty)
  <2>1. floor \in Nat BY <1>0 DEF Most, Record, TypeOK
  <2> HIDE DEF floor
  <2>2. r \in Record BY <2>1 DEF NewRecord, Record, States
  <2> HIDE DEF r
  <2>3. /\ record' = [record EXCEPT ![a] = r]
        /\ notBefore' = [notBefore EXCEPT ![a] = IF known THEN @ ELSE floor]
    BY <1>18 DEF RmRecord, r, floor
  <2>4. record' \in [Accounts -> Record] /\ notBefore' \in [Accounts -> Time]
    BY <2>1, <2>2, <2>3, <1>0 DEF TypeOK
  <2> QED BY <2>4, <1>18 DEF RmRecord, TypeOK, Goto
<1>19. CASE RmCache(p)
  <2>1. cache' \in [Accounts -> CacheEntry]
    BY <1>0, <1>19, CacheTypes DEF RmCache, TypeOK
  <2>2. removedAt' \in [Accounts -> Time] BY <1>0, <1>19 DEF RmCache, TypeOK
  <2> QED BY <2>1, <2>2, <1>0, <1>19 DEF RmCache, Release, TypeOK, Goto
<1> QED
  BY <1>1, <1>2, <1>3, <1>4, <1>5, <1>6, <1>7, <1>8, <1>9, <1>10, <1>11, <1>12,
     <1>13, <1>14, <1>15, <1>16, <1>17, <1>18, <1>19 DEF Advance

\* So do the calls that begin, the faults, and the environment.
LEMMA NextType == TypeOK /\ [Next]_vars => TypeOK'
<1> SUFFICES ASSUME TypeOK, [Next]_vars PROVE TypeOK' OBVIOUS
<1> USE DEF disk, slots, history, bounds, PCs, Holding
<1>1. ASSUME NEW p \in Procs, Advance(p) PROVE TypeOK' BY <1>1, AdvanceType
<1>2. ASSUME NEW p \in Procs, QueryAgain(p) PROVE TypeOK'
  <2>1. call[p] \in Call /\ call[p].tries + 1 \in 0..Retries
    BY <1>2 DEF QueryAgain, TypeOK, Call
  <2>2. call' \in [Procs -> Call] BY <2>1, <1>2 DEF QueryAgain, TypeOK, Call
  <2> QED BY <2>2, <1>2 DEF QueryAgain, TypeOK
<1>3. ASSUME NEW p \in Procs, NEW a \in Accounts, NEW to \in PCs, NEW ans \in Answer,
             Begin(p, a, to, ans)
      PROVE  TypeOK'
  <2>1. removedAt[a] \in Nat BY DEF TypeOK
  <2>2. NewCall(a, removedAt[a], ans) \in Call BY <2>1, CallTypes
  <2>3. call' \in [Procs -> Call] BY <2>2, <1>3 DEF Begin, TypeOK
  <2>4. calls' \in [Procs -> Nat] BY <1>3 DEF Begin, TypeOK
  <2> QED BY <2>3, <2>4, <1>3 DEF Begin, TypeOK, Goto
<1>4. ASSUME NEW p \in Procs, NEW a \in Accounts, Start(p, a) PROVE TypeOK'
  <2>1. cache[a] \in CacheEntry BY DEF TypeOK
  <2>2. Reused(cache[a].cached_at, cache[a].expires) \in Answer
    BY <2>1, CallTypes DEF CacheEntry
  <2> QED BY <2>2, <1>3, <1>4, CallTypes
          DEF Start, CacheHit, CacheBackoff, CacheMiss, RmBegin
<1>5. ASSUME NEW p \in Procs, Stop(p), late' \subseteq (Accounts \X Record) PROVE TypeOK'
  <2>1. call[p].acct \in Accounts BY DEF TypeOK, Call
  <2>2. call' \in [Procs -> Call] BY <1>5, CallTypes, ReturnType DEF Stop
  <2> QED BY <2>1, <2>2, <1>5 DEF Stop, Fault, FreeSlots, Release, TypeOK, Goto
<1>6. ASSUME NEW p \in Procs, Break(p) PROVE TypeOK'
  <2>1. call[p] \in Call /\ call[p].acct \in Accounts /\ call[p].draft \in Record
    BY DEF TypeOK, Call
  <2>2. CASE ReserveFails(p)
    <3>1. call' \in [Procs -> Call] BY <2>2, CallTypes, ReturnType DEF ReserveFails
    <3> QED BY <3>1, <2>1, <2>2 DEF ReserveFails, Fault, Release, TypeOK, Goto
  <2>3. CASE SaveFails(p) \/ RmRecordFails(p)
    BY <2>3 DEF SaveFails, RmRecordFails, Fault, TypeOK, Goto
  <2>6. CASE PersistFails(p)
    <3>1. call[p].draft.observed_at \in Nat /\ call[p].draft.expires \in Nat
      BY <2>1 DEF Record
    <3>2. call' \in [Procs -> Call]
      BY <3>1, <2>6, CallTypes, ReturnType DEF PersistFails
    <3> QED BY <3>2, <2>1, <2>6 DEF PersistFails, Fault, Release, TypeOK, Goto
  <2>7. CASE RmCacheFails(p)
    BY <2>1, <2>7 DEF RmCacheFails, Fault, Release, TypeOK, Goto
  <2>4. CASE Kill(p) BY <2>4, <1>5 DEF Kill, TypeOK
  <2>5. CASE Drop(p)
    <3>1. <<call[p].acct, call[p].draft>> \in Accounts \X Record BY <2>1
    <3>2. late' \subseteq (Accounts \X Record) BY <3>1, <2>5 DEF Drop, TypeOK
    <3> QED BY <3>2, <2>5, <1>5 DEF Drop
  <2> QED BY <2>2, <2>3, <2>4, <2>5, <2>6, <2>7, <1>6 DEF Break
<1>7. ASSUME NEW w \in late, LateWrite(w) PROVE TypeOK'
  <2>1. w \in Accounts \X Record BY DEF TypeOK
  <2>2. w[1] \in Accounts /\ w[2] \in Record /\ w[2].next \in Nat BY <2>1 DEF Record
  <2>3. record' \in [Accounts -> Record] /\ notBefore' \in [Accounts -> Nat]
    BY <2>2, <1>7 DEF LateWrite, Most, TypeOK
  <2> QED BY <2>3, <1>7 DEF LateWrite, TypeOK
<1>8. ASSUME NEW a \in Accounts, Damage(a) PROVE TypeOK'
  BY <1>8, EmptyFilesType DEF Damage, Fault, TypeOK
<1>9. CASE Tick BY <1>9 DEF Tick, TypeOK
<1>10. CASE UNCHANGED vars BY <1>10 DEF vars, TypeOK
<1> QED BY <1>1, <1>2, <1>4, <1>6, <1>7, <1>8, <1>9, <1>10 DEF Next

\* The collector's files and locals always have the shape the code gives them;
\* in particular a collection repeats its request at most Retries times.
THEOREM TypeCorrect == Spec => []TypeOK
<1>1. Init => TypeOK BY InitType
<1>2. TypeOK /\ [Next]_vars => TypeOK' BY NextType
<1> QED BY <1>1, <1>2, PTL DEF Spec

-----------------------------------------------------------------------------
(* The flock of an account keeps its collectors apart                        *)

\* A process that is between taking and releasing the flock is its holder.
LockInv == \A p \in Procs : pc[p] \in Holding => lock[call[p].acct] = p

\* Ending a call keeps its account.
LEMMA ReturnKeepsAccount ==
    ASSUME TypeOK, NEW p \in Procs, NEW ans, Return(p, ans)
    PROVE  /\ call'[p].acct = call[p].acct
           /\ \A q \in Procs : q # p => call'[q] = call[q]
BY DEF Return, NewCall, TypeOK

\* A step that leaves every flock alone and does not bring its process between
\* taking and releasing one.
LEMMA QuietLock ==
    ASSUME LockInv, NEW p \in Procs, UNCHANGED lock,
           pc'[p] \in Holding => pc[p] \in Holding,
           pc[p] \in Holding => call'[p].acct = call[p].acct,
           \A q \in Procs : q # p => pc'[q] = pc[q] /\ call'[q].acct = call[q].acct
    PROVE  LockInv'
BY DEF LockInv

\* The holder of a flock releases it.
LEMMA ReleaseLock ==
    ASSUME TypeOK, LockInv, NEW p \in Procs, pc[p] \in Holding, Release(p),
           pc'[p] \notin Holding,
           \A q \in Procs : q # p => pc'[q] = pc[q] /\ call'[q].acct = call[q].acct
    PROVE  LockInv'
<1>1. \A q \in Procs : call[q].acct \in Accounts BY DEF TypeOK, Call
<1> QED BY <1>1 DEF LockInv, Release, TypeOK

\* A free flock is taken.
LEMMA AcquireLock ==
    ASSUME TypeOK, LockInv, NEW p \in Procs, Acquire(p), UNCHANGED call,
           \A q \in Procs : q # p => pc'[q] = pc[q]
    PROVE  LockInv'
<1>1. \A q \in Procs : call[q].acct \in Accounts BY DEF TypeOK, Call
<1>2. NoProc \notin Procs OBVIOUS
<1> QED BY <1>1, <1>2 DEF LockInv, Acquire, Locked, TypeOK

\* Every step of the system keeps LockInv.
LEMMA LockStep == TypeOK /\ LockInv /\ [Next]_vars => LockInv'
<1> SUFFICES ASSUME TypeOK, LockInv, [Next]_vars PROVE LockInv' OBVIOUS
<1> USE DEF Holding
<1>1. ASSUME NEW p \in Procs, Advance(p) PROVE LockInv'
  <2>1. CASE TakeLock(p) \/ WaitTakeover(p) \/ RmTakeLock(p)
    BY <2>1, AcquireLock DEF TakeLock, WaitTakeover, RmTakeLock, Goto, TypeOK
  <2>2. CASE GiveUp(p) \/ WaitReadConclusive(p) \/ WaitTimeout(p)
    BY <2>2, QuietLock, ReturnKeepsAccount
       DEF GiveUp, WaitReadConclusive, WaitTimeout, Goto, TypeOK
  <2>3. CASE WaitReadPending(p) \/ WaitAgain(p) \/ SlotAgain(p) \/ GlobalFull(p)
             \/ TakeGlobal(p) \/ TakeProvider(p) \/ ProviderFull(p) \/ SaveLands(p)
             \/ RmRecord(p)
    BY <2>3, QuietLock DEF WaitReadPending, WaitAgain, SlotAgain, GlobalFull,
       TakeGlobal, TakeProvider, ProviderFull, SaveLands, RmRecord, Goto, TypeOK
  <2>4. CASE JoinHolder(p) \/ HeldReserve(p) \/ ReserveLands(p) \/ SlotTimeout(p)
    BY <2>4, QuietLock
       DEF JoinHolder, HeldReserve, ReserveLands, SlotTimeout, Goto, TypeOK, Call
  <2>5. ASSUME NEW life \in Lifetimes, QuerySucceeds(p, life) PROVE LockInv'
    BY <2>5, QuietLock DEF QuerySucceeds, Goto, TypeOK, Call
  <2>6. ASSUME NEW auth \in BOOLEAN, NEW d \in RetryAfters, QueryFails(p, auth, d)
        PROVE  LockInv'
    <3>1. PICK r \in Record, b \in BOOLEAN, t \in Nat :
             call' = [call EXCEPT ![p] = [@ EXCEPT !.draft = r, !.denied = b, !.owed = t]]
      <4>1. call[p].draft.failures + 1 \in Nat BY DEF TypeOK, Call, Record
      <4>2. now + Most(FailureDelay(call[p].draft.failures + 1, auth), d) \in Nat
        BY <4>1, DelayAtLeastRefresh DEF Most, TypeOK
      <4>3. NewRecord("Failure", Never,
               now + Most(FailureDelay(call[p].draft.failures + 1, auth), d),
               call[p].draft.failures + 1, Empty) \in Record
        BY <4>1, <4>2 DEF NewRecord, Record, States
      <4>4. now + d \in Nat BY DEF TypeOK
      <4> QED BY <4>3, <4>4, <2>6 DEF QueryFails
    <3>2. call'[p].acct = call[p].acct BY <3>1 DEF TypeOK, Call
    <3>3. \A q \in Procs : q # p => call'[q] = call[q] BY <3>1 DEF TypeOK
    <3> QED BY <3>2, <3>3, <2>6, QuietLock DEF QueryFails, Goto, TypeOK
  <2>7. CASE Handover(p)
    <3>1. \A q \in Procs : q # p => call'[q] = call[q] BY <2>7 DEF Handover, TypeOK
    <3> QED BY <3>1, <2>7, ReleaseLock DEF Handover, Goto, TypeOK
  <2>8. CASE HeldAnswer(p) \/ DeferLands(p) \/ Persist(p)
    BY <2>8, ReleaseLock, ReturnKeepsAccount
       DEF HeldAnswer, DeferLands, Persist, Goto, TypeOK
  <2>9. CASE RmCache(p) BY <2>9, ReleaseLock DEF RmCache, Goto, TypeOK
  <2> QED BY <1>1, <2>1, <2>2, <2>3, <2>4, <2>5, <2>6, <2>7, <2>8, <2>9 DEF Advance
<1>2. ASSUME NEW p \in Procs, QueryAgain(p) PROVE LockInv'
  BY <1>2, QuietLock DEF QueryAgain, TypeOK, Call
<1>3. ASSUME NEW p \in Procs, NEW a \in Accounts, Start(p, a) PROVE LockInv'
  <2>1. PICK to \in {"Idle", "TryLock", "RmLock"}, ans \in Answer : Begin(p, a, to, ans)
    <3>1. cache[a] \in CacheEntry BY DEF TypeOK
    <3>2. Reused(cache[a].cached_at, cache[a].expires) \in Answer
      BY <3>1, CallTypes DEF CacheEntry
    <3> QED BY <3>2, <1>3, CallTypes
            DEF Start, CacheHit, CacheBackoff, CacheMiss, RmBegin
  <2>2. pc[p] \notin Holding /\ pc'[p] \notin Holding /\ UNCHANGED lock
        /\ \A q \in Procs : q # p => pc'[q] = pc[q] /\ call'[q] = call[q]
    BY <2>1 DEF Begin, Goto, TypeOK
  <2> QED BY <2>2 DEF LockInv
<1>4. ASSUME NEW p \in Procs, Stop(p) PROVE LockInv'
  <2>1. \A q \in Procs : q # p => pc'[q] = pc[q] /\ call'[q] = call[q]
    BY <1>4, ReturnKeepsAccount DEF Stop, Goto, TypeOK
  <2>2. pc'[p] = "Idle" BY <1>4 DEF Stop, Goto, TypeOK
  <2>3. CASE pc[p] \in Holding BY <2>1, <2>2, <2>3, <1>4, ReleaseLock DEF Stop
  <2>4. CASE pc[p] \notin Holding BY <2>1, <2>2, <2>4, <1>4, QuietLock DEF Stop
  <2> QED BY <2>3, <2>4
<1>5. ASSUME NEW p \in Procs, Break(p) PROVE LockInv'
  <2>1. CASE ReserveFails(p) \/ PersistFails(p) \/ RmCacheFails(p)
    BY <2>1, ReleaseLock, ReturnKeepsAccount
       DEF ReserveFails, PersistFails, RmCacheFails, Goto, TypeOK, Holding
  <2>2. CASE SaveFails(p) \/ RmRecordFails(p)
    BY <2>2, QuietLock DEF SaveFails, RmRecordFails, Goto, TypeOK
  <2>3. CASE Kill(p) \/ Drop(p) BY <2>3, <1>4 DEF Kill, Drop
  <2> QED BY <2>1, <2>2, <2>3, <1>5 DEF Break
<1>6. ASSUME NEW w \in late, LateWrite(w) PROVE LockInv'
  BY <1>6 DEF LateWrite, LockInv
<1>7. ASSUME NEW a \in Accounts, Damage(a) PROVE LockInv' BY <1>7 DEF Damage, LockInv
<1>8. CASE Tick BY <1>8 DEF Tick, LockInv
<1>9. CASE UNCHANGED vars BY <1>9 DEF vars, LockInv
<1> QED BY <1>1, <1>2, <1>3, <1>5, <1>6, <1>7, <1>8, <1>9 DEF Next

\* At most one process collects an account at a time, with any number of
\* callers, and with kills, dropped tasks and late writes in between.
THEOREM CollectorsExclude == Spec => []OneCollectorPerAccount
<1>1. Init => LockInv BY DEF Init, Quiet, LockInv, Holding
<1>2. TypeOK /\ LockInv /\ [Next]_vars => LockInv' BY LockStep
<1>3. LockInv => OneCollectorPerAccount
  BY DEF LockInv, OneCollectorPerAccount, Collecting, Holding
<1> QED BY <1>1, <1>2, <1>3, TypeCorrect, PTL DEF Spec

-----------------------------------------------------------------------------
(* A reservation outlives whatever happens to the process that made it       *)

\* A draft is on its way to the disk, or a request is made under it.
Drafting == {"Reserve"} \cup Collecting

\* The record on disk is as strong as every promise made for its account.
FloorInv == \A a \in Accounts :
    Readable(record[a]) => record[a].next >= notBefore[a]

\* What p is about to write weakens no promise, and while it may send requests
\* the disk shows its reservation.
DraftInv(p) ==
    LET c == call[p]
    IN /\ pc[p] \notin {"Save", "Persist"} => c.owed = Never
       /\ pc[p] = "Reserve" => c.draft.state = "Pending"
       /\ pc[p] \in Drafting => /\ c.draft.next >= notBefore[c.acct]
                                /\ c.draft.next >= c.owed
       /\ pc[p] \in Drafting \ {"Save"} => c.draft.next <= now + MinRefresh
       /\ pc[p] \in Collecting /\ Readable(record[c.acct]) =>
              record[c.acct].state = "Pending"

Promises == late = {} /\ FloorInv /\ \A p \in Procs : DraftInv(p)

\* A process that does not step keeps DraftInv, unless its account's files are
\* changed under its hands.
LEMMA BystanderDraft ==
    ASSUME NEW q \in Procs, TypeOK, TypeOK', DraftInv(q), now' >= now,
           UNCHANGED <<pc[q], call[q]>>,
           pc[q] \in Drafting =>
               /\ notBefore'[call[q].acct] = notBefore[call[q].acct]
               /\ \/ record'[call[q].acct] = record[call[q].acct]
                  \/ ~Readable(record'[call[q].acct])
    PROVE  DraftInv(q)'
<1>1. /\ now \in Nat /\ now' \in Nat /\ call[q] \in Call /\ call[q].draft \in Record
  BY DEF TypeOK, Call
<1>2. call[q].draft.next \in Nat BY <1>1 DEF Record
<1> QED BY <1>1, <1>2 DEF DraftInv, Drafting, Collecting, Readable

\* Only the holder of the flock writes: nobody else's draft is affected.
LEMMA WriteKeeps ==
    ASSUME TypeOK, LockInv, Promises, NEW p \in Procs, pc[p] \in Writing, Write(p)
    PROVE  /\ FloorInv'
           /\ \A q \in Procs : q # p /\ pc[q] \in Drafting =>
                 /\ notBefore'[call[q].acct] = notBefore[call[q].acct]
                 /\ record'[call[q].acct] = record[call[q].acct]
<1> DEFINE a == call[p].acct
           d == call[p].draft
<1>1. /\ call[p] \in Call /\ a \in Accounts /\ d \in Record /\ call[p].owed \in Nat
      /\ \A q \in Procs : call[q].acct \in Accounts
  BY DEF TypeOK, Call
<1>2. d.next \in Nat BY <1>1 DEF Record
<1>3. d.next >= notBefore[a] /\ d.next >= call[p].owed
  BY DEF Promises, DraftInv, Writing, Drafting, Collecting
<1>4. notBefore[a] \in Nat BY <1>1 DEF TypeOK
<1>5. /\ record' = [record EXCEPT ![a] = d]
      /\ notBefore' = [notBefore EXCEPT ![a] = d.next]
  <2>1. Most(notBefore[a], Most(d.next, call[p].owed)) = d.next
    BY <1>1, <1>2, <1>3, <1>4 DEF Most
  <2> QED BY <2>1 DEF Write
<1>6. FloorInv'
  <2> SUFFICES ASSUME NEW b \in Accounts, Readable(record'[b])
               PROVE  record'[b].next >= notBefore'[b]
    BY DEF FloorInv, Readable
  <2>1. CASE b = a BY <2>1, <1>1, <1>2, <1>5 DEF TypeOK
  <2>2. CASE b # a BY <2>2, <1>5 DEF TypeOK, Promises, FloorInv
  <2> QED BY <2>1, <2>2
<1>7. ASSUME NEW q \in Procs, q # p, pc[q] \in Drafting PROVE call[q].acct # a
  BY <1>7 DEF LockInv, Writing, Drafting, Collecting, Holding
<1> QED BY <1>1, <1>5, <1>6, <1>7 DEF TypeOK

\* A step that writes no record and lets the other processes be.
LEMMA QuietPromises ==
    ASSUME TypeOK, TypeOK', Promises, NEW p \in Procs,
           UNCHANGED <<now, record, notBefore, late>>,
           \A q \in Procs : q # p => pc'[q] = pc[q] /\ call'[q] = call[q],
           DraftInv(p)'
    PROVE  Promises'
<1>1. ASSUME NEW q \in Procs PROVE DraftInv(q)'
  <2>1. CASE q = p BY <2>1
  <2>2. CASE q # p
    <3>1. now' >= now BY DEF TypeOK
    <3> QED BY <2>2, <3>1, BystanderDraft DEF Promises
  <2> QED BY <2>1, <2>2
<1>2. FloorInv' BY DEF Promises, FloorInv, Readable
<1> QED BY <1>1, <1>2 DEF Promises

\* A process whose call is over, or has just begun, owes nothing.
LEMMA FreshDraft ==
    ASSUME NEW p \in Procs, call'[p].owed = Never,
           pc'[p] \notin Drafting
    PROVE  DraftInv(p)'
BY DEF DraftInv, Drafting, Collecting

\* A write of p that ends its call, or moves it on with its draft.
LEMMA WritePromises ==
    ASSUME TypeOK, TypeOK', LockInv, Promises, NEW p \in Procs,
           pc[p] \in Writing, Write(p), UNCHANGED <<now, late>>,
           \A q \in Procs : q # p => pc'[q] = pc[q] /\ call'[q] = call[q],
           DraftInv(p)'
    PROVE  Promises'
<1>1. ASSUME NEW q \in Procs PROVE DraftInv(q)'
  <2>1. CASE q = p BY <2>1
  <2>2. CASE q # p
    <3>1. now' >= now BY DEF TypeOK
    <3> QED BY <2>2, <3>1, WriteKeeps, BystanderDraft DEF Promises
  <2> QED BY <2>1, <2>2
<1> QED BY <1>1, WriteKeeps DEF Promises

\* Returning forgets what was owed.
LEMMA ReturnOwesNothing ==
    ASSUME TypeOK, NEW p \in Procs, NEW ans, Return(p, ans)
    PROVE  call'[p].owed = Never
BY DEF Return, NewCall, TypeOK

\* Every step of a process keeps the promises.
LEMMA AdvancePromises ==
    ASSUME TypeOK, TypeOK', LockInv, Promises, NEW p \in Procs, Advance(p)
    PROVE  Promises'
<1> DEFINE a == call[p].acct
<1> USE DEF disk, slots, history, bounds
<1>0. /\ call[p] \in Call /\ a \in Accounts /\ call[p].draft \in Record
      /\ record[a] \in Record /\ now \in Nat /\ notBefore[a] \in Nat
      /\ record[a].next \in Nat /\ call[p].draft.next \in Nat
      /\ record[a].failures \in Nat /\ call[p].draft.failures \in Nat
  <2>1. call[p] \in Call /\ a \in Accounts /\ call[p].draft \in Record
        /\ record[a] \in Record /\ now \in Nat /\ notBefore[a] \in Nat
    BY DEF TypeOK, Call
  <2> QED BY <2>1 DEF Record
<1>d. DraftInv(p) BY DEF Promises
<1>1. CASE TakeLock(p) \/ WaitTakeover(p) \/ RmTakeLock(p) \/ WaitReadPending(p)
           \/ WaitAgain(p)
  <2>1. DraftInv(p)'
    BY <1>d, <1>1, FreshDraft DEF TakeLock, WaitTakeover, RmTakeLock,
       WaitReadPending, WaitAgain, Goto, TypeOK, DraftInv, Drafting, Collecting
  <2> QED BY <2>1, <1>1, QuietPromises DEF TakeLock, WaitTakeover, RmTakeLock,
             WaitReadPending, WaitAgain, Goto, TypeOK
<1>2. CASE GiveUp(p) \/ WaitReadConclusive(p) \/ WaitTimeout(p) \/ HeldAnswer(p)
           \/ Persist(p)
  <2>1. PICK ans : Return(p, ans)
    BY <1>2 DEF GiveUp, WaitReadConclusive, WaitTimeout, HeldAnswer, Persist
  <2>2. pc'[p] = "Idle" /\ \A q \in Procs : q # p => pc'[q] = pc[q]
    BY <1>2 DEF GiveUp, WaitReadConclusive, WaitTimeout, HeldAnswer, Persist, Goto, TypeOK
  <2>3. DraftInv(p)'
    BY <2>1, <2>2, FreshDraft, ReturnOwesNothing DEF Drafting, Collecting
  <2> QED BY <2>1, <2>2, <2>3, <1>2, QuietPromises, ReturnKeepsAccount
          DEF GiveUp, WaitReadConclusive, WaitTimeout, HeldAnswer, Persist
<1>3. CASE JoinHolder(p)
  <2>1. call'[p].owed = call[p].owed /\ \A q \in Procs : q # p => call'[q] = call[q]
    BY <1>3, <1>0 DEF JoinHolder, TypeOK, Call
  <2>2. DraftInv(p)'
    BY <2>1, <1>d, <1>3, FreshDraft
       DEF JoinHolder, Goto, TypeOK, DraftInv, Drafting, Collecting
  <2> QED BY <2>1, <2>2, <1>3, QuietPromises DEF JoinHolder, Goto, TypeOK
<1>4. CASE Handover(p)
  <2>1. call'[p].owed = call[p].owed /\ \A q \in Procs : q # p => call'[q] = call[q]
    <3> DEFINE c == [call[p] EXCEPT !.attempt = 1, !.deadline = Never]
               g == [call[p] EXCEPT !.attempt = 1]
    <3>1. c = [g EXCEPT !.deadline = Never] OBVIOUS
    <3>2. g \in Call /\ g.owed = call[p].owed BY <1>0 DEF Call
    <3> HIDE DEF c, g
    <3>3. c.owed = call[p].owed BY <3>1, <3>2 DEF Call
    <3>4. call' = [call EXCEPT ![p] = c] BY <1>4 DEF Handover, c
    <3> QED BY <3>3, <3>4 DEF TypeOK
  <2>2. DraftInv(p)'
    BY <2>1, <1>d, <1>4, FreshDraft
       DEF Handover, Goto, TypeOK, DraftInv, Drafting, Collecting
  <2> QED BY <2>1, <2>2, <1>4, QuietPromises DEF Handover, Goto, TypeOK
<1>5. CASE HeldReserve(p)
  <2> DEFINE d == NewRecord("Pending", Never, now + MinRefresh, record[a].failures, Empty)
  <2>1. d \in Record /\ d.state = "Pending" /\ d.next = now + MinRefresh
    BY <1>0 DEF NewRecord, Record, States
  <2> HIDE DEF d
  <2>2. call' = [call EXCEPT ![p].draft = d] BY <1>5 DEF HeldReserve, d
  <2>3. /\ call'[p].draft = d /\ call'[p].owed = call[p].owed /\ call'[p].acct = a
        /\ \A q \in Procs : q # p => call'[q] = call[q]
    BY <2>2, <1>0 DEF TypeOK, Call
  <2>4. now >= notBefore[a]
    BY <1>0, <1>5 DEF HeldReserve, Cooling, Promises, FloorInv
  <2>5. pc[p] = "Held" /\ pc'[p] = "Reserve" /\ UNCHANGED <<now, record, notBefore, late>>
        /\ \A q \in Procs : q # p => pc'[q] = pc[q]
    BY <1>5 DEF HeldReserve, Goto, TypeOK
  <2>6. DraftInv(p)'
    BY <2>1, <2>3, <2>4, <2>5, <1>0, <1>d DEF DraftInv, Drafting, Collecting
  <2> QED BY <2>3, <2>5, <2>6, QuietPromises
<1>6. CASE ReserveLands(p)
  <2>1. /\ call'[p].draft = call[p].draft /\ call'[p].owed = call[p].owed
        /\ call'[p].acct = a /\ \A q \in Procs : q # p => call'[q] = call[q]
    BY <1>6, <1>0 DEF ReserveLands, TypeOK, Call
  <2>2. pc[p] = "Reserve" /\ pc'[p] = "Slot" /\ UNCHANGED <<now, late>>
        /\ \A q \in Procs : q # p => pc'[q] = pc[q]
    BY <1>6 DEF ReserveLands, Goto, TypeOK
  <2>3. Write(p) BY <1>6 DEF ReserveLands
  <2>4. record'[a] = call[p].draft /\ notBefore'[a] = call[p].draft.next
    BY <2>2, <2>3, <1>0, <1>d DEF Write, Most, DraftInv, Drafting, TypeOK
  <2>5. DraftInv(p)'
    BY <2>1, <2>2, <2>4, <1>0, <1>d DEF DraftInv, Drafting, Collecting
  <2> QED BY <2>1, <2>2, <2>3, <2>5, WritePromises DEF Writing
<1>7. CASE TakeGlobal(p) \/ GlobalFull(p) \/ TakeProvider(p) \/ ProviderFull(p)
           \/ SlotAgain(p)
  <2>1. /\ UNCHANGED <<now, record, notBefore, late, call>>
        /\ pc[p] \in Collecting \ {"Save"} /\ pc'[p] \in Collecting \ {"Save"}
        /\ \A q \in Procs : q # p => pc'[q] = pc[q]
    BY <1>7 DEF TakeGlobal, GlobalFull, TakeProvider, ProviderFull, SlotAgain,
                Goto, TypeOK, Collecting
  <2>2. DraftInv(p)' BY <2>1, <1>d DEF DraftInv, Drafting, Collecting
  <2> QED BY <2>1, <2>2, QuietPromises
<1>8. CASE SlotTimeout(p)
  <2> DEFINE d == [call[p].draft EXCEPT !.state = "Deferred"]
  <2>1. d.next = call[p].draft.next BY <1>0 DEF Record
  <2> HIDE DEF d
  <2>2. call' = [call EXCEPT ![p].draft = d]
    BY <1>8, <1>0 DEF SlotTimeout, d, TypeOK, Call
  <2>3. /\ call'[p].draft = d /\ call'[p].owed = call[p].owed /\ call'[p].acct = a
        /\ \A q \in Procs : q # p => call'[q] = call[q]
    BY <2>2, <1>0 DEF TypeOK, Call
  <2>4. pc[p] = "SlotBusy" /\ pc'[p] = "Defer" /\ UNCHANGED <<now, record, notBefore, late>>
        /\ \A q \in Procs : q # p => pc'[q] = pc[q]
    BY <1>8 DEF SlotTimeout, Goto, TypeOK
  <2>5. DraftInv(p)'
    BY <2>1, <2>3, <2>4, <1>0, <1>d DEF DraftInv, Drafting, Collecting
  <2> QED BY <2>3, <2>4, <2>5, QuietPromises
<1>9. CASE DeferLands(p)
  <2>1. Return(p, Failed) /\ Write(p) /\ pc[p] = "Defer" /\ pc'[p] = "Idle"
        /\ UNCHANGED <<now, late>> /\ \A q \in Procs : q # p => pc'[q] = pc[q]
    BY <1>9 DEF DeferLands, Goto, TypeOK
  <2>2. DraftInv(p)'
    BY <2>1, FreshDraft, ReturnOwesNothing DEF Drafting, Collecting
  <2> QED BY <2>1, <2>2, WritePromises, ReturnKeepsAccount DEF Writing
<1>10. ASSUME NEW life \in Lifetimes, QuerySucceeds(p, life) PROVE Promises'
  <2> DEFINE exp == IF life = 0 THEN Empty ELSE now + life
             d == NewRecord("Success", now, now + MinRefresh, 0, exp)
  <2>1. d.next = now + MinRefresh BY DEF NewRecord
  <2> HIDE DEF exp, d
  <2>2. call' = [call EXCEPT ![p].draft = d] BY <1>10 DEF QuerySucceeds, exp, d
  <2>3. /\ call'[p].draft = d /\ call'[p].owed = call[p].owed /\ call'[p].acct = a
        /\ \A q \in Procs : q # p => call'[q] = call[q]
    BY <2>2, <1>0 DEF TypeOK, Call
  <2>4. pc[p] = "Query" /\ pc'[p] = "Save" /\ UNCHANGED <<now, record, notBefore, late>>
        /\ \A q \in Procs : q # p => pc'[q] = pc[q]
    BY <1>10 DEF QuerySucceeds, Goto, TypeOK
  <2>5. DraftInv(p)'
    BY <2>1, <2>3, <2>4, <1>0, <1>d DEF DraftInv, Drafting, Collecting
  <2> QED BY <2>3, <2>4, <2>5, QuietPromises
<1>11. ASSUME NEW auth \in BOOLEAN, NEW e \in RetryAfters, QueryFails(p, auth, e)
       PROVE  Promises'
  <2> DEFINE n == call[p].draft.failures + 1
             f == FailureDelay(n, auth)
             t == now + Most(f, e)
             d == NewRecord("Failure", Never, t, n, Empty)
  <2>1. n \in Nat BY <1>0
  <2>2. f \in Nat /\ f >= MinRefresh BY <2>1, DelayAtLeastRefresh
  <2>0. e \in Nat /\ MinRefresh \in Nat BY ConstantsAssumption
  <2>3. d.next = t BY DEF NewRecord
  <2>4. d \in Record
    <3>1. t \in Nat BY <2>0, <2>2, <1>0 DEF Most
    <3> QED BY <3>1, <2>1 DEF NewRecord, Record, States
  <2> HIDE DEF f
  <2>5. t \in Nat /\ t >= now + MinRefresh /\ t >= now + e
    BY <2>0, <2>2, <1>0 DEF Most
  <2> HIDE DEF n, t, d
  <2> DEFINE c == [call[p] EXCEPT !.draft = d, !.denied = auth, !.owed = now + e]
             g == [[call[p] EXCEPT !.draft = d] EXCEPT !.denied = auth]
  <2>6. c = [g EXCEPT !.owed = now + e] OBVIOUS
  <2>7. g \in Call /\ g.draft = d /\ g.acct = a BY <2>4, <1>0 DEF Call
  <2> HIDE DEF c, g
  <2>8. c.owed = now + e /\ c.draft = d /\ c.acct = a BY <2>6, <2>7 DEF Call
  <2>9. call' = [call EXCEPT ![p] = c] BY <1>11 DEF QueryFails, n, f, t, d, c
  <2>10. call'[p] = c /\ \A q \in Procs : q # p => call'[q] = call[q]
    BY <2>9 DEF TypeOK
  <2>11. pc[p] = "Query" /\ pc'[p] = "Save" /\ UNCHANGED <<now, record, notBefore, late>>
        /\ \A q \in Procs : q # p => pc'[q] = pc[q]
    BY <1>11 DEF QueryFails, Goto, TypeOK
  <2>12. DraftInv(p)'
    BY <2>3, <2>5, <2>8, <2>10, <2>11, <1>0, <1>d DEF DraftInv, Drafting, Collecting
  <2> QED BY <2>10, <2>11, <2>12, QuietPromises
<1>12. CASE SaveLands(p)
  <2>1. Write(p) /\ pc[p] = "Save" /\ pc'[p] = "Persist" /\ UNCHANGED <<now, late, call>>
        /\ \A q \in Procs : q # p => pc'[q] = pc[q]
    BY <1>12 DEF SaveLands, Goto, TypeOK
  <2>2. DraftInv(p)' BY <2>1 DEF DraftInv, Drafting, Collecting
  <2> QED BY <2>1, <2>2, WritePromises DEF Writing
<1>13. CASE RmRecord(p)
  <2> DEFINE known == Readable(record[a])
             floor == IF known THEN Most(record[a].next, now) ELSE now
             r == NewRecord("Removed", Never, floor, 0, Empty)
  <2>1. floor \in Nat /\ (known => floor >= record[a].next) BY <1>0 DEF Most
  <2>2. r.next = floor BY DEF NewRecord
  <2> HIDE DEF floor, r
  <2>3. /\ record' = [record EXCEPT ![a] = r]
        /\ notBefore' = [notBefore EXCEPT ![a] = IF known THEN @ ELSE floor]
        /\ pc[p] = "RmRecord" /\ pc'[p] = "RmCache" /\ UNCHANGED <<now, late, call>>
        /\ \A q \in Procs : q # p => pc'[q] = pc[q]
    BY <1>13 DEF RmRecord, r, floor, Goto, TypeOK
  <2> HIDE DEF known
  <2>4. known => record[a].next >= notBefore[a]
    BY <1>0 DEF Promises, FloorInv, known
  <2>5. FloorInv'
    <3> SUFFICES ASSUME NEW b \in Accounts, Readable(record'[b])
                 PROVE  record'[b].next >= notBefore'[b]
      BY DEF FloorInv, Readable
    <3>1. CASE b = a
      <4>1. record'[b] = r /\ notBefore'[b] = IF known THEN notBefore[a] ELSE floor
        BY <3>1, <2>3, <1>0 DEF TypeOK
      <4> QED BY <4>1, <2>1, <2>2, <2>4, <1>0
    <3>2. CASE b # a BY <3>2, <2>3 DEF TypeOK, Promises, FloorInv
    <3> QED BY <3>1, <3>2
  <2>6. ASSUME NEW q \in Procs PROVE DraftInv(q)'
    <3>1. CASE q = p BY <3>1, <2>3, <1>d DEF DraftInv, Drafting, Collecting
    <3>2. CASE q # p
      <4>1. pc[q] \in Drafting => call[q].acct # a
        BY <3>2, <2>3 DEF LockInv, Drafting, Collecting, Holding
      <4>2. call[q].acct \in Accounts BY DEF TypeOK, Call
      <4> QED BY <4>1, <4>2, <3>2, <2>3, <1>0, BystanderDraft DEF TypeOK, Promises
    <3> QED BY <3>1, <3>2
  <2> QED BY <2>3, <2>5, <2>6 DEF Promises
<1>14. CASE RmCache(p)
  <2>1. DraftInv(p)'
    BY <1>d, <1>14, FreshDraft DEF RmCache, Goto, TypeOK, DraftInv, Drafting, Collecting
  <2> QED BY <2>1, <1>14, QuietPromises DEF RmCache, Goto, TypeOK
<1> QED
  BY <1>1, <1>2, <1>3, <1>4, <1>5, <1>6, <1>7, <1>8, <1>9, <1>10, <1>11, <1>12,
     <1>13, <1>14 DEF Advance

\* So does everything else, if no write outlives the task that started it.
LEMMA PromisesStep ==
    ASSUME ~LateWrites, TypeOK, TypeOK', LockInv, Promises, [Next]_vars
    PROVE  Promises'
<1> USE DEF disk, slots, history, bounds
<1>1. ASSUME NEW p \in Procs, Advance(p) PROVE Promises' BY <1>1, AdvancePromises
<1>2. ASSUME NEW p \in Procs, QueryAgain(p) PROVE Promises'
  <2>1. /\ call'[p].draft = call[p].draft /\ call'[p].owed = call[p].owed
        /\ call'[p].acct = call[p].acct
        /\ \A q \in Procs : q # p => call'[q] = call[q]
    BY <1>2 DEF QueryAgain, TypeOK, Call
  <2>2. DraftInv(p)'
    BY <2>1, <1>2 DEF Promises, QueryAgain, DraftInv, Drafting, Collecting
  <2> QED BY <2>1, <2>2, <1>2, QuietPromises DEF QueryAgain
<1>3. ASSUME NEW p \in Procs, NEW a \in Accounts, Start(p, a) PROVE Promises'
  <2>1. PICK to, ans : to \in {"Idle", "TryLock", "RmLock"} /\ Begin(p, a, to, ans)
    BY <1>3 DEF Start, CacheHit, CacheBackoff, CacheMiss, RmBegin
  <2>2. pc'[p] = to /\ call'[p].owed = Never
        /\ \A q \in Procs : q # p => pc'[q] = pc[q] /\ call'[q] = call[q]
    BY <2>1 DEF Begin, Goto, NewCall, TypeOK
  <2>3. DraftInv(p)' BY <2>1, <2>2, FreshDraft DEF Drafting, Collecting
  <2> QED BY <2>1, <2>2, <2>3, QuietPromises DEF Begin
<1>4. ASSUME NEW p \in Procs, Break(p) PROVE Promises'
  <2>1. CASE ReserveFails(p) \/ PersistFails(p) \/ Kill(p)
    <3>1. PICK ans : Return(p, ans)
      BY <2>1 DEF ReserveFails, PersistFails, Kill, Stop
    <3>2. pc'[p] = "Idle" /\ (\A q \in Procs : q # p => pc'[q] = pc[q])
          /\ UNCHANGED <<now, record, notBefore, late>>
      BY <2>1 DEF ReserveFails, PersistFails, Kill, Stop, Goto, TypeOK
    <3>3. DraftInv(p)'
      BY <3>1, <3>2, FreshDraft, ReturnOwesNothing DEF Drafting, Collecting
    <3> QED BY <3>1, <3>2, <3>3, QuietPromises, ReturnKeepsAccount
  <2>2. CASE SaveFails(p) \/ RmRecordFails(p) \/ RmCacheFails(p)
    <3>1. DraftInv(p)'
      BY <2>2 DEF SaveFails, RmRecordFails, RmCacheFails, Goto, TypeOK, Promises, DraftInv,
                  Drafting, Collecting
    <3> QED BY <3>1, <2>2, QuietPromises
            DEF SaveFails, RmRecordFails, RmCacheFails, Goto, TypeOK
  <2>3. CASE Drop(p) BY <2>3 DEF Drop
  <2> QED BY <2>1, <2>2, <2>3, <1>4 DEF Break
<1>5. ASSUME NEW w \in late, LateWrite(w) PROVE Promises' BY DEF Promises
<1>6. ASSUME NEW a \in Accounts, Damage(a) PROVE Promises'
  <2>1. /\ record' = [record EXCEPT ![a] = Unreadable]
        /\ UNCHANGED <<now, notBefore, late, pc, call>>
    BY <1>6 DEF Damage
  <2>2. \A b \in Accounts : record'[b] = record[b] \/ ~Readable(record'[b])
    BY <2>1 DEF TypeOK, Readable, Unreadable, NewRecord
  <2>3. FloorInv' BY <2>1, <2>2 DEF Promises, FloorInv, Readable
  <2>4. ASSUME NEW q \in Procs PROVE DraftInv(q)'
    <3>1. call[q].acct \in Accounts /\ now' >= now BY <2>1 DEF TypeOK, Call
    <3> QED BY <3>1, <2>1, <2>2, BystanderDraft DEF Promises
  <2> QED BY <2>1, <2>3, <2>4 DEF Promises
<1>7. CASE Tick
  <2>1. now' >= now /\ UNCHANGED <<record, notBefore, late, pc, call>>
    BY <1>7 DEF Tick, TypeOK
  <2>2. \A q \in Procs : DraftInv(q)' BY <2>1, BystanderDraft DEF Promises
  <2> QED BY <2>1, <2>2 DEF Promises, FloorInv, Readable
<1>8. CASE UNCHANGED vars
  BY <1>8 DEF vars, Promises, FloorInv, DraftInv, Readable
<1> QED BY <1>1, <1>2, <1>3, <1>4, <1>5, <1>6, <1>7, <1>8 DEF Next

LEMMA InitPromises == Init => Promises
<1>1. ASSUME Init, NEW q \in Procs PROVE DraftInv(q)
  BY <1>1 DEF Init, Quiet, DraftInv, NewCall, Drafting, Collecting
<1>2. ASSUME Init PROVE FloorInv
  BY <1>2 DEF Init, Quiet, FloorInv, Missing, NewRecord, Never
<1> QED BY <1>1, <1>2 DEF Init, Quiet, Promises

\* The inductive invariant of the reservation.
LEMMA PromisesKept == ASSUME ~LateWrites PROVE Spec => [](LockInv /\ Promises)
<1>1. Init => LockInv /\ Promises BY InitPromises DEF Init, Quiet, LockInv, Holding
<1>2. TypeOK /\ TypeOK' /\ LockInv /\ Promises /\ [Next]_vars => (LockInv /\ Promises)'
  BY LockStep, PromisesStep
<1> QED BY <1>1, <1>2, TypeCorrect, PTL DEF Spec

\* While a request for an account may be sent, the disk holds a reservation
\* that weakens no earlier promise: a kill in between cannot undercut any.
THEOREM RequestsAreReserved ==
    ASSUME ~LateWrites PROVE Spec => []RequestIsReserved
<1>1. ASSUME TypeOK, Promises PROVE RequestIsReserved
  <2> SUFFICES ASSUME NEW p \in Procs, pc[p] \in Collecting,
                      Readable(record[call[p].acct])
               PROVE  /\ record[call[p].acct].state = "Pending"
                      /\ record[call[p].acct].next >= notBefore[call[p].acct]
    BY DEF RequestIsReserved
  <2>1. call[p].acct \in Accounts BY <1>1 DEF TypeOK, Call
  <2> QED BY <2>1, <1>1 DEF Promises, FloorInv, DraftInv
<1> QED BY <1>1, TypeCorrect, PromisesKept, PTL

\* Only the holder itself starts a collection.
LEMMA MovesToReserve ==
    ASSUME TypeOK, [Next]_vars, NEW p \in Procs, pc[p] = "Held", pc'[p] = "Reserve"
    PROVE  HeldReserve(p)
<1>1. ASSUME NEW q \in Procs, q # p, Advance(q) \/ QueryAgain(q) \/ Break(q)
      PROVE  FALSE
  <2>1. pc'[p] = pc[p]
    BY <1>1 DEF TypeOK, Goto, Return, Advance, TakeLock, JoinHolder, GiveUp,
       WaitReadConclusive, WaitReadPending, WaitTakeover, Handover, WaitAgain,
       WaitTimeout, HeldAnswer, HeldReserve, ReserveLands, TakeGlobal, GlobalFull,
       TakeProvider, ProviderFull, SlotAgain, SlotTimeout, DeferLands,
       QuerySucceeds, QueryFails, SaveLands, Persist, RmTakeLock, RmRecord,
       RmCache, QueryAgain, Break, ReserveFails, SaveFails, PersistFails,
     RmRecordFails, RmCacheFails,
       Kill, Drop, Stop
  <2> QED BY <2>1
<1>2. ASSUME NEW q \in Procs, NEW a \in Accounts, Start(q, a) PROVE FALSE
  <2>1. PICK to, ans : to \in {"Idle", "TryLock", "RmLock"} /\ Begin(q, a, to, ans)
    BY <1>2 DEF Start, CacheHit, CacheBackoff, CacheMiss, RmBegin
  <2> QED BY <2>1 DEF Begin, Goto, TypeOK
<1>3. ASSUME Tick \/ (\E w \in late : LateWrite(w)) \/ (\E a \in Accounts : Damage(a))
             \/ UNCHANGED vars
      PROVE  FALSE
  BY <1>3 DEF Tick, LateWrite, Damage, vars
<1>4. PICK q \in Procs : Advance(q) \/ QueryAgain(q) \/ Break(q)
  BY <1>2, <1>3 DEF Next
<1>5. q = p BY <1>1, <1>4
<1> QED
  BY <1>4, <1>5 DEF TypeOK, Goto, Advance, TakeLock, JoinHolder, GiveUp,
     WaitReadConclusive, WaitReadPending, WaitTakeover, Handover, WaitAgain,
     WaitTimeout, HeldAnswer, ReserveLands, TakeGlobal, GlobalFull,
     TakeProvider, ProviderFull, SlotAgain, SlotTimeout, DeferLands,
     QuerySucceeds, QueryFails, SaveLands, Persist, RmTakeLock, RmRecord,
     RmCache, QueryAgain, Break, ReserveFails, SaveFails, PersistFails,
     RmRecordFails, RmCacheFails,
     Kill, Drop, Stop

\* A collection never starts before a deadline that any earlier collection,
\* `rm` or the provider's Retry-After put on disk.
THEOREM CollectionsHonourDeadlines ==
    ASSUME ~LateWrites PROVE Spec => NoEarlyCollection
<1> DEFINE Early(p) == pc[p] = "Held" /\ pc'[p] = "Reserve"
           NotEarly == \A p \in Procs : Early(p) => now >= notBefore[call[p].acct]
<1>1. ASSUME TypeOK, Promises, [Next]_vars PROVE NotEarly
  <2> SUFFICES ASSUME NEW p \in Procs, pc[p] = "Held", pc'[p] = "Reserve"
               PROVE  now >= notBefore[call[p].acct]
    OBVIOUS
  <2>1. HeldReserve(p) BY <1>1, MovesToReserve
  <2>2. /\ call[p].acct \in Accounts /\ now \in Nat
        /\ record[call[p].acct] \in Record /\ notBefore[call[p].acct] \in Nat
    BY <1>1 DEF TypeOK, Call
  <2>3. record[call[p].acct].next \in Nat BY <2>2 DEF Record
  <2> QED BY <1>1, <2>1, <2>2, <2>3 DEF HeldReserve, Cooling, Promises, FloorInv
<1>2. ASSUME TypeOK, Promises, [Next]_vars PROVE [NotEarly]_vars BY <1>1, <1>2
<1> QED BY <1>2, TypeCorrect, PromisesKept, PTL DEF Spec, NoEarlyCollection

-----------------------------------------------------------------------------
(* Slots are taken and given back with the step of their process             *)

InGlobal == {"SlotProvider", "Query"}

SlotsAt(p) ==
    /\ p \in global <=> pc[p] \in InGlobal
    /\ p \in perProvider <=> pc[p] = "Query"

SlotInv ==
    /\ \A p \in Procs : SlotsAt(p)
    /\ IsFiniteSet(global) /\ Cardinality(global) <= GlobalSlots
    /\ IsFiniteSet(perProvider)
    /\ \A p \in perProvider :
          Cardinality(perProvider \cap SameProviderAs(p)) <= ProviderSlots

\* What is left of the slots, by processes that keep their accounts, is within
\* the limits.
LEMMA FewerSlots ==
    ASSUME TypeOK, SlotInv, global' \subseteq global, perProvider' \subseteq perProvider,
           \A q \in perProvider' : call'[q].acct = call[q].acct,
           \A q \in Procs : SlotsAt(q)'
    PROVE  SlotInv'
<1>1. IsFiniteSet(global') /\ Cardinality(global') <= GlobalSlots
  <2>1. IsFiniteSet(global') /\ Cardinality(global') <= Cardinality(global)
    BY FS_Subset DEF SlotInv
  <2>2. Cardinality(global) \in Nat /\ Cardinality(global') \in Nat
    BY <2>1, FS_CardinalityType DEF SlotInv
  <2> QED BY <2>1, <2>2, ConstantsAssumption DEF SlotInv
<1>2. IsFiniteSet(perProvider') BY FS_Subset DEF SlotInv
<1>3. ASSUME NEW p \in perProvider'
      PROVE  Cardinality(perProvider' \cap SameProviderAs(p)') <= ProviderSlots
  <2> DEFINE S == perProvider \cap SameProviderAs(p)
             T == perProvider' \cap SameProviderAs(p)'
  <2>1. T \subseteq S BY DEF SameProviderAs
  <2>2. IsFiniteSet(S) BY FS_Subset DEF SlotInv
  <2>3. IsFiniteSet(T) /\ Cardinality(T) <= Cardinality(S) BY <2>1, <2>2, FS_Subset
  <2>4. Cardinality(S) \in Nat /\ Cardinality(T) \in Nat BY <2>2, <2>3, FS_CardinalityType
  <2>5. Cardinality(S) <= ProviderSlots BY DEF SlotInv
  <2> QED BY <2>3, <2>4, <2>5, ConstantsAssumption
<1> QED BY <1>1, <1>2, <1>3 DEF SlotInv

\* A step between two places of the same slots.
LEMMA QuietSlots ==
    ASSUME TypeOK, SlotInv, NEW p \in Procs, UNCHANGED slots,
           pc'[p] \in InGlobal <=> pc[p] \in InGlobal,
           pc'[p] = "Query" <=> pc[p] = "Query",
           pc[p] = "Query" => call'[p].acct = call[p].acct,
           \A q \in Procs : q # p => pc'[q] = pc[q] /\ call'[q].acct = call[q].acct
    PROVE  SlotInv'
<1>1. \A q \in Procs : SlotsAt(q)' BY DEF SlotInv, SlotsAt, slots
<1>2. \A q \in perProvider' : call'[q].acct = call[q].acct
  BY DEF SlotInv, SlotsAt, slots, TypeOK
<1> QED BY <1>1, <1>2, FewerSlots DEF slots

\* A step that gives the slots back.
LEMMA FreedSlots ==
    ASSUME TypeOK, SlotInv, NEW p \in Procs, FreeSlots(p), pc'[p] \notin InGlobal,
           \A q \in Procs : q # p => pc'[q] = pc[q] /\ call'[q].acct = call[q].acct
    PROVE  SlotInv'
<1>1. \A q \in Procs : SlotsAt(q)' BY DEF SlotInv, SlotsAt, FreeSlots, InGlobal
<1>2. \A q \in perProvider' : call'[q].acct = call[q].acct BY DEF FreeSlots, TypeOK
<1> QED BY <1>1, <1>2, FewerSlots DEF FreeSlots

LEMMA TakeGlobalSlots ==
    ASSUME TypeOK, SlotInv, NEW p \in Procs, TakeGlobal(p) PROVE SlotInv'
<1>1. \A q \in Procs : SlotsAt(q)'
  BY DEF SlotInv, SlotsAt, TakeGlobal, Goto, InGlobal, TypeOK
<1>2. IsFiniteSet(global') /\ Cardinality(global') <= GlobalSlots
  <2>1. Cardinality(global) \in Nat BY FS_CardinalityType DEF SlotInv
  <2>2. /\ IsFiniteSet(global \cup {p})
        /\ \/ Cardinality(global \cup {p}) = Cardinality(global)
           \/ Cardinality(global \cup {p}) = Cardinality(global) + 1
    BY FS_AddElement DEF SlotInv
  <2> QED BY <2>1, <2>2, ConstantsAssumption DEF TakeGlobal
<1>3. \A q \in Procs : SameProviderAs(q)' = SameProviderAs(q)
  BY DEF SameProviderAs, TakeGlobal
<1> QED BY <1>1, <1>2, <1>3 DEF SlotInv, TakeGlobal, TypeOK

LEMMA TakeProviderSlots ==
    ASSUME TypeOK, SlotInv, NEW p \in Procs, TakeProvider(p) PROVE SlotInv'
<1>1. \A q \in Procs : SlotsAt(q)'
  BY DEF SlotInv, SlotsAt, TakeProvider, Goto, InGlobal, TypeOK
<1>2. IsFiniteSet(perProvider') BY FS_AddElement DEF SlotInv, TakeProvider
<1>3. ASSUME NEW q \in perProvider'
      PROVE  Cardinality(perProvider' \cap SameProviderAs(q)') <= ProviderSlots
  <2> DEFINE S == perProvider \cap SameProviderAs(p)
  <2>1. perProvider' = perProvider \cup {p} /\ q \in Procs BY DEF TakeProvider, TypeOK
  <2>2. SameProviderAs(q)' = SameProviderAs(q) BY DEF SameProviderAs, TakeProvider
  <2>3. CASE q \in SameProviderAs(p)
    <3>1. perProvider' \cap SameProviderAs(q)' = S \cup {p}
      BY <2>1, <2>2, <2>3 DEF SameProviderAs
    <3>2. IsFiniteSet(S) BY FS_Subset DEF SlotInv
    <3>3. Cardinality(S) \in Nat BY <3>2, FS_CardinalityType
    <3>4. \/ Cardinality(S \cup {p}) = Cardinality(S)
          \/ Cardinality(S \cup {p}) = Cardinality(S) + 1
      BY <3>2, FS_AddElement
    <3>5. Cardinality(S) < ProviderSlots BY DEF TakeProvider, ProviderFree
    <3> QED BY <3>1, <3>3, <3>4, <3>5, ConstantsAssumption
  <2>4. CASE q \notin SameProviderAs(p)
    <3>1. q \in perProvider BY <2>1, <2>4 DEF SameProviderAs
    <3>2. perProvider' \cap SameProviderAs(q)' = perProvider \cap SameProviderAs(q)
      BY <2>1, <2>2, <2>4 DEF SameProviderAs
    <3> QED BY <3>1, <3>2 DEF SlotInv
  <2> QED BY <2>3, <2>4
<1> QED BY <1>1, <1>2, <1>3 DEF SlotInv, TakeProvider

LEMMA SlotStep == TypeOK /\ SlotInv /\ [Next]_vars => SlotInv'
<1> SUFFICES ASSUME TypeOK, SlotInv, [Next]_vars PROVE SlotInv' OBVIOUS
<1> USE DEF InGlobal
<1>1. ASSUME NEW p \in Procs, Advance(p) PROVE SlotInv'
  <2>1. CASE TakeLock(p) \/ WaitTakeover(p) \/ RmTakeLock(p) \/ WaitReadPending(p)
             \/ WaitAgain(p) \/ SlotAgain(p) \/ GlobalFull(p) \/ SaveLands(p)
             \/ RmRecord(p) \/ RmCache(p)
    BY <2>1, QuietSlots DEF TakeLock, WaitTakeover, RmTakeLock, WaitReadPending, WaitAgain,
       SlotAgain, GlobalFull, SaveLands, RmRecord, RmCache, Goto, TypeOK, slots
  <2>2. CASE GiveUp(p) \/ WaitReadConclusive(p) \/ WaitTimeout(p) \/ HeldAnswer(p)
             \/ DeferLands(p) \/ Persist(p)
    BY <2>2, QuietSlots, ReturnKeepsAccount
       DEF GiveUp, WaitReadConclusive, WaitTimeout, HeldAnswer, DeferLands, Persist,
           Goto, TypeOK, slots
  <2>3. CASE JoinHolder(p) \/ HeldReserve(p) \/ ReserveLands(p) \/ SlotTimeout(p)
             \/ Handover(p)
    BY <2>3, QuietSlots
       DEF JoinHolder, HeldReserve, ReserveLands, SlotTimeout, Handover, Goto, TypeOK, Call, slots
  <2>4. CASE ProviderFull(p)
    BY <2>4, FreedSlots DEF ProviderFull, Goto, TypeOK
  <2>5. ASSUME NEW life \in Lifetimes, QuerySucceeds(p, life) PROVE SlotInv'
    BY <2>5, FreedSlots DEF QuerySucceeds, Goto, TypeOK
  <2>6. ASSUME NEW auth \in BOOLEAN, NEW d \in RetryAfters, QueryFails(p, auth, d)
        PROVE  SlotInv'
    <3>1. \A q \in Procs : q # p => call'[q] = call[q] BY <2>6 DEF QueryFails, TypeOK
    <3> QED BY <3>1, <2>6, FreedSlots DEF QueryFails, Goto, TypeOK
  <2> QED BY <1>1, <2>1, <2>2, <2>3, <2>4, <2>5, <2>6, TakeGlobalSlots, TakeProviderSlots
          DEF Advance
<1>2. ASSUME NEW p \in Procs, QueryAgain(p) PROVE SlotInv'
  BY <1>2, QuietSlots DEF QueryAgain, TypeOK, Call, slots
<1>3. ASSUME NEW p \in Procs, NEW a \in Accounts, Start(p, a) PROVE SlotInv'
  <2>1. PICK to, ans : to \in {"Idle", "TryLock", "RmLock"} /\ Begin(p, a, to, ans)
    BY <1>3 DEF Start, CacheHit, CacheBackoff, CacheMiss, RmBegin
  <2> QED BY <2>1, QuietSlots DEF Begin, Goto, TypeOK, slots
<1>4. ASSUME NEW p \in Procs, Stop(p) PROVE SlotInv'
  BY <1>4, FreedSlots, ReturnKeepsAccount DEF Stop, Goto, TypeOK
<1>5. ASSUME NEW p \in Procs, Break(p) PROVE SlotInv'
  <2>1. CASE ReserveFails(p) \/ PersistFails(p)
    BY <2>1, QuietSlots, ReturnKeepsAccount
       DEF ReserveFails, PersistFails, Goto, TypeOK, slots
  <2>2. CASE SaveFails(p) \/ RmRecordFails(p) \/ RmCacheFails(p)
    BY <2>2, QuietSlots DEF SaveFails, RmRecordFails, RmCacheFails, Goto, TypeOK, slots
  <2>3. CASE Kill(p) \/ Drop(p) BY <2>3, <1>4 DEF Kill, Drop
  <2> QED BY <2>1, <2>2, <2>3, <1>5 DEF Break
<1>6. CASE \/ \E w \in late : LateWrite(w)
           \/ \E a \in Accounts : Damage(a)
           \/ Tick \/ UNCHANGED vars
  <2>1. UNCHANGED <<slots, pc, call>> BY <1>6 DEF LateWrite, Damage, Tick, vars, slots
  <2>2. \A q \in Procs : SlotsAt(q)' BY <2>1 DEF SlotInv, SlotsAt, slots
  <2> QED BY <2>1, <2>2, FewerSlots DEF slots
<1> QED BY <1>1, <1>2, <1>3, <1>5, <1>6 DEF Next

\* For any number of processes, accounts and slots: the requests in flight
\* exceed neither limit, and whoever waits for its provider's slots, is killed
\* or dropped keeps no global one (try_acquire_slots: both or none).
THEOREM SlotsSuffice == Spec => []RequestsWithinSlots
<1>1. Init => SlotInv
  BY FS_EmptySet, ConstantsAssumption DEF Init, Quiet, SlotInv, SlotsAt, InGlobal
<1>2. TypeOK /\ SlotInv /\ [Next]_vars => SlotInv' BY SlotStep
<1>3. TypeOK /\ SlotInv => RequestsWithinSlots
  <2> SUFFICES ASSUME TypeOK, SlotInv PROVE RequestsWithinSlots OBVIOUS
  <2> DEFINE flying == {p \in Procs : pc[p] = "Query"}
  <2>1. flying = perProvider /\ flying \subseteq global
    BY DEF TypeOK, SlotInv, SlotsAt, InGlobal
  <2>2. Cardinality(flying) <= GlobalSlots
    <3>1. IsFiniteSet(flying) /\ Cardinality(flying) <= Cardinality(global)
      BY <2>1, FS_Subset DEF SlotInv
    <3>2. Cardinality(flying) \in Nat /\ Cardinality(global) \in Nat
      BY <3>1, FS_CardinalityType DEF SlotInv
    <3> QED BY <3>1, <3>2, ConstantsAssumption DEF SlotInv
  <2>3. \A p \in flying : Cardinality(flying \cap SameProviderAs(p)) <= ProviderSlots
    BY <2>1 DEF SlotInv
  <2>4. \A p \in global : pc[p] \in {"SlotProvider", "Query"}
    BY DEF TypeOK, SlotInv, SlotsAt, InGlobal
  <2> QED BY <2>2, <2>3, <2>4 DEF RequestsWithinSlots
<1> QED BY <1>1, <1>2, <1>3, TypeCorrect, PTL DEF Spec

-----------------------------------------------------------------------------
(* Whatever is stored or returned was measured                               *)

Measured(a, at, expires) == <<at, expires>> \in observed[a]

RecordMeasured(a) ==
    record[a].state = "Success" => Measured(a, record[a].observed_at, record[a].expires)
CacheMeasured(a) ==
    cache[a].cached_at # Never => Measured(a, cache[a].cached_at, cache[a].expires)
DraftMeasured(p) ==
    LET r == call[p].draft IN
    r.state = "Success" => Measured(call[p].acct, r.observed_at, r.expires)
AnswerMeasured(p) ==
    Got(p) => Measured(call[p].acct, call[p].answer.observed_at, call[p].answer.expires)
LateMeasured ==
    \A w \in late : w[2].state = "Success" => Measured(w[1], w[2].observed_at, w[2].expires)

MeasuredInv ==
    /\ \A a \in Accounts : RecordMeasured(a) /\ CacheMeasured(a)
    /\ \A p \in Procs : DraftMeasured(p) /\ AnswerMeasured(p)
    /\ LateMeasured

\* The answer of a call that ends was measured, or is none.
Fits(p, ans) ==
    ans.kind \in {"reading", "reused"} => Measured(call[p].acct, ans.observed_at, ans.expires)

LEMMA RecordAnswerFits ==
    ASSUME TypeOK, MeasuredInv, NEW p \in Procs
    PROVE  Fits(p, RecordAnswer(record[call[p].acct]))
<1>1. call[p].acct \in Accounts BY DEF TypeOK, Call
<1> QED BY <1>1 DEF MeasuredInv, RecordMeasured, Fits, RecordAnswer, Reused, Failed, NoAnswer

LEMMA CacheAnswerFits ==
    ASSUME TypeOK, MeasuredInv, NEW p \in Procs, Fresh(cache[call[p].acct])
    PROVE  Fits(p, Reused(cache[call[p].acct].cached_at, cache[call[p].acct].expires))
<1>1. call[p].acct \in Accounts BY DEF TypeOK, Call
<1> QED BY <1>1 DEF MeasuredInv, CacheMeasured, Fits, Reused, Fresh

LEMMA DraftAnswerFits ==
    ASSUME MeasuredInv, NEW p \in Procs, call[p].draft.state = "Success"
    PROVE  Fits(p, Reading(call[p].draft.observed_at, call[p].draft.expires))
BY DEF MeasuredInv, DraftMeasured, Fits, Reading

LEMMA FailedFits == ASSUME NEW p \in Procs PROVE Fits(p, Failed) /\ Fits(p, NoAnswer)
BY DEF Fits, Failed, NoAnswer

\* The locals of p after its call has ended with such an answer.
LEMMA ReturnMeasures ==
    ASSUME TypeOK, MeasuredInv, NEW p \in Procs, NEW ans, Return(p, ans), Fits(p, ans),
           UNCHANGED observed
    PROVE  \A q \in Procs : DraftMeasured(q)' /\ AnswerMeasured(q)'
<1>1. \A q \in Procs : q # p => call'[q] = call[q] BY ReturnKeepsAccount
<1>2. call'[p] = NewCall(call[p].acct, call[p].since, ans) BY DEF Return, TypeOK
<1>3. DraftMeasured(p)' BY <1>2 DEF DraftMeasured, NewCall, Missing, NewRecord
<1>4. AnswerMeasured(p)' BY <1>2 DEF AnswerMeasured, NewCall, Got, Fits, Measured
<1> QED BY <1>1, <1>3, <1>4 DEF MeasuredInv, DraftMeasured, AnswerMeasured, Measured, Got

\* A step of p that keeps its account and answer, and whose draft is the old
\* one or no measurement.
LEMMA LocalMeasures ==
    ASSUME MeasuredInv, NEW p \in Procs, UNCHANGED observed,
           \A q \in Procs : q # p => call'[q] = call[q],
           call'[p].acct = call[p].acct, call'[p].answer = call[p].answer,
           call'[p].draft.state = "Success" => call'[p].draft = call[p].draft
    PROVE  \A q \in Procs : DraftMeasured(q)' /\ AnswerMeasured(q)'
<1>1. DraftMeasured(p)' BY DEF MeasuredInv, DraftMeasured, Measured
<1>2. AnswerMeasured(p)' BY DEF MeasuredInv, AnswerMeasured, Measured, Got
<1> QED BY <1>1, <1>2 DEF MeasuredInv, DraftMeasured, AnswerMeasured, Measured, Got

\* Files that a step leaves alone.
LEMMA DiskMeasured ==
    ASSUME MeasuredInv, UNCHANGED <<disk, observed>>
    PROVE  \A a \in Accounts : RecordMeasured(a)' /\ CacheMeasured(a)'
BY DEF MeasuredInv, RecordMeasured, CacheMeasured, Measured, disk

LEMMA LateStays == ASSUME MeasuredInv, UNCHANGED <<late, observed>> PROVE LateMeasured'
BY DEF MeasuredInv, LateMeasured, Measured

\* A draft that is written.
LEMMA WriteMeasures ==
    ASSUME TypeOK, MeasuredInv, NEW p \in Procs, Write(p)
    PROVE  /\ \A a \in Accounts : RecordMeasured(a)' /\ CacheMeasured(a)'
           /\ UNCHANGED observed
<1>1. record' = [record EXCEPT ![call[p].acct] = call[p].draft] /\ UNCHANGED <<cache, observed>>
  BY DEF Write
<1>2. ASSUME NEW a \in Accounts PROVE RecordMeasured(a)'
  BY <1>1, <1>2 DEF MeasuredInv, RecordMeasured, DraftMeasured, Measured, TypeOK
<1>3. ASSUME NEW a \in Accounts PROVE CacheMeasured(a)'
  BY <1>1, <1>3 DEF MeasuredInv, CacheMeasured, Measured
<1> QED BY <1>1, <1>2, <1>3

LEMMA MeasuredStep == TypeOK /\ MeasuredInv /\ [Next]_vars => MeasuredInv'
<1> SUFFICES ASSUME TypeOK, MeasuredInv, [Next]_vars PROVE MeasuredInv' OBVIOUS
<1>1. ASSUME NEW p \in Procs, Advance(p) PROVE MeasuredInv'
  <2>1. CASE TakeLock(p) \/ WaitTakeover(p) \/ RmTakeLock(p) \/ WaitReadPending(p)
             \/ WaitAgain(p) \/ SlotAgain(p) \/ GlobalFull(p) \/ TakeGlobal(p)
             \/ TakeProvider(p) \/ ProviderFull(p)
    <3>1. UNCHANGED <<disk, call, late, observed>>
      BY <2>1 DEF TakeLock, WaitTakeover, RmTakeLock, WaitReadPending, WaitAgain, SlotAgain,
         GlobalFull, TakeGlobal, TakeProvider, ProviderFull, history
    <3> QED BY <3>1, LocalMeasures, DiskMeasured, LateStays DEF MeasuredInv
  <2>2. CASE JoinHolder(p) \/ HeldReserve(p) \/ SlotTimeout(p) \/ Handover(p)
    <3>1. UNCHANGED <<disk, late, observed>>
      BY <2>2 DEF JoinHolder, HeldReserve, SlotTimeout, Handover, history
    <3>2. \A q \in Procs : q # p => call'[q] = call[q]
      BY <2>2 DEF JoinHolder, HeldReserve, SlotTimeout, Handover, TypeOK
    <3>3. /\ call'[p].acct = call[p].acct /\ call'[p].answer = call[p].answer
          /\ call'[p].draft.state = "Success" => call'[p].draft = call[p].draft
      <4>0. p \in DOMAIN call /\ call[p] \in Call BY DEF TypeOK
      <4>1. CASE JoinHolder(p)
        <5>1. call'[p] = [call[p] EXCEPT !.deadline = now + WaitBudget]
          BY <4>0, <4>1 DEF JoinHolder
        <5> QED BY <4>0, <5>1 DEF Call
      <4>2. CASE HeldReserve(p)
        <5> DEFINE r == NewRecord("Pending", Never, now + MinRefresh,
                                  record[call[p].acct].failures, Empty)
        <5>1. call'[p] = [call[p] EXCEPT !.draft = r] BY <4>0, <4>2 DEF HeldReserve
        <5>2. r.state # "Success" BY DEF NewRecord
        <5> HIDE DEF r
        <5> QED BY <4>0, <5>1, <5>2 DEF Call
      <4>3. CASE SlotTimeout(p)
        <5> DEFINE r == [call[p].draft EXCEPT !.state = "Deferred"]
        <5>1. call'[p] = [call[p] EXCEPT !.draft = r] BY <4>0, <4>3 DEF SlotTimeout
        <5>2. r.state # "Success" BY <4>0 DEF Call, Record
        <5> HIDE DEF r
        <5> QED BY <4>0, <5>1, <5>2 DEF Call
      <4>4. CASE Handover(p)
        <5>1. call'[p] = [call[p] EXCEPT !.attempt = 1, !.deadline = Never]
          BY <4>0, <4>4 DEF Handover
        <5> QED BY <4>0, <5>1 DEF Call
      <4> QED BY <2>2, <4>1, <4>2, <4>3, <4>4
    <3> QED BY <3>1, <3>2, <3>3, LocalMeasures, DiskMeasured, LateStays DEF MeasuredInv
  <2>3. CASE GiveUp(p) \/ WaitReadConclusive(p) \/ WaitTimeout(p) \/ HeldAnswer(p)
    <3>1. UNCHANGED <<disk, late, observed>>
      BY <2>3 DEF GiveUp, WaitReadConclusive, WaitTimeout, HeldAnswer, history
    <3>2. \E ans : Return(p, ans) /\ Fits(p, ans)
      BY <2>3, FailedFits, RecordAnswerFits, CacheAnswerFits
         DEF GiveUp, WaitReadConclusive, WaitTimeout, HeldAnswer
    <3> QED BY <3>1, <3>2, ReturnMeasures, DiskMeasured, LateStays DEF MeasuredInv
  <2>4. CASE ReserveLands(p) \/ SaveLands(p)
    <3>1. Write(p) /\ UNCHANGED late BY <2>4 DEF ReserveLands, SaveLands
    <3>2. /\ \A q \in Procs : q # p => call'[q] = call[q]
          /\ call'[p].acct = call[p].acct /\ call'[p].answer = call[p].answer
          /\ call'[p].draft = call[p].draft
      BY <2>4 DEF ReserveLands, SaveLands, TypeOK, Call
    <3> QED BY <3>1, <3>2, WriteMeasures, LocalMeasures, LateStays DEF MeasuredInv
  <2>5. CASE DeferLands(p)
    <3>1. Write(p) /\ UNCHANGED late /\ Return(p, Failed) BY <2>5 DEF DeferLands
    <3> QED BY <3>1, WriteMeasures, ReturnMeasures, FailedFits, LateStays DEF MeasuredInv
  <2>6. ASSUME NEW life \in Lifetimes, QuerySucceeds(p, life) PROVE MeasuredInv'
    <3> DEFINE a == call[p].acct
               exp == IF life = 0 THEN Empty ELSE now + life
    <3>1. a \in Accounts BY DEF TypeOK, Call
    <3>2. /\ observed' = [observed EXCEPT ![a] = @ \cup {<<now, exp>>}]
          /\ call' = [call EXCEPT ![p].draft = NewRecord("Success", now, now + MinRefresh, 0, exp)]
          /\ UNCHANGED <<disk, late>>
      BY <2>6 DEF QuerySucceeds
    <3>3. \A b \in Accounts : observed[b] \subseteq observed'[b]
      BY <3>1, <3>2 DEF TypeOK
    <3>4. <<now, exp>> \in observed'[a] BY <3>1, <3>2 DEF TypeOK
    <3>5. \A b \in Accounts : RecordMeasured(b)' /\ CacheMeasured(b)'
      BY <3>2, <3>3 DEF MeasuredInv, RecordMeasured, CacheMeasured, Measured, disk
    <3>6. LateMeasured' BY <3>2, <3>3 DEF MeasuredInv, LateMeasured, Measured, TypeOK
    <3>7. /\ call'[p].acct = a /\ call'[p].answer = call[p].answer
          /\ call'[p].draft = NewRecord("Success", now, now + MinRefresh, 0, exp)
          /\ \A q \in Procs : q # p => call'[q] = call[q]
      BY <3>2 DEF TypeOK, Call
    <3>8. DraftMeasured(p)' BY <3>4, <3>7 DEF DraftMeasured, Measured, NewRecord
    <3>9. \A q \in Procs : call[q].acct \in Accounts BY DEF TypeOK, Call
    <3>10. \A q \in Procs : AnswerMeasured(q)'
      BY <3>3, <3>7, <3>9 DEF MeasuredInv, AnswerMeasured, Measured, Got
    <3>11. \A q \in Procs : q # p => DraftMeasured(q)'
      BY <3>3, <3>7, <3>9 DEF MeasuredInv, DraftMeasured, Measured
    <3> QED BY <3>5, <3>6, <3>8, <3>10, <3>11 DEF MeasuredInv
  <2>7. ASSUME NEW auth \in BOOLEAN, NEW d \in RetryAfters, QueryFails(p, auth, d)
        PROVE  MeasuredInv'
    <3> DEFINE r == NewRecord("Failure", Never,
                      now + Most(FailureDelay(call[p].draft.failures + 1, auth), d),
                      call[p].draft.failures + 1, Empty)
    <3>1. /\ call' = [call EXCEPT ![p] = [@ EXCEPT !.draft = r, !.denied = auth, !.owed = now + d]]
          /\ UNCHANGED <<disk, late, observed>>
      BY <2>7 DEF QueryFails, history
    <3>2. r.state = "Failure" BY DEF NewRecord
    <3> HIDE DEF r
    <3>3. /\ call'[p].acct = call[p].acct /\ call'[p].answer = call[p].answer
          /\ call'[p].draft = r
          /\ \A q \in Procs : q # p => call'[q] = call[q]
      BY <3>1 DEF TypeOK, Call
    <3> QED BY <3>1, <3>2, <3>3, LocalMeasures, DiskMeasured, LateStays DEF MeasuredInv
  <2>8. CASE Persist(p)
    <3> DEFINE a == call[p].acct
               r == call[p].draft
    <3>1. a \in Accounts BY DEF TypeOK, Call
    <3>2. /\ UNCHANGED <<record, late, observed>>
          /\ cache' = [cache EXCEPT ![a] = IF r.state = "Success"
                          THEN CacheSet(@, r.observed_at, r.expires)
                          ELSE CacheFail(@, call[p].denied)]
          /\ Return(p, IF r.state = "Success" THEN Reading(r.observed_at, r.expires) ELSE Failed)
      BY <2>8 DEF Persist, history
    <3>3. ASSUME NEW b \in Accounts PROVE CacheMeasured(b)'
      <4>1. CASE b # a BY <3>1, <3>2, <4>1 DEF MeasuredInv, CacheMeasured, Measured, TypeOK
      <4>2. CASE b = a /\ r.state = "Success"
        <5>1. cache'[a] = CacheSet(cache[a], r.observed_at, r.expires)
          BY <3>1, <3>2, <4>2 DEF TypeOK
        <5>2. \/ cache'[a] = cache[a]
              \/ cache'[a].cached_at = r.observed_at /\ cache'[a].expires = r.expires
          BY <5>1, <3>1 DEF CacheSet, NoEntry, TypeOK, CacheEntry
        <5> QED BY <3>1, <3>2, <4>2, <5>2 DEF MeasuredInv, CacheMeasured, DraftMeasured, Measured
      <4>3. CASE b = a /\ r.state # "Success"
        <5>1. cache'[a] = CacheFail(cache[a], call[p].denied) BY <3>1, <3>2, <4>3 DEF TypeOK
        <5>2. \/ cache'[a].cached_at = Never
              \/ cache'[a].cached_at = cache[a].cached_at /\ cache'[a].expires = cache[a].expires
          BY <5>1, <3>1 DEF CacheFail, TypeOK, CacheEntry
        <5> QED BY <3>1, <3>2, <4>3, <5>2 DEF MeasuredInv, CacheMeasured, Measured
      <4> QED BY <4>1, <4>2, <4>3
    <3>4. \A b \in Accounts : RecordMeasured(b)'
      BY <3>2 DEF MeasuredInv, RecordMeasured, Measured
    <3>5. \A q \in Procs : DraftMeasured(q)' /\ AnswerMeasured(q)'
      BY <3>2, ReturnMeasures, DraftAnswerFits, FailedFits
    <3> QED BY <3>2, <3>3, <3>4, <3>5, LateStays DEF MeasuredInv
  <2>9. CASE RmRecord(p) \/ RmCache(p)
    <3>1. UNCHANGED <<call, late, observed>> BY <2>9 DEF RmRecord, RmCache
    <3>2. ASSUME NEW b \in Accounts PROVE RecordMeasured(b)'
      <4>1. \/ record'[b] = record[b]
            \/ record'[b].state = "Removed"
        <5>1. CASE RmRecord(p)
          BY <5>1 DEF RmRecord, NewRecord, TypeOK
        <5>2. CASE RmCache(p) BY <5>2 DEF RmCache
        <5> QED BY <2>9, <5>1, <5>2
      <4> QED BY <3>1, <4>1 DEF MeasuredInv, RecordMeasured, Measured
    <3>3. ASSUME NEW b \in Accounts PROVE CacheMeasured(b)'
      <4>1. cache'[b] = cache[b] \/ cache'[b].cached_at = Never
        <5>1. CASE RmRecord(p) BY <5>1 DEF RmRecord
        <5>2. CASE RmCache(p)
          <6>1. cache' = [cache EXCEPT ![call[p].acct] = CacheRemove]
            BY <5>2 DEF RmCache
          <6>2. CacheRemove.cached_at = Never BY DEF CacheRemove, NoEntry
          <6> QED BY <6>1, <6>2 DEF TypeOK
        <5> QED BY <2>9, <5>1, <5>2
      <4> QED BY <3>1, <4>1 DEF MeasuredInv, CacheMeasured, Measured
    <3> QED BY <3>1, <3>2, <3>3, LocalMeasures, LateStays DEF MeasuredInv
  <2> QED BY <1>1, <2>1, <2>2, <2>3, <2>4, <2>5, <2>6, <2>7, <2>8, <2>9 DEF Advance
<1>2. ASSUME NEW p \in Procs, QueryAgain(p) PROVE MeasuredInv'
  <2>1. /\ UNCHANGED <<disk, late, observed>>
        /\ \A q \in Procs : q # p => call'[q] = call[q]
        /\ call'[p].acct = call[p].acct /\ call'[p].answer = call[p].answer
        /\ call'[p].draft = call[p].draft
    BY <1>2 DEF QueryAgain, TypeOK, Call, history
  <2> QED BY <2>1, LocalMeasures, DiskMeasured, LateStays DEF MeasuredInv
<1>3. ASSUME NEW p \in Procs, NEW a \in Accounts, Start(p, a) PROVE MeasuredInv'
  <2>1. PICK to, ans :
          /\ Begin(p, a, to, ans)
          /\ ans.kind \in {"reading", "reused"} => Measured(a, ans.observed_at, ans.expires)
    <3>1. CASE CacheHit(p, a)
      BY <3>1 DEF CacheHit, Fresh, Reused, MeasuredInv, CacheMeasured
    <3>2. CASE CacheBackoff(p, a) \/ CacheMiss(p, a) \/ RmBegin(p, a)
      BY <3>2 DEF CacheBackoff, CacheMiss, RmBegin, Failed, NoAnswer
    <3> QED BY <1>3, <3>1, <3>2 DEF Start
  <2>2. /\ UNCHANGED <<disk, late, observed>>
        /\ call'[p] = NewCall(a, removedAt[a], ans)
        /\ \A q \in Procs : q # p => call'[q] = call[q]
    BY <2>1 DEF Begin, TypeOK, history
  <2>3. DraftMeasured(p)' BY <2>2 DEF DraftMeasured, NewCall, Missing, NewRecord
  <2>4. AnswerMeasured(p)' BY <2>1, <2>2 DEF AnswerMeasured, NewCall, Got, Measured
  <2>5. \A q \in Procs : DraftMeasured(q)' /\ AnswerMeasured(q)'
    BY <2>2, <2>3, <2>4 DEF MeasuredInv, DraftMeasured, AnswerMeasured, Measured, Got
  <2> QED BY <2>2, <2>5, DiskMeasured, LateStays DEF MeasuredInv
<1>4. ASSUME NEW p \in Procs, Break(p) PROVE MeasuredInv'
  <2>1. CASE ReserveFails(p) \/ PersistFails(p) \/ Kill(p)
    <3>1. UNCHANGED <<disk, late, observed>>
      BY <2>1 DEF ReserveFails, PersistFails, Kill, Stop, history
    <3>2. \E ans : Return(p, ans) /\ Fits(p, ans)
      BY <2>1, FailedFits, DraftAnswerFits DEF ReserveFails, PersistFails, Kill, Stop
    <3> QED BY <3>1, <3>2, ReturnMeasures, DiskMeasured, LateStays DEF MeasuredInv
  <2>2. CASE SaveFails(p) \/ RmRecordFails(p) \/ RmCacheFails(p)
    <3>1. UNCHANGED <<disk, call, late, observed>>
      BY <2>2 DEF SaveFails, RmRecordFails, RmCacheFails, history
    <3> QED BY <3>1, LocalMeasures, DiskMeasured, LateStays DEF MeasuredInv
  <2>3. CASE Drop(p)
    <3>1. /\ UNCHANGED <<disk, observed>> /\ Return(p, NoAnswer)
          /\ late' = late \cup {<<call[p].acct, call[p].draft>>}
      BY <2>3 DEF Drop, Stop, history
    <3>2. LateMeasured' BY <3>1 DEF MeasuredInv, LateMeasured, DraftMeasured, Measured
    <3> QED BY <3>1, <3>2, ReturnMeasures, FailedFits, DiskMeasured DEF MeasuredInv
  <2> QED BY <1>4, <2>1, <2>2, <2>3 DEF Break
<1>5. ASSUME NEW w \in late, LateWrite(w) PROVE MeasuredInv'
  <2>1. /\ record' = [record EXCEPT ![w[1]] = w[2]] /\ late' = late \ {w}
        /\ UNCHANGED <<cache, call, observed>>
    BY <1>5 DEF LateWrite
  <2>2. \A b \in Accounts : RecordMeasured(b)' /\ CacheMeasured(b)'
    BY <2>1 DEF MeasuredInv, LateMeasured, RecordMeasured, CacheMeasured, Measured, TypeOK
  <2>3. LateMeasured' BY <2>1 DEF MeasuredInv, LateMeasured, Measured
  <2>4. \A q \in Procs : DraftMeasured(q)' /\ AnswerMeasured(q)'
    BY <2>1 DEF MeasuredInv, DraftMeasured, AnswerMeasured, Measured, Got
  <2> QED BY <2>2, <2>3, <2>4 DEF MeasuredInv
<1>6. ASSUME NEW b \in Accounts, Damage(b) PROVE MeasuredInv'
  <2>1. /\ record' = [record EXCEPT ![b] = Unreadable] /\ UNCHANGED <<cache, call, late, observed>>
    BY <1>6 DEF Damage, history
  <2>2. \A c \in Accounts : RecordMeasured(c)' /\ CacheMeasured(c)'
    BY <2>1 DEF MeasuredInv, RecordMeasured, CacheMeasured, Measured, TypeOK, Unreadable, NewRecord
  <2>3. \A q \in Procs : DraftMeasured(q)' /\ AnswerMeasured(q)'
    BY <2>1 DEF MeasuredInv, DraftMeasured, AnswerMeasured, Measured, Got
  <2> QED BY <2>1, <2>2, <2>3, LateStays DEF MeasuredInv
<1>7. CASE Tick \/ UNCHANGED vars
  <2>1. UNCHANGED <<disk, call, late, observed>> BY <1>7 DEF Tick, vars, history, disk
  <2>2. \A q \in Procs : DraftMeasured(q)' /\ AnswerMeasured(q)'
    BY <2>1 DEF MeasuredInv, DraftMeasured, AnswerMeasured, Measured, Got
  <2> QED BY <2>1, <2>2, DiskMeasured, LateStays DEF MeasuredInv
<1> QED BY <1>1, <1>2, <1>3, <1>4, <1>5, <1>6, <1>7 DEF Next

\* Reuse, coalescing, kills and writes that land late never hand out numbers
\* with a time at which they were not measured.
THEOREM AnswersMeasured == Spec => []AnswersAreMeasurements
<1>1. Init => MeasuredInv
  BY DEF Init, Quiet, MeasuredInv, RecordMeasured, CacheMeasured, DraftMeasured, AnswerMeasured,
     LateMeasured, Missing, NewRecord, NoEntry, NewCall, NoAnswer, Got
<1>2. TypeOK /\ MeasuredInv /\ [Next]_vars => MeasuredInv' BY MeasuredStep
<1>3. MeasuredInv => AnswersAreMeasurements
  BY DEF MeasuredInv, AnswerMeasured, AnswersAreMeasurements, Measured
<1> QED BY <1>1, <1>2, <1>3, TypeCorrect, PTL DEF Spec

-----------------------------------------------------------------------------
(* What was measured before an account was removed is never handed out after *)

RecordKnown(a) == record[a].state = "Success" => record[a].observed_at >= removedAt[a]
CacheKnown(a) == cache[a].cached_at # Never => cache[a].cached_at >= removedAt[a]
\* A result that is about to be stored was measured after the last removal: no
\* removal gets the flock as long as its process has it.
DraftKnown(p) ==
    call[p].draft.state = "Success" =>
        /\ pc[p] \in {"Save", "Persist"}
        /\ call[p].draft.observed_at >= removedAt[call[p].acct]
AnswerKnown(p) == Got(p) => call[p].answer.observed_at >= call[p].since
SinceKnown(p) == call[p].since <= removedAt[call[p].acct]

FilesKnown == \A a \in Accounts : removedAt[a] <= now /\ RecordKnown(a) /\ CacheKnown(a)
CallsKnown == \A p \in Procs : DraftKnown(p) /\ AnswerKnown(p) /\ SinceKnown(p)

\* The answer of a call that ends is not older than what the call began with.
Recent(p, ans) == ans.kind \in {"reading", "reused"} => ans.observed_at >= call[p].since

LEMMA RecentAnswers ==
    ASSUME TypeOK, FilesKnown, CallsKnown, NEW p \in Procs
    PROVE  /\ Recent(p, Failed) /\ Recent(p, NoAnswer)
           /\ Recent(p, RecordAnswer(record[call[p].acct]))
           /\ LET c == cache[call[p].acct]
              IN Fresh(c) => Recent(p, Reused(c.cached_at, c.expires))
           /\ LET r == call[p].draft
              IN r.state = "Success" => Recent(p, Reading(r.observed_at, r.expires))
<1> DEFINE a == call[p].acct
<1>1. /\ a \in Accounts /\ call[p].since \in Nat /\ removedAt[a] \in Nat
      /\ record[a].observed_at \in Nat /\ cache[a].cached_at \in Nat
      /\ call[p].draft.observed_at \in Nat
  BY DEF TypeOK, Call, Record, CacheEntry
<1>2. call[p].since <= removedAt[a] BY DEF CallsKnown, SinceKnown
<1>3. Recent(p, Failed) /\ Recent(p, NoAnswer) BY DEF Recent, Failed, NoAnswer
<1>4. Recent(p, RecordAnswer(record[a]))
  <2>1. record[a].state = "Success" => record[a].observed_at >= call[p].since
    BY <1>1, <1>2 DEF FilesKnown, RecordKnown
  <2> QED BY <2>1, <1>3 DEF Recent, RecordAnswer, Reused
<1>5. Fresh(cache[a]) => Recent(p, Reused(cache[a].cached_at, cache[a].expires))
  <2>1. cache[a].cached_at # Never => cache[a].cached_at >= call[p].since
    BY <1>1, <1>2 DEF FilesKnown, CacheKnown
  <2> QED BY <2>1 DEF Recent, Reused, Fresh
<1>6. call[p].draft.state = "Success" =>
          Recent(p, Reading(call[p].draft.observed_at, call[p].draft.expires))
  <2>1. call[p].draft.state = "Success" => call[p].draft.observed_at >= call[p].since
    BY <1>1, <1>2 DEF CallsKnown, DraftKnown
  <2> QED BY <2>1 DEF Recent, Reading
<1> QED BY <1>3, <1>4, <1>5, <1>6

\* The calls after that of p has ended with such an answer.
LEMMA ReturnKnown ==
    ASSUME TypeOK, CallsKnown, NEW p \in Procs, NEW ans, Return(p, ans), Recent(p, ans),
           UNCHANGED removedAt, \A q \in Procs : q # p => pc'[q] = pc[q]
    PROVE  CallsKnown'
<1>1. \A q \in Procs : q # p => call'[q] = call[q] BY ReturnKeepsAccount
<1>2. call'[p] = NewCall(call[p].acct, call[p].since, ans) BY DEF Return, TypeOK
<1>3. DraftKnown(p)' BY <1>2 DEF DraftKnown, NewCall, Missing, NewRecord
<1>4. AnswerKnown(p)' BY <1>2 DEF AnswerKnown, NewCall, Got, Recent
<1>5. SinceKnown(p)' BY <1>2 DEF CallsKnown, SinceKnown, NewCall
<1>6. \A q \in Procs : q # p => DraftKnown(q)' /\ AnswerKnown(q)' /\ SinceKnown(q)'
  BY <1>1 DEF CallsKnown, DraftKnown, AnswerKnown, SinceKnown, Got
<1> QED BY <1>3, <1>4, <1>5, <1>6 DEF CallsKnown

\* A step of p within a call, that does not make its draft a result.
LEMMA LocalKnown ==
    ASSUME CallsKnown, NEW p \in Procs, UNCHANGED removedAt,
           \A q \in Procs : q # p => call'[q] = call[q] /\ pc'[q] = pc[q],
           call'[p].acct = call[p].acct, call'[p].answer = call[p].answer,
           call'[p].since = call[p].since,
           call'[p].draft.state = "Success" =>
               call'[p].draft = call[p].draft
               /\ (pc[p] \in {"Save", "Persist"} => pc'[p] \in {"Save", "Persist"})
    PROVE  CallsKnown'
<1>1. DraftKnown(p)' BY DEF CallsKnown, DraftKnown
<1>2. AnswerKnown(p)' /\ SinceKnown(p)' BY DEF CallsKnown, AnswerKnown, SinceKnown, Got
<1>3. \A q \in Procs : q # p => DraftKnown(q)' /\ AnswerKnown(q)' /\ SinceKnown(q)'
  BY DEF CallsKnown, DraftKnown, AnswerKnown, SinceKnown, Got
<1> QED BY <1>1, <1>2, <1>3 DEF CallsKnown

LEMMA FilesStayKnown ==
    ASSUME FilesKnown, UNCHANGED <<disk, removedAt, now>> PROVE FilesKnown'
BY DEF FilesKnown, RecordKnown, CacheKnown, disk

\* A draft that is written.
LEMMA WriteKnown ==
    ASSUME TypeOK, FilesKnown, CallsKnown, NEW p \in Procs, Write(p), UNCHANGED now
    PROVE  FilesKnown' /\ UNCHANGED removedAt
<1>1. /\ record' = [record EXCEPT ![call[p].acct] = call[p].draft]
      /\ UNCHANGED <<cache, removedAt>>
  BY DEF Write
<1>2. ASSUME NEW a \in Accounts PROVE RecordKnown(a)'
  BY <1>1, <1>2 DEF FilesKnown, CallsKnown, RecordKnown, DraftKnown, TypeOK
<1>3. ASSUME NEW a \in Accounts PROVE removedAt'[a] <= now' /\ CacheKnown(a)'
  BY <1>1, <1>3 DEF FilesKnown, CacheKnown
<1> QED BY <1>1, <1>2, <1>3 DEF FilesKnown

LEMMA AdvanceKnown ==
    ASSUME TypeOK, LockInv, FilesKnown, CallsKnown, NEW p \in Procs, Advance(p)
    PROVE  FilesKnown' /\ CallsKnown'
<1>0. p \in DOMAIN call /\ call[p] \in Call BY DEF TypeOK
<1>1. CASE TakeLock(p) \/ WaitTakeover(p) \/ RmTakeLock(p) \/ WaitReadPending(p)
           \/ WaitAgain(p) \/ SlotAgain(p) \/ GlobalFull(p) \/ TakeGlobal(p)
           \/ TakeProvider(p) \/ ProviderFull(p)
  <2>1. /\ UNCHANGED <<disk, call, removedAt, now>> /\ pc[p] \notin {"Save", "Persist"}
        /\ \A q \in Procs : q # p => pc'[q] = pc[q]
    BY <1>1 DEF TakeLock, WaitTakeover, RmTakeLock, WaitReadPending, WaitAgain, SlotAgain,
       GlobalFull, TakeGlobal, TakeProvider, ProviderFull, history, Goto, TypeOK
  <2> QED BY <2>1, LocalKnown, FilesStayKnown
<1>2. CASE JoinHolder(p) \/ HeldReserve(p) \/ SlotTimeout(p) \/ Handover(p)
  <2>1. /\ UNCHANGED <<disk, removedAt, now>> /\ pc[p] \notin {"Save", "Persist"}
        /\ \A q \in Procs : q # p => pc'[q] = pc[q] /\ call'[q] = call[q]
    BY <1>2 DEF JoinHolder, HeldReserve, SlotTimeout, Handover, history, Goto, TypeOK
  <2>2. /\ call'[p].acct = call[p].acct /\ call'[p].answer = call[p].answer
        /\ call'[p].since = call[p].since
        /\ call'[p].draft.state = "Success" => call'[p].draft = call[p].draft
    <3>1. CASE JoinHolder(p)
      <4>1. call'[p] = [call[p] EXCEPT !.deadline = now + WaitBudget]
        BY <1>0, <3>1 DEF JoinHolder
      <4> QED BY <1>0, <4>1 DEF Call
    <3>2. CASE HeldReserve(p)
      <4> DEFINE r == NewRecord("Pending", Never, now + MinRefresh,
                                record[call[p].acct].failures, Empty)
      <4>1. call'[p] = [call[p] EXCEPT !.draft = r] BY <1>0, <3>2 DEF HeldReserve
      <4>2. r.state # "Success" BY DEF NewRecord
      <4> HIDE DEF r
      <4> QED BY <1>0, <4>1, <4>2 DEF Call
    <3>3. CASE SlotTimeout(p)
      <4> DEFINE r == [call[p].draft EXCEPT !.state = "Deferred"]
      <4>1. call'[p] = [call[p] EXCEPT !.draft = r] BY <1>0, <3>3 DEF SlotTimeout
      <4>2. r.state # "Success" BY <1>0 DEF Call, Record
      <4> HIDE DEF r
      <4> QED BY <1>0, <4>1, <4>2 DEF Call
    <3>4. CASE Handover(p)
      <4>1. call'[p] = [call[p] EXCEPT !.attempt = 1, !.deadline = Never]
        BY <1>0, <3>4 DEF Handover
      <4> QED BY <1>0, <4>1 DEF Call
    <3> QED BY <1>2, <3>1, <3>2, <3>3, <3>4
  <2> QED BY <2>1, <2>2, LocalKnown, FilesStayKnown
<1>3. CASE GiveUp(p) \/ WaitReadConclusive(p) \/ WaitTimeout(p) \/ HeldAnswer(p)
  <2>1. /\ UNCHANGED <<disk, removedAt, now>>
        /\ \A q \in Procs : q # p => pc'[q] = pc[q]
    BY <1>3 DEF GiveUp, WaitReadConclusive, WaitTimeout, HeldAnswer, history, Goto, TypeOK
  <2>2. \E ans : Return(p, ans) /\ Recent(p, ans)
    BY <1>3, RecentAnswers DEF GiveUp, WaitReadConclusive, WaitTimeout, HeldAnswer
  <2> QED BY <2>1, <2>2, ReturnKnown, FilesStayKnown
<1>4. CASE ReserveLands(p) \/ SaveLands(p)
  <2>1. Write(p) /\ UNCHANGED now BY <1>4 DEF ReserveLands, SaveLands
  <2>2. /\ \A q \in Procs : q # p => call'[q] = call[q] /\ pc'[q] = pc[q]
        /\ call'[p].acct = call[p].acct /\ call'[p].answer = call[p].answer
        /\ call'[p].draft = call[p].draft /\ call'[p].since = call[p].since
        /\ pc[p] \in {"Save", "Persist"} => pc'[p] \in {"Save", "Persist"}
    <3>1. CASE ReserveLands(p)
      <4>1. call'[p] = [call[p] EXCEPT !.deadline = now + SlotWait]
        BY <1>0, <3>1 DEF ReserveLands
      <4> QED BY <1>0, <4>1, <3>1 DEF ReserveLands, Goto, TypeOK, Call
    <3>2. CASE SaveLands(p) BY <3>2 DEF SaveLands, Goto, TypeOK
    <3> QED BY <1>4, <3>1, <3>2
  <2> QED BY <2>1, <2>2, WriteKnown, LocalKnown
<1>5. CASE DeferLands(p)
  <2>1. /\ Write(p) /\ UNCHANGED now /\ Return(p, Failed)
        /\ \A q \in Procs : q # p => pc'[q] = pc[q]
    BY <1>5 DEF DeferLands, Goto, TypeOK
  <2> QED BY <2>1, WriteKnown, ReturnKnown, RecentAnswers
<1>6. ASSUME NEW life \in Lifetimes, QuerySucceeds(p, life)
      PROVE  FilesKnown' /\ CallsKnown'
  <2> DEFINE a == call[p].acct
             r == NewRecord("Success", now, now + MinRefresh, 0,
                            IF life = 0 THEN Empty ELSE now + life)
  <2>1. /\ call'[p] = [call[p] EXCEPT !.draft = r]
        /\ UNCHANGED <<disk, removedAt, now>> /\ pc'[p] = "Save"
        /\ \A q \in Procs : q # p => pc'[q] = pc[q] /\ call'[q] = call[q]
    BY <1>6, <1>0 DEF QuerySucceeds, Goto, TypeOK
  <2>2. r.observed_at = now BY DEF NewRecord
  <2> HIDE DEF r
  <2>3. /\ call'[p].acct = a /\ call'[p].answer = call[p].answer
        /\ call'[p].since = call[p].since /\ call'[p].draft = r
    BY <2>1, <1>0 DEF Call
  <2>4. a \in Accounts /\ removedAt[a] \in Nat /\ now \in Nat BY <1>0 DEF TypeOK, Call
  <2>5. DraftKnown(p)'
    <3>1. removedAt[a] <= now BY <2>4 DEF FilesKnown
    <3> QED BY <2>1, <2>2, <2>3, <2>4, <3>1 DEF DraftKnown
  <2>6. AnswerKnown(p)' /\ SinceKnown(p)'
    BY <2>1, <2>3 DEF CallsKnown, AnswerKnown, SinceKnown, Got
  <2>7. \A q \in Procs : q # p => DraftKnown(q)' /\ AnswerKnown(q)' /\ SinceKnown(q)'
    BY <2>1 DEF CallsKnown, DraftKnown, AnswerKnown, SinceKnown, Got
  <2> QED BY <2>1, <2>5, <2>6, <2>7, FilesStayKnown DEF CallsKnown
<1>7. ASSUME NEW auth \in BOOLEAN, NEW d \in RetryAfters, QueryFails(p, auth, d)
      PROVE  FilesKnown' /\ CallsKnown'
  <2> DEFINE r == NewRecord("Failure", Never,
                    now + Most(FailureDelay(call[p].draft.failures + 1, auth), d),
                    call[p].draft.failures + 1, Empty)
  <2>1. /\ call' = [call EXCEPT ![p] = [@ EXCEPT !.draft = r, !.denied = auth, !.owed = now + d]]
        /\ UNCHANGED <<disk, removedAt, now>>
        /\ \A q \in Procs : q # p => pc'[q] = pc[q]
    BY <1>7 DEF QueryFails, history, Goto, TypeOK
  <2>2. r.state = "Failure" BY DEF NewRecord
  <2> HIDE DEF r
  <2>3. /\ call'[p].acct = call[p].acct /\ call'[p].answer = call[p].answer
        /\ call'[p].since = call[p].since /\ call'[p].draft = r
        /\ \A q \in Procs : q # p => call'[q] = call[q]
    BY <2>1 DEF TypeOK, Call
  <2> QED BY <2>1, <2>2, <2>3, LocalKnown, FilesStayKnown
<1>8. CASE Persist(p)
  <2> DEFINE a == call[p].acct
             r == call[p].draft
  <2>1. a \in Accounts /\ r \in Record /\ cache[a] \in CacheEntry BY <1>0 DEF TypeOK, Call
  <2>2. /\ UNCHANGED <<record, removedAt, now>>
        /\ cache' = [cache EXCEPT ![a] = IF r.state = "Success"
                        THEN CacheSet(@, r.observed_at, r.expires)
                        ELSE CacheFail(@, call[p].denied)]
        /\ Return(p, IF r.state = "Success" THEN Reading(r.observed_at, r.expires) ELSE Failed)
        /\ \A q \in Procs : q # p => pc'[q] = pc[q]
    BY <1>8 DEF Persist, history, Goto, TypeOK
  <2>3. ASSUME NEW b \in Accounts PROVE CacheKnown(b)'
    <3>1. CASE b # a BY <2>1, <2>2, <3>1 DEF FilesKnown, CacheKnown, TypeOK
    <3>2. CASE b = a /\ r.state = "Success"
      <4>1. cache'[a] = CacheSet(cache[a], r.observed_at, r.expires)
        BY <2>1, <2>2, <3>2 DEF TypeOK
      <4>2. cache'[a] = cache[a] \/ cache'[a].cached_at = r.observed_at
        BY <4>1, <2>1 DEF CacheSet, NoEntry, CacheEntry
      <4>3. r.observed_at >= removedAt[a] BY <3>2 DEF CallsKnown, DraftKnown
      <4> QED BY <2>2, <3>2, <4>2, <4>3 DEF FilesKnown, CacheKnown
    <3>3. CASE b = a /\ r.state # "Success"
      <4>1. cache'[a] = CacheFail(cache[a], call[p].denied) BY <2>1, <2>2, <3>3 DEF TypeOK
      <4>2. cache'[a].cached_at \in {Never, cache[a].cached_at}
        BY <4>1, <2>1 DEF CacheFail, CacheEntry
      <4> QED BY <2>2, <3>3, <4>2 DEF FilesKnown, CacheKnown
    <3> QED BY <3>1, <3>2, <3>3
  <2>4. \A b \in Accounts : removedAt'[b] <= now' /\ RecordKnown(b)'
    BY <2>2 DEF FilesKnown, RecordKnown
  <2>5. CallsKnown' BY <2>2, ReturnKnown, RecentAnswers
  <2> QED BY <2>3, <2>4, <2>5 DEF FilesKnown
<1>9. CASE RmRecord(p)
  <2>1. /\ UNCHANGED <<call, cache, removedAt, now>> /\ pc[p] \notin {"Save", "Persist"}
        /\ \A q \in Procs : q # p => pc'[q] = pc[q]
    BY <1>9 DEF RmRecord, Goto, TypeOK
  <2>2. ASSUME NEW b \in Accounts PROVE RecordKnown(b)'
    <3>1. record'[b] = record[b] \/ record'[b].state = "Removed"
      BY <1>9 DEF RmRecord, NewRecord, TypeOK
    <3> QED BY <3>1, <2>1 DEF FilesKnown, RecordKnown
  <2>3. \A b \in Accounts : removedAt'[b] <= now' /\ CacheKnown(b)'
    BY <2>1 DEF FilesKnown, CacheKnown
  <2> QED BY <2>1, <2>2, <2>3, LocalKnown DEF FilesKnown
<1>10. CASE RmCache(p)
  <2> DEFINE a == call[p].acct
  <2>1. /\ UNCHANGED <<call, record, now>> /\ pc[p] = "RmCache"
        /\ cache' = [cache EXCEPT ![a] = CacheRemove]
        /\ removedAt' = [removedAt EXCEPT ![a] = IF record[a].state = "Removed" THEN now ELSE @]
        /\ \A q \in Procs : q # p => pc'[q] = pc[q]
    BY <1>10 DEF RmCache, Goto, TypeOK
  <2>2. a \in Accounts /\ now \in Nat /\ removedAt \in [Accounts -> Nat]
        /\ \A q \in Procs : call[q] \in Call
    BY <1>0 DEF TypeOK, Call
  <2>3. \A b \in Accounts : removedAt[b] <= now BY DEF FilesKnown
  <2>4. \A b \in Accounts : removedAt'[b] <= now' /\ removedAt[b] <= removedAt'[b]
    BY <2>1, <2>2, <2>3
  <2>5. ASSUME NEW b \in Accounts PROVE RecordKnown(b)'
    <3>1. removedAt'[b] = removedAt[b] \/ record[b].state = "Removed" BY <2>1, <2>2
    <3> QED BY <2>1, <3>1 DEF FilesKnown, RecordKnown
  <2>6. ASSUME NEW b \in Accounts PROVE CacheKnown(b)'
    <3>1. CacheRemove.cached_at = Never BY DEF CacheRemove, NoEntry
    <3>2. CASE b = a BY <2>1, <2>2, <3>1, <3>2 DEF CacheKnown, TypeOK
    <3>3. CASE b # a BY <2>1, <2>2, <3>3 DEF FilesKnown, CacheKnown, TypeOK
    <3> QED BY <3>2, <3>3
  <2>7. ASSUME NEW q \in Procs PROVE DraftKnown(q)'
    <3>1. CASE call[q].draft.state # "Success" BY <2>1, <3>1 DEF DraftKnown
    <3>2. CASE call[q].draft.state = "Success"
      <4>1. pc[q] \in {"Save", "Persist"} /\ call[q].draft.observed_at >= removedAt[call[q].acct]
        BY <3>2 DEF CallsKnown, DraftKnown
      <4>2. q # p BY <4>1, <2>1
      <4>3. lock[call[q].acct] = q /\ lock[a] = p BY <4>1, <2>1 DEF LockInv, Holding
      <4>4. call[q].acct # a BY <4>2, <4>3
      <4>5. removedAt'[call[q].acct] = removedAt[call[q].acct] BY <2>1, <2>2, <4>4 DEF Call
      <4> QED BY <2>1, <4>1, <4>2, <4>5 DEF DraftKnown
    <3> QED BY <3>1, <3>2
  <2>8. ASSUME NEW q \in Procs PROVE AnswerKnown(q)' /\ SinceKnown(q)'
    <3>1. call[q].acct \in Accounts /\ call[q].since \in Nat BY <2>2 DEF Call
    <3>2. call[q].since <= removedAt[call[q].acct] BY DEF CallsKnown, SinceKnown
    <3>3. removedAt[call[q].acct] <= removedAt'[call[q].acct] BY <3>1, <2>4
    <3>4. /\ removedAt[call[q].acct] \in Nat /\ removedAt'[call[q].acct] \in Nat
      BY <2>1, <2>2, <3>1
    <3>5. SinceKnown(q)' BY <2>1, <3>1, <3>2, <3>3, <3>4 DEF SinceKnown
    <3> QED BY <2>1, <3>5 DEF CallsKnown, AnswerKnown, Got
  <2> QED BY <2>4, <2>5, <2>6, <2>7, <2>8 DEF FilesKnown, CallsKnown
<1> QED BY <1>1, <1>2, <1>3, <1>4, <1>5, <1>6, <1>7, <1>8, <1>9, <1>10 DEF Advance

\* A call that begins owns no result yet, and what it reuses is in the cache.
LEMMA StartKnown ==
    ASSUME TypeOK, FilesKnown, CallsKnown, NEW p \in Procs, NEW a \in Accounts, Start(p, a)
    PROVE  FilesKnown' /\ CallsKnown'
<1>1. \E to \in PCs, ans \in {Failed, NoAnswer, Reused(cache[a].cached_at, cache[a].expires)} :
          /\ Begin(p, a, to, ans)
          /\ ans.kind = "reused" => cache[a].cached_at # Never
  BY DEF Start, CacheHit, CacheBackoff, CacheMiss, RmBegin, Fresh, PCs, Failed, NoAnswer
<1>2. PICK ans \in {Failed, NoAnswer, Reused(cache[a].cached_at, cache[a].expires)} :
          /\ \E to \in PCs : Begin(p, a, to, ans)
          /\ ans.kind = "reused" => cache[a].cached_at # Never
  BY <1>1
<1>3. /\ call'[p] = NewCall(a, removedAt[a], ans) /\ UNCHANGED <<disk, removedAt, now>>
      /\ \A q \in Procs : q # p => call'[q] = call[q] /\ pc'[q] = pc[q]
  BY <1>2 DEF Begin, Goto, history, TypeOK
<1>4. a \in Accounts /\ removedAt[a] \in Nat /\ cache[a].cached_at \in Nat
  BY DEF TypeOK, CacheEntry
<1>5. ans.kind \in {"reading", "reused"} => ans.observed_at >= removedAt[a]
  <2>1. cache[a].cached_at # Never => cache[a].cached_at >= removedAt[a]
    BY DEF FilesKnown, CacheKnown
  <2> QED BY <1>2, <2>1 DEF Failed, NoAnswer, Reused
<1>6. DraftKnown(p)' BY <1>3 DEF DraftKnown, NewCall, Missing, NewRecord
<1>7. AnswerKnown(p)' BY <1>3, <1>5 DEF AnswerKnown, NewCall, Got
<1>8. SinceKnown(p)' BY <1>3, <1>4 DEF SinceKnown, NewCall
<1>9. \A q \in Procs : q # p => DraftKnown(q)' /\ AnswerKnown(q)' /\ SinceKnown(q)'
  BY <1>3 DEF CallsKnown, DraftKnown, AnswerKnown, SinceKnown, Got
<1> QED BY <1>3, <1>6, <1>7, <1>8, <1>9, FilesStayKnown DEF CallsKnown

\* A failure may end a call, or leave out a write.
LEMMA BreakKnown ==
    ASSUME TypeOK, FilesKnown, CallsKnown, NEW p \in Procs, Break(p)
    PROVE  FilesKnown' /\ CallsKnown'
<1>1. CASE ReserveFails(p) \/ PersistFails(p) \/ Kill(p) \/ Drop(p)
  <2>1. /\ UNCHANGED <<disk, removedAt, now>>
        /\ \A q \in Procs : q # p => pc'[q] = pc[q]
    BY <1>1 DEF ReserveFails, PersistFails, Kill, Drop, Stop, history, Goto, TypeOK
  <2>2. \E ans : Return(p, ans) /\ Recent(p, ans)
    BY <1>1, RecentAnswers DEF ReserveFails, PersistFails, Kill, Drop, Stop
  <2> QED BY <2>1, <2>2, ReturnKnown, FilesStayKnown
<1>2. CASE SaveFails(p) \/ RmRecordFails(p) \/ RmCacheFails(p)
  <2>1. /\ UNCHANGED <<disk, call, removedAt, now>>
        /\ \A q \in Procs : q # p => pc'[q] = pc[q]
        /\ pc[p] \in {"Save", "Persist"} => pc'[p] \in {"Save", "Persist"}
    BY <1>2 DEF SaveFails, RmRecordFails, RmCacheFails, history, Goto, TypeOK
  <2> QED BY <2>1, LocalKnown, FilesStayKnown
<1> QED BY <1>1, <1>2 DEF Break

LEMMA KnownStep ==
    ASSUME TypeOK, LockInv, late = {}, FilesKnown, CallsKnown, [Next]_vars
    PROVE  FilesKnown' /\ CallsKnown'
<1>1. ASSUME NEW p \in Procs, Advance(p) PROVE FilesKnown' /\ CallsKnown'
  BY <1>1, AdvanceKnown
<1>2. ASSUME NEW p \in Procs, QueryAgain(p) PROVE FilesKnown' /\ CallsKnown'
  <2>1. /\ call' = [call EXCEPT ![p].tries = @ + 1]
        /\ UNCHANGED <<disk, removedAt, now, pc>>
    BY <1>2 DEF QueryAgain, history
  <2>2. /\ call'[p].acct = call[p].acct /\ call'[p].answer = call[p].answer
        /\ call'[p].since = call[p].since /\ call'[p].draft = call[p].draft
        /\ \A q \in Procs : q # p => call'[q] = call[q]
    BY <2>1 DEF TypeOK, Call
  <2> QED BY <2>1, <2>2, LocalKnown, FilesStayKnown
<1>3. ASSUME NEW p \in Procs, NEW a \in Accounts, Start(p, a) PROVE FilesKnown' /\ CallsKnown'
  BY <1>3, StartKnown
<1>4. ASSUME NEW p \in Procs, Break(p) PROVE FilesKnown' /\ CallsKnown'
  BY <1>4, BreakKnown
<1>5. ASSUME NEW a \in Accounts, Damage(a) PROVE FilesKnown' /\ CallsKnown'
  <2>1. UNCHANGED <<cache, pc, call, removedAt, now>> BY <1>5 DEF Damage, history
  <2>2. \A b \in Accounts : record'[b] = record[b] \/ record'[b].state = "Unreadable"
    BY <1>5 DEF Damage, Unreadable, NewRecord, TypeOK
  <2>3. FilesKnown' BY <2>1, <2>2 DEF FilesKnown, RecordKnown, CacheKnown
  <2> QED BY <2>1, <2>3 DEF CallsKnown, DraftKnown, AnswerKnown, SinceKnown, Got
<1>6. CASE Tick
  <2>1. UNCHANGED <<record, cache, pc, call, removedAt>> /\ now' = now + 1
    BY <1>6 DEF Tick, disk, history
  <2>2. \A b \in Accounts : removedAt[b] \in Nat /\ now \in Nat BY DEF TypeOK
  <2>3. FilesKnown' BY <2>1, <2>2 DEF FilesKnown, RecordKnown, CacheKnown
  <2> QED BY <2>1, <2>3 DEF CallsKnown, DraftKnown, AnswerKnown, SinceKnown, Got
<1>7. CASE UNCHANGED vars
  <2>1. UNCHANGED <<record, cache, pc, call, removedAt, now>>
    BY <1>7 DEF vars, disk, history
  <2> QED BY <2>1 DEF FilesKnown, RecordKnown, CacheKnown, CallsKnown, DraftKnown,
                      AnswerKnown, SinceKnown, Got
<1> QED BY <1>1, <1>2, <1>3, <1>4, <1>5, <1>6, <1>7 DEF Next

\* As long as no write outlives the task that started it, a call that starts
\* after an account was removed never gets what was measured before: neither
\* from the cache, nor from the record, nor from a collection that was under
\* way, whatever fails or is killed in between.
THEOREM RemovalsLast == ASSUME ~LateWrites PROVE Spec => []RemovedStaysRemoved
<1>1. Init => FilesKnown /\ CallsKnown
  BY DEF Init, Quiet, FilesKnown, RecordKnown, CacheKnown, CallsKnown, DraftKnown, AnswerKnown,
     SinceKnown, Missing, NewRecord, NoEntry, NewCall, NoAnswer, Got, Never
<1>2. TypeOK /\ LockInv /\ Promises /\ FilesKnown /\ CallsKnown /\ [Next]_vars
          => (FilesKnown /\ CallsKnown)'
  BY KnownStep DEF Promises
<1>3. CallsKnown => RemovedStaysRemoved BY DEF CallsKnown, AnswerKnown, RemovedStaysRemoved
<1> QED BY <1>1, <1>2, <1>3, TypeCorrect, PromisesKept, PTL DEF Spec
-----------------------------------------------------------------------------
(* What is reused is current                                                 *)

\* A success promises the next request for a refresh interval later: as long
\* as its deadline is ahead it is younger than that.
Dated(r) == r.state = "Success" => r.next = r.observed_at + MinRefresh
\* A call that goes on has not been answered.
OpenAt(p) == pc[p] # "Idle" => call[p].answer.kind = "none"

FilesDated == (\A a \in Accounts : Dated(record[a])) /\ (\A w \in late : Dated(w[2]))
CallsDated == \A p \in Procs : Dated(call[p].draft) /\ OpenAt(p)
DatedInv == FilesDated /\ CallsDated

Current(ans) ==
    ans.kind = "reused" => /\ now < ans.observed_at + MinRefresh
                           /\ ans.expires = Empty \/ now < ans.expires
\* The answers that a step gives.
CurrentStep == \A p \in Procs : call'[p] # call[p] => Current(call'[p].answer)

LEMMA RecordAnswerCurrent ==
    ASSUME DatedInv, NEW p \in Procs, call[p].acct \in Accounts,
           ~Readable(record[call[p].acct]) \/ Cooling(record[call[p].acct])
    PROVE  Current(RecordAnswer(record[call[p].acct]))
BY DEF DatedInv, FilesDated, Dated, Current, RecordAnswer, Reused, Failed, NoAnswer, Readable,
       Cooling, Usable

LEMMA CacheAnswerCurrent ==
    ASSUME TypeOK, ConstantsAssumption, NEW a \in Accounts, Fresh(cache[a])
    PROVE  Current(Reused(cache[a].cached_at, cache[a].expires))
<1>1. now \in Int /\ cache[a].cached_at \in Int /\ MinRefresh \in Int
  BY DEF TypeOK, CacheEntry, Time, ConstantsAssumption
<1> QED BY <1>1 DEF Fresh, Current, Reused

LEMMA OtherAnswersCurrent ==
    \A at, exp : Current(Failed) /\ Current(NoAnswer) /\ Current(Reading(at, exp))
BY DEF Current, Failed, NoAnswer, Reading

\* A call ends with such an answer.
LEMMA ReturnDates ==
    ASSUME TypeOK, CallsDated, NEW p \in Procs, NEW ans, Return(p, ans), Current(ans),
           pc' = [pc EXCEPT ![p] = "Idle"]
    PROVE  CallsDated' /\ CurrentStep
<1>1. \A q \in Procs : q # p => call'[q] = call[q] /\ pc'[q] = pc[q]
  BY ReturnKeepsAccount DEF TypeOK
<1>2. call'[p] = NewCall(call[p].acct, call[p].since, ans) /\ pc'[p] = "Idle"
  BY DEF Return, TypeOK
<1>3. Dated(call'[p].draft) BY <1>2 DEF Dated, NewCall, Missing, NewRecord
<1>4. call'[p].answer = ans BY <1>2 DEF NewCall
<1> QED BY <1>1, <1>2, <1>3, <1>4 DEF CallsDated, OpenAt, CurrentStep

\* A call goes on, or a removal ends, without another answer.
LEMMA LocalDates ==
    ASSUME TypeOK, CallsDated, NEW p \in Procs, pc[p] # "Idle",
           \A q \in Procs : q # p => call'[q] = call[q] /\ pc'[q] = pc[q],
           call'[p].answer = call[p].answer, Dated(call'[p].draft)
    PROVE  CallsDated' /\ CurrentStep
<1>1. call'[p].answer.kind = "none" BY DEF CallsDated, OpenAt
<1> QED BY <1>1 DEF CallsDated, OpenAt, CurrentStep, Current

LEMMA CallsStep ==
    ASSUME TypeOK, ConstantsAssumption, DatedInv, [Next]_vars PROVE CallsDated' /\ CurrentStep
<1>0. CallsDated /\ \A p \in Procs : call[p] \in Call /\ call[p].acct \in Accounts
  BY DEF DatedInv, TypeOK, Call
<1>1. ASSUME NEW p \in Procs, Advance(p) PROVE CallsDated' /\ CurrentStep
  <2>1. CASE TakeLock(p) \/ WaitTakeover(p) \/ RmTakeLock(p) \/ WaitReadPending(p)
             \/ WaitAgain(p) \/ SlotAgain(p) \/ GlobalFull(p) \/ TakeGlobal(p)
             \/ TakeProvider(p) \/ ProviderFull(p) \/ SaveLands(p) \/ RmRecord(p) \/ RmCache(p)
    <3>1. UNCHANGED call /\ pc[p] # "Idle" /\ \A q \in Procs : q # p => pc'[q] = pc[q]
      BY <2>1 DEF TakeLock, WaitTakeover, RmTakeLock, WaitReadPending, WaitAgain, SlotAgain,
         GlobalFull, TakeGlobal, TakeProvider, ProviderFull, SaveLands, RmRecord, RmCache, Goto,
         TypeOK
    <3> QED BY <1>0, <3>1, LocalDates DEF CallsDated
  <2>2. CASE JoinHolder(p) \/ HeldReserve(p) \/ SlotTimeout(p) \/ Handover(p) \/ ReserveLands(p)
    <3>1. /\ pc[p] # "Idle"
          /\ \A q \in Procs : q # p => call'[q] = call[q] /\ pc'[q] = pc[q]
      BY <2>2 DEF JoinHolder, HeldReserve, SlotTimeout, Handover, ReserveLands, Goto, TypeOK
    <3>2. /\ call'[p].answer = call[p].answer
          /\ call'[p].draft.state = "Success" => call'[p].draft = call[p].draft
      <4>0. p \in DOMAIN call /\ call[p] \in Call BY DEF TypeOK
      <4>1. CASE JoinHolder(p)
        <5>1. call'[p] = [call[p] EXCEPT !.deadline = now + WaitBudget]
          BY <4>0, <4>1 DEF JoinHolder
        <5> QED BY <4>0, <5>1 DEF Call
      <4>2. CASE HeldReserve(p)
        <5> DEFINE r == NewRecord("Pending", Never, now + MinRefresh,
                                  record[call[p].acct].failures, Empty)
        <5>1. call'[p] = [call[p] EXCEPT !.draft = r] BY <4>0, <4>2 DEF HeldReserve
        <5>2. r.state # "Success" BY DEF NewRecord
        <5> HIDE DEF r
        <5> QED BY <4>0, <5>1, <5>2 DEF Call
      <4>3. CASE SlotTimeout(p)
        <5> DEFINE r == [call[p].draft EXCEPT !.state = "Deferred"]
        <5>1. call'[p] = [call[p] EXCEPT !.draft = r] BY <4>0, <4>3 DEF SlotTimeout
        <5>2. r.state # "Success" BY <4>0 DEF Call, Record
        <5> HIDE DEF r
        <5> QED BY <4>0, <5>1, <5>2 DEF Call
      <4>4. CASE Handover(p)
        <5>1. call'[p] = [call[p] EXCEPT !.attempt = 1, !.deadline = Never]
          BY <4>0, <4>4 DEF Handover
        <5> QED BY <4>0, <5>1 DEF Call
      <4>5. CASE ReserveLands(p)
        <5>1. call'[p] = [call[p] EXCEPT !.deadline = now + SlotWait]
          BY <4>0, <4>5 DEF ReserveLands
        <5> QED BY <4>0, <5>1 DEF Call
      <4> QED BY <2>2, <4>1, <4>2, <4>3, <4>4, <4>5
    <3>3. Dated(call'[p].draft) BY <1>0, <3>2 DEF CallsDated, Dated
    <3> QED BY <1>0, <3>1, <3>2, <3>3, LocalDates
  <2>3. CASE GiveUp(p) \/ WaitReadConclusive(p) \/ WaitTimeout(p) \/ HeldAnswer(p)
             \/ DeferLands(p) \/ Persist(p)
    <3>1. pc' = [pc EXCEPT ![p] = "Idle"]
      BY <2>3 DEF GiveUp, WaitReadConclusive, WaitTimeout, HeldAnswer, DeferLands, Persist, Goto
    <3>2. \E ans : Return(p, ans) /\ Current(ans)
      <4>1. CASE GiveUp(p) \/ DeferLands(p) \/ Persist(p)
        BY <4>1, OtherAnswersCurrent DEF GiveUp, DeferLands, Persist
      <4>2. CASE WaitReadConclusive(p) \/ HeldAnswer(p)
        BY <1>0, <4>2, RecordAnswerCurrent DEF WaitReadConclusive, HeldAnswer, Conclusive
      <4>3. CASE WaitTimeout(p)
        BY <1>0, <4>3, CacheAnswerCurrent, OtherAnswersCurrent DEF WaitTimeout
      <4> QED BY <2>3, <4>1, <4>2, <4>3
    <3> QED BY <1>0, <3>1, <3>2, ReturnDates
  <2>4. ASSUME NEW life \in Lifetimes, QuerySucceeds(p, life) PROVE CallsDated' /\ CurrentStep
    <3> DEFINE exp == IF life = 0 THEN Empty ELSE now + life
               r == NewRecord("Success", now, now + MinRefresh, 0, exp)
    <3>1. call' = [call EXCEPT ![p].draft = r] /\ Goto(p, "Query", "Save")
      BY <2>4 DEF QuerySucceeds
    <3>2. Dated(r) BY DEF Dated, NewRecord
    <3> HIDE DEF r
    <3>3. /\ call'[p].answer = call[p].answer /\ call'[p].draft = r /\ pc[p] # "Idle"
          /\ \A q \in Procs : q # p => call'[q] = call[q] /\ pc'[q] = pc[q]
      BY <3>1 DEF TypeOK, Call, Goto
    <3> QED BY <1>0, <3>2, <3>3, LocalDates
  <2>5. ASSUME NEW auth \in BOOLEAN, NEW d \in RetryAfters, QueryFails(p, auth, d)
        PROVE  CallsDated' /\ CurrentStep
    <3> DEFINE r == NewRecord("Failure", Never,
                      now + Most(FailureDelay(call[p].draft.failures + 1, auth), d),
                      call[p].draft.failures + 1, Empty)
    <3>1. /\ call' = [call EXCEPT ![p] = [@ EXCEPT !.draft = r, !.denied = auth, !.owed = now + d]]
          /\ Goto(p, "Query", "Save")
      BY <2>5 DEF QueryFails
    <3>2. Dated(r) BY DEF Dated, NewRecord
    <3> HIDE DEF r
    <3>3. /\ call'[p].answer = call[p].answer /\ call'[p].draft = r /\ pc[p] # "Idle"
          /\ \A q \in Procs : q # p => call'[q] = call[q] /\ pc'[q] = pc[q]
      BY <3>1 DEF TypeOK, Call, Goto
    <3> QED BY <1>0, <3>2, <3>3, LocalDates
  <2> QED BY <1>1, <2>1, <2>2, <2>3, <2>4, <2>5 DEF Advance
<1>2. ASSUME NEW p \in Procs, QueryAgain(p) PROVE CallsDated' /\ CurrentStep
  <2>1. /\ UNCHANGED pc /\ pc[p] # "Idle"
        /\ \A q \in Procs : q # p => call'[q] = call[q]
        /\ call'[p].answer = call[p].answer /\ call'[p].draft = call[p].draft
    BY <1>2 DEF QueryAgain, TypeOK, Call
  <2> QED BY <1>0, <2>1, LocalDates DEF CallsDated
<1>3. ASSUME NEW p \in Procs, NEW a \in Accounts, Start(p, a) PROVE CallsDated' /\ CurrentStep
  <2>1. PICK to, ans :
          /\ Begin(p, a, to, ans) /\ Current(ans)
          /\ to # "Idle" => ans.kind = "none"
    <3>1. CASE CacheHit(p, a) BY <3>1, CacheAnswerCurrent DEF CacheHit
    <3>2. CASE CacheBackoff(p, a) BY <3>2, OtherAnswersCurrent DEF CacheBackoff
    <3>3. CASE CacheMiss(p, a) \/ RmBegin(p, a)
      <4>1. NoAnswer.kind = "none" BY DEF NoAnswer
      <4> QED BY <3>3, <4>1, OtherAnswersCurrent DEF CacheMiss, RmBegin
    <3> QED BY <1>3, <3>1, <3>2, <3>3 DEF Start
  <2>2. /\ call'[p] = NewCall(a, removedAt[a], ans) /\ pc'[p] = to
        /\ \A q \in Procs : q # p => call'[q] = call[q] /\ pc'[q] = pc[q]
    BY <2>1 DEF Begin, Goto, TypeOK
  <2>3. call'[p].answer = ans /\ Dated(call'[p].draft)
    BY <2>2 DEF Dated, NewCall, Missing, NewRecord
  <2> QED BY <1>0, <2>1, <2>2, <2>3 DEF CallsDated, OpenAt, CurrentStep
<1>4. ASSUME NEW p \in Procs, Break(p) PROVE CallsDated' /\ CurrentStep
  <2>1. CASE ReserveFails(p) \/ PersistFails(p) \/ Kill(p) \/ Drop(p)
    <3>1. pc' = [pc EXCEPT ![p] = "Idle"] /\ \E ans : Return(p, ans) /\ Current(ans)
      BY <2>1, OtherAnswersCurrent DEF ReserveFails, PersistFails, Kill, Drop, Stop, Goto
    <3> QED BY <1>0, <3>1, ReturnDates
  <2>2. CASE SaveFails(p) \/ RmRecordFails(p) \/ RmCacheFails(p)
    <3>1. UNCHANGED call /\ pc[p] # "Idle" /\ \A q \in Procs : q # p => pc'[q] = pc[q]
      BY <2>2 DEF SaveFails, RmRecordFails, RmCacheFails, Goto, TypeOK
    <3> QED BY <1>0, <3>1, LocalDates DEF CallsDated
  <2> QED BY <1>4, <2>1, <2>2 DEF Break
<1>5. CASE (\E w \in late : LateWrite(w)) \/ (\E a \in Accounts : Damage(a)) \/ Tick
           \/ UNCHANGED vars
  <2>1. UNCHANGED <<call, pc>> BY <1>5 DEF LateWrite, Damage, Tick, vars
  <2> QED BY <1>0, <2>1 DEF CallsDated, OpenAt, CurrentStep
<1> QED BY <1>1, <1>2, <1>3, <1>4, <1>5 DEF Next

LEMMA FilesStep == TypeOK /\ DatedInv /\ [Next]_vars => FilesDated'
<1> SUFFICES ASSUME TypeOK, DatedInv, [Next]_vars PROVE FilesDated' OBVIOUS
<1>0. FilesDated /\ \A p \in Procs : Dated(call[p].draft) /\ call[p].acct \in Accounts
  BY DEF DatedInv, CallsDated, TypeOK, Call
<1>1. ASSUME NEW p \in Procs, Write(p), UNCHANGED late PROVE FilesDated'
  BY <1>0, <1>1 DEF FilesDated, Write, TypeOK
<1>2. ASSUME NEW p \in Procs, RmRecord(p) PROVE FilesDated'
  <2>1. \A a \in Accounts : record'[a] = record[a] \/ record'[a].state = "Removed"
    BY <1>2 DEF RmRecord, NewRecord, TypeOK
  <2> QED BY <1>0, <1>2, <2>1 DEF FilesDated, Dated, RmRecord
<1>3. ASSUME NEW p \in Procs, Drop(p) PROVE FilesDated'
  BY <1>0, <1>3 DEF FilesDated, Drop, Stop, disk
<1>4. ASSUME NEW w \in late, LateWrite(w) PROVE FilesDated'
  BY <1>0, <1>4 DEF FilesDated, LateWrite, TypeOK
<1>5. ASSUME NEW a \in Accounts, Damage(a) PROVE FilesDated'
  <2>1. Dated(Unreadable) BY DEF Dated, Unreadable, NewRecord
  <2> QED BY <1>0, <1>5, <2>1 DEF FilesDated, Damage, TypeOK
<1>6. CASE UNCHANGED <<record, late>> BY <1>0, <1>6 DEF FilesDated
<1>7. ASSUME NEW p \in Procs, Advance(p) PROVE FilesDated'
  <2>1. CASE ReserveLands(p) \/ DeferLands(p) \/ SaveLands(p)
    BY <1>1, <2>1 DEF ReserveLands, DeferLands, SaveLands
  <2>2. CASE RmRecord(p) BY <1>2, <2>2
  <2>3. CASE TakeLock(p) \/ JoinHolder(p) \/ GiveUp(p) \/ WaitReadConclusive(p)
             \/ WaitReadPending(p) \/ WaitTakeover(p) \/ Handover(p) \/ WaitAgain(p)
             \/ WaitTimeout(p) \/ HeldAnswer(p) \/ HeldReserve(p) \/ RmTakeLock(p)
    BY <1>6, <2>3 DEF TakeLock, JoinHolder, GiveUp, WaitReadConclusive, WaitReadPending,
       WaitTakeover, Handover, WaitAgain, WaitTimeout, HeldAnswer, HeldReserve, RmTakeLock, disk
  <2>4. CASE TakeGlobal(p) \/ GlobalFull(p) \/ TakeProvider(p) \/ ProviderFull(p)
             \/ SlotAgain(p) \/ SlotTimeout(p)
    BY <1>6, <2>4 DEF TakeGlobal, GlobalFull, TakeProvider, ProviderFull, SlotAgain,
       SlotTimeout, disk
  <2>5. CASE Persist(p) \/ RmCache(p)
    BY <1>6, <2>5 DEF Persist, RmCache
  <2>6. ASSUME NEW life \in Lifetimes, QuerySucceeds(p, life) PROVE FilesDated'
    BY <1>6, <2>6 DEF QuerySucceeds, disk
  <2>7. ASSUME NEW auth \in BOOLEAN, NEW d \in RetryAfters, QueryFails(p, auth, d)
        PROVE  FilesDated'
    BY <1>6, <2>7 DEF QueryFails, disk
  <2> QED BY <1>7, <2>1, <2>2, <2>3, <2>4, <2>5, <2>6, <2>7 DEF Advance
<1>8. ASSUME NEW p \in Procs, Break(p) PROVE FilesDated'
  <2>1. CASE Drop(p) BY <1>3, <2>1
  <2>2. CASE ~Drop(p)
    <3>1. UNCHANGED <<record, late>>
      BY <1>8, <2>2 DEF Break, ReserveFails, SaveFails, PersistFails, RmRecordFails,
         RmCacheFails, Kill, Stop, disk
    <3> QED BY <1>6, <3>1
  <2> QED BY <2>1, <2>2
<1>9. ASSUME NEW p \in Procs, NEW a \in Accounts, Start(p, a) PROVE FilesDated'
  BY <1>6, <1>9 DEF Start, CacheHit, CacheBackoff, CacheMiss, RmBegin, Begin, disk
<1>10. ASSUME NEW p \in Procs, QueryAgain(p) PROVE FilesDated'
  BY <1>6, <1>10 DEF QueryAgain, disk
<1>11. CASE Tick \/ UNCHANGED vars BY <1>6, <1>11 DEF Tick, vars, disk
<1> QED BY <1>4, <1>5, <1>7, <1>8, <1>9, <1>10, <1>11 DEF Next

\* A reading that is reused, from the record or the cache, by whoever waited,
\* is younger than the refresh interval, and a window of it is still open.
THEOREM ReusedIsCurrent == Spec => ReuseIsCurrent
<1>1. Init => DatedInv
  BY DEF Init, Quiet, DatedInv, FilesDated, CallsDated, Dated, OpenAt, Missing, NewRecord, NewCall
<1>2. TypeOK /\ DatedInv /\ [Next]_vars => DatedInv'
  BY ConstantsAssumption, CallsStep, FilesStep DEF DatedInv
<1> DEFINE Reuse == \A p \in Procs :
              call'[p].answer.kind = "reused" /\ call'[p] # call[p] =>
                  /\ now < call'[p].answer.observed_at + MinRefresh
                  /\ \/ call'[p].answer.expires = Empty
                     \/ now < call'[p].answer.expires
<1>3. TypeOK /\ DatedInv /\ [Next]_vars => [Reuse]_vars
  BY ConstantsAssumption, CallsStep DEF CurrentStep, Current
<1>4. Spec => [][Reuse]_vars
  <2> HIDE DEF Reuse
  <2> QED BY <1>1, <1>2, <1>3, TypeCorrect, PTL DEF Spec
<1> QED BY <1>4 DEF ReuseIsCurrent
=============================================================================
