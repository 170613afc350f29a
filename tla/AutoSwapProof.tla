---------------------------- MODULE AutoSwapProof ----------------------------
(* What TLAPS proves about the daemon's automatic switching, for any         *)
(* accounts, readings and windows and any number of manual swaps and faults. *)
EXTENDS AutoSwap, FiniteSetTheorems, TLAPS

\* The hold is read when the policy decides, so that a switch can be under way
\* when it is recorded; once that one is through, no other is, until the hold
\* ends.
HoldInv ==
    /\ overrides \in Nat /\ hold \in Nat
    /\ OneOverride
    /\ overrides = 1 /\ hold > 0 => pc \notin {"Recheck", "Activate"}

LEMMA HoldInit == Init => HoldInv
BY DEF Init, NewDaemon, HoldInv, OneOverride

\* The user's part: a hold that is recorded starts a new count.
LEMMA HoldUser ==
    ASSUME HoldInv,
           \/ \E a \in Accounts : ManualSwap(a) \/ NativeLogin(a)
           \/ OpenHold \/ RecordHold \/ RecordHoldFails
    PROVE  HoldInv'
<1>1. CASE \E a \in Accounts : ManualSwap(a) \/ NativeLogin(a)
  BY <1>1 DEF ManualSwap, NativeLogin, HoldInv, OneOverride, daemon
<1>2. CASE OpenHold
  BY <1>2 DEF OpenHold, HoldInv, OneOverride, daemon
<1>3. CASE RecordHold
  <2>1. HoldWindow \in Nat BY AutoSwapAssumption
  <2> QED BY <1>3, <2>1 DEF RecordHold, HoldInv, OneOverride, daemon
<1>4. CASE RecordHoldFails
  BY <1>4 DEF RecordHoldFails, HoldInv, OneOverride, daemon
<1> QED BY <1>1, <1>2, <1>3, <1>4

\* The daemon's part: only Choose starts a switch, and it sees no hold.
LEMMA HoldDaemon ==
    ASSUME HoldInv, Cycle \/ CycleFails \/ Restart
    PROVE  HoldInv'
<1>1. CASE \E o \in Observations : Collect(o)
  BY <1>1 DEF Collect, Goto, HoldInv, OneOverride
<1>2. CASE Skip
  BY <1>2 DEF Skip, Goto, HoldInv, OneOverride
<1>3. CASE Choose
  BY <1>3 DEF Choose, Goto, Held, HoldInv, OneOverride
<1>4. CASE Recheck
  BY <1>4 DEF Recheck, Goto, HoldInv, OneOverride
<1>5. CASE Activate
  <2>1. pc = "Activate" /\ pc' = "Sleep" /\ hold' = hold
        /\ overrides' = IF hold > 0 THEN overrides + 1 ELSE overrides
    BY <1>5 DEF Activate
  <2>2. hold > 0 => overrides = 0
    BY <2>1 DEF HoldInv, OneOverride
  <2> QED BY <2>1, <2>2 DEF HoldInv, OneOverride
<1>6. CASE CycleFails
  BY <1>6 DEF CycleFails, Goto, HoldInv, OneOverride
<1>7. CASE Restart
  BY <1>7 DEF Restart, HoldInv, OneOverride
<1> QED BY <1>1, <1>2, <1>3, <1>4, <1>5, <1>6, <1>7 DEF Cycle

LEMMA HoldStep == HoldInv /\ [Next]_vars => HoldInv'
<1> SUFFICES ASSUME HoldInv, [Next]_vars PROVE HoldInv' OBVIOUS
<1>1. CASE Tick
  BY <1>1 DEF Tick, Less, HoldInv, OneOverride
<1>2. CASE UNCHANGED vars
  BY <1>2 DEF vars, daemon, HoldInv, OneOverride
<1> QED BY <1>1, <1>2, HoldUser, HoldDaemon DEF Next

\* A hold the user has recorded is overridden at most once while it lasts, by
\* the switch that had been decided before (run_cycle between auto_decide and
\* activate), whatever the daemon, the quotas and the user do.
THEOREM HoldOverriddenOnce == Spec => []OneOverride
<1>1. HoldInv => OneOverride BY DEF HoldInv
<1> QED BY <1>1, HoldInit, HoldStep, PTL DEF Spec

-----------------------------------------------------------------------------
(* Types                                                                     *)

LEMMA Bounds ==
    /\ Old \in Nat /\ Old = OscillationWindow + 1
    /\ Cooldown \in Nat /\ FlapWindow \in Nat /\ MaxFlap \in Nat /\ OscillationWindow \in Nat
    /\ DegradedWindow \in Nat /\ HoldWindow \in Nat /\ MaxManual \in Nat /\ MaxFaults \in Nat
    /\ FlapWindow <= OscillationWindow /\ OscillationWindow < DegradedWindow /\ MaxFlap >= 2
BY AutoSwapAssumption DEF Old

LEMMA DecideAccounts ==
    ASSUME NEW s, NEW act
    PROVE  Decide(s, act) \subseteq Accounts
<1> SUFFICES ASSUME NEW a \in Decide(s, act) PROVE a \in Accounts OBVIOUS
<1>1. a \in BestCandidate(s, act) \/ a \in Fallback(s, act) BY DEF Decide
<1>2. a \in Others(act) BY <1>1 DEF BestCandidate, Candidates, Fallback, Pool
<1> QED BY <1>2 DEF Others

\* Pushing adds one entry, and gives the others the next rank.
LEMMA PushType ==
    ASSUME NEW h \in SUBSET Swap, NEW x \in Swap
    PROVE  Push(h, x) \subseteq Swap
BY DEF Push, Swap

Made == [id : Accounts, left : Maybe, age : 0 .. Old, nr : Nat \ {0}]

LEMMA PushMade ==
    ASSUME NEW h \in SUBSET Made, NEW x \in Made
    PROVE  Push(h, x) \subseteq Made
BY DEF Push, Made

LEMMA AgedType ==
    /\ \A h \in SUBSET Swap : Aged(h) \subseteq Swap
    /\ \A h \in SUBSET Made : Aged(h) \subseteq Made
BY Bounds DEF Aged, Swap, Made

\* A switch that is under way has a target.
TypeInv == TypeOK /\ (pc \in {"Recheck", "Activate"} => to \in Accounts)

LEMMA TypeInit == Init => TypeInv
BY Bounds DEF Init, NewDaemon, TypeInv, TypeOK, Maybe

LEMMA TypeUser ==
    ASSUME TypeInv,
           \/ \E a \in Accounts : ManualSwap(a) \/ NativeLogin(a)
           \/ OpenHold \/ RecordHold \/ RecordHoldFails
    PROVE  TypeInv'
<1>1. CASE \E a \in Accounts : ManualSwap(a) \/ NativeLogin(a)
  BY <1>1, Bounds DEF ManualSwap, NativeLogin, ByHand, TypeInv, TypeOK, daemon, Maybe
<1>2. CASE OpenHold
  BY <1>2, Bounds DEF OpenHold, TypeInv, TypeOK, daemon
<1>3. CASE RecordHold
  BY <1>3, Bounds DEF RecordHold, TypeInv, TypeOK, daemon
<1>4. CASE RecordHoldFails
  BY <1>4, Bounds DEF RecordHoldFails, TypeInv, TypeOK, daemon
<1> QED BY <1>1, <1>2, <1>3, <1>4

LEMMA TypeDaemon ==
    ASSUME TypeInv, Cycle \/ CycleFails \/ Restart
    PROVE  TypeInv'
<1>1. CASE \E o \in Observations : Collect(o)
  BY <1>1 DEF Collect, Goto, TypeInv, TypeOK
<1>2. CASE Skip
  BY <1>2 DEF Skip, Goto, TypeInv, TypeOK
<1>3. CASE Choose
  BY <1>3, DecideAccounts DEF Choose, Goto, TypeInv, TypeOK, Maybe
<1>4. CASE Recheck
  BY <1>4 DEF Recheck, Goto, TypeInv, TypeOK
<1>5. CASE Activate
  <2>1. to \in Accounts /\ active \in Maybe /\ history \subseteq Swap /\ made \subseteq Made
    BY <1>5 DEF Activate, TypeInv, TypeOK, Made
  <2>2. Recorded(to) \subseteq Swap
    <3>1. [id |-> to, age |-> 0, nr |-> 1] \in Swap BY <2>1, Bounds DEF Swap
    <3>2. {s \in history : s.age <= OscillationWindow} \in SUBSET Swap BY <2>1
    <3> QED BY <3>1, <3>2, PushType DEF Recorded
  <2>3. Push(made, [id |-> to, left |-> active, age |-> 0, nr |-> 1]) \subseteq Made
    <3>1. [id |-> to, left |-> active, age |-> 0, nr |-> 1] \in Made BY <2>1, Bounds DEF Made
    <3> QED BY <2>1, <3>1, PushMade
  <2>4. history' \subseteq Swap /\ made' \subseteq Made /\ degraded' \in 0 .. DegradedWindow
    BY <1>5, <2>2, <2>3, Bounds DEF Activate, TypeInv, TypeOK
  <2>5. active' \in Maybe /\ to' \in Maybe /\ from' \in Maybe /\ seen' \in Observations
        /\ pc' = "Sleep" /\ hold' = hold /\ user' = user /\ manual' = manual /\ faults' = faults
    BY <1>5, <2>1 DEF Activate, TypeInv, TypeOK, Maybe
  <2>6. cooled' \in [Accounts -> 0 .. Cooldown] /\ overrides' \in Nat
    BY <1>5, Bounds DEF Activate, Cooled, TypeInv, TypeOK
  <2> QED BY <2>4, <2>5, <2>6 DEF TypeInv, TypeOK, Made
<1>6. CASE CycleFails
  BY <1>6, Bounds DEF CycleFails, Goto, Fault, TypeInv, TypeOK
<1>7. CASE Restart
  BY <1>7, Bounds DEF Restart, Fault, TypeInv, TypeOK, Maybe
<1> QED BY <1>1, <1>2, <1>3, <1>4, <1>5, <1>6, <1>7 DEF Cycle

LEMMA TypeTick == ASSUME TypeInv, Tick PROVE TypeInv'
<1>1. history' \subseteq Swap BY AgedType DEF Tick, TypeInv, TypeOK
<1>2. made' \subseteq Made
  <2>1. made \in SUBSET Made BY DEF TypeInv, TypeOK, Made
  <2> QED BY <2>1, AgedType DEF Tick
<1>3. hold' \in 0 .. HoldWindow /\ degraded' \in 0 .. DegradedWindow
      /\ cooled' \in [Accounts -> 0 .. Cooldown]
  BY Bounds DEF Tick, Less, TypeInv, TypeOK
<1> QED BY <1>1, <1>2, <1>3 DEF Tick, TypeInv, TypeOK, Made

LEMMA TypeStep == TypeInv /\ [Next]_vars => TypeInv'
<1> SUFFICES ASSUME TypeInv, [Next]_vars PROVE TypeInv' OBVIOUS
<1>1. CASE UNCHANGED vars
  BY <1>1 DEF vars, daemon, TypeInv, TypeOK
<1> QED BY <1>1, TypeUser, TypeDaemon, TypeTick DEF Next

\* The daemon's memory keeps its shape: what it decides on, activates and
\* remembers is an account (run_cycle, record_swap).
THEOREM TypeCorrect == Spec => []TypeOK
<1>1. TypeInv => TypeOK BY DEF TypeInv
<1> QED BY <1>1, TypeInit, TypeStep, PTL DEF Spec

-----------------------------------------------------------------------------
(* The brake                                                                 *)

\* What the daemon remembers of a switch.
Bare(s) == [id |-> s.id, age |-> s.age, nr |-> s.nr]

\* A rank names one entry, and an entry that no longer matters is gone.
Listed ==
    /\ IsFiniteSet(history) /\ IsFiniteSet(made)
    /\ \A s, t \in made : s.nr = t.nr => s = t
    /\ \A s \in made : s.age < Old

\* Every switch that matters is remembered, or it was made before the provider
\* was degraded, which lasts for as long as it matters.
Remembered ==
    \/ degraded = 0 /\ \A s \in made : Bare(s) \in history
    \/ /\ degraded > 0 /\ history = {} /\ pc \in {"Sleep", "Decide"}
       /\ \A s \in made : s.age + degraded >= DegradedWindow

BrakeInv == TypeInv /\ Listed /\ Remembered /\ ~Flaps(history) /\ BrakeHolds

\* A set whose members all come from those of another is no larger.
LEMMA ImageSize ==
    ASSUME NEW S, IsFiniteSet(S), NEW T, NEW f,
           \A t \in T : \E s \in S : s \in DOMAIN f /\ t = f[s]
    PROVE  IsFiniteSet(T) /\ Cardinality(T) <= Cardinality(S)
<1> DEFINE D == {s \in S : s \in DOMAIN f /\ f[s] \in T}
           g == [s \in D |-> f[s]]
<1>1. IsFiniteSet(D) /\ Cardinality(D) <= Cardinality(S)
  <2>1. D \in SUBSET S OBVIOUS
  <2> HIDE DEF D
  <2> QED BY <2>1, FS_Subset
<1>2. g \in Surjection(D, T) BY DEF Surjection
<1> HIDE DEF D, g
<1>3. IsFiniteSet(T) /\ Cardinality(T) <= Cardinality(D) BY <1>1, <1>2, FS_Surjection
<1>4. Cardinality(T) \in Nat /\ Cardinality(D) \in Nat /\ Cardinality(S) \in Nat
  BY <1>1, <1>3, FS_CardinalityType
<1> QED BY <1>1, <1>3, <1>4

\* A set without two members has at most one.
LEMMA LoneSize ==
    ASSUME NEW S, \A s, t \in S : s = t
    PROVE  IsFiniteSet(S) /\ Cardinality(S) <= 1
<1>1. CASE S = {} BY <1>1, FS_EmptySet
<1>2. CASE S # {}
  <2>1. PICK s \in S : TRUE BY <1>2
  <2>2. S = {s} BY <2>1
  <2>3. IsFiniteSet({s}) /\ Cardinality({s}) = 1 BY FS_Singleton
  <2> QED BY <2>2, <2>3
<1> QED BY <1>1, <1>2

\* Selected, pushed entries are those that were selected before, and the new one.
LEMMA PushSize ==
    ASSUME NEW h, NEW x, NEW S, IsFiniteSet(S), NEW T,
           T \subseteq Push(h, x),
           \A s \in h : [s EXCEPT !.nr = @ + 1] \in T => s \in S
    PROVE  IsFiniteSet(T) /\ Cardinality(T) <= Cardinality(S) + 1
<1> DEFINE f == [s \in S |-> [s EXCEPT !.nr = @ + 1]]
           R == T \ {x}
<1>1. \A t \in R : \E s \in S : s \in DOMAIN f /\ t = f[s] BY DEF Push
<1> HIDE DEF f
<1>2. IsFiniteSet(R) /\ Cardinality(R) <= Cardinality(S) BY <1>1, ImageSize
<1>3. IsFiniteSet(R \cup {x}) /\ Cardinality(R \cup {x}) <= Cardinality(R) + 1
  <2>1. Cardinality(R) \in Nat BY <1>2, FS_CardinalityType
  <2> QED BY <1>2, <2>1, FS_AddElement
<1>4. T \in SUBSET (R \cup {x}) OBVIOUS
<1>5. IsFiniteSet(T) /\ Cardinality(T) <= Cardinality(R \cup {x}) BY <1>3, <1>4, FS_Subset
<1>6. Cardinality(T) \in Nat /\ Cardinality(R \cup {x}) \in Nat /\ Cardinality(R) \in Nat
      /\ Cardinality(S) \in Nat
  BY <1>2, <1>3, <1>5, FS_CardinalityType
<1> QED BY <1>2, <1>3, <1>5, <1>6

LEMMA BrakeInit == Init => BrakeInv
<1> SUFFICES ASSUME Init PROVE BrakeInv OBVIOUS
<1>1. history = {} /\ made = {} /\ degraded = 0 BY DEF Init, NewDaemon
<1>2. IsFiniteSet({}) /\ Cardinality({}) = 0 BY FS_EmptySet
<1>3. {s \in made : s.age <= FlapWindow} = {} /\ {s \in history : s.age <= FlapWindow} = {}
      /\ \A a \in Accounts : {s \in made : s.id = a} = {}
  BY <1>1
<1> QED BY <1>1, <1>2, <1>3, TypeInit, Bounds DEF BrakeInv, Listed, Remembered, Flaps, BrakeHolds

\* Whoever leaves the memory alone, and starts no switch while the provider is
\* degraded, leaves the brake alone.
LEMMA BrakeKept ==
    ASSUME BrakeInv, TypeInv', UNCHANGED <<history, made, degraded>>,
           degraded = 0 \/ pc' = pc \/ pc' \in {"Sleep", "Decide"}
    PROVE  BrakeInv'
<1>1. Listed' BY DEF BrakeInv, Listed
<1>2. Remembered' BY DEF BrakeInv, Remembered, Bare, TypeInv, TypeOK
<1>3. ~Flaps(history)' /\ BrakeHolds' BY DEF BrakeInv, BrakeHolds, Flaps
<1> QED BY <1>1, <1>2, <1>3 DEF BrakeInv

LEMMA BrakeForgets ==
    ASSUME BrakeInv, TypeInv', history' = {}, made' = {}, degraded' = 0
    PROVE  BrakeInv'
<1>2. IsFiniteSet({}) /\ Cardinality({}) = 0 BY FS_EmptySet
<1>3. {s \in made' : s.age <= FlapWindow} = {} /\ {s \in history' : s.age <= FlapWindow} = {}
      /\ \A a \in Accounts : {s \in made' : s.id = a} = {}
  OBVIOUS
<1> QED BY <1>2, <1>3, Bounds DEF BrakeInv, Listed, Remembered, Flaps, BrakeHolds

LEMMA BrakeTick == ASSUME BrakeInv, Tick PROVE BrakeInv'
<1> DEFINE older == [s \in made \cup history |->
                        [s EXCEPT !.age = IF @ = Old THEN Old ELSE @ + 1]]
<1>0. TypeInv' BY TypeTick DEF BrakeInv
<1>1. history \subseteq Swap /\ made \subseteq Made /\ degraded \in Nat
  BY Bounds DEF BrakeInv, TypeInv, TypeOK, Made
\* Where what is listed afterwards comes from.
<1>2. \A t \in made' : \E s \in made :
          /\ s \in DOMAIN older /\ t = older[s]
          /\ t = [s EXCEPT !.age = s.age + 1] /\ s.age < Old /\ t.age < Old
  BY <1>1, Bounds DEF Tick, Aged, BrakeInv, Listed, Made
<1>3. \A t \in history' : \E s \in history :
          /\ s \in DOMAIN older /\ t = older[s]
          /\ t.id = s.id /\ t.nr = s.nr /\ s.age <= t.age
  <2> SUFFICES ASSUME NEW t \in history'
               PROVE  \E s \in history : /\ s \in DOMAIN older /\ t = older[s]
                                         /\ t.id = s.id /\ t.nr = s.nr /\ s.age <= t.age
    OBVIOUS
  <2>1. PICK s \in history : t = [s EXCEPT !.age = IF @ = Old THEN Old ELSE @ + 1]
    BY DEF Tick, Aged
  <2>2. s \in Swap BY <1>1
  <2>3. t.id = s.id /\ t.nr = s.nr /\ t.age = (IF s.age = Old THEN Old ELSE s.age + 1)
    BY <2>1, <2>2 DEF Swap
  <2>4. s.age <= t.age BY <2>2, <2>3, Bounds DEF Swap
  <2> QED BY <2>1, <2>3, <2>4
<1> HIDE DEF older
<1>4. Listed'
  <2>1. IsFiniteSet(history) /\ IsFiniteSet(made) BY DEF BrakeInv, Listed
  <2>2. IsFiniteSet(history') BY <1>3, <2>1, ImageSize
  <2>3. IsFiniteSet(made') BY <1>2, <2>1, ImageSize
  <2>4. \A s, t \in made' : s.nr = t.nr => s = t
    <3> SUFFICES ASSUME NEW s \in made', NEW t \in made', s.nr = t.nr PROVE s = t OBVIOUS
    <3>1. PICK s0 \in made : s = [s0 EXCEPT !.age = s0.age + 1] BY <1>2
    <3>2. PICK t0 \in made : t = [t0 EXCEPT !.age = t0.age + 1] BY <1>2
    <3>3. s0.nr = t0.nr BY <1>1, <3>1, <3>2 DEF Made
    <3>4. s0 = t0 BY <3>3 DEF BrakeInv, Listed
    <3> QED BY <3>1, <3>2, <3>4
  <2> QED BY <1>2, <2>2, <2>3, <2>4 DEF Listed
<1>5. Remembered'
  <2>1. CASE degraded = 0
    <3>1. degraded' = 0 BY <2>1 DEF Tick, Less
    <3>2. \A t \in made' : Bare(t) \in history'
      <4> SUFFICES ASSUME NEW t \in made' PROVE Bare(t) \in history' OBVIOUS
      <4>1. PICK s \in made : t = [s EXCEPT !.age = s.age + 1] /\ s.age < Old BY <1>2
      <4>2. Bare(s) \in history BY <2>1 DEF BrakeInv, Remembered
      <4>3. [Bare(s) EXCEPT !.age = IF @ = Old THEN Old ELSE @ + 1] \in history'
        BY <4>2 DEF Tick, Aged
      <4>4. s \in Made /\ s.age \in Nat /\ s.age # Old BY <1>1, <4>1, Bounds DEF Made
      <4>5. [Bare(s) EXCEPT !.age = IF @ = Old THEN Old ELSE @ + 1]
              = [id |-> s.id, age |-> s.age + 1, nr |-> s.nr]
        BY <4>4 DEF Bare
      <4>6. Bare(t) = [id |-> s.id, age |-> s.age + 1, nr |-> s.nr]
        BY <4>1, <4>4 DEF Bare, Made
      <4> QED BY <4>3, <4>5, <4>6
    <3> QED BY <3>1, <3>2 DEF Remembered
  <2>2. CASE degraded # 0
    <3>1. degraded' = degraded - 1 /\ degraded' \in Nat BY <1>1, <2>2 DEF Tick, Less
    <3>2. /\ history = {} /\ pc \in {"Sleep", "Decide"}
          /\ \A s \in made : s.age + degraded >= DegradedWindow
      BY <2>2 DEF BrakeInv, Remembered
    <3>3. history' = {} /\ pc' = pc BY <3>2 DEF Tick, Aged
    <3>4. \A t \in made' : t.age + degraded' >= DegradedWindow /\ t.age \in Nat /\ t.age < Old
      <4> SUFFICES ASSUME NEW t \in made'
                   PROVE  t.age + degraded' >= DegradedWindow /\ t.age \in Nat /\ t.age < Old
        OBVIOUS
      <4>1. PICK s \in made : t = [s EXCEPT !.age = s.age + 1] /\ t.age < Old BY <1>2
      <4>2. s.age \in Nat /\ t.age = s.age + 1 BY <1>1, <4>1, Bounds DEF Made
      <4>3. s.age + degraded >= DegradedWindow BY <3>2
      <4> QED BY <1>1, <3>1, <4>1, <4>2, <4>3, Bounds
    <3>5. degraded' = 0 => made' = {} BY <3>4, Bounds
    <3>6. CASE degraded' = 0
      <4>1. \A t \in made' : Bare(t) \in history' BY <3>5, <3>6
      <4> QED BY <3>6, <4>1 DEF Remembered
    <3>7. CASE degraded' # 0
      <4>1. degraded' > 0 BY <1>1, <3>1, <3>7
      <4> QED BY <3>2, <3>3, <3>4, <4>1 DEF Remembered
    <3> QED BY <3>6, <3>7
  <2> QED BY <2>1, <2>2
<1>6. ~Flaps(history)'
  <2> DEFINE S == {s \in history : s.age <= FlapWindow}
             T == {s \in history' : s.age <= FlapWindow}
  <2>1. \A t \in T : \E s \in S : s \in DOMAIN older /\ t = older[s]
    <3> SUFFICES ASSUME NEW t \in T PROVE \E s \in S : s \in DOMAIN older /\ t = older[s]
      OBVIOUS
    <3>1. PICK s \in history : s \in DOMAIN older /\ t = older[s] /\ s.age <= t.age BY <1>3
    <3>2. t \in Swap /\ s \in Swap BY <1>0, <1>1 DEF TypeInv, TypeOK
    <3>3. s.age <= FlapWindow BY <3>1, <3>2, Bounds DEF Swap
    <3> QED BY <3>1, <3>3
  <2>2. IsFiniteSet(S)
    <3>1. S \in SUBSET history /\ IsFiniteSet(history) BY DEF BrakeInv, Listed
    <3> QED BY <3>1, FS_Subset
  <2>3. Cardinality(S) < MaxFlap
    <3>1. Cardinality(S) \in Nat BY <2>2, FS_CardinalityType
    <3> QED BY <3>1, Bounds DEF BrakeInv, Flaps
  <2>4. \A s, t \in history' : s.id = t.id => s = t
    <3> SUFFICES ASSUME NEW s \in history', NEW t \in history', s.id = t.id PROVE s = t OBVIOUS
    <3>1. PICK s0 \in history : s = older[s0] /\ s.id = s0.id BY <1>3
    <3>2. PICK t0 \in history : t = older[t0] /\ t.id = t0.id BY <1>3
    <3>3. s0 = t0 BY <3>1, <3>2 DEF BrakeInv, Flaps
    <3> QED BY <3>1, <3>2, <3>3
  <2> HIDE DEF S, T
  <2>5. IsFiniteSet(T) /\ Cardinality(T) <= Cardinality(S) BY <2>1, <2>2, ImageSize
  <2>6. Cardinality(T) \in Nat /\ Cardinality(S) \in Nat BY <2>2, <2>5, FS_CardinalityType
  <2>7. ~(Cardinality(T) >= MaxFlap) BY <2>3, <2>5, <2>6, Bounds
  <2> QED BY <2>4, <2>7 DEF Flaps, T
<1>7. BrakeHolds'
  <2>0. IsFiniteSet(made) BY DEF BrakeInv, Listed
  <2>1. Cardinality({s \in made' : s.age <= FlapWindow}) <= MaxFlap
    <3> DEFINE S == {s \in made : s.age <= FlapWindow}
               T == {s \in made' : s.age <= FlapWindow}
    <3>1. \A t \in T : \E s \in S : s \in DOMAIN older /\ t = older[s]
      <4> SUFFICES ASSUME NEW t \in T PROVE \E s \in S : s \in DOMAIN older /\ t = older[s]
        OBVIOUS
      <4>1. PICK s \in made : s \in DOMAIN older /\ t = older[s]
                              /\ t = [s EXCEPT !.age = s.age + 1]
        BY <1>2
      <4>2. s.age \in Nat /\ t.age = s.age + 1 BY <1>1, <4>1, Bounds DEF Made
      <4>3. s.age <= FlapWindow BY <4>2, Bounds
      <4> QED BY <4>1, <4>3
    <3>2. S \in SUBSET made OBVIOUS
    <3>3. Cardinality(S) <= MaxFlap BY DEF BrakeInv, BrakeHolds
    <3> HIDE DEF S, T
    <3>4. IsFiniteSet(S) BY <2>0, <3>2, FS_Subset
    <3>5. IsFiniteSet(T) /\ Cardinality(T) <= Cardinality(S) BY <3>1, <3>4, ImageSize
    <3>6. Cardinality(T) \in Nat /\ Cardinality(S) \in Nat BY <3>4, <3>5, FS_CardinalityType
    <3> QED BY <3>3, <3>5, <3>6, Bounds DEF T
  <2>2. ASSUME NEW a \in Accounts
        PROVE  Cardinality({s \in made' : s.id = a}) <= 2
    <3> DEFINE S == {s \in made : s.id = a}
               T == {s \in made' : s.id = a}
    <3>1. \A t \in T : \E s \in S : s \in DOMAIN older /\ t = older[s]
      <4> SUFFICES ASSUME NEW t \in T PROVE \E s \in S : s \in DOMAIN older /\ t = older[s]
        OBVIOUS
      <4>1. PICK s \in made : s \in DOMAIN older /\ t = older[s]
                              /\ t = [s EXCEPT !.age = s.age + 1]
        BY <1>2
      <4>2. s.id = a BY <1>1, <4>1 DEF Made
      <4> QED BY <4>1, <4>2
    <3>2. S \in SUBSET made OBVIOUS
    <3>3. Cardinality(S) <= 2 BY DEF BrakeInv, BrakeHolds
    <3> HIDE DEF S, T
    <3>4. IsFiniteSet(S) BY <2>0, <3>2, FS_Subset
    <3>5. IsFiniteSet(T) /\ Cardinality(T) <= Cardinality(S) BY <3>1, <3>4, ImageSize
    <3>6. Cardinality(T) \in Nat /\ Cardinality(S) \in Nat BY <3>4, <3>5, FS_CardinalityType
    <3> QED BY <3>3, <3>5, <3>6 DEF T
  <2> QED BY <2>1, <2>2 DEF BrakeHolds
<1> QED BY <1>0, <1>4, <1>5, <1>6, <1>7 DEF BrakeInv

LEMMA BrakeActivate == ASSUME BrakeInv, Activate PROVE BrakeInv'
<1> DEFINE x == [id |-> to, age |-> 0, nr |-> 1]
           y == [id |-> to, left |-> active, age |-> 0, nr |-> 1]
           h == Recorded(to)
<1>1. TypeInv' BY TypeDaemon DEF BrakeInv, Cycle
<1>2. /\ history \subseteq Swap /\ made \subseteq Made
      /\ degraded = 0 /\ \A s \in made : Bare(s) \in history
      /\ \A s \in made : s.age < Old
      /\ \A s, t \in made : s.nr = t.nr => s = t
      /\ \A s, t \in history : s.id = t.id => s = t
  BY DEF BrakeInv, TypeInv, TypeOK, Made, Listed, Remembered, Flaps, Activate
<1>3. /\ made' = Push(made, y) /\ pc' = "Sleep"
      /\ history' = IF Flaps(h) THEN {} ELSE h
      /\ degraded' = IF Flaps(h) THEN DegradedWindow ELSE 0
  BY <1>2 DEF Activate
<1>4. IsFiniteSet(history) /\ IsFiniteSet(made) BY DEF BrakeInv, Listed
\* Where the entries of the new list come from.
<1>5. \A t \in made' : \/ t = y
                       \/ \E s \in made : t = [s EXCEPT !.nr = s.nr + 1]
  BY <1>3 DEF Push
<1>6. Listed'
  <2>1. IsFiniteSet(made')
    <3>1. made' \subseteq Push(made, y) BY <1>3
    <3> HIDE DEF y
    <3> QED BY <1>4, <3>1, PushSize
  <2>2. IsFiniteSet(h)
    <3>1. h \subseteq Push({s \in history : s.age <= OscillationWindow}, x) BY DEF Recorded
    <3>2. \A s \in {s \in history : s.age <= OscillationWindow} :
             [s EXCEPT !.nr = @ + 1] \in h => s \in history
      OBVIOUS
    <3> HIDE DEF h, x
    <3> QED BY <1>4, <3>1, <3>2, PushSize
  <2>3. IsFiniteSet(history') BY <1>3, <2>2, FS_EmptySet
  <2>4. \A t \in made' : t.age < Old
    <3> SUFFICES ASSUME NEW t \in made' PROVE t.age < Old OBVIOUS
    <3>1. CASE t = y BY <3>1, Bounds
    <3>2. CASE \E s \in made : t = [s EXCEPT !.nr = s.nr + 1]
      BY <1>2, <3>2 DEF Made
    <3> QED BY <1>5, <3>1, <3>2
  <2>5. \A s, t \in made' : s.nr = t.nr => s = t
    <3> SUFFICES ASSUME NEW s \in made', NEW t \in made', s.nr = t.nr PROVE s = t OBVIOUS
    <3>1. \A r \in made' : r # y => \E r0 \in made : /\ r = [r0 EXCEPT !.nr = r0.nr + 1]
                                                     /\ r.nr = r0.nr + 1 /\ r0.nr \in Nat \ {0}
      BY <1>2, <1>5 DEF Made
    <3>2. y.nr = 1 OBVIOUS
    <3> HIDE DEF y
    <3>3. s = y <=> t = y BY <3>1, <3>2
    <3>4. CASE s # y
      <4>1. PICK s0 \in made : s = [s0 EXCEPT !.nr = s0.nr + 1]
                               /\ s.nr = s0.nr + 1 /\ s0.nr \in Nat
        BY <3>1, <3>4
      <4>2. PICK t0 \in made : t = [t0 EXCEPT !.nr = t0.nr + 1]
                               /\ t.nr = t0.nr + 1 /\ t0.nr \in Nat
        BY <3>1, <3>3, <3>4
      <4>3. s0 = t0 BY <1>2, <4>1, <4>2
      <4> QED BY <4>1, <4>2, <4>3
    <3> QED BY <3>3, <3>4
  <2> QED BY <2>1, <2>3, <2>4, <2>5 DEF Listed
<1>7. Remembered'
  <2>1. CASE Flaps(h)
    <3>1. history' = {} /\ degraded' = DegradedWindow BY <1>3, <2>1
    <3>2. \A t \in made' : t.age \in Nat BY <1>1, Bounds DEF TypeInv, TypeOK
    <3>3. \A t \in made' : t.age + degraded' >= DegradedWindow BY <3>1, <3>2, Bounds
    <3>4. degraded' > 0 BY <3>1, Bounds
    <3> QED BY <1>3, <3>1, <3>3, <3>4 DEF Remembered
  <2>2. CASE ~Flaps(h)
    <3>1. history' = h /\ degraded' = 0 BY <1>3, <2>2
    <3>2. \A t \in made' : Bare(t) \in h
      <4> SUFFICES ASSUME NEW t \in made' PROVE Bare(t) \in h OBVIOUS
      <4>1. CASE t = y
        <5>1. Bare(t) = x BY <4>1 DEF Bare
        <5> QED BY <5>1 DEF Recorded, Push
      <4>2. CASE \E s \in made : t = [s EXCEPT !.nr = s.nr + 1]
        <5>1. PICK s \in made : t = [s EXCEPT !.nr = s.nr + 1] BY <4>2
        <5>2. s \in Made /\ Bare(s) \in history /\ s.age \in Nat /\ s.age < Old
          BY <1>2, Bounds DEF Made
        <5>3. Bare(s).age <= OscillationWindow BY <5>2, Bounds DEF Bare
        <5>4. [Bare(s) EXCEPT !.nr = @ + 1] \in h BY <5>2, <5>3 DEF Recorded, Push
        <5>5. [Bare(s) EXCEPT !.nr = @ + 1] = Bare(t) BY <5>1, <5>2 DEF Bare, Made
        <5> QED BY <5>4, <5>5
      <4> QED BY <1>5, <4>1, <4>2
    <3> QED BY <3>1, <3>2 DEF Remembered
  <2> QED BY <2>1, <2>2
<1>8. ~Flaps(history)'
  <2>1. CASE Flaps(h)
    <3>1. history' = {} BY <1>3, <2>1
    <3>2. {s \in history' : s.age <= FlapWindow} = {} BY <3>1
    <3> QED BY <3>1, <3>2, FS_EmptySet, Bounds DEF Flaps
  <2>2. CASE ~Flaps(h)
    <3> HIDE DEF h
    <3> QED BY <1>3, <2>2 DEF Flaps
  <2> QED BY <2>1, <2>2
<1>9. BrakeHolds'
  <2>1. Cardinality({t \in made' : t.age <= FlapWindow}) <= MaxFlap
    <3> DEFINE M == {s \in made : s.age <= FlapWindow}
               H == {s \in history : s.age <= FlapWindow}
               T == {t \in made' : t.age <= FlapWindow}
               f == [s \in M |-> Bare(s)]
    <3>1. f \in Injection(M, H) BY <1>2 DEF Bare, Injection, IsInjective
    <3>2. H \in SUBSET history /\ M \in SUBSET made OBVIOUS
    <3>3. \A s \in made : [s EXCEPT !.nr = @ + 1] \in T => s \in M BY <1>2 DEF Made
    <3>4. ~(Cardinality(H) >= MaxFlap) BY DEF BrakeInv, Flaps
    <3>5. T \subseteq Push(made, y) BY <1>3
    <3> HIDE DEF M, H, T, f, y
    <3>6. IsFiniteSet(H) /\ IsFiniteSet(M) BY <1>4, <3>2, FS_Subset
    <3>7. Cardinality(M) <= Cardinality(H) BY <3>1, <3>6, FS_Injection
    <3>8. IsFiniteSet(T) /\ Cardinality(T) <= Cardinality(M) + 1
      BY <3>3, <3>5, <3>6, PushSize
    <3>9. Cardinality(T) \in Nat /\ Cardinality(M) \in Nat /\ Cardinality(H) \in Nat
      BY <3>6, <3>8, FS_CardinalityType
    <3>10. Cardinality(T) <= MaxFlap BY <3>4, <3>7, <3>8, <3>9, Bounds
    <3> QED BY <3>10 DEF T
  <2>2. ASSUME NEW a \in Accounts
        PROVE  Cardinality({t \in made' : t.id = a}) <= 2
    <3> DEFINE S == {s \in made : s.id = a}
               T == {t \in made' : t.id = a}
    <3>1. \A s, t \in S : s = t
      <4> SUFFICES ASSUME NEW s \in S, NEW t \in S PROVE s = t OBVIOUS
      <4>1. Bare(s) = Bare(t) BY <1>2 DEF Bare
      <4>2. s.nr = t.nr BY <4>1 DEF Bare
      <4> QED BY <1>2, <4>2
    <3>2. \A s \in made : [s EXCEPT !.nr = @ + 1] \in T => s \in S BY <1>2 DEF Made
    <3>3. T \subseteq Push(made, y) BY <1>3
    <3> HIDE DEF S, T, y
    <3>4. IsFiniteSet(S) /\ Cardinality(S) <= 1 BY <3>1, LoneSize
    <3>5. IsFiniteSet(T) /\ Cardinality(T) <= Cardinality(S) + 1
      BY <3>2, <3>3, <3>4, PushSize
    <3>6. Cardinality(T) \in Nat /\ Cardinality(S) \in Nat BY <3>4, <3>5, FS_CardinalityType
    <3>7. Cardinality(T) <= 2 BY <3>4, <3>5, <3>6
    <3> QED BY <3>7 DEF T
  <2> QED BY <2>1, <2>2 DEF BrakeHolds
<1> QED BY <1>1, <1>6, <1>7, <1>8, <1>9 DEF BrakeInv

LEMMA BrakeStep == BrakeInv /\ [Next]_vars => BrakeInv'
<1> SUFFICES ASSUME BrakeInv, [Next]_vars PROVE BrakeInv' OBVIOUS
<1>1. TypeInv' BY TypeStep DEF BrakeInv
<1>2. CASE \/ \E a \in Accounts : ManualSwap(a) \/ NativeLogin(a)
           \/ OpenHold \/ RecordHold \/ RecordHoldFails \/ UNCHANGED vars
  <2>1. UNCHANGED <<history, made, degraded, pc>>
    BY <1>2 DEF ManualSwap, NativeLogin, OpenHold, RecordHold, RecordHoldFails, vars, daemon
  <2> QED BY <1>1, <2>1, BrakeKept
<1>3. CASE (\E o \in Observations : Collect(o)) \/ Skip \/ Choose \/ Recheck \/ CycleFails
  <2>1. UNCHANGED <<history, made, degraded>>
    BY <1>3 DEF Collect, Skip, Choose, Recheck, CycleFails, Goto
  <2>2. degraded = 0 \/ pc' \in {"Sleep", "Decide"}
    BY <1>3 DEF Collect, Skip, Choose, Recheck, CycleFails, Goto, BrakeInv, Remembered
  <2> QED BY <1>1, <2>1, <2>2, BrakeKept
<1>4. CASE Restart
  <2>1. history' = {} /\ made' = {} /\ degraded' = 0 BY <1>4 DEF Restart
  <2> QED BY <1>1, <2>1, BrakeForgets
<1> QED BY <1>2, <1>3, <1>4, BrakeActivate, BrakeTick DEF Next, Cycle

\* Whatever the quotas, the user and the faults do, one daemon switches at most
\* MaxFlap times within the flap window, and to no account more than twice within
\* the oscillation window (record_swap, detect_flap, mark_degraded).
THEOREM SwitchingIsBraked == Spec => []BrakeHolds
<1>1. BrakeInv => BrakeHolds BY DEF BrakeInv
<1> QED BY <1>1, BrakeInit, BrakeStep, PTL DEF Spec
=============================================================================
