-------------------------- MODULE DefaultEntryProof --------------------------
(* What TLAPS proves about the switching policy and the default entry, for   *)
(* any accounts, priorities, readings and pool semantics.                    *)
EXTENDS DefaultEntry, TLAPS

USE PolicyAssumption

-----------------------------------------------------------------------------
(* The policy                                                                *)

\* A recovery time is a number.
LEMMA RecoveryType == ASSUME NEW r \in Reading PROVE Recovery(r) \in Nat
<1>1. ASSUME NEW S \in SUBSET Nat PROVE Earliest(S) \in Nat /\ Latest(S) \in Nat
  BY DEF Earliest, Latest, Unknown
<1>2. Gating(r) \subseteq Quota BY DEF Gating, Reading
<1>3. Resets(Gating(r)) \subseteq Nat
      /\ Resets({q \in Gating(r) : Blocking(q)}) \subseteq Nat
  BY <1>2 DEF Resets, Quota
<1>4. Resets(Gating(r)) \ {Unknown} \subseteq Nat BY <1>3
<1> QED BY <1>1, <1>3, <1>4 DEF Recovery, Unknown

\* An account that is good enough to switch to is not one to switch away from:
\* is_viable_candidate and account_needs_swap do not overlap.
LEMMA ViableStays == ASSUME NEW r \in Reading, Viable(r) PROVE ~NeedsSwap(r)
<1>1. \A q \in Gating(r) : Usable(q) => ~Dead(q) BY DEF Usable, Dead
<1>2. CASE ParallelPools(r)
  BY <1>1, <1>2 DEF Viable, NeedsSwap
<1>3. CASE ~ParallelPools(r)
  <2>1. \A q \in Gating(r) : ~Dead(q) /\ ~OverThreshold(q)
    BY <1>3 DEF Viable, Dead
  <2> QED BY <1>3, <2>1 DEF NeedsSwap, Blocking
<1> QED BY <1>2, <1>3

\* What decide returns: an account that is neither active nor manual-only.
LEMMA DecideOther ==
    ASSUME NEW s, NEW act, NEW to \in Decide(s, act)
    PROVE  to \in Accounts /\ to # act /\ to \notin ManualOnly
<1>1. to \in BestCandidate(s, act) \/ to \in Fallback(s, act) BY DEF Decide
<1>2. to \in Others(act)
  BY <1>1 DEF BestCandidate, Candidates, Fallback, Pool
<1> QED BY <1>2 DEF Others

\* Under unchanged readings a decision that is carried out is the last one.
LEMMA DecisionsSettle ==
    ASSUME NEW s \in [Accounts -> Reading], NEW act \in Maybe, NEW to \in Decide(s, act)
    PROVE  Decide(s, to) = {}
<1>1. to \in Accounts /\ to # act /\ to \notin ManualOnly /\ to # NoAccount
  BY DecideOther
<1>2. act # NoAccount => act \in Accounts /\ NeedsSwap(s[act])
  BY DEF Decide, Maybe
<1>3. CASE Candidates(s, act) # {}
  <2>1. Viable(s[to]) BY <1>3 DEF Decide, BestCandidate, Candidates
  <2>2. ~NeedsSwap(s[to]) BY <1>1, <2>1, ViableStays
  <2> QED BY <1>1, <2>2 DEF Decide
<1>4. CASE Candidates(s, act) = {}
  <2>1. to \in Fallback(s, act) BY <1>4 DEF Decide
  <2>2. Candidates(s, to) = {}
    <3> SUFFICES ASSUME NEW b \in Candidates(s, to) PROVE FALSE OBVIOUS
    <3>1. b \in Accounts /\ b \notin ManualOnly /\ Viable(s[b])
      BY DEF Candidates, Others
    <3>2. CASE b = act BY <1>2, <3>1, <3>2, ViableStays
    <3>3. CASE b # act BY <1>4, <3>1, <3>3 DEF Candidates, Others
    <3> QED BY <3>2, <3>3
  <2>3. Fallback(s, to) = {}
    <3> SUFFICES ASSUME NEW b \in Fallback(s, to) PROVE FALSE OBVIOUS
    <3>1. /\ to \in Pool(s, act) /\ b \in Pool(s, to)
          /\ Sooner(Recovery(s[b]), Recovery(s[to]))
      BY <1>1, <2>1 DEF Fallback
    <3>2. b \in Accounts /\ b # to /\ b \notin ManualOnly BY <3>1 DEF Pool, Others
    <3>3. Recovery(s[to]) # Unknown /\ Recovery(s[b]) # Unknown
      BY <3>1 DEF Pool
    <3>4. Recovery(s[b]) < Recovery(s[to]) BY <3>1, <3>3 DEF Sooner
    <3>5. Recovery(s[b]) \in Nat /\ Recovery(s[to]) \in Nat
      BY <1>1, <3>2, RecoveryType
    <3>6. CASE b = act
      <4>0. act # NoAccount BY <3>2, <3>6
      <4> DEFINE S == Pool(s, act)
                 rank == [a \in S |-> Recovery(s[a])]
      <4>1. Sooner(rank[to], Recovery(s[act]))
        <5> HIDE DEF rank, S
        <5> QED BY <2>1, <4>0 DEF Fallback, rank, S
      <4>2. rank[to] = Recovery(s[to]) BY <3>1
      <4> HIDE DEF rank
      <4> QED BY <3>3, <3>4, <3>5, <3>6, <4>1, <4>2 DEF Sooner
    <3>7. CASE b # act
      <4>1. b \in Pool(s, act) BY <3>1, <3>2, <3>7 DEF Pool, Others
      <4> DEFINE S == Pool(s, act)
                 rank == [a \in S |-> Recovery(s[a])]
      <4>2. rank[to] < rank[b] \/ rank[to] = rank[b]
        <5> HIDE DEF rank, S
        <5>1. b \in S \ {to} BY <3>2, <4>1 DEF S
        <5> QED BY <2>1, <5>1 DEF Fallback, rank, S
      <4>3. rank[to] = Recovery(s[to]) /\ rank[b] = Recovery(s[b]) BY <3>1, <4>1
      <4> HIDE DEF rank
      <4> QED BY <3>4, <3>5, <4>2, <4>3
    <3> QED BY <3>6, <3>7
  <2> QED BY <2>2, <2>3 DEF Decide
<1> QED BY <1>3, <1>4

-----------------------------------------------------------------------------
(* The default entry                                                         *)

EntryInv ==
    /\ TypeOK
    /\ UpToDate
    /\ activated # NoAccount => activated = shown
    /\ pc = "Activate" => target \in Decide(snap, shown) \ abandoned
    /\ past \subseteq abandoned
    /\ shown \notin abandoned

LEMMA InitInv == Init => EntryInv
BY DEF Init, EntryInv, TypeOK, UpToDate, Maybe

LEMMA NextInv == EntryInv /\ [Next]_vars => EntryInv'
<1> SUFFICES ASSUME EntryInv, [Next]_vars PROVE EntryInv' OBVIOUS
<1> USE DEF EntryInv, TypeOK, Maybe
<1>1. CASE UNCHANGED vars BY <1>1 DEF vars, UpToDate
<1>2. ASSUME NEW a \in Accounts, NEW r \in Readings, Answer(a, r) PROVE EntryInv'
  BY <1>2 DEF Answer, UpToDate
<1>3. CASE Held BY <1>3 DEF Held, Settle, UpToDate
<1>4. CASE Keep
  <2>1. Decide(snap, shown) \subseteq abandoned
    <3> SUFFICES ASSUME NEW a \in Decide(snap, shown) PROVE a \in abandoned OBVIOUS
    <3>1. a \in Accounts /\ a # shown BY DecideOther
    <3>2. a # activated BY <3>1
    <3> QED BY <1>4, <3>2 DEF Keep
  <2> QED BY <1>4, <2>1 DEF Keep, Settle, UpToDate
<1>5. CASE Choose
  <2>1. target' \in Accounts BY <1>5, DecideOther DEF Choose
  <2> QED BY <1>5, <2>1 DEF Choose, UpToDate
<1>6. CASE Switch
  <2>1. pc = "Activate" /\ target \in Decide(snap, shown) /\ target \notin abandoned
    BY <1>6 DEF Switch
  <2>2. target \in Accounts /\ target # shown BY <2>1, DecideOther
  <2>3. snap \in [Accounts -> Reading] BY ReadingsAssumption
  <2>4. Decide(snap, target) = {} BY <2>1, <2>3, DecisionsSettle
  <2>5. UpToDate' BY <1>6, <2>4 DEF Switch, Settle, UpToDate
  <2> QED BY <1>6, <2>1, <2>2, <2>5 DEF Switch, Settle
<1>7. CASE SwitchFails BY <1>7 DEF SwitchFails, Settle, UpToDate
<1>8. CASE Finish BY <1>8 DEF Finish, UpToDate
<1>9. CASE Done BY <1>9 DEF Done, vars, UpToDate
<1> QED BY <1>1, <1>2, <1>3, <1>4, <1>5, <1>6, <1>7, <1>8, <1>9 DEF Next

LEMMA InvAlways == Spec => []EntryInv
<1>1. Init => EntryInv BY InitInv
<1>2. EntryInv /\ [Next]_vars => EntryInv' BY NextInv
<1> QED BY <1>1, <1>2, PTL DEF Spec

\* The progress of an invocation keeps its types: having had no active account
\* is never recorded as an account that was left.
THEOREM TypeCorrect == Spec => []TypeOK
<1>1. EntryInv => TypeOK BY DEF EntryInv
<1> QED BY <1>1, InvAlways, PTL

\* The policy never asks for a second move under the same readings, whatever the
\* accounts, the windows, the priorities and the pool semantics are: two
\* accounts cannot take turns unless what is known of them changes.
THEOREM PolicySettles == Spec => []Settles
<1>1. EntryInv => Settles
  <2> SUFFICES ASSUME EntryInv, NEW to \in Decide(snap, shown)
               PROVE  Decide(snap, to) = {}
    BY DEF Settles
  <2>1. snap \in [Accounts -> Reading] /\ shown \in Maybe
    BY ReadingsAssumption DEF EntryInv, TypeOK
  <2> QED BY <2>1, DecisionsSettle
<1> QED BY <1>1, InvAlways, PTL

\* However the answers are ordered, the last decision of an invocation is the one
\* the policy makes of all that is known.
THEOREM LastDecisionIsCurrent == Spec => []UpToDate
<1>1. EntryInv => UpToDate BY DEF EntryInv
<1> QED BY <1>1, InvAlways, PTL

\* An invocation never goes back to an account that was active before.
THEOREM OnlyForward == Spec => NeverReturns
<1>1. EntryInv /\ [Next]_vars => (shown' # shown => shown' \notin past)
  <2> SUFFICES ASSUME EntryInv, [Next]_vars, shown' # shown PROVE shown' \notin past
    OBVIOUS
  <2>1. Switch
    BY DEF Next, vars, Answer, Held, Keep, Choose, SwitchFails, Finish, Done, Settle
  <2> QED BY <2>1 DEF EntryInv, Switch
<1>2. EntryInv /\ [Next]_vars => [shown' # shown => shown' \notin past]_vars
  BY <1>1
<1> QED BY <1>2, InvAlways, PTL DEF Spec, NeverReturns
=============================================================================
