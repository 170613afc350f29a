----------------------------- MODULE ClientsProof ----------------------------
(* What TLAPS proves of the other clients, which keep their credentials       *)
(* themselves, for any number of accounts and processes: invariants of each   *)
(* part, and what they imply.  The n-th variable of each part is v_n here, as *)
(* in ClientParts.                                                            *)
EXTENDS ClientParts, FiniteSetTheorems, WellFoundedInduction, TLAPS

-----------------------------------------------------------------------------
(* Least and greatest numbers                                                 *)

LEMMA Smallest == ASSUME NEW S \in SUBSET Nat, S # {} PROVE \E n \in S : \A m \in S : n <= m
<1> DEFINE R == {ss \in Nat \X Nat : ss[1] < ss[2]}
<1>1. IsWellFoundedOn(R, Nat) BY NatLessThanWellFounded, Zenon DEF OpToRel
<1>2. PICK x \in S : \A y \in S : <<y, x>> \notin R
  <2> HIDE DEF R
  <2> QED BY <1>1, WFMin, Zenon
<1>3. \A y \in S : y < x => <<y, x>> \in R OBVIOUS
<1>4. \A y \in S : ~(y < x)
  <2> HIDE DEF R
  <2> QED BY <1>2, <1>3, Zenon
<1> HIDE DEF R
<1>5. \A y \in S : x \in Nat /\ y \in Nat OBVIOUS
<1> QED BY <1>4, <1>5

LEMMA Further == \A n, m, k \in Nat : n - m <= n - k => k <= m OBVIOUS

LEMMA Largest == ASSUME NEW n \in Nat, NEW S \in SUBSET (0 .. n), S # {}
    PROVE \E m \in S : \A k \in S : k <= m
<1>0. S \subseteq Nat OBVIOUS
<1> DEFINE T == {n - k : k \in S}
<1>1. T \in SUBSET Nat /\ T # {} OBVIOUS
<1>2. PICK t \in T : \A u \in T : t <= u BY <1>1, Smallest
<1>3. PICK m \in S : t = n - m OBVIOUS
<1>4. ASSUME NEW k \in S PROVE k <= m
  <2>1. n - m <= n - k BY <1>2, <1>3
  <2>2. k \in Nat /\ m \in Nat BY <1>0
  <2> QED BY <2>1, <2>2, Further, Zenon
<1> QED BY <1>4


LEMMA Below == \A i, j, k \in Nat : i <= j /\ j <= k /\ j # k => i # k OBVIOUS

-----------------------------------------------------------------------------
(* The accounts of OpenCode                                                   *)

OpencodeInv == Oc!OpencodeTypeOK /\ Oc!AloneKept /\ Oc!OpencodeAsSaid

\* What is read of the database, and which of an account's credentials is taken.
Snapshots == [owner : [Oc!Ids -> Oc!Owners], selected : Oc!Ids \cup {Oc!None}]

LEMMA OcIds ==
    /\ Oc!Ids \subseteq 0 .. MaxCredentials /\ Oc!Ids \subseteq Nat /\ Oc!None \notin Oc!Ids
    /\ NoOne \notin People /\ NoOne \in Oc!Owners /\ People \subseteq Oc!Owners
    /\ MaxCredentials \in Nat /\ Oc!Unlisted \in Nat /\ Oc!Unlisted \notin Oc!Ids
        /\ Oc!Unlisted # Oc!None
    /\ Oc!Ids \cup {Oc!None} \subseteq 0 .. Oc!Unlisted
    /\ \A c \in 0 .. Oc!Unlisted : c # Oc!Unlisted => c \in Oc!Ids \cup {Oc!None}
  BY OpencodeConstants DEF Oc!OpencodeAssumption, Oc!Ids, Oc!None, Oc!Unlisted, Oc!Owners

LEMMA OcReading == Oc!OpencodeTypeOK => Oc!Reading \in Snapshots
  BY DEF Oc!OpencodeTypeOK, Oc!Reading, Snapshots

LEMMA OcSelected == \A r \in Snapshots : Oc!SelectedOwner(r) \in Oc!Owners
  BY OcIds DEF Snapshots, Oc!SelectedOwner

LEMMA OcOf ==
    ASSUME NEW r \in Snapshots, NEW a \in People
    PROVE  /\ Oc!Of(r, a) \subseteq Oc!Ids
           /\ Oc!Of(r, a) # {} => Oc!First(r, a) \in Oc!Of(r, a) /\ Oc!Last(r, a) \in Oc!Of(r, a)
           /\ Oc!SelectedOwner(r) = a => Oc!Of(r, a) # {}
<1> USE OcIds DEF Snapshots
<1>1. Oc!Of(r, a) \subseteq Oc!Ids BY DEF Oc!Of
<1>2. Oc!Of(r, a) # {} => Oc!First(r, a) \in Oc!Of(r, a)
  <2>1. Oc!Of(r, a) # {} => \E c \in Oc!Of(r, a) : \A d \in Oc!Of(r, a) : c <= d
    BY <1>1, Smallest
  <2> QED BY <2>1 DEF Oc!First
<1>3. Oc!Of(r, a) # {} => Oc!Last(r, a) \in Oc!Of(r, a)
  <2>1. CASE Oc!Of(r, a) = {r.selected} BY <2>1 DEF Oc!Last
  <2>2. CASE Oc!Of(r, a) # {r.selected} /\ Oc!Of(r, a) # {}
    <3> DEFINE rest == Oc!Of(r, a) \ {r.selected}
    <3>1. rest # {} /\ rest \in SUBSET (0 .. MaxCredentials) BY <1>1, <2>2
    <3>2. \E c \in rest : \A d \in rest : d <= c BY <3>1, Largest
    <3>3. Oc!Last(r, a) = CHOOSE c \in rest : \A d \in rest : d <= c BY <2>2 DEF Oc!Last
    <3> HIDE DEF rest
    <3>4. Oc!Last(r, a) \in rest BY <3>2, <3>3
    <3> QED BY <3>4 DEF rest
  <2> QED BY <2>1, <2>2
<1>4. Oc!SelectedOwner(r) = a => Oc!Of(r, a) # {} BY DEF Oc!SelectedOwner, Oc!Of
<1> QED BY <1>1, <1>2, <1>3, <1>4

LEMMA OcInit == Oc!Init => OpencodeInv
<1> SUFFICES ASSUME Oc!Init PROVE OpencodeInv OBVIOUS
<1> USE OcIds, OpencodeConstants DEF Oc!Init, Oc!OpencodeAssumption
<1>1. /\ v16 = Oc!Nothing /\ v4 = Oc!None
      /\ \A p \in Agents : v7[p] = "Idle" /\ v15[p] = FALSE
      /\ \A c \in Oc!Ids : v3[c] = NoOne
  OBVIOUS
<1>2. Oc!OpencodeTypeOK
  <2>1. Oc!Reading \in Snapshots BY DEF Oc!Reading, Snapshots
  <2>2. v11 \in [Agents -> Snapshots] BY <2>1
  <2>3. v6 \in Oc!Listed \cup {NoOne} OBVIOUS
  <2>4. /\ v1 \in BOOLEAN /\ v2 \in BOOLEAN
        /\ v3 \in [Oc!Ids -> Oc!Owners] /\ v4 \in Oc!Ids \cup {Oc!None}
        /\ v5 \in [People -> 0 .. Oc!Unlisted]
        /\ v7 \in [Agents -> Oc!OpencodeSteps] /\ v8 \in [Agents -> Oc!Owners]
        /\ v9 \in [Agents -> Oc!Ids \cup {Oc!None}] /\ v10 \in [Agents -> Oc!Ids \cup {Oc!None}]
    BY DEF Oc!OpencodeSteps
  <2>5. /\ v12 \in 0 .. MaxCredentials /\ v13 \in 0 .. MaxOpencodeJobs
        /\ v14 \in 0 .. MaxOpencodeFaults
        /\ v15 \in [Agents -> BOOLEAN]
        /\ v16 \in [kind : {"active", "gone", "synced"}, of : Oc!Owners] \cup {Oc!Nothing}
    OBVIOUS
  <2> QED BY <2>2, <2>3, <2>4, <2>5 DEF Oc!OpencodeTypeOK, Snapshots
<1>3. Oc!AloneKept BY <1>1 DEF Oc!AloneKept
<1>4. Oc!OpencodeAsSaid BY <1>1 DEF Oc!OpencodeAsSaid, Oc!Nothing
<1> QED BY <1>2, <1>3, <1>4 DEF OpencodeInv

LEMMA OcTypes == ASSUME OpencodeInv, [Oc!Next]_(Oc!opencodeVars) PROVE Oc!OpencodeTypeOK'
<1> DEFINE Db == /\ v3 \in [Oc!Ids -> Oc!Owners] /\ v4 \in Oc!Ids \cup {Oc!None}
                 /\ v12 \in 0 .. MaxCredentials
           Reg == v5 \in [People -> 0 .. Oc!Unlisted] /\ v6 \in Oc!Listed \cup {NoOne}
           At == v7 \in [Agents -> Oc!OpencodeSteps] /\ v8 \in [Agents -> Oc!Owners]
           Plans == /\ v9 \in [Agents -> Oc!Ids \cup {Oc!None}]
                    /\ v10 \in [Agents -> Oc!Ids \cup {Oc!None}]
           Saws == v11 \in [Agents -> Snapshots]
           Past == /\ v15 \in [Agents -> BOOLEAN]
                   /\ v16 \in [kind : {"active", "gone", "synced"}, of : Oc!Owners]
                       \cup {Oc!Nothing}
           Flags == v1 \in BOOLEAN /\ v2 \in BOOLEAN
           Bounds == /\ v13 \in 0 .. MaxOpencodeJobs
                     /\ v14 \in 0 .. MaxOpencodeFaults
<1>1. Db /\ Reg /\ At /\ Plans /\ Saws /\ Past /\ Flags /\ Bounds
  BY DEF OpencodeInv, Oc!OpencodeTypeOK, Snapshots
<1>2. Oc!Reading \in Snapshots BY OcReading DEF OpencodeInv
<1>3. \A p \in Agents : v7[p] \notin {"Idle", "Sync"} => v8[p] \in People
  BY DEF OpencodeInv, Oc!AloneKept
<1>4. [owner |-> [c \in Oc!Ids |-> NoOne], selected |-> Oc!None] \in Snapshots
  BY OcIds DEF Snapshots
<1> USE OcIds
<1>5. Db'
  <2> USE <1>1
  <2>1. ASSUME NEW a \in People, Oc!OpencodeSignIn(a) PROVE Db'
    <3>1. v12 + 1 \in Oc!Ids BY <2>1 DEF Oc!OpencodeSignIn, Oc!Ids
    <3> QED BY <2>1, <3>1 DEF Oc!OpencodeSignIn
  <2>2. ASSUME NEW p \in Agents, Oc!SwitchRun(p) PROVE Db'
    BY <2>2 DEF Oc!SwitchRun, Oc!CanSelect
  <2>3. ASSUME NEW p \in Agents, Oc!Restore(p) PROVE Db' BY <2>3 DEF Oc!Restore, Oc!CanSelect
  <2>4. ASSUME NEW p \in Agents, Oc!Logout(p) PROVE Db' BY <2>4 DEF Oc!Logout, Oc!CanSelect
  <2>5. ASSUME NEW p \in Agents, Oc!Slot(p) PROVE Db' BY <2>5 DEF Oc!Slot
  <2>6. ASSUME UNCHANGED Oc!Database PROVE Db' BY <2>6 DEF Oc!Database
  <2> HIDE DEF Db
  <2> QED
    BY <2>1, <2>2, <2>3, <2>4, <2>5, <2>6 DEF Oc!Next, Oc!opencodeVars, Oc!Database, Oc!Sync,
       Oc!SyncWrite, Oc!Switch, Oc!Remove, Oc!Check, Oc!Commit, Oc!Still, Oc!Unregister,
       Oc!OpencodeKill, Oc!Begin
<1>6. Reg'
  <2> USE <1>1
  <2>1. ASSUME NEW p \in Agents, Oc!SyncWrite(p) PROVE Reg'
    <3>1. v11[p] \in Snapshots OBVIOUS
    <3>2. \A a \in People : Oc!Recorded(v11[p])[a] \in 0 .. Oc!Unlisted
      BY <3>1, OcOf DEF Oc!Recorded
    <3>3. v5' = Oc!Recorded(v11[p]) /\ v6' = Oc!Marked(v11[p]) BY <2>1 DEF Oc!SyncWrite
    <3>4. v5' \in [People -> 0 .. Oc!Unlisted] BY <3>2, <3>3 DEF Oc!Recorded
    <3>5. \A a \in People : v5[a] # Oc!Unlisted \/ Oc!Of(v11[p], a) # {}
             => v5'[a] # Oc!Unlisted
      BY <3>1, <3>3, OcOf DEF Oc!Recorded
    <3>6. v6' \in People => v6' \in Oc!Listed'
      BY <3>1, <3>3, <3>5, OcOf DEF Oc!Marked, Oc!Listed
    <3>7. v6' \in Oc!Owners BY <3>1, <3>3, OcSelected DEF Oc!Marked, Oc!Listed, Oc!Owners
    <3> QED BY <3>4, <3>6, <3>7 DEF Oc!Owners
  <2>2. ASSUME NEW p \in Agents, Oc!Commit(p) PROVE Reg' BY <2>2 DEF Oc!Commit, Oc!Listed
  <2>3. ASSUME NEW p \in Agents, Oc!Unregister(p) PROVE Reg'
    <3>1. v8[p] \in People BY <1>3, <2>3 DEF Oc!Unregister
    <3>2. v5' = [v5 EXCEPT ![v8[p]] = Oc!Unlisted] BY <2>3 DEF Oc!Unregister
    <3>3. v5' \in [People -> 0 .. Oc!Unlisted] BY <3>1, <3>2
    <3>4. Oc!Listed' = Oc!Listed \ {v8[p]} BY <3>1, <3>2 DEF Oc!Listed
    <3> QED BY <2>3, <3>3, <3>4 DEF Oc!Unregister
  <2>4. ASSUME UNCHANGED Oc!Registry PROVE Reg' BY <2>4 DEF Oc!Registry, Oc!Listed
  <2> HIDE DEF Reg
  <2> QED
    BY <2>1, <2>2, <2>3, <2>4 DEF Oc!Next, Oc!opencodeVars, Oc!Registry, Oc!OpencodeSignIn,
       Oc!Sync, Oc!Switch, Oc!Remove, Oc!SwitchRun, Oc!Check, Oc!Restore, Oc!Logout, Oc!Still,
       Oc!Slot, Oc!OpencodeKill, Oc!Begin
<1>7. At'
  <2> USE <1>1 DEF Oc!Goto, Oc!Go, Oc!Say, Oc!Forget, Oc!Begin, Oc!OpencodeSteps, Oc!Work
  <2>1. ASSUME NEW a \in People, Oc!OpencodeSignIn(a) PROVE At' BY <2>1 DEF Oc!OpencodeSignIn
  <2>2. ASSUME NEW p \in Agents, Oc!Sync(p) \/ Oc!SyncWrite(p) PROVE At'
    BY <2>2 DEF Oc!Sync, Oc!SyncWrite
  <2>3. ASSUME NEW p \in Agents, NEW a \in People, Oc!Switch(p, a) PROVE At' BY <2>3 DEF Oc!Switch
  <2>4. ASSUME NEW p \in Agents, NEW a \in People, Oc!Remove(p, a) PROVE At'
    BY <2>4 DEF Oc!Remove, Oc!Way
  <2>5. ASSUME NEW p \in Agents, Oc!SwitchRun(p) PROVE At' BY <2>5 DEF Oc!SwitchRun
  <2>6. ASSUME NEW p \in Agents, Oc!Check(p) \/ Oc!Restore(p) \/ Oc!Commit(p) PROVE At'
    BY <2>6 DEF Oc!Check, Oc!Restore, Oc!Commit
  <2>7. ASSUME NEW p \in Agents, Oc!Logout(p) PROVE At' BY <2>7 DEF Oc!Logout
  <2>8. ASSUME NEW p \in Agents, Oc!Still(p) \/ Oc!Slot(p) PROVE At' BY <2>8 DEF Oc!Still, Oc!Slot
  <2>9. ASSUME NEW p \in Agents, Oc!Unregister(p) \/ Oc!OpencodeKill(p) PROVE At'
    BY <2>9 DEF Oc!Unregister, Oc!OpencodeKill
  <2>10. CASE UNCHANGED Oc!opencodeVars BY <2>10 DEF Oc!opencodeVars
  <2> HIDE DEF At
  <2> QED BY <2>1, <2>2, <2>3, <2>4, <2>5, <2>6, <2>7, <2>8, <2>9, <2>10 DEF Oc!Next
<1>8. Plans'
  <2> USE <1>1
  <2>1. ASSUME NEW a \in People, a \in Oc!Listed, v1 \/ Oc!Of(Oc!Reading, a) # {}
        PROVE  Oc!ToUse(a) \in Oc!Ids \cup {Oc!None}
    BY <1>2, <2>1, OcOf DEF Oc!ToUse, Oc!Listed
  <2>2. ASSUME NEW p \in Agents, NEW a \in People, Oc!Switch(p, a) PROVE Plans'
    BY <2>1, <2>2 DEF Oc!Switch
  <2>3. ASSUME NEW p \in Agents, NEW a \in People, Oc!Remove(p, a) PROVE Plans'
    BY <2>1, <2>3 DEF Oc!Remove
  <2>4. ASSUME NEW p \in Agents, Oc!Forget(p) PROVE Plans' BY <2>4 DEF Oc!Forget
  <2>5. ASSUME UNCHANGED <<v9, v10>> PROVE Plans' BY <2>5
  <2> HIDE DEF Plans
  <2> QED
    BY <2>2, <2>3, <2>4, <2>5 DEF Oc!Next, Oc!opencodeVars, Oc!Work, Oc!OpencodeSignIn, Oc!Sync,
       Oc!SyncWrite, Oc!SwitchRun, Oc!Check, Oc!Restore, Oc!Commit, Oc!Logout, Oc!Still, Oc!Slot,
       Oc!Unregister, Oc!OpencodeKill, Oc!Go, Oc!Say
<1>9. Saws'
  <2> USE <1>1
  <2>1. ASSUME NEW p \in Agents, Oc!Sync(p) PROVE Saws' BY <1>2, <2>1 DEF Oc!Sync
  <2>2. ASSUME NEW p \in Agents, Oc!Forget(p) PROVE Saws' BY <1>4, <2>2 DEF Oc!Forget
  <2>3. ASSUME UNCHANGED v11 PROVE Saws' BY <2>3
  <2> HIDE DEF Saws
  <2> QED
    BY <2>1, <2>2, <2>3 DEF Oc!Next, Oc!opencodeVars, Oc!Work, Oc!OpencodeSignIn, Oc!Switch,
       Oc!Remove, Oc!SyncWrite, Oc!SwitchRun, Oc!Check, Oc!Restore, Oc!Commit, Oc!Logout,
       Oc!Still, Oc!Slot, Oc!Unregister, Oc!OpencodeKill, Oc!Go, Oc!Say
<1>10. Past'
  <2> USE <1>1
  <2>1. ASSUME v15' \in [Agents -> BOOLEAN], v16' = Oc!Nothing PROVE Past' BY <2>1
  <2>2. ASSUME UNCHANGED <<v15, v16>> PROVE Past' BY <2>2
  <2>3. ASSUME NEW p \in Agents, NEW k \in {"active", "gone", "synced", "nothing"}, Oc!Say(p, k)
        PROVE  Past'
    <3>1. v8[p] \in Oc!Owners OBVIOUS
    <3>2. k # "nothing" => [kind |-> k, of |-> v8[p]] \in
                             [kind : {"active", "gone", "synced"}, of : Oc!Owners]
      BY <3>1
    <3> QED BY <2>3, <3>2 DEF Oc!Say
  <2> HIDE DEF Past
  <2>4. ASSUME NEW p \in Agents, NEW a, NEW s, Oc!Begin(p, a, s) PROVE Past'
    <3>1. v15' \in [Agents -> BOOLEAN] BY <2>4 DEF Oc!Begin
    <3> QED BY <2>1, <2>4, <3>1 DEF Oc!Begin
  <2>5. ASSUME NEW a \in People, Oc!OpencodeSignIn(a) PROVE Past'
    BY <2>1, <2>5 DEF Oc!OpencodeSignIn, Oc!Disturb
  <2>6. ASSUME NEW p \in Agents, Oc!Go(p, "Check") \/ Oc!Go(p, "Restore") \/ Oc!Go(p, "Commit")
                    \/ Oc!Go(p, "Still") \/ Oc!Go(p, "Unsure") \/ Oc!Go(p, "Gone") PROVE Past'
    BY <2>2, <2>6 DEF Oc!Go, Oc!History
  <2>7. CASE UNCHANGED Oc!opencodeVars BY <2>2, <2>7 DEF Oc!opencodeVars
  <2>8. ASSUME NEW p \in Agents, Oc!SyncWrite(p) \/ Oc!Restore(p) \/ Oc!Commit(p)
          \/ Oc!Unregister(p)
                  \/ Oc!OpencodeKill(p) PROVE Past'
    BY <2>3, <2>8 DEF Oc!SyncWrite, Oc!Restore, Oc!Commit, Oc!Unregister, Oc!OpencodeKill
  <2>9. ASSUME NEW p \in Agents, NEW a \in People, Oc!Sync(p) \/ Oc!Switch(p, a) \/ Oc!Remove(p, a)
        PROVE  Past'
    BY <2>4, <2>9 DEF Oc!Sync, Oc!Switch, Oc!Remove
  <2>10. ASSUME NEW p \in Agents, Oc!Sync(p) PROVE Past'
    BY <2>4, <2>10 DEF Oc!Sync
  <2> QED
    BY <2>5, <2>6, <2>7, <2>8, <2>9, <2>10 DEF Oc!Next, Oc!SwitchRun, Oc!Check, Oc!Logout,
       Oc!Still, Oc!Slot
<1>11. Flags'
  BY <1>1 DEF Oc!Next, Oc!opencodeVars, Oc!Layout, Oc!Beside, Oc!OpencodeSignIn, Oc!Sync,
     Oc!SyncWrite, Oc!Switch, Oc!Remove, Oc!SwitchRun, Oc!Check, Oc!Restore, Oc!Commit, Oc!Logout,
     Oc!Still, Oc!Slot, Oc!Unregister, Oc!OpencodeKill, Oc!Begin
<1>12. Bounds'
  <2> USE <1>1, OpencodeConstants DEF Oc!OpencodeAssumption
  <2>1. ASSUME v13' = v13, Oc!Blunder \/ Oc!Fine PROVE Bounds'
    BY <2>1 DEF Oc!Blunder, Oc!Fine
  <2>2. ASSUME NEW p \in Agents, NEW a, NEW s, Oc!Begin(p, a, s) PROVE Bounds'
    BY <2>2 DEF Oc!Begin
  <2>3. ASSUME UNCHANGED <<v13, v14>> PROVE Bounds' BY <2>3
  <2> HIDE DEF Bounds
  <2> QED
    BY <2>1, <2>2, <2>3 DEF Oc!Next, Oc!opencodeVars, Oc!Beside, Oc!OpencodeSignIn, Oc!Sync,
       Oc!SyncWrite, Oc!Switch, Oc!Remove, Oc!SwitchRun, Oc!Check, Oc!Restore, Oc!Commit,
       Oc!Logout, Oc!Still, Oc!Slot, Oc!Unregister, Oc!OpencodeKill
<1> QED BY <1>5, <1>6, <1>7, <1>8, <1>9, <1>10, <1>11, <1>12 DEF Oc!OpencodeTypeOK, Snapshots

LEMMA OcAlone == ASSUME OpencodeInv, [Oc!Next]_(Oc!opencodeVars)
    PROVE Oc!AloneKept' /\ Oc!OpencodeAsSaid'
<1> DEFINE One == ~v2 => \A c \in Oc!Ids : c # v4 => v3[c] = NoOne
           Rest(p) == v7[p] = "Idle"
           Right(p) == /\ v7[p] \in {"Switch", "Check", "Restore", "Commit", "Logout", "Still"}
                              => v2
                       /\ v7[p] = "Slot" => ~v2
                       /\ v7[p] \notin {"Idle", "Sync"} => v8[p] \in People
           Sure(p) == /\ \A q \in Agents \ {p} : Rest(q)
                      /\ v7[p] = "Sync" => v11[p] = Oc!Reading
                      /\ v7[p] = "Commit" => Oc!SelectedOwner(Oc!Reading) = v8[p]
                      /\ v7[p] = "Gone" => Oc!Of(Oc!Reading, v8[p]) = {}
<1>1. /\ One
      /\ v16 # Oc!Nothing => \A p \in Agents : Rest(p)
      /\ \A p \in Agents : Right(p) /\ (v15[p] => Sure(p))
  BY DEF OpencodeInv, Oc!AloneKept
<1>2. Oc!OpencodeTypeOK /\ Oc!OpencodeAsSaid BY DEF OpencodeInv
<1>3. ASSUME One', v16' = Oc!Nothing, \A p \in Agents : Right(p)' /\ (v15'[p] => Sure(p)')
      PROVE  Oc!AloneKept' /\ Oc!OpencodeAsSaid'
  BY <1>3 DEF Oc!AloneKept, Oc!OpencodeAsSaid, Oc!Nothing
<1> USE OcIds
\* A job begins, and is alone only if no other is under way.
<1>4. ASSUME NEW p \in Agents, NEW a \in Oc!Owners, NEW s \in Oc!OpencodeSteps \ {"Idle", "Commit"},
             Oc!Begin(p, a, s),
             s \in {"Switch", "Check", "Restore", "Logout", "Still"} => v2,
             s = "Slot" => ~v2,
             s # "Sync" => a \in People,
             s = "Sync" => v11'[p] = Oc!Reading,
             s = "Gone" => Oc!Of(Oc!Reading, a) = {}
      PROVE  Oc!AloneKept' /\ Oc!OpencodeAsSaid'
  <2>1. /\ v7' = [v7 EXCEPT ![p] = s] /\ v8' = [v8 EXCEPT ![p] = a]
        /\ v15' = [q \in Agents |-> q = p /\ \A o \in Agents : v7[o] = "Idle"]
        /\ v16' = Oc!Nothing /\ UNCHANGED <<v2, v3, v4>>
    BY <1>4 DEF Oc!Begin, Oc!Goto, Oc!Layout, Oc!Database
  <2>2. v7'[p] = s /\ v8'[p] = a /\ \A q \in Agents \ {p} : v7'[q] = v7[q] /\ v8'[q] = v8[q]
    BY <1>2, <2>1 DEF Oc!OpencodeTypeOK
  <2>3. Oc!Reading' = Oc!Reading BY <2>1 DEF Oc!Reading
  <2>4. \A q \in Agents : Right(q)' BY <1>1, <1>4, <2>1, <2>2
  <2>5. ASSUME NEW q \in Agents, v15'[q] PROVE Sure(q)'
    <3>1. q = p /\ \A o \in Agents : v7[o] = "Idle" BY <2>1, <2>5
    <3>2. \A o \in Agents \ {q} : Rest(o)' BY <2>2, <3>1
    <3>3. /\ v7'[q] # "Commit"
          /\ v7'[q] = "Sync" => v11'[q] = Oc!Reading'
          /\ v7'[q] = "Gone" => Oc!Of(Oc!Reading', v8'[q]) = {}
      BY <1>4, <2>1, <2>2, <2>3, <3>1 DEF Oc!Of
    <3> QED BY <3>2, <3>3 DEF Oc!Of
  <2>6. One' BY <1>1, <2>1
  <2> QED BY <1>3, <2>1, <2>4, <2>5, <2>6
\* A job of p goes on: it is alone no more than it was.
<1>5. ASSUME NEW p \in Agents, NEW s \in Oc!OpencodeSteps \ {"Idle", "Sync", "Slot"},
        v7[p] # "Idle", Oc!Go(p, s),
             v7[p] # "Sync",
             One', UNCHANGED v2,
             s \in {"Switch", "Check", "Restore", "Commit", "Logout", "Still"} => v2,
             s = "Commit" => Oc!SelectedOwner(Oc!Reading)' = v8[p],
             s = "Gone" => Oc!Of(Oc!Reading, v8[p])' = {}
      PROVE  Oc!AloneKept' /\ Oc!OpencodeAsSaid'
  <2>1. v7' = [v7 EXCEPT ![p] = s] /\ UNCHANGED <<v8, v11, v15, v16>>
    BY <1>5 DEF Oc!Go, Oc!Goto, Oc!Work, Oc!History
  <2>2. v7'[p] = s /\ \A q \in Agents \ {p} : v7'[q] = v7[q]
    BY <1>2, <2>1 DEF Oc!OpencodeTypeOK
  <2>3. v16' = Oc!Nothing BY <1>1, <1>5, <2>1
  <2>4. \A q \in Agents : Right(q)' BY <1>1, <1>5, <2>1, <2>2
  <2>5. ASSUME NEW q \in Agents, v15'[q] PROVE Sure(q)'
    <3>1. v15[q] /\ q = p BY <1>1, <1>5, <2>1, <2>5
    <3>2. \A o \in Agents \ {q} : Rest(o)' BY <1>1, <2>2, <3>1
    <3>3. v8'[p] = v8[p] BY <2>1
    <3> QED BY <1>5, <2>2, <3>1, <3>2, <3>3
  <2> QED BY <1>3, <1>5, <2>3, <2>4, <2>5
\* It ends, and has said what is so.
<1>6. ASSUME NEW p \in Agents, NEW k \in {"active", "gone", "synced", "nothing"},
             v7[p] # "Idle", Oc!Say(p, k), One', UNCHANGED v2,
             k = "active" /\ v15[p] => Oc!SelectedOwner(Oc!Reading)' = v8[p] /\ v6' = v8[p],
             k = "gone" /\ v15[p] => Oc!Of(Oc!Reading', v8[p]) = {} /\ v8[p] \notin Oc!Listed',
             k = "synced" /\ v15[p] => v6' = Oc!SelectedOwner(Oc!Reading)'
      PROVE  Oc!AloneKept' /\ Oc!OpencodeAsSaid'
  <2>1. /\ v7' = [v7 EXCEPT ![p] = "Idle"] /\ UNCHANGED v15
        /\ v8' = [v8 EXCEPT ![p] = NoOne]
        /\ v16' = IF v15[p] /\ k # "nothing" THEN [kind |-> k, of |-> v8[p]] ELSE v16
    BY <1>6 DEF Oc!Say, Oc!Goto, Oc!Forget
  <2>2. /\ v7'[p] = "Idle"
        /\ \A q \in Agents \ {p} : v7'[q] = v7[q] /\ v8'[q] = v8[q]
    BY <1>2, <2>1 DEF Oc!OpencodeTypeOK
  <2>3. \A q \in Agents : Right(q)' BY <1>1, <1>6, <2>1, <2>2
  <2>4. ASSUME NEW q \in Agents, v15'[q] PROVE Sure(q)'
    <3>1. v15[q] /\ q = p BY <1>1, <1>6, <2>1, <2>4
    <3> QED BY <1>1, <2>2, <3>1
  <2>5. v16' # Oc!Nothing => v15[p] /\ k # "nothing" /\ v16' = [kind |-> k, of |-> v8[p]]
    BY <1>1, <1>6, <2>1
  <2>6. v16' # Oc!Nothing => \A q \in Agents : Rest(q)'
    BY <1>1, <2>2, <2>5
  <2>7. Oc!AloneKept' BY <1>6, <2>3, <2>4, <2>6 DEF Oc!AloneKept
  <2>8. Oc!OpencodeAsSaid'
    <3>1. CASE v16' = Oc!Nothing BY <3>1 DEF Oc!OpencodeAsSaid, Oc!Nothing
    <3>2. CASE v16' # Oc!Nothing
      <4>1. v16'.kind = k /\ v16'.of = v8[p] /\ v15[p] BY <2>5, <3>2
      <4> QED BY <1>6, <4>1 DEF Oc!OpencodeAsSaid
    <3> QED BY <3>1, <3>2
  <2> QED BY <2>7, <2>8
<1>10. ASSUME NEW a \in People, Oc!OpencodeSignIn(a) PROVE Oc!AloneKept' /\ Oc!OpencodeAsSaid'
  <2>1. v16' = Oc!Nothing /\ (\A p \in Agents : v15'[p] = FALSE) /\ UNCHANGED <<v2, v7, v8>>
    BY <1>10 DEF Oc!OpencodeSignIn, Oc!Disturb, Oc!Layout, Oc!Work
  <2>2. One' BY <1>2, <1>10, <2>1 DEF Oc!OpencodeSignIn, Oc!OpencodeTypeOK
  <2>3. \A p \in Agents : Right(p)' BY <1>1, <2>1
  <2> QED BY <1>3, <2>1, <2>2, <2>3
<1>11. ASSUME NEW p \in Agents, Oc!Sync(p) PROVE Oc!AloneKept' /\ Oc!OpencodeAsSaid'
  <2>1. v11'[p] = Oc!Reading BY <1>2, <1>11 DEF Oc!Sync, Oc!OpencodeTypeOK
  <2>2. Oc!Begin(p, NoOne, "Sync") BY <1>11 DEF Oc!Sync
  <2> QED BY <1>4, <2>1, <2>2 DEF Oc!OpencodeSteps
<1>12. ASSUME NEW p \in Agents, Oc!SyncWrite(p) PROVE Oc!AloneKept' /\ Oc!OpencodeAsSaid'
  <2>1. /\ v7[p] = "Sync" /\ v6' = Oc!Marked(v11[p]) /\ UNCHANGED <<v2, v3, v4>>
        /\ Oc!Say(p, IF Oc!SelectedOwner(v11[p]) # NoOne \/ ~v1 THEN "synced" ELSE "nothing")
    BY <1>12 DEF Oc!SyncWrite, Oc!Beside, Oc!Layout, Oc!Database
  <2>2. Oc!Reading' = Oc!Reading /\ One' BY <1>1, <2>1 DEF Oc!Reading
  <2>3. Oc!SelectedOwner(v11[p]) # NoOne \/ ~v1 => v6' = Oc!SelectedOwner(v11[p])
    BY <2>1 DEF Oc!Marked
  <2>4. v15[p] => v11[p] = Oc!Reading BY <1>1, <2>1
  <2>5. Oc!SelectedOwner(Oc!Reading)' = Oc!SelectedOwner(Oc!Reading)
    BY <2>1, <2>2 DEF Oc!SelectedOwner
  <2>6. CASE Oc!SelectedOwner(v11[p]) # NoOne \/ ~v1
    <3>1. Oc!Say(p, "synced") BY <2>1, <2>6
    <3>2. v15[p] => v6' = Oc!SelectedOwner(Oc!Reading)' BY <2>3, <2>4, <2>5, <2>6
    <3> QED BY <1>6, <2>1, <2>2, <3>1, <3>2
  <2>7. CASE ~(Oc!SelectedOwner(v11[p]) # NoOne \/ ~v1)
    <3>1. Oc!Say(p, "nothing") BY <2>1, <2>7
    <3> QED BY <1>6, <2>1, <2>2, <3>1
  <2> QED BY <2>6, <2>7
<1>13. ASSUME NEW p \in Agents, NEW a \in People, Oc!Switch(p, a)
      PROVE Oc!AloneKept' /\ Oc!OpencodeAsSaid'
  BY <1>4, <1>13 DEF Oc!Switch, Oc!OpencodeSteps
<1>14. ASSUME NEW p \in Agents, Oc!SwitchRun(p) PROVE Oc!AloneKept' /\ Oc!OpencodeAsSaid'
  <2>1. v7[p] = "Switch" /\ v2 /\ UNCHANGED v2 BY <1>1, <1>14 DEF Oc!SwitchRun, Oc!Beside, Oc!Layout
  <2>2. Oc!Go(p, "Check") \/ Oc!Go(p, "Restore") BY <1>14 DEF Oc!SwitchRun
  <2> QED BY <1>5, <2>1, <2>2 DEF Oc!OpencodeSteps
<1>15. ASSUME NEW p \in Agents, Oc!Check(p) PROVE Oc!AloneKept' /\ Oc!OpencodeAsSaid'
  <2>1. /\ v7[p] = "Check" /\ v2 /\ UNCHANGED <<v2, v3, v4>>
    BY <1>1, <1>15 DEF Oc!Check, Oc!Beside, Oc!Layout, Oc!Database
  <2>2. One' /\ Oc!SelectedOwner(Oc!Reading)' = Oc!SelectedOwner(Oc!Reading)
    BY <1>1, <2>1 DEF Oc!SelectedOwner, Oc!Reading
  <2>3. \/ Oc!Go(p, "Commit") /\ Oc!SelectedOwner(Oc!Reading) = v8[p]
        \/ Oc!Go(p, "Restore")
    BY <1>15 DEF Oc!Check
  <2> QED BY <1>5, <2>1, <2>2, <2>3 DEF Oc!OpencodeSteps
<1>16. ASSUME NEW p \in Agents, Oc!Restore(p) PROVE Oc!AloneKept' /\ Oc!OpencodeAsSaid'
  <2>1. v7[p] = "Restore" /\ v2 /\ UNCHANGED v2 /\ Oc!Say(p, "nothing")
    BY <1>1, <1>16 DEF Oc!Restore, Oc!Beside, Oc!Layout
  <2> QED BY <1>6, <2>1
<1>17. ASSUME NEW p \in Agents, Oc!Commit(p) PROVE Oc!AloneKept' /\ Oc!OpencodeAsSaid'
  <2>1. v7[p] = "Commit" /\ v2 /\ UNCHANGED <<v2, v3, v4>>
    BY <1>1, <1>17 DEF Oc!Commit, Oc!Beside, Oc!Layout, Oc!Database
  <2>2. Oc!SelectedOwner(Oc!Reading)' = Oc!SelectedOwner(Oc!Reading)
    BY <2>1 DEF Oc!SelectedOwner, Oc!Reading
  <2>3. \/ Oc!Say(p, "active") /\ v6' = v8[p]
        \/ Oc!Say(p, "nothing")
    BY <1>17 DEF Oc!Commit
  <2>4. v15[p] => Oc!SelectedOwner(Oc!Reading) = v8[p] BY <1>1, <2>1
  <2> QED BY <1>6, <2>1, <2>2, <2>3, <2>4
<1>18. ASSUME NEW p \in Agents, NEW a \in People, Oc!Remove(p, a)
      PROVE Oc!AloneKept' /\ Oc!OpencodeAsSaid'
  <2>1. Oc!Begin(p, a, Oc!Way(a)) BY <1>18 DEF Oc!Remove
  <2>2. /\ Oc!Way(a) \in {"Gone", "Logout", "Unsure", "Slot"}
        /\ Oc!Way(a) = "Gone" => Oc!Of(Oc!Reading, a) = {}
        /\ Oc!Way(a) = "Logout" => v2
        /\ Oc!Way(a) = "Slot" => ~v2
    BY DEF Oc!Way
  <2>3. Oc!Way(a) \in Oc!OpencodeSteps \ {"Idle", "Commit"} BY <2>2 DEF Oc!OpencodeSteps
  <2> QED BY <1>4, <2>1, <2>2, <2>3
<1>19. ASSUME NEW p \in Agents, Oc!Logout(p) PROVE Oc!AloneKept' /\ Oc!OpencodeAsSaid'
  <2>1. v7[p] = "Logout" /\ v2 /\ UNCHANGED v2 BY <1>1, <1>19 DEF Oc!Logout, Oc!Beside, Oc!Layout
  <2>2. Oc!Go(p, "Still") \/ Oc!Go(p, "Unsure") BY <1>19 DEF Oc!Logout
  <2> QED BY <1>5, <2>1, <2>2 DEF Oc!OpencodeSteps
<1>20. ASSUME NEW p \in Agents, Oc!Still(p) PROVE Oc!AloneKept' /\ Oc!OpencodeAsSaid'
  <2>1. v7[p] = "Still" /\ v2 /\ UNCHANGED <<v2, v3, v4, v8>>
    BY <1>1, <1>20 DEF Oc!Still, Oc!Beside, Oc!Layout, Oc!Database, Oc!Go, Oc!Work
  <2>2. One' /\ Oc!Of(Oc!Reading, v8[p])' = Oc!Of(Oc!Reading, v8[p])
    BY <1>1, <2>1 DEF Oc!Of, Oc!Reading
  <2>3. \/ Oc!Go(p, "Gone") /\ Oc!Of(Oc!Reading, v8[p]) = {}
        \/ Oc!Go(p, "Unsure")
    BY <1>20 DEF Oc!Still
  <2> QED BY <1>5, <2>1, <2>2, <2>3 DEF Oc!OpencodeSteps
<1>21. ASSUME NEW p \in Agents, Oc!Slot(p) PROVE Oc!AloneKept' /\ Oc!OpencodeAsSaid'
  <2>1. /\ v7[p] = "Slot" /\ UNCHANGED <<v2, v8>> /\ Oc!Go(p, "Gone") /\ v8[p] \in People
        /\ ~v2
    BY <1>1, <1>21 DEF Oc!Slot, Oc!Beside, Oc!Layout, Oc!Go, Oc!Work
  <2>2. CASE Oc!SelectedOwner(Oc!Reading) = v8[p]
    <3>1. v4 \in Oc!Ids BY <1>2, <2>1, <2>2 DEF Oc!SelectedOwner, Oc!Reading, Oc!OpencodeTypeOK
    <3>2. v3' = [v3 EXCEPT ![v4] = NoOne] /\ v4' = Oc!None
      BY <1>21, <2>2 DEF Oc!Slot
    <3>3. \A c \in Oc!Ids : v3'[c] = IF c = v4 THEN NoOne ELSE v3[c]
      BY <1>2, <3>1, <3>2 DEF Oc!OpencodeTypeOK
    <3>4. \A c \in Oc!Ids : v3'[c] = NoOne BY <1>1, <2>1, <3>3
    <3>5. One' BY <3>4
    <3>6. Oc!Of(Oc!Reading, v8[p])' = {} BY <2>1, <3>4 DEF Oc!Of, Oc!Reading
    <3> QED BY <1>5, <2>1, <3>5, <3>6 DEF Oc!OpencodeSteps
  <2>3. CASE Oc!SelectedOwner(Oc!Reading) # v8[p]
    <3>1. UNCHANGED <<v3, v4>> BY <1>21, <2>3 DEF Oc!Slot
    <3>2. One' BY <1>1, <2>1, <3>1
    <3>3. \A c \in Oc!Ids : c = v4 => v3[c] # v8[p]
      BY <2>3 DEF Oc!SelectedOwner, Oc!Reading
    <3>4. Oc!Of(Oc!Reading, v8[p])' = {} BY <1>1, <2>1, <3>1, <3>3 DEF Oc!Of, Oc!Reading
    <3> QED BY <1>5, <2>1, <3>2, <3>4 DEF Oc!OpencodeSteps
  <2> QED BY <2>2, <2>3
<1>22. ASSUME NEW p \in Agents, Oc!Unregister(p) PROVE Oc!AloneKept' /\ Oc!OpencodeAsSaid'
  <2>1. /\ v7[p] \in {"Gone", "Unsure"} /\ UNCHANGED <<v2, v3, v4>>
        /\ v8[p] \in People /\ v5' = [v5 EXCEPT ![v8[p]] = Oc!Unlisted]
        /\ Oc!Say(p, IF v7[p] = "Gone" /\ v8[p] \in Oc!Listed THEN "gone" ELSE "nothing")
    BY <1>1, <1>22 DEF Oc!Unregister, Oc!Beside, Oc!Layout, Oc!Database
  <2>2. One' /\ Oc!Reading' = Oc!Reading BY <1>1, <2>1 DEF Oc!Reading
  <2>3. v8[p] \notin Oc!Listed' BY <1>2, <2>1 DEF Oc!Listed, Oc!OpencodeTypeOK
  <2>4. v7[p] = "Gone" /\ v15[p] => Oc!Of(Oc!Reading', v8[p]) = {} BY <1>1, <2>2
  <2>5. CASE v7[p] = "Gone" /\ v8[p] \in Oc!Listed
    <3>1. Oc!Say(p, "gone") BY <2>1, <2>5
    <3> QED BY <1>6, <2>1, <2>2, <2>3, <2>4, <2>5, <3>1
  <2>6. CASE ~(v7[p] = "Gone" /\ v8[p] \in Oc!Listed)
    <3>1. Oc!Say(p, "nothing") BY <2>1, <2>6
    <3> QED BY <1>6, <2>1, <2>2, <3>1
  <2> QED BY <2>5, <2>6
<1>23. ASSUME NEW p \in Agents, Oc!OpencodeKill(p) PROVE Oc!AloneKept' /\ Oc!OpencodeAsSaid'
  <2>1. v7[p] # "Idle" /\ Oc!Say(p, "nothing") /\ UNCHANGED <<v2, v3, v4>>
    BY <1>23 DEF Oc!OpencodeKill, Oc!Beside, Oc!Layout, Oc!Database
  <2> QED BY <1>1, <1>6, <2>1
<1>24. CASE UNCHANGED Oc!opencodeVars
  BY <1>24, <1>1, <1>2 DEF Oc!opencodeVars, Oc!AloneKept, Oc!OpencodeAsSaid, Oc!Of,
     Oc!SelectedOwner, Oc!Reading, Oc!Listed
<1> QED
  BY <1>10, <1>11, <1>12, <1>13, <1>14, <1>15, <1>16, <1>17, <1>18, <1>19, <1>20, <1>21, <1>22,
     <1>23, <1>24 DEF Oc!Next

LEMMA OcNext == OpencodeInv /\ [Oc!Next]_(Oc!opencodeVars) => OpencodeInv'
  BY OcTypes, OcAlone DEF OpencodeInv

\* The best of some credentials exists, since ranks are numbers.
LEMMA OcLiving == OpencodeInv => Oc!LivingNeedsNoLogin
<1> SUFFICES ASSUME OpencodeInv, NEW a \in People, NEW answer \in [Oc!Ids -> Oc!Answers],
                    Oc!Of(Oc!Reading, a) # {}, Oc!Verdict(a, answer) = "relogin"
             PROVE  v6 # a /\ \A c \in Oc!Of(Oc!Reading, a) : answer[c] = "denied"
  BY DEF Oc!LivingNeedsNoLogin
<1> USE OcIds
<1> DEFINE mine == Oc!Of(Oc!Reading, a)
           heard == {c \in mine : ~Oc!Refused(answer[c])}
           best == CHOOSE c \in heard : \A d \in heard : Oc!Rank(a, c) <= Oc!Rank(a, d)
           ranks == {Oc!Rank(a, c) : c \in heard}
<1>1. mine \subseteq Oc!Ids BY DEF Oc!Of
<1>2. heard = {}
  <2>1. SUFFICES ASSUME heard # {} PROVE FALSE OBVIOUS
  <2>2. ranks \in SUBSET Nat /\ ranks # {} BY <1>1, <2>1 DEF Oc!Rank
  <2>3. \E n \in ranks : \A m \in ranks : n <= m
    <3> HIDE DEF ranks
    <3> QED BY <2>2, Smallest
  <2>4. \E c \in heard : \A d \in heard : Oc!Rank(a, c) <= Oc!Rank(a, d) BY <2>3
  <2>5. best \in heard
    <3> HIDE DEF heard
    <3> QED BY <2>4
  <2>6. answer[best] \in Oc!Answers /\ answer[best] # "denied" BY <1>1, <2>5 DEF Oc!Refused
  <2>7. Oc!Verdict(a, answer) = answer[best] BY <2>1 DEF Oc!Verdict
  <2> QED BY <2>6, <2>7 DEF Oc!Answers
<1>3. \A c \in mine : answer[c] = "denied" BY <1>2 DEF Oc!Refused
<1>4. v6 # a BY <1>2 DEF Oc!Verdict
<1> QED BY <1>3, <1>4

-----------------------------------------------------------------------------
(* The keys of OpenCode, which starts of subswap move                         *)

KeyShape ==
    /\ v1 \subseteq ListedKeys /\ v2 \subseteq ListedKeys /\ v1 \cap v2 = {}
    /\ v3 \subseteq ListedKeys /\ v4 \subseteq ListedKeys
    /\ v5 \in [Agents -> {"Idle", "Copy", "Delete"}]
    /\ v6 \in [Agents -> SUBSET ListedKeys] /\ v7 \in [Agents -> SUBSET ListedKeys]
    /\ v8 \in [Agents -> SUBSET ListedKeys]

\* What a process has read is every key, and what it has no more to copy is in
\* the new place: it may therefore write its lists over those of another.
ReadAt(p) ==
    v5[p] = "Copy" =>
        /\ v6[p] \cup v7[p] = ListedKeys
        /\ v7[p] \subseteq v4 /\ v6[p] \ v8[p] \subseteq v4

\* Who deletes has saved the lists, and they are never taken back.
SavedAt(p) == v5[p] = "Delete" => v1 = {} /\ v2 = ListedKeys

KeysInv ==
    /\ KeyShape /\ Ke!KeysKept /\ v2 \subseteq v4
    /\ \A p \in Agents : ReadAt(p) /\ SavedAt(p)

LEMMA KeysInit == Ke!Init => KeysInv
  BY DEF Ke!Init, KeysInv, KeyShape, Ke!KeysKept, ReadAt, SavedAt

LEMMA KeysNext == KeysInv /\ [Ke!Next]_(Ke!keyVars) => KeysInv'
<1> SUFFICES ASSUME KeysInv, [Ke!Next]_(Ke!keyVars) PROVE KeysInv'
  OBVIOUS
<1> USE DEF KeysInv
<1>1. ASSUME NEW p \in Agents, Ke!Load(p) PROVE KeysInv'
  <2>1. KeyShape' /\ Ke!KeysKept' /\ (v2 \subseteq v4)'
    BY <1>1 DEF Ke!Load, Ke!Step, Ke!Lists, Ke!Secrets, KeyShape, Ke!KeysKept
  <2>2. v1 \cup v2 = ListedKeys
    BY DEF KeyShape, Ke!KeysKept
  <2>3. ASSUME NEW q \in Agents PROVE (ReadAt(q) /\ SavedAt(q))'
    BY <1>1, <2>2, <2>3 DEF Ke!Load, Ke!Step, Ke!Lists, Ke!Secrets, KeyShape, ReadAt, SavedAt
  <2> QED BY <2>1, <2>3
<1>2. ASSUME NEW p \in Agents, NEW k \in ListedKeys, Ke!CopySecret(p, k) PROVE KeysInv'
  <2>1. k \in v4' /\ v4 \subseteq v4' /\ v4' \subseteq ListedKeys
    BY <1>2 DEF Ke!CopySecret, KeyShape, Ke!KeysKept
  <2>2. KeyShape' /\ Ke!KeysKept' /\ (v2 \subseteq v4)'
    BY <1>2, <2>1 DEF Ke!CopySecret, Ke!Step, Ke!Left, Ke!Lists, Ke!Read, KeyShape, Ke!KeysKept
  <2>3. ASSUME NEW q \in Agents PROVE (ReadAt(q) /\ SavedAt(q))'
    BY <1>2, <2>1, <2>3 DEF Ke!CopySecret, Ke!Step, Ke!Left, Ke!Lists, Ke!Read, KeyShape, ReadAt,
       SavedAt
  <2> QED BY <2>2, <2>3
<1>3. ASSUME NEW p \in Agents, Ke!SaveLists(p) PROVE KeysInv'
  <2>1. /\ v1' = {} /\ v2' = ListedKeys
        /\ ListedKeys \subseteq v4 /\ UNCHANGED v4
    BY <1>3 DEF Ke!SaveLists, Ke!Step, Ke!Secrets, KeyShape, ReadAt
  <2>2. KeyShape' /\ Ke!KeysKept' /\ (v2 \subseteq v4)'
    BY <1>3, <2>1 DEF Ke!SaveLists, Ke!Step, Ke!Secrets, Ke!Read, KeyShape, Ke!KeysKept
  <2>3. ASSUME NEW q \in Agents PROVE (ReadAt(q) /\ SavedAt(q))'
    BY <1>3, <2>1, <2>3 DEF Ke!SaveLists, Ke!Step, Ke!Read, KeyShape, ReadAt, SavedAt
  <2> QED BY <2>2, <2>3
<1>4. ASSUME NEW p \in Agents, NEW k \in ListedKeys, Ke!DeleteSecret(p, k) PROVE KeysInv'
  <2>1. v2 = ListedKeys
    BY <1>4 DEF Ke!DeleteSecret, Ke!Step, SavedAt
  <2>2. KeyShape' /\ Ke!KeysKept' /\ (v2 \subseteq v4)'
    BY <1>4, <2>1 DEF Ke!DeleteSecret, Ke!Step, Ke!Left, Ke!Lists, Ke!Read, KeyShape, Ke!KeysKept
  <2>3. ASSUME NEW q \in Agents PROVE (ReadAt(q) /\ SavedAt(q))'
    BY <1>4, <2>3 DEF Ke!DeleteSecret, Ke!Step, Ke!Left, Ke!Lists, Ke!Read, KeyShape, ReadAt,
       SavedAt
  <2> QED BY <2>2, <2>3
<1>5. ASSUME NEW p \in Agents, Ke!StopMoving(p) PROVE KeysInv'
  <2>1. KeyShape' /\ Ke!KeysKept' /\ (v2 \subseteq v4)'
    BY <1>5 DEF Ke!StopMoving, Ke!Step, Ke!Lists, Ke!Secrets, Ke!Read, KeyShape, Ke!KeysKept
  <2>2. ASSUME NEW q \in Agents PROVE (ReadAt(q) /\ SavedAt(q))'
    BY <1>5, <2>2 DEF Ke!StopMoving, Ke!Step, Ke!Lists, Ke!Secrets, Ke!Read, KeyShape, ReadAt,
       SavedAt
  <2> QED BY <2>1, <2>2
<1>6. CASE UNCHANGED Ke!keyVars
  BY <1>6 DEF Ke!keyVars, KeyShape, Ke!KeysKept, ReadAt, SavedAt
<1> QED BY <1>1, <1>2, <1>3, <1>4, <1>5, <1>6 DEF Ke!Next

-----------------------------------------------------------------------------
(* A quota query of Antigravity                                               *)

AnswerInv == Aq!QuotaQueryTypeOK /\ Aq!MergedKept /\ Aq!AnswersKept /\ Aq!AnswerFits

LEMMA AqBuckets ==
    /\ Bases \in Nat \ {0} /\ Whole \in Nat
    /\ \A k \in Buckets : k.left \in (0 .. Whole) \cup {Unsaid}
    /\ \A m \in Models : m.family \in {"Gemini", "Claude", "other"} /\ m.left \in 0 .. Whole
                         /\ m = [family |-> m.family, left |-> m.left]
    /\ \A q : Aq!Found(q).kind = "ok" /\ Aq!Found(q).quotas = q
    /\ Aq!Pending.kind = "pending" /\ Aq!Limited.kind = "limited" /\ Aq!Relogin.kind = "relogin"
    /\ Aq!Limited.quotas = {} /\ Aq!Relogin.quotas = {}
<1> USE QuotaQueryConstants DEF Aq!QuotaQueryAssumption
<1>1. \A k \in Buckets : k.left \in (0 .. Whole) \cup {Unsaid}
  OBVIOUS
<1>2. \A m \in Models : m.family \in {"Gemini", "Claude", "other"} /\ m.left \in 0 .. Whole
                         /\ m = [family |-> m.family, left |-> m.left]
  OBVIOUS
<1> QED BY <1>1, <1>2 DEF Aq!Pending, Aq!Limited, Aq!Relogin, Aq!Found

\* A bucket gives one quota at most, under its own name.
LEMMA AqQuotas ==
    ASSUME NEW k \in Buckets
    PROVE  /\ Aq!QuotasOf(k) \subseteq Aq!Quotas
           /\ \A q \in Aq!QuotasOf(k) : q.group = k.group /\ q.id = k.id
           /\ \A q, r \in Aq!QuotasOf(k) : q = r
<1> USE AqBuckets
<1>1. CASE Aq!QuotasOf(k) = {} BY <1>1
<1>2. CASE Aq!QuotasOf(k) = {[group |-> k.group, id |-> k.id, used |-> Whole - Aq!Left(k)]}
        /\ Aq!Left(k) # Unsaid
  <2>1. Aq!Left(k) \in 0 .. Whole BY <1>2 DEF Aq!Left
  <2>2. [group |-> k.group, id |-> k.id, used |-> Whole - Aq!Left(k)] \in Aq!Quotas
    BY <2>1 DEF Aq!Quotas
  <2> QED BY <1>2, <2>2
<1> QED BY <1>1, <1>2 DEF Aq!QuotasOf

\* The list of models gives one quota of a family at most.
LEMMA AqPools ==
    ASSUME NEW ms \in SUBSET Models
    PROVE  /\ Aq!Pools(ms) \subseteq Aq!Quotas
           /\ \A q \in Aq!Pools(ms) : q.id = "models"
           /\ \A q, r \in Aq!Pools(ms) : q.group = r.group => q = r
           /\ ms = {} => Aq!Pools(ms) = {}
<1> USE AqBuckets
<1> DEFINE fam == {"Gemini", "Claude"} \cap {m.family : m \in ms}
           least(f) == CHOOSE n \in 0 .. Whole : \E m \in ms : m = [family |-> f, left |-> n]
                          /\ \A k \in ms : k.family = f => n <= k.left
           quota(f) == [group |-> f, id |-> "models", used |-> Whole - least(f)]
<1>1. Aq!Pools(ms) = {quota(f) : f \in fam} BY DEF Aq!Pools
<1>2. ASSUME NEW f \in fam PROVE quota(f) \in Aq!Quotas
  <2> DEFINE lefts == {m.left : m \in {k \in ms : k.family = f}}
  <2>1. lefts # {} /\ lefts \in SUBSET Nat OBVIOUS
  <2>2. PICK n \in lefts : \A k \in lefts : n <= k
    <3> HIDE DEF lefts
    <3> QED BY <2>1, Smallest
  <2>3. PICK m \in ms : m.family = f /\ m.left = n OBVIOUS
  <2>4. m = [family |-> f, left |-> n] /\ n \in 0 .. Whole BY <2>3
  <2>5. \A k \in ms : k.family = f => n <= k.left BY <2>2
  <2>6. \E x \in 0 .. Whole : \E y \in ms : y = [family |-> f, left |-> x]
                          /\ \A k \in ms : k.family = f => x <= k.left
    BY <2>4, <2>5
  <2>7. least(f) \in 0 .. Whole BY <2>6
  <2> HIDE DEF least
  <2>8. f \in {"Gemini", "Claude"} OBVIOUS
  <2>9. Whole - least(f) \in 0 .. Whole BY <2>7
  <2> HIDE DEF fam
  <2> QED BY <2>8, <2>9 DEF Aq!Quotas
<1> HIDE DEF least, fam
<1>3. \A f : quota(f).group = f /\ quota(f).id = "models" OBVIOUS
<1>4. ms = {} => fam = {} BY DEF fam
<1> HIDE DEF quota
<1> QED BY <1>1, <1>2, <1>3, <1>4

LEMMA AqInit == Aq!Init => AnswerInv
<1> SUFFICES ASSUME Aq!Init PROVE AnswerInv OBVIOUS
<1> USE AqBuckets DEF Aq!Init
<1>1. Aq!QuotaQueryTypeOK
  <2>1. v5 \in BOOLEAN /\ v7 = Aq!Pending OBVIOUS
  <2>2. /\ v1 \in {"summary", "found", "gap", "models", "done"} /\ v2 \in 1 .. Bases
        /\ v3 = {} /\ v4 = {} /\ v6 = "none" /\ v9 = {}
        /\ v8 \in [1 .. Bases -> SUBSET Buckets]
    OBVIOUS
  <2> QED BY <2>1, <2>2 DEF Aq!QuotaQueryTypeOK
<1>2. Aq!MergedKept BY DEF Aq!MergedKept
<1>3. Aq!AnswersKept BY DEF Aq!AnswersKept
<1>4. Aq!AnswerFits BY DEF Aq!AnswerFits
<1> QED BY <1>1, <1>2, <1>3, <1>4 DEF AnswerInv

\* What is merged is what was said first, and each bucket once.
LEMMA AqMerged ==
    ASSUME Aq!QuotaQueryTypeOK, Aq!MergedKept
    PROVE  /\ UNION {Aq!QuotasOf(k) : k \in Aq!SaidFirst} \subseteq Aq!Summary(v3)
           /\ Aq!Summary(v3) \subseteq Aq!Quotas
           /\ \A q, r \in Aq!Summary(v3) : <<q.group, q.id>> = <<r.group, r.id>> => q = r
           /\ \A q \in Aq!Summary(v3) : q.group \in v4
<1> USE AqBuckets
<1>1. /\ v3 \subseteq [bucket : Buckets, from : 1 .. Bases]
      /\ v8 \in [1 .. Bases -> SUBSET Buckets]
  BY DEF Aq!QuotaQueryTypeOK
<1>2. \A m \in v3 : m.bucket \in Buckets /\ m.from \in 1 .. Bases BY <1>1
<1>3. ASSUME NEW m \in v3, NEW n \in v3, Aq!Key(m.bucket) = Aq!Key(n.bucket)
      PROVE  m.bucket = n.bucket
  <2>1. ~(m.from < n.from) /\ ~(n.from < m.from)
    <3>1. m.from < n.from => m.from \in 1 .. n.from - 1 BY <1>2
    <3>2. n.from < m.from => n.from \in 1 .. m.from - 1 BY <1>2
    <3> QED BY <1>3, <3>1, <3>2 DEF Aq!MergedKept
  <2>2. m.from = n.from BY <1>2, <2>1
  <2> QED BY <1>2, <1>3, <2>2 DEF Aq!MergedKept
<1>4. ASSUME NEW k \in Aq!SaidFirst PROVE Aq!QuotasOf(k) \subseteq Aq!Summary(v3)
  <2>1. PICK b \in 1 .. Bases : /\ k \in v8[b]
                                /\ \A c \in 1 .. b - 1 : \A l \in v8[c] : Aq!Key(l) # Aq!Key(k)
    BY DEF Aq!SaidFirst, Aq!Key
  <2>2. PICK m \in v3 : Aq!Key(m.bucket) = Aq!Key(k) BY <2>1 DEF Aq!MergedKept
  <2>3. m.bucket \in v8[m.from] /\ m.from \in 1 .. Bases BY <1>2 DEF Aq!MergedKept
  <2>4. ~(m.from < b) /\ ~(b < m.from)
    <3>1. m.from < b => m.from \in 1 .. b - 1 BY <2>3
    <3>2. b < m.from => b \in 1 .. m.from - 1 BY <2>3
    <3> QED BY <2>1, <2>2, <2>3, <3>1, <3>2 DEF Aq!MergedKept
  <2>5. m.from = b BY <2>3, <2>4
  <2>6. m.bucket = k BY <2>1, <2>2, <2>3, <2>5 DEF Aq!MergedKept
  <2> QED BY <2>6 DEF Aq!Summary
<1>5. ASSUME NEW q \in Aq!Summary(v3), NEW r \in Aq!Summary(v3),
             <<q.group, q.id>> = <<r.group, r.id>>
      PROVE  q = r
  <2>1. PICK m \in v3 : q \in Aq!QuotasOf(m.bucket) BY DEF Aq!Summary
  <2>2. PICK n \in v3 : r \in Aq!QuotasOf(n.bucket) BY DEF Aq!Summary
  <2>3. /\ q.group = m.bucket.group /\ q.id = m.bucket.id
        /\ r.group = n.bucket.group /\ r.id = n.bucket.id
    BY <1>2, <2>1, <2>2, AqQuotas
  <2>4. m.bucket = n.bucket BY <1>3, <1>5, <2>3 DEF Aq!Key
  <2> QED BY <1>2, <2>1, <2>2, <2>4, AqQuotas
<1>6. ASSUME NEW q \in Aq!Summary(v3) PROVE q \in Aq!Quotas /\ q.group \in v4
  <2>1. PICK m \in v3 : q \in Aq!QuotasOf(m.bucket) BY DEF Aq!Summary
  <2>2. q \in Aq!Quotas /\ q.group = m.bucket.group BY <1>2, <2>1, AqQuotas
  <2>3. m.bucket.group \in v4 BY <1>2 DEF Aq!MergedKept
  <2> QED BY <2>2, <2>3
<1>7. UNION {Aq!QuotasOf(k) : k \in Aq!SaidFirst} \subseteq Aq!Summary(v3) BY <1>4
<1> QED BY <1>5, <1>6, <1>7

\* One endpoint's summary is merged into those before it.
LEMMA AqSummary == ASSUME AnswerInv, Aq!AskSummary
    PROVE Aq!QuotaQueryTypeOK' /\ Aq!MergedKept' /\ Aq!AnswersKept'
<1> USE AqBuckets
<1>1. PICK s \in Aq!Statuses, buckets \in {k \in SUBSET Buckets : Aq!Answer(k)} :
          /\ s = "ok" \/ buckets = {}
          /\ v3' = Aq!Merge(v3, v2, buckets)
          /\ v4' = v4 \cup {k.group : k \in buckets}
          /\ v6' = IF s = "unreachable" THEN v6 ELSE s
          /\ v5' = (v5 \/ s = "throttled")
          /\ v8' = [v8 EXCEPT ![v2] = buckets]
          /\ v9' = v9 \cup {s}
  BY DEF Aq!AskSummary
<1>2. /\ v1 = "summary" /\ v7' = v7
      /\ \/ v2 < Bases /\ v1' = "summary" /\ v2' = v2 + 1
         \/ ~(v2 < Bases) /\ Aq!Summary(v3') = {} /\ v1' = "models" /\ v2' = 1
         \/ ~(v2 < Bases) /\ Aq!Summary(v3') # {} /\ v2' = 1
            /\ \/ "Gemini" \notin v4' /\ v1' = "gap"
               \/ "Gemini" \in v4' /\ v1' = "found"
  BY DEF Aq!AskSummary, Aq!Try
<1>3. /\ v3 \subseteq [bucket : Buckets, from : 1 .. Bases] /\ v2 \in 1 .. Bases
      /\ v4 \subseteq {k.group : k \in Buckets} /\ v6 \in Aq!Statuses \cup {"none"}
      /\ v5 \in BOOLEAN /\ v9 \subseteq Aq!Statuses
      /\ v8 \in [1 .. Bases -> SUBSET Buckets] /\ Aq!MergedKept /\ Aq!AnswersKept
  BY DEF AnswerInv, Aq!QuotaQueryTypeOK
<1>4. v7 = Aq!Pending BY <1>2, <1>3 DEF Aq!AnswersKept
<1>5. /\ v8'[v2] = buckets /\ \A b \in 1 .. Bases : b # v2 => v8'[b] = v8[b]
      /\ v8[v2] = {} /\ \A b \in 1 .. Bases : v2 < b => v8[b] = {}
  <2>1. \A b \in v2 .. Bases : v8[b] = {} BY <1>2, <1>3 DEF Aq!MergedKept
  <2>2. v2 \in v2 .. Bases /\ \A b \in 1 .. Bases : v2 < b => b \in v2 .. Bases BY <1>3
  <2> QED BY <1>1, <1>3, <2>1, <2>2
<1>6. Aq!QuotaQueryTypeOK'
  <2>1. v3' \subseteq [bucket : Buckets, from : 1 .. Bases]
    <3>1. \A k \in buckets : [bucket |-> k, from |-> v2] \in [bucket : Buckets, from : 1 .. Bases]
      BY <1>3
    <3> QED BY <1>1, <1>3, <3>1 DEF Aq!Merge
  <2>2. v8' \in [1 .. Bases -> SUBSET Buckets] BY <1>1, <1>3
  <2>3. v5' \in BOOLEAN BY <1>1
  <2>4. v7' = Aq!Pending BY <1>2, <1>4
  <2>5. /\ v1' \in {"summary", "found", "gap", "models", "done"} /\ v2' \in 1 .. Bases
    BY <1>2, <1>3
  <2>6. v4' \subseteq {k.group : k \in Buckets} BY <1>1, <1>3
  <2>7. v6' \in Aq!Statuses \cup {"none"} /\ v9' \subseteq Aq!Statuses BY <1>1, <1>3
  <2> QED BY <2>1, <2>2, <2>3, <2>4, <2>5, <2>6, <2>7 DEF Aq!QuotaQueryTypeOK
<1>7. Aq!MergedKept'
  <2>1. ASSUME NEW m \in v3'
        PROVE  /\ m.bucket \in v8'[m.from]
               /\ \A b \in 1 .. m.from - 1 : \A l \in v8'[b] : Aq!Key(l) # Aq!Key(m.bucket)
    <3>1. CASE m \in v3
      <4>1. m.from \in 1 .. Bases /\ m.bucket \in v8[m.from] BY <1>3, <3>1 DEF Aq!MergedKept
      <4>2. m.from < v2
        <5>1. m.from # v2 /\ ~(v2 < m.from) BY <1>5, <4>1
        <5> QED BY <1>3, <4>1, <5>1
      <4>3. \A b \in 1 .. m.from - 1 : b \in 1 .. Bases /\ b # v2 BY <1>3, <4>1, <4>2
      <4> QED BY <1>3, <1>5, <3>1, <4>1, <4>2, <4>3 DEF Aq!MergedKept
    <3>2. CASE m \notin v3
      <4>1. PICK k \in buckets :
               /\ m = [bucket |-> k, from |-> v2]
               /\ \A o \in v3 : <<o.bucket.group, o.bucket.id>> # <<k.group, k.id>>
        BY <1>1, <2>1, <3>2 DEF Aq!Merge
      <4>2. \A b \in 1 .. v2 - 1 : b \in 1 .. Bases /\ b # v2 BY <1>3
      <4>3. ASSUME NEW b \in 1 .. v2 - 1, NEW l \in v8[b] PROVE Aq!Key(l) # Aq!Key(k)
        <5>1. PICK o \in v3 : Aq!Key(o.bucket) = Aq!Key(l) BY <1>3, <4>2, <4>3 DEF Aq!MergedKept
        <5> QED BY <4>1, <5>1 DEF Aq!Key
      <4> QED BY <1>5, <4>1, <4>2, <4>3
    <3> QED BY <3>1, <3>2
  <2>2. ASSUME NEW b \in 1 .. Bases, NEW k \in v8'[b]
        PROVE  /\ k.group \in v4' /\ \E m \in v3' : Aq!Key(m.bucket) = Aq!Key(k)
               /\ \A l \in v8'[b] : Aq!Key(l) = Aq!Key(k) => l = k
    <3>1. CASE b # v2
      <4>1. v3 \subseteq v3' /\ v4 \subseteq v4' BY <1>1 DEF Aq!Merge
      <4> QED BY <1>3, <1>5, <2>2, <3>1, <4>1 DEF Aq!MergedKept
    <3>2. CASE b = v2
      <4>1. k \in buckets /\ k.group \in v4' BY <1>1, <1>5, <2>2, <3>2
      <4>2. \A l \in buckets : Aq!Key(l) = Aq!Key(k) => l = k BY <4>1 DEF Aq!Answer, Aq!Key
      <4>3. \E m \in v3' : Aq!Key(m.bucket) = Aq!Key(k)
        <5>1. CASE \E m \in v3 : Aq!Key(m.bucket) = Aq!Key(k) BY <1>1, <5>1 DEF Aq!Merge
        <5>2. CASE \A m \in v3 : Aq!Key(m.bucket) # Aq!Key(k)
          <6>1. [bucket |-> k, from |-> v2] \in v3' BY <1>1, <4>1, <5>2 DEF Aq!Merge, Aq!Key
          <6> QED BY <6>1
        <5> QED BY <5>1, <5>2
      <4> QED BY <1>5, <3>2, <4>1, <4>2, <4>3
    <3> QED BY <3>1, <3>2
  <2>3. v1' = "summary" => \A b \in v2' .. Bases : v8'[b] = {}
    BY <1>2, <1>3, <1>5
  <2> QED BY <2>1, <2>2, <2>3 DEF Aq!MergedKept
<1>8. Aq!AnswersKept'
  <2>1. v7' = Aq!Pending /\ (v5' <=> "throttled" \in v9')
    BY <1>1, <1>2, <1>3 DEF Aq!AnswersKept
  <2>2. v6' = "denied" => "denied" \in v9' BY <1>1, <1>3 DEF Aq!AnswersKept
  <2> QED BY <1>2, <2>1, <2>2 DEF Aq!AnswersKept
<1> QED BY <1>6, <1>7, <1>8

\* What a query returns when it has the groups.
LEMMA AqFound ==
    ASSUME AnswerInv, NEW ms \in SUBSET Models, NEW G \in SUBSET {"Gemini", "Claude"},
           G \cap v4 = {}
    PROVE  LET qs == Aq!Summary(v3) \cup {q \in Aq!Pools(ms) : q.group \in G}
           IN /\ qs \subseteq Aq!Quotas /\ UNION {Aq!QuotasOf(k) : k \in Aq!SaidFirst} \subseteq qs
              /\ \A q, r \in qs : <<q.group, q.id>> = <<r.group, r.id>> => q = r
<1> USE AqMerged, AqPools DEF AnswerInv
<1>1. \A q \in Aq!Summary(v3) : q.group \notin G BY DEF AnswerInv
<1> QED BY <1>1

LEMMA AqNext == AnswerInv /\ [Aq!Next]_(Aq!quotaQueryVars) => AnswerInv'
<1> SUFFICES ASSUME AnswerInv, [Aq!Next]_(Aq!quotaQueryVars) PROVE AnswerInv' OBVIOUS
<1> USE AqBuckets
<1>1. /\ v2 \in 1 .. Bases /\ Aq!QuotaQueryTypeOK /\ Aq!MergedKept /\ Aq!AnswersKept
          /\ Aq!AnswerFits
      /\ v9 \subseteq Aq!Statuses /\ v5 \in BOOLEAN
  BY DEF AnswerInv, Aq!QuotaQueryTypeOK
\* What follows the summaries changes neither them nor what is merged.
<1>2. ASSUME v1 # "summary", v1 # "done", Aq!Summarised,
             NEW s \in Aq!Statuses, v9' = v9 \/ v9' = v9 \cup {s},
             \/ /\ v1' \in {v1} /\ v2' \in 1 .. Bases /\ v7' = v7
                /\ s # "throttled"
             \/ /\ v1' = "done" /\ v2' = v2
                /\ \/ v7' = Aq!Limited /\ "throttled" \in v9'
                   \/ /\ v7' = Aq!Relogin /\ "denied" \in v9' /\ "throttled" \notin v9'
                   \/ \E qs \in SUBSET Aq!Quotas :
                         /\ v7' = Aq!Found(qs) /\ (qs = {} => "throttled" \notin v9')
                         /\ UNION {Aq!QuotasOf(k) : k \in Aq!SaidFirst} \subseteq qs
                         /\ \A q, r \in qs : <<q.group, q.id>> = <<r.group, r.id>> => q = r
      PROVE  AnswerInv'
  <2>1. /\ v3' = v3 /\ v4' = v4 /\ v5' = v5 /\ v6' = v6
        /\ v8' = v8
    BY <1>2 DEF Aq!Summarised
  <2>2. v1' \in {v1, "done"} /\ v2' \in 1 .. Bases BY <1>1, <1>2
  <2>3. v7' \in [kind : {"ok", "limited", "relogin"}, quotas : SUBSET Aq!Quotas] \cup {Aq!Pending}
    <3>1. CASE v7' = v7 BY <1>1, <3>1 DEF Aq!QuotaQueryTypeOK
    <3>2. CASE v7' = Aq!Limited \/ v7' = Aq!Relogin BY <3>2 DEF Aq!Limited, Aq!Relogin
    <3>3. ASSUME NEW qs \in SUBSET Aq!Quotas, v7' = Aq!Found(qs)
          PROVE v7' \in [kind : {"ok", "limited", "relogin"}, quotas : SUBSET Aq!Quotas]
      BY <3>3 DEF Aq!Found
    <3> QED BY <1>2, <3>1, <3>2, <3>3
  <2>4. Aq!QuotaQueryTypeOK' BY <1>1, <1>2, <2>1, <2>2, <2>3 DEF Aq!QuotaQueryTypeOK
  <2>5. Aq!MergedKept' BY <1>1, <1>2, <2>1, <2>2 DEF Aq!MergedKept
  <2>6. Aq!AnswersKept' BY <1>1, <1>2, <2>1 DEF Aq!AnswersKept
  <2>7. Aq!SaidFirst' = Aq!SaidFirst BY <2>1 DEF Aq!SaidFirst
  <2>8. Aq!AnswerFits'
    <3>1. CASE v7' = v7 BY <1>1, <1>2, <3>1, <2>7 DEF Aq!AnswersKept, Aq!AnswerFits
    <3>2. CASE v7' = Aq!Limited /\ "throttled" \in v9' BY <3>2 DEF Aq!AnswerFits
    <3>3. CASE v7' = Aq!Relogin /\ "denied" \in v9' /\ "throttled" \notin v9'
      BY <3>3 DEF Aq!AnswerFits
    <3>4. ASSUME NEW qs \in SUBSET Aq!Quotas, v7' = Aq!Found(qs), qs = {} => "throttled" \notin v9',
                 UNION {Aq!QuotasOf(k) : k \in Aq!SaidFirst} \subseteq qs,
                 \A q, r \in qs : <<q.group, q.id>> = <<r.group, r.id>> => q = r
          PROVE  Aq!AnswerFits'
      <4>1. v7'.kind = "ok" /\ v7'.quotas = qs BY <3>4
      <4> QED BY <2>7, <3>4, <4>1 DEF Aq!AnswerFits
    <3> QED BY <1>2, <3>1, <3>2, <3>3, <3>4
  <2> QED BY <2>4, <2>5, <2>6, <2>8 DEF AnswerInv
<1>4. CASE Aq!AskSummary
  <2>1. v7' = Aq!Pending BY <1>1, <1>4 DEF Aq!AskSummary, Aq!AnswersKept
  <2> QED BY <1>4, <2>1, AqSummary DEF AnswerInv, Aq!AnswerFits
<1>5. CASE Aq!ReturnFound
  <2>1. /\ v1 = "found" /\ v1' = "done" /\ v7' = Aq!Found(Aq!Summary(v3))
        /\ Aq!Summarised /\ v2' = v2 /\ v9' = v9
    BY <1>5 DEF Aq!ReturnFound, Aq!Return
  <2>2. Aq!Summary(v3) # {} BY <1>1, <2>1 DEF Aq!AnswersKept
  <2>3. "ok" \in Aq!Statuses BY DEF Aq!Statuses
  <2>4. Aq!Summary(v3) \in SUBSET Aq!Quotas BY AqMerged DEF AnswerInv
  <2> QED BY <1>2, <2>1, <2>2, <2>3, <2>4, AqMerged DEF AnswerInv
<1>6. CASE Aq!FillGap
  <2>1. PICK s \in Aq!Statuses, ms \in SUBSET Models :
          /\ v9' = v9 \cup {s}
          /\ CASE s \in {"ok", "junk"} ->
                    /\ Aq!Return(Aq!Found(Aq!Summary(v3)
                        \cup {q \in Aq!Pools(ms) : q.group = "Gemini"}))
                    /\ UNCHANGED v2
               [] s = "throttled" -> Aq!Return(Aq!Limited) /\ UNCHANGED v2
               [] OTHER -> Aq!NextBase("gap", Aq!Found(Aq!Summary(v3)))
    BY <1>6 DEF Aq!FillGap
  <2>2. v1 = "gap" /\ Aq!Summarised /\ Aq!Summary(v3) # {} /\ "Gemini" \notin v4
    BY <1>1, <1>6 DEF Aq!FillGap, Aq!AnswersKept
  <2>3. CASE s \in {"ok", "junk"}
    <3> DEFINE qs == Aq!Summary(v3) \cup {q \in Aq!Pools(ms) : q.group \in {"Gemini"}}
    <3>1. v7' = Aq!Found(qs) /\ v1' = "done" /\ v2' = v2 BY <2>1, <2>3 DEF Aq!Return
    <3>2. /\ qs \in SUBSET Aq!Quotas /\ UNION {Aq!QuotasOf(k) : k \in Aq!SaidFirst} \subseteq qs
          /\ \A q, r \in qs : <<q.group, q.id>> = <<r.group, r.id>> => q = r
      <4>1. {"Gemini"} \in SUBSET {"Gemini", "Claude"} /\ {"Gemini"} \cap v4 = {} BY <2>2
      <4> QED BY <4>1, AqFound
    <3>3. qs # {} BY <2>2
    <3> HIDE DEF qs
    <3> QED BY <1>2, <2>1, <2>2, <3>1, <3>2, <3>3
  <2>4. CASE s = "throttled"
    <3>1. v7' = Aq!Limited /\ v1' = "done" /\ v2' = v2 BY <2>1, <2>4 DEF Aq!Return
    <3> QED BY <1>2, <2>1, <2>2, <2>4, <3>1
  <2>5. CASE s \notin {"ok", "junk", "throttled"}
    <3>1. Aq!NextBase("gap", Aq!Found(Aq!Summary(v3))) BY <2>1, <2>5
    <3>2. CASE v2 < Bases
      <4>1. v1' = "gap" /\ v2' = v2 + 1 /\ v7' = v7
        BY <3>1, <3>2 DEF Aq!NextBase, Aq!Try
      <4>2. v2' \in 1 .. Bases BY <1>1, <3>2, <4>1
      <4> QED BY <1>2, <2>1, <2>2, <2>5, <4>1, <4>2
    <3>3. CASE ~(v2 < Bases)
      <4>1. v1' = "done" /\ v2' = v2 /\ v7' = Aq!Found(Aq!Summary(v3))
        BY <3>1, <3>3 DEF Aq!NextBase, Aq!Return
      <4>2. Aq!Summary(v3) \in SUBSET Aq!Quotas BY AqMerged DEF AnswerInv
      <4> QED BY <1>2, <2>1, <2>2, <4>1, <4>2, AqMerged DEF AnswerInv
    <3> QED BY <3>2, <3>3
  <2> QED BY <2>3, <2>4, <2>5
<1>7. CASE Aq!AskModels
  <2>1. PICK s \in Aq!Statuses, ms \in SUBSET Models :
          /\ s = "ok" \/ ms = {}
          /\ v9' = v9 \cup {s}
          /\ CASE Aq!Pools(ms) # {} -> Aq!Return(Aq!Found(Aq!Pools(ms))) /\ UNCHANGED v2
               [] s = "throttled" -> Aq!Return(Aq!Limited) /\ UNCHANGED v2
               [] OTHER -> Aq!NextBase("models", Aq!Verdict)
    BY <1>7 DEF Aq!AskModels
  <2>2. v1 = "models" /\ Aq!Summarised /\ Aq!Summary(v3) = {}
    BY <1>1, <1>7 DEF Aq!AskModels, Aq!AnswersKept
  <2>3. UNION {Aq!QuotasOf(k) : k \in Aq!SaidFirst} = {} BY <2>2, AqMerged DEF AnswerInv
  <2>4. CASE Aq!Pools(ms) # {}
    <3>1. s # "throttled" BY <2>1, <2>4, AqPools
    <3>2. v7' = Aq!Found(Aq!Pools(ms)) /\ v1' = "done" /\ v2' = v2
      BY <2>1, <2>4, <3>1 DEF Aq!Return
    <3>3. Aq!Pools(ms) \in SUBSET Aq!Quotas /\ \A q, r \in Aq!Pools(ms) : <<q.group,
            q.id>> = <<r.group, r.id>> => q = r
      BY AqPools
    <3> QED BY <1>2, <2>1, <2>2, <2>3, <2>4, <3>2, <3>3
  <2>5. CASE Aq!Pools(ms) = {} /\ s = "throttled"
    <3>1. v7' = Aq!Limited /\ v1' = "done" /\ v2' = v2 BY <2>1, <2>5 DEF Aq!Return
    <3> QED BY <1>2, <2>1, <2>2, <2>5, <3>1
  <2>6. CASE Aq!Pools(ms) = {} /\ s # "throttled"
    <3>1. Aq!NextBase("models", Aq!Verdict) BY <2>1, <2>6
    <3>2. CASE v2 < Bases
      <4>1. v1' = "models" /\ v2' = v2 + 1 /\ v7' = v7
        BY <3>1, <3>2 DEF Aq!NextBase, Aq!Try
      <4>2. v2' \in 1 .. Bases BY <1>1, <3>2, <4>1
      <4> QED BY <1>2, <2>1, <2>2, <2>6, <4>1, <4>2
    <3>3. CASE ~(v2 < Bases)
      <4>1. v1' = "done" /\ v2' = v2 /\ v7' = Aq!Verdict
        BY <3>1, <3>3 DEF Aq!NextBase, Aq!Return
      <4>2. /\ v5 <=> "throttled" \in v9
            /\ v6 = "denied" => "denied" \in v9
        BY <1>1, <2>2 DEF Aq!AnswersKept
      <4>3. \/ v7' = Aq!Limited /\ "throttled" \in v9'
            \/ v7' = Aq!Relogin /\ "denied" \in v9' /\ "throttled" \notin v9'
            \/ v7' = Aq!Found({}) /\ "throttled" \notin v9'
        BY <2>1, <2>6, <4>1, <4>2 DEF Aq!Verdict
      <4>4. {} \in SUBSET Aq!Quotas OBVIOUS
      <4> QED BY <1>2, <2>1, <2>2, <2>3, <4>1, <4>3, <4>4
    <3> QED BY <3>2, <3>3
  <2> QED BY <2>4, <2>5, <2>6
<1>8. CASE UNCHANGED Aq!quotaQueryVars
  <2>1. Aq!SaidFirst' = Aq!SaidFirst BY <1>8 DEF Aq!quotaQueryVars, Aq!SaidFirst
  <2> QED
    BY <1>1, <1>8, <2>1 DEF Aq!quotaQueryVars, AnswerInv, Aq!QuotaQueryTypeOK, Aq!MergedKept,
       Aq!AnswersKept, Aq!AnswerFits
<1> QED BY <1>4, <1>5, <1>6, <1>7, <1>8 DEF Aq!Next

-----------------------------------------------------------------------------
(* The accounts of Antigravity                                                *)

AntigravityInv == Ag!AntigravityTypeOK /\ Ag!JobsKept /\ Ag!CopiesKept /\ Ag!EffectKept

LEMMA AgLogins ==
    /\ NoOne \notin Agents /\ NoOne \notin People
    /\ Ag!SignIn \subseteq Nat /\ 0 \in Ag!SignIn
    /\ \A login \in Ag!Login : login # NoOne /\ login.of \in People /\ login.nr \in Ag!SignIn
    /\ \A a \in People, n \in Ag!SignIn :
          [of |-> a, nr |-> n] \in Ag!Login /\ [of |-> a, nr |-> n] # NoOne
    /\ \A j \in [kind : Ag!Kinds, of : People \cup {NoOne}] : j # Ag!NoJob
    /\ {MaxSignIns, MaxGoogleJobs, MaxGoogleFaults} \subseteq Nat
<1>1. Ag!SignIn \subseteq Nat /\ 0 \in Ag!SignIn
  BY AntigravityConstants DEF Ag!AntigravityAssumption, Ag!SignIn
<1>2. Ag!Login \subseteq [of : People, nr : Nat] BY <1>1 DEF Ag!Login
<1>3. NoOne \notin Ag!Login BY <1>2, AntigravityConstants DEF Ag!AntigravityAssumption
<1>4. \A j \in [kind : Ag!Kinds, of : People \cup {NoOne}] : j.kind # "none" BY DEF Ag!Kinds
<1> QED BY <1>1, <1>3, <1>4, AntigravityConstants DEF Ag!AntigravityAssumption, Ag!Login, Ag!NoJob

LEMMA AgInit == Ag!Init => AntigravityInv
<1> SUFFICES ASSUME Ag!Init PROVE AntigravityInv OBVIOUS
<1> USE AgLogins
<1>1. PICK a \in People : v1 = [of |-> a, nr |-> 1] /\ v4 = {a} BY DEF Ag!Init
<1>2. 1 \in Ag!SignIn BY DEF Ag!SignIn
<1>3. v1 \in Ag!Login /\ v16 = a BY <1>1, <1>2 DEF Ag!Init
<1>4. Ag!AntigravityTypeOK
  <2>1. /\ v2 \in [People -> Ag!SignIn] /\ v5 \in [People -> Ag!SignIn]
        /\ v9 \in [Agents -> Ag!SignIn] /\ v10 \in [Agents -> Ag!Login \cup {NoOne}]
        /\ v11 \in [Agents -> Ag!Login \cup {NoOne}]
    BY <1>2 DEF Ag!Init
  <2>2. /\ v1 \in Ag!Login \cup {NoOne} /\ v16 \in People \cup {NoOne}
        /\ v4 \subseteq v3 /\ v3 \subseteq People /\ v17 \subseteq People
    BY <1>1, <1>3 DEF Ag!Init
  <2>3. /\ v6 \in Agents \cup {NoOne} /\ v7 \in [Agents -> Ag!Steps]
        /\ v8 \in [Agents -> [kind : Ag!Kinds, of : People \cup {NoOne}] \cup {Ag!NoJob}]
        /\ v15 \in [Agents -> BOOLEAN] /\ v18 \in BOOLEAN
    BY DEF Ag!Init, Ag!Steps
  <2>4. /\ v12 \in 0 .. MaxSignIns /\ v13 \in 0 .. MaxGoogleJobs
        /\ v14 \in 0 .. MaxGoogleFaults
    BY DEF Ag!Init
  <2> QED BY <2>1, <2>2, <2>3, <2>4 DEF Ag!AntigravityTypeOK
<1>5. Ag!JobsKept BY DEF Ag!Init, Ag!JobsKept, Ag!JobFits, Ag!Removing
<1>6. Ag!CopiesKept
  BY <1>1 DEF Ag!Init, Ag!CopiesKept, Ag!NoneNewer, Ag!LastKept, Ag!IsOf, Ag!Account, Ag!NoJob,
     Ag!AboutToWrite, Ag!IsSwap
<1>7. \A p \in Agents : ~v15[p] /\ v8[p].kind = "none" BY DEF Ag!Init, Ag!NoJob
<1>8. Ag!EffectKept
  BY <1>1, <1>3, <1>7 DEF Ag!EffectKept, Ag!SwapsAlone, Ag!StaysInUse, Ag!SwapsGoOn, Ag!Written,
     Ag!InUse, Ag!IsSwap, Ag!IsOf
<1> QED BY <1>4, <1>5, <1>6, <1>8 DEF AntigravityInv

LEMMA AgTypes == ASSUME AntigravityInv, [Ag!Next]_(Ag!antigravityVars) PROVE Ag!AntigravityTypeOK'
<1> DEFINE Logins == /\ v1 \in Ag!Login \cup {NoOne} /\ v10 \in [Agents -> Ag!Login \cup {NoOne}]
                     /\ v11 \in [Agents -> Ag!Login \cup {NoOne}]
           Numbers == /\ v2 \in [People -> Ag!SignIn] /\ v5 \in [People -> Ag!SignIn]
                      /\ v9 \in [Agents -> Ag!SignIn]
           Reg == v3 \subseteq People /\ v4 \subseteq v3
           At == v6 \in Agents \cup {NoOne} /\ v7 \in [Agents -> Ag!Steps]
           Jobs == v8 \in [Agents -> [kind : Ag!Kinds, of : People \cup {NoOne}] \cup {Ag!NoJob}]
           Bounds == /\ v12 \in 0 .. MaxSignIns /\ v13 \in 0 .. MaxGoogleJobs
                     /\ v14 \in 0 .. MaxGoogleFaults
           Lone == v15 \in [Agents -> BOOLEAN]
           Past == v16 \in People \cup {NoOne} /\ v17 \subseteq People
           Robbed == v18 \in BOOLEAN
<1>1. Logins /\ Numbers /\ Reg /\ At /\ Jobs /\ Bounds /\ Lone /\ Past /\ Robbed
  BY DEF AntigravityInv, Ag!AntigravityTypeOK
<1>2. \A p \in Agents :
        /\ v7[p] # "Idle" /\ v8[p].kind # "capture" => Ag!Account(p) \in People
        /\ v7[p] \in {"Store", "Import"} => v10[p] \in Ag!Login
        /\ v7[p] \in {"Write", "Flock"} => v8[p].kind = "swap"
        /\ v7[p] \in {"Blob", "Fix", "Refresh", "Mark"} \cup Ag!Removing => v8[p].kind # "capture"
        /\ v7[p] \in {"Import", "Upsert"} => v8[p].kind = "import"
  BY <1>1 DEF AntigravityInv, Ag!JobsKept, Ag!JobFits, Ag!IsSwap, Ag!Removing
<1>3. \A a \in People : v5[a] + 1 <= v12 + 2
  BY <1>1, AgLogins DEF AntigravityInv, Ag!CopiesKept, Ag!NoneNewer
<1> USE AgLogins
<1>4. Logins'
  <2> USE <1>1
  <2>1. ASSUME NEW a \in People, Ag!SignInNatively(a) PROVE Logins'
    <3>1. v5[a] + 1 \in Ag!SignIn BY <2>1, <1>3 DEF Ag!SignInNatively, Ag!SignIn
    <3> QED BY <2>1, <3>1 DEF Ag!SignInNatively, Ag!Own
  <2>2. ASSUME NEW p \in Agents, Ag!ImportLive(p) PROVE Logins' BY <2>2 DEF Ag!ImportLive
  <2>3. ASSUME NEW p \in Agents, Ag!Capture(p) PROVE Logins'
    BY <2>3 DEF Ag!Capture, Ag!Continue, Ag!End, Ag!Own
  <2>4. ASSUME NEW p \in Agents, Ag!Snapshot(p) PROVE Logins' BY <2>4 DEF Ag!Snapshot
  <2>5. ASSUME NEW p \in Agents, Ag!Write(p) PROVE Logins'
    <3>1. [of |-> Ag!Account(p), nr |-> v9[p]] \in Ag!Login BY <1>2, <2>5 DEF Ag!Write
    <3> QED BY <2>5, <3>1 DEF Ag!Write, Ag!Continue, Ag!End, Ag!Own
  <2>6. ASSUME NEW p \in Agents, Ag!Restore(p) PROVE Logins' BY <2>6 DEF Ag!Restore, Ag!End
  <2>7. ASSUME NEW p \in Agents, Ag!Delete(p) PROVE Logins'
    BY <2>7 DEF Ag!Delete, Ag!Continue, Ag!Own
  <2>8. ASSUME NEW p \in Agents, v1' = v1,
               Ag!End(p) \/ UNCHANGED <<v10, v11>> PROVE Logins'
    BY <2>8 DEF Ag!End
  <2> HIDE DEF Logins
  <2>9. CASE UNCHANGED Ag!antigravityVars BY <1>1, <2>9 DEF Ag!antigravityVars, Logins
  <2> QED
    BY <2>1, <2>2, <2>3, <2>4, <2>5, <2>6, <2>7, <2>8, <2>9 DEF Ag!Next, Ag!Swap, Ag!Query,
       Ag!KeepAlive, Ag!Remove, Ag!Reconcile, Ag!Start, Ag!Blob, Ag!Fix, Ag!Refresh, Ag!Same,
       Ag!Store, Ag!Mark, Ag!Flock, Ag!Import, Ag!Upsert, Ag!Disconnect, Ag!Lock, Ag!Confirm,
       Ag!RmStep, Ag!Unregister, Ag!Forget, Ag!Kill, Ag!Continue, Ag!Own
<1>5. Numbers'
  <2> USE <1>1
  <2>1. ASSUME NEW a \in People, Ag!SignInNatively(a) PROVE Numbers'
    <3>1. v5[a] + 1 \in Ag!SignIn BY <2>1, <1>3 DEF Ag!SignInNatively, Ag!SignIn
    <3> QED BY <2>1, <3>1 DEF Ag!SignInNatively, Ag!Own
  <2>2. ASSUME NEW a \in People, NEW n \in Ag!SignIn, Ag!Copy(a, n), v5' = v5, v9' = v9
        PROVE  Numbers'
    BY <2>2 DEF Ag!Copy
  <2>3. ASSUME NEW p \in Agents, Ag!Blob(p) PROVE Numbers'
    <3>1. /\ Ag!IsOf(v1, Ag!Account(p)) => v1.nr \in Ag!SignIn
          /\ Ag!Account(p) \in People
      BY <1>2, <2>3 DEF Ag!Blob, Ag!IsOf
    <3> QED BY <2>3, <3>1 DEF Ag!Blob, Ag!End, Ag!Counts
  <2>4. ASSUME NEW p \in Agents, NEW a \in People, Ag!KeepAlive(p, a) PROVE Numbers'
    BY <2>4 DEF Ag!KeepAlive
  <2>5. ASSUME NEW p \in Agents, Ag!Forget(p) PROVE Numbers'
    BY <1>2, <2>5 DEF Ag!Forget, Ag!End, Ag!Counts, Ag!Removing
  <2>6. ASSUME NEW p \in Agents, v2' = v2, v5' = v5, Ag!End(p) \/ v9' = v9
        PROVE  Numbers'
    BY <2>6 DEF Ag!End
  <2>7. ASSUME NEW p \in Agents, NEW a \in People, NEW n \in Ag!SignIn, Ag!Copy(a, n),
               v5' = v5, Ag!End(p) \/ v9' = v9 PROVE Numbers'
    BY <2>7 DEF Ag!End, Ag!Copy
  <2>8. ASSUME NEW p \in Agents, Ag!Fix(p) \/ Ag!Refresh(p) PROVE Numbers'
    <3>1. Ag!Account(p) \in People /\ v9[p] \in Ag!SignIn BY <1>2, <2>8 DEF Ag!Fix, Ag!Refresh
    <3> HIDE DEF Numbers
    <3> QED
      BY <2>6, <2>7, <2>8, <3>1 DEF Ag!Fix, Ag!Refresh, Ag!NoCopy, Ag!Continue, Ag!Own, Ag!Counts
  <2>9. ASSUME NEW p \in Agents, Ag!Store(p) \/ Ag!Import(p) PROVE Numbers'
    <3>1. v10[p].of \in People /\ v10[p].nr \in Ag!SignIn BY <1>2, <2>9 DEF Ag!Store, Ag!Import
    <3> HIDE DEF Numbers
    <3> QED BY <2>6, <2>7, <2>9, <3>1 DEF Ag!Store, Ag!Import, Ag!Continue, Ag!Own, Ag!Counts
  <2>10. CASE UNCHANGED Ag!antigravityVars BY <2>10 DEF Ag!antigravityVars
  <2> HIDE DEF Numbers
  <2>11. ASSUME NEW p \in Agents,
                \/ Ag!Reconcile(p) \/ Ag!ImportLive(p) \/ Ag!Same(p) \/ Ag!Capture(p)
                    \/ Ag!Snapshot(p)
                \/ Ag!Write(p) \/ Ag!Mark(p) \/ Ag!Restore(p) \/ Ag!Flock(p) \/ Ag!Upsert(p)
         PROVE  Numbers'
    BY <2>6, <2>11 DEF Ag!Reconcile, Ag!ImportLive, Ag!Start, Ag!Same, Ag!Capture, Ag!Snapshot,
       Ag!Write, Ag!Mark, Ag!Restore, Ag!Flock, Ag!Upsert, Ag!Continue, Ag!Own, Ag!Counts
  <2>12. ASSUME NEW p \in Agents,
                \/ Ag!Disconnect(p) \/ Ag!Lock(p) \/ Ag!Confirm(p) \/ Ag!Delete(p)
                    \/ Ag!Unregister(p)
                \/ Ag!Kill(p) \/ \E a \in People : Ag!Swap(p, a) \/ Ag!Query(p, a)
                    \/ Ag!Remove(p, a)
         PROVE  Numbers'
    BY <2>6, <2>12 DEF Ag!Swap, Ag!Query, Ag!Remove, Ag!Start, Ag!Disconnect, Ag!RmStep, Ag!Lock,
       Ag!Confirm, Ag!Delete, Ag!Unregister, Ag!Kill, Ag!Continue, Ag!Own, Ag!Counts
  <2> QED BY <2>1, <2>3, <2>4, <2>5, <2>8, <2>9, <2>10, <2>11, <2>12 DEF Ag!Next
<1>6. Reg'
  <2> USE <1>1
  <2>1. ASSUME NEW p \in Agents, Ag!Mark(p) PROVE Reg' BY <2>1 DEF Ag!Mark
  <2>2. ASSUME NEW p \in Agents, Ag!Upsert(p) PROVE Reg' BY <1>2, <2>2 DEF Ag!Upsert
  <2>3. ASSUME NEW p \in Agents, Ag!Unregister(p) PROVE Reg' BY <2>3 DEF Ag!Unregister
  <2>4. ASSUME UNCHANGED Ag!Registry PROVE Reg' BY <2>4 DEF Ag!Registry
  <2> HIDE DEF Reg
  <2> QED
    BY <2>1, <2>2, <2>3, <2>4 DEF Ag!Next, Ag!antigravityVars, Ag!SignInNatively, Ag!Swap,
       Ag!Query, Ag!KeepAlive, Ag!Remove, Ag!Reconcile, Ag!ImportLive, Ag!Start, Ag!Blob, Ag!Fix,
       Ag!Refresh, Ag!Same, Ag!Capture, Ag!Store, Ag!Snapshot, Ag!Write, Ag!Restore, Ag!Flock,
       Ag!Import, Ag!Disconnect, Ag!Lock, Ag!Confirm, Ag!RmStep, Ag!Delete, Ag!Forget, Ag!Kill,
       Ag!Registry
<1>7. At'
  <2> USE <1>1 DEF Ag!Goto, Ag!Continue, Ag!End
  <2>1. ASSUME NEW p \in Agents, NEW s \in Ag!Steps, v7' = [v7 EXCEPT ![p] = s],
               v6' \in {v6, NoOne, p} PROVE At'
    BY <2>1
  <2>2. {"Idle", "Blob", "Fix", "Refresh", "Same", "Capture", "Store", "Snapshot", "Write", "Mark",
         "Restore", "Flock", "Import", "Upsert", "Disconnect", "Lock", "Confirm", "Delete",
         "Unregister", "Forget"} \subseteq Ag!Steps
    BY DEF Ag!Steps, Ag!Swapping, Ag!Removing
  <2>3. ASSUME UNCHANGED <<v7, v6>> PROVE At' BY <2>3
  <2> HIDE DEF At
  <2>4. ASSUME NEW a \in People, Ag!SignInNatively(a) PROVE At' BY <2>3, <2>4 DEF Ag!SignInNatively
  <2>5. ASSUME NEW p \in Agents, Ag!Blob(p) \/ Ag!Fix(p) \/ Ag!Refresh(p) \/ Ag!Same(p)
          \/ Ag!Capture(p)
                                 \/ Ag!Store(p) \/ Ag!Snapshot(p) \/ Ag!Write(p) \/ Ag!Mark(p)
                                     PROVE At'
    BY <2>1, <2>2, <2>5 DEF Ag!Blob, Ag!Fix, Ag!Refresh, Ag!Same, Ag!Capture, Ag!Store,
       Ag!Snapshot, Ag!Write, Ag!Mark
  <2>6. ASSUME NEW p \in Agents, Ag!Restore(p) \/ Ag!Flock(p) \/ Ag!Import(p) \/ Ag!Upsert(p)
          \/ Ag!Disconnect(p)
                 \/ Ag!Lock(p) \/ Ag!Confirm(p) \/ Ag!Delete(p) \/ Ag!Unregister(p)
                     \/ Ag!Forget(p) \/ Ag!Kill(p)
        PROVE  At'
    BY <2>1, <2>2, <2>6 DEF Ag!Restore, Ag!Flock, Ag!Import, Ag!Upsert, Ag!Disconnect, Ag!Lock,
       Ag!Confirm, Ag!RmStep, Ag!Delete, Ag!Unregister, Ag!Forget, Ag!Kill
  <2>7. ASSUME NEW p \in Agents, NEW k, NEW a, NEW s \in Ag!Steps, Ag!Start(p, k, a, s) PROVE At'
    BY <2>1, <2>7 DEF Ag!Start
  <2>8. ASSUME NEW p \in Agents, NEW a \in People,
               Ag!Swap(p, a) \/ Ag!Query(p, a) \/ Ag!Remove(p, a) \/ Ag!Reconcile(p) PROVE At'
    BY <2>2, <2>7, <2>8 DEF Ag!Swap, Ag!Query, Ag!Remove, Ag!Reconcile
  <2>9. ASSUME NEW p \in Agents, NEW a \in People, Ag!KeepAlive(p, a) PROVE At'
    BY <2>1, <2>2, <2>9 DEF Ag!KeepAlive
  <2>10. ASSUME NEW p \in Agents, Ag!Reconcile(p) PROVE At' BY <2>2, <2>7, <2>10 DEF Ag!Reconcile
  <2>11. ASSUME NEW p \in Agents, Ag!ImportLive(p) PROVE At'
    <3>1. PICK s \in {"Import", "Mark"} : v7' = [v7 EXCEPT ![p] = s] /\ v6' = v6
      BY <2>11 DEF Ag!ImportLive
    <3> QED BY <2>1, <2>2, <3>1
  <2> QED BY <2>3, <2>4, <2>5, <2>6, <2>8, <2>9, <2>10, <2>11 DEF Ag!Next, Ag!antigravityVars
<1>8. Jobs'
  <2> USE <1>1
  <2>1. ASSUME NEW p \in Agents, NEW k \in Ag!Kinds, NEW a \in People \cup {NoOne},
               v8' = [v8 EXCEPT ![p] = [kind |-> k, of |-> a]] PROVE Jobs'
    BY <2>1
  <2>2. ASSUME NEW p \in Agents, Ag!End(p) PROVE Jobs' BY <2>2 DEF Ag!End
  <2>3. ASSUME v8' = v8 PROVE Jobs' BY <2>3
  <2>4. ASSUME NEW p \in Agents, Ag!Same(p) PROVE Jobs'
    <3>1. v8[p] # Ag!NoJob
      BY <2>4 DEF AntigravityInv, Ag!JobsKept, Ag!JobFits, Ag!Same
    <3>2. [v8[p] EXCEPT !.kind = "capture"] \in [kind : Ag!Kinds, of : People \cup {NoOne}]
      BY <3>1 DEF Ag!Kinds
    <3> QED BY <2>4, <3>2 DEF Ag!Same
  <2> HIDE DEF Jobs
  <2>5. ASSUME NEW p \in Agents, NEW k \in Ag!Kinds, NEW a \in People \cup {NoOne}, NEW s,
               Ag!Start(p, k, a, s) PROVE Jobs'
    BY <2>1, <2>5 DEF Ag!Start
  <2>6. ASSUME NEW p \in Agents, NEW a \in People,
               Ag!Swap(p, a) \/ Ag!Query(p, a) \/ Ag!Remove(p, a) \/ Ag!KeepAlive(p, a) PROVE Jobs'
    BY <2>1, <2>5, <2>6 DEF Ag!Swap, Ag!Query, Ag!Remove, Ag!KeepAlive, Ag!Kinds
  <2>7. ASSUME NEW p \in Agents, Ag!Reconcile(p) PROVE Jobs'
    BY <2>5, <2>7 DEF Ag!Reconcile, Ag!Kinds
  <2>8. ASSUME NEW p \in Agents, Ag!ImportLive(p) PROVE Jobs'
    BY <1>1, <2>1, <2>8 DEF Ag!ImportLive, Ag!Kinds
  <2> QED
    BY <2>2, <2>3, <2>4, <2>6, <2>7, <2>8 DEF Ag!Next, Ag!antigravityVars, Ag!SignInNatively,
       Ag!Blob, Ag!Fix, Ag!Refresh, Ag!Capture, Ag!Store, Ag!Snapshot, Ag!Write, Ag!Mark,
       Ag!Restore, Ag!Flock, Ag!Import, Ag!Upsert, Ag!Disconnect, Ag!Lock, Ag!Confirm, Ag!RmStep,
       Ag!Delete, Ag!Unregister, Ag!Forget, Ag!Kill, Ag!Continue, Ag!Own
<1>9. Bounds'
  <2> USE <1>1
  <2>1. ASSUME v12' = v12, v13' = v13, Ag!Fail \/ Ag!Fine PROVE Bounds'
    BY <2>1 DEF Ag!Fail, Ag!Fine
  <2>2. ASSUME v13 < MaxGoogleJobs, v13' = v13 + 1,
               UNCHANGED <<v12, v14>> PROVE Bounds'
    BY <2>2
  <2>3. ASSUME NEW a \in People, Ag!SignInNatively(a) PROVE Bounds' BY <2>3 DEF Ag!SignInNatively
  <2> HIDE DEF Bounds
  <2>4. ASSUME NEW p \in Agents, NEW a \in People,
               Ag!Swap(p, a) \/ Ag!Query(p, a) \/ Ag!Remove(p, a) \/ Ag!KeepAlive(p,
                  a) PROVE Bounds'
    BY <2>2, <2>4 DEF Ag!Swap, Ag!Query, Ag!Remove, Ag!KeepAlive, Ag!Start
  <2>5. ASSUME NEW p \in Agents, Ag!Reconcile(p) \/ Ag!ImportLive(p) PROVE Bounds'
    BY <2>2, <2>5 DEF Ag!Reconcile, Ag!ImportLive, Ag!Start
  <2> QED
    BY <2>1, <2>3, <2>4, <2>5 DEF Ag!Next, Ag!antigravityVars, Ag!Counts, Ag!Fine, Ag!Blob,
       Ag!Fix, Ag!Refresh, Ag!Same, Ag!Capture, Ag!Store, Ag!Snapshot, Ag!Write, Ag!Mark,
       Ag!Restore, Ag!Flock, Ag!Import, Ag!Upsert, Ag!Disconnect, Ag!Lock, Ag!Confirm, Ag!RmStep,
       Ag!Delete, Ag!Unregister, Ag!Forget, Ag!Kill
<1>10. Lone'
  <2> USE <1>1
  <2>1. ASSUME NEW p, NEW k, NEW a, NEW s, Ag!Start(p, k, a, s) PROVE Lone' BY <2>1 DEF Ag!Start
  <2>2. ASSUME UNCHANGED v15 PROVE Lone' BY <2>2
  <2>3. ASSUME NEW a \in People, Ag!SignInNatively(a) PROVE Lone' BY <2>3 DEF Ag!SignInNatively
  <2>4. ASSUME NEW p \in Agents, Ag!ImportLive(p) PROVE Lone' BY <2>4 DEF Ag!ImportLive
  <2> HIDE DEF Lone
  <2> QED
    BY <2>1, <2>2, <2>3, <2>4 DEF Ag!Next, Ag!antigravityVars, Ag!Swap, Ag!Query, Ag!KeepAlive,
       Ag!Remove, Ag!Reconcile, Ag!Blob, Ag!Fix, Ag!Refresh, Ag!Same, Ag!Capture, Ag!Store,
       Ag!Snapshot, Ag!Write, Ag!Mark, Ag!Restore, Ag!Flock, Ag!Import, Ag!Upsert, Ag!Disconnect,
       Ag!Lock, Ag!Confirm, Ag!RmStep, Ag!Delete, Ag!Unregister, Ag!Forget, Ag!Kill, Ag!History
<1>11. Past'
  <2> USE <1>1
  <2>1. ASSUME v16' \in {v16, NoOne}, v17' \subseteq v17 \cup People PROVE Past'
    BY <2>1
  <2>2. ASSUME NEW a \in People, NEW n, Ag!Copy(a, n) PROVE v17' \subseteq v17 \cup People
    BY <2>2 DEF Ag!Copy
  <2>3. ASSUME NEW p \in Agents, Ag!Flock(p) PROVE Past' BY <1>2, <2>3 DEF Ag!Flock
  <2> HIDE DEF Past
  <2>4. ASSUME NEW p \in Agents, Ag!Fix(p) \/ Ag!Refresh(p) PROVE Past'
    BY <1>2, <2>1, <2>2, <2>4 DEF Ag!Fix, Ag!Refresh, Ag!NoCopy
  <2>5. ASSUME NEW p \in Agents, Ag!Store(p) \/ Ag!Import(p) PROVE Past'
    <3>1. v10[p].of \in People BY <1>2, <2>5 DEF Ag!Store, Ag!Import
    <3> QED BY <3>1, <2>1, <2>2, <2>5 DEF Ag!Store, Ag!Import
  <2>6. ASSUME NEW a \in People, Ag!SignInNatively(a) PROVE Past'
    BY <2>1, <2>6 DEF Ag!SignInNatively
  <2>7. ASSUME NEW p \in Agents, Ag!Forget(p) PROVE Past'
    BY <1>2, <2>1, <2>7 DEF Ag!Forget, Ag!Removing
  <2>8. ASSUME UNCHANGED <<v16, v17>> PROVE Past' BY <2>1, <2>8
  <2>9. ASSUME NEW p \in Agents, NEW k, NEW a, NEW s, Ag!Start(p, k, a, s) PROVE Past'
    BY <2>1, <2>9 DEF Ag!Start
  <2>10. ASSUME NEW p \in Agents, Ag!ImportLive(p) \/ Ag!Kill(p) \/ Ag!Write(p) PROVE Past'
    BY <2>1, <2>10 DEF Ag!ImportLive, Ag!Kill, Ag!Write
  <2>11. ASSUME NEW p \in Agents, Ag!Capture(p) \/ Ag!Restore(p) \/ Ag!Delete(p) PROVE Past'
    BY <2>1, <2>11 DEF Ag!Capture, Ag!Restore, Ag!Delete
  <2> QED
    BY <2>3, <2>4, <2>5, <2>6, <2>7, <2>8, <2>9, <2>10, <2>11 DEF Ag!Next, Ag!antigravityVars,
       Ag!Swap, Ag!Query, Ag!KeepAlive, Ag!Remove, Ag!Reconcile, Ag!Blob, Ag!Same, Ag!Snapshot,
       Ag!Mark, Ag!Upsert, Ag!Disconnect, Ag!Lock, Ag!Confirm, Ag!RmStep, Ag!Unregister,
       Ag!History
<1>12. Robbed'
  <2> USE <1>1
  <2>1. ASSUME NEW p \in Agents, Ag!Delete(p) PROVE Robbed' BY <2>1 DEF Ag!Delete
  <2>2. ASSUME UNCHANGED v18 PROVE Robbed' BY <2>2
  <2> HIDE DEF Robbed
  <2> QED
    BY <2>1, <2>2 DEF Ag!Next, Ag!antigravityVars, Ag!SignInNatively, Ag!Swap, Ag!Query,
       Ag!KeepAlive, Ag!Remove, Ag!Reconcile, Ag!ImportLive, Ag!Start, Ag!Blob, Ag!Fix,
       Ag!Refresh, Ag!Same, Ag!Capture, Ag!Store, Ag!Snapshot, Ag!Write, Ag!Mark, Ag!Restore,
       Ag!Flock, Ag!Import, Ag!Upsert, Ag!Disconnect, Ag!Lock, Ag!Confirm, Ag!RmStep,
       Ag!Unregister, Ag!Forget, Ag!Kill, Ag!History
<1> QED BY <1>4, <1>5, <1>6, <1>7, <1>8, <1>9, <1>10, <1>11, <1>12 DEF Ag!AntigravityTypeOK

LEMMA AgJobs == ASSUME AntigravityInv, [Ag!Next]_(Ag!antigravityVars) PROVE Ag!JobsKept'
<1>1. Ag!JobsKept /\ Ag!AntigravityTypeOK BY DEF AntigravityInv
<1>2. /\ v7 \in [Agents -> Ag!Steps] /\ v9 \in [Agents -> Ag!SignIn]
      /\ v8 \in [Agents -> [kind : Ag!Kinds, of : People \cup {NoOne}] \cup {Ag!NoJob}]
      /\ v10 \in [Agents -> Ag!Login \cup {NoOne}] /\ v11 \in [Agents -> Ag!Login \cup {NoOne}]
      /\ v1 \in Ag!Login \cup {NoOne} /\ v3 \subseteq People
  BY <1>1 DEF Ag!AntigravityTypeOK
<1>3. \A p \in Agents : Ag!JobFits(p) BY <1>1 DEF Ag!JobsKept
<1>4. ASSUME NEW p \in Agents, Ag!JobFits(p)',
             \A q \in Agents \ {p} : /\ v7'[q] = v7[q] /\ v8'[q] = v8[q]
                                     /\ v9'[q] = v9[q] /\ v10'[q] = v10[q]
                                     /\ v11'[q] = v11[q]
      PROVE  Ag!JobsKept'
  <2>1. ASSUME NEW q \in Agents \ {p} PROVE Ag!JobFits(q)'
    BY <1>3, <1>4 DEF Ag!JobFits, Ag!IsSwap, Ag!Account
  <2> QED BY <1>4, <2>1 DEF Ag!JobsKept
<1> USE <1>2, AgLogins
<1>5. ASSUME NEW p \in Agents, Ag!End(p) PROVE Ag!JobsKept'
  <2>1. Ag!JobFits(p)' BY <1>5 DEF Ag!End, Ag!Goto, Ag!JobFits, Ag!Removing
  <2> QED BY <1>4, <1>5, <2>1 DEF Ag!End, Ag!Goto
<1>6. ASSUME NEW p \in Agents, NEW s \in Ag!Steps, Ag!Continue(p, s), v7[p] # "Idle",
             \/ s \in {"Write", "Snapshot", "Same", "Flock", "Restore"} /\ Ag!IsSwap(p)
             \/ s \in Ag!Removing /\ v8[p].kind = "remove"
             \/ s = "Upsert" /\ v8[p].kind = "import"
             \/ s = "Mark" /\ v8[p].kind \in {"swap", "import"}
             \/ s = "Refresh" /\ v8[p].kind \in {"swap", "query"}
      PROVE  Ag!JobsKept'
  <2>1. Ag!JobFits(p) BY <1>3
  <2>2. /\ v7'[p] = s /\ s # "Idle" /\ v8'[p] = v8[p] /\ v10'[p] = v10[p]
        /\ v8[p] # Ag!NoJob /\ (v8[p].kind # "capture" => v8[p].of \in People)
    BY <1>6, <2>1 DEF Ag!Continue, Ag!Goto, Ag!Own, Ag!JobFits, Ag!Removing, Ag!Account
  <2>3. Ag!JobFits(p)'
    BY <1>6, <2>2 DEF Ag!JobFits, Ag!IsSwap, Ag!Account, Ag!Removing
  <2> QED BY <1>4, <1>6, <2>3 DEF Ag!Continue, Ag!Goto, Ag!Own
<1>7. ASSUME NEW p \in Agents, NEW k \in Ag!Kinds, NEW a \in People \cup {NoOne},
        NEW s \in Ag!Steps,
             Ag!Start(p, k, a, s),
             \/ k = "swap" /\ s = "Blob" /\ a \in People
             \/ k = "query" /\ s = "Blob" /\ a \in People
             \/ k = "remove" /\ s = "Disconnect" /\ a \in People
             \/ k = "capture" /\ s = "Capture"
      PROVE  Ag!JobsKept'
  <2>1. /\ v7'[p] = s /\ v8'[p] = [kind |-> k, of |-> a] /\ v8'[p] # Ag!NoJob
    BY <1>7 DEF Ag!Start, Ag!Goto
  <2>2. Ag!JobFits(p)' BY <1>7, <2>1 DEF Ag!JobFits, Ag!IsSwap, Ag!Account, Ag!Removing
  <2> QED BY <1>4, <1>7, <2>2 DEF Ag!Start, Ag!Goto
<1>8. {"Blob", "Disconnect", "Capture", "Refresh", "Same", "Snapshot", "Mark", "Flock", "Restore",
       "Upsert", "Lock", "Unregister", "Confirm", "Delete", "Forget"} \subseteq Ag!Steps
      /\ {"Lock", "Unregister", "Confirm", "Delete", "Forget"} \subseteq Ag!Removing
      /\ {"swap", "query", "remove", "capture", "keep", "import"} \subseteq Ag!Kinds
  BY DEF Ag!Steps, Ag!Swapping, Ag!Removing, Ag!Kinds
<1>9. ASSUME NEW a \in People, Ag!SignInNatively(a) PROVE Ag!JobsKept'
  <2>1. ASSUME NEW p \in Agents PROVE Ag!JobFits(p)'
    BY <1>3, <1>9 DEF Ag!SignInNatively, Ag!Own, Ag!JobFits, Ag!IsSwap, Ag!Account
  <2> QED BY <2>1 DEF Ag!JobsKept
<1>10. ASSUME NEW p \in Agents, NEW a \in People, Ag!Swap(p, a) PROVE Ag!JobsKept'
  BY <1>7, <1>8, <1>10 DEF Ag!Swap
<1>11. ASSUME NEW p \in Agents, NEW a \in People, Ag!Query(p, a) PROVE Ag!JobsKept'
  BY <1>7, <1>8, <1>11 DEF Ag!Query
<1>12. ASSUME NEW p \in Agents, NEW a \in People, Ag!Remove(p, a) PROVE Ag!JobsKept'
  BY <1>7, <1>8, <1>12 DEF Ag!Remove
<1>13. ASSUME NEW p \in Agents, NEW a \in People, Ag!KeepAlive(p, a) PROVE Ag!JobsKept'
  <2>1. v7'[p] = "Refresh" /\ v8'[p] = [kind |-> "keep", of |-> a] /\ v8'[p] # Ag!NoJob
    BY <1>8, <1>13 DEF Ag!KeepAlive, Ag!Goto
  <2>2. Ag!JobFits(p)' BY <2>1 DEF Ag!JobFits, Ag!IsSwap, Ag!Account, Ag!Removing
  <2> QED BY <1>4, <1>13, <2>2 DEF Ag!KeepAlive, Ag!Goto
<1>14. ASSUME NEW p \in Agents, Ag!Reconcile(p) PROVE Ag!JobsKept'
  BY <1>7, <1>8, <1>14 DEF Ag!Reconcile
<1>15. ASSUME NEW p \in Agents, Ag!ImportLive(p) PROVE Ag!JobsKept'
  <2>1. /\ v7'[p] \in {"Import", "Mark"} /\ v10'[p] = v1 /\ v1 \in Ag!Login
        /\ v8'[p] = [kind |-> "import", of |-> v1.of] /\ v8'[p] # Ag!NoJob
    BY <1>8, <1>15 DEF Ag!ImportLive, Ag!Goto
  <2>2. Ag!JobFits(p)' BY <2>1 DEF Ag!JobFits, Ag!IsSwap, Ag!Account, Ag!Removing
  <2> QED BY <1>4, <1>15, <2>2 DEF Ag!ImportLive, Ag!Goto
<1>16. ASSUME NEW p \in Agents, Ag!Blob(p) PROVE Ag!JobsKept'
  <2>1. Ag!JobFits(p) BY <1>3
  <2>2. ASSUME v7' = [v7 EXCEPT ![p] = "Fix"] \/ v7' = [v7 EXCEPT ![p] = "Refresh"],
               UNCHANGED <<v8, v10, v11>>, \A q \in Agents \ {p} : v9'[q] = v9[q]
        PROVE  Ag!JobsKept'
    <3>1. v7'[p] \in {"Fix", "Refresh"} /\ v8'[p] = v8[p] BY <2>2
    <3>2. Ag!JobFits(p)'
      BY <1>16, <2>1, <3>1 DEF Ag!Blob, Ag!JobFits, Ag!IsSwap, Ag!Account, Ag!Removing
    <3> QED BY <1>4, <2>2, <3>2
  <2> QED BY <1>5, <1>16, <2>2 DEF Ag!Blob, Ag!Goto
<1>17. ASSUME NEW p \in Agents, Ag!Fix(p) \/ Ag!Refresh(p) PROVE Ag!JobsKept'
  <2>1. /\ v7[p] \in {"Fix", "Refresh"} /\ Ag!JobFits(p) BY <1>3, <1>17 DEF Ag!Fix, Ag!Refresh
  <2>2. Ag!IsSwap(p) => v8[p].kind = "swap" BY DEF Ag!IsSwap
  <2> QED BY <1>5, <1>6, <1>8, <1>17, <2>1, <2>2 DEF Ag!Fix, Ag!Refresh
<1>18. ASSUME NEW p \in Agents, Ag!Same(p) PROVE Ag!JobsKept'
  <2>1. /\ v7[p] = "Same" /\ v7' = [v7 EXCEPT ![p] = "Capture"] /\ Ag!JobFits(p)
        /\ UNCHANGED <<v9, v10, v11>>
    BY <1>3, <1>18 DEF Ag!Same, Ag!Goto
  <2>2. /\ v8[p] \in [kind : Ag!Kinds, of : People \cup {NoOne}] /\ v8[p].kind = "swap"
        /\ v8[p].of \in People
    BY <2>1 DEF Ag!JobFits, Ag!IsSwap, Ag!Account
  <2>3. /\ v8'[p] = v8[p] \/ v8'[p] = [v8[p] EXCEPT !.kind = "capture"]
        /\ \A q \in Agents \ {p} : v8'[q] = v8[q]
    BY <1>18 DEF Ag!Same
  <2>4. /\ v8'[p] # Ag!NoJob /\ v8'[p].kind \in {"swap", "capture"} /\ v8'[p].of \in People
    BY <1>8, <2>2, <2>3
  <2>5. Ag!JobFits(p)' BY <2>1, <2>4 DEF Ag!JobFits, Ag!IsSwap, Ag!Account, Ag!Removing
  <2> QED BY <1>4, <2>1, <2>3, <2>5
<1>19. ASSUME NEW p \in Agents, Ag!Capture(p) PROVE Ag!JobsKept'
  <2>1. Ag!JobFits(p) /\ v7[p] = "Capture" BY <1>3, <1>19 DEF Ag!Capture
  <2>2. ASSUME v10' = [v10 EXCEPT ![p] = v1], v1 # NoOne, Ag!Goto(p, "Store"),
               UNCHANGED <<v8, v9, v11>> PROVE Ag!JobsKept'
    <3>1. Ag!JobFits(p)'
      BY <2>1, <2>2, <1>8 DEF Ag!Goto, Ag!JobFits, Ag!IsSwap, Ag!Account, Ag!Removing
    <3> QED BY <1>4, <2>2, <3>1 DEF Ag!Goto
  <2> QED BY <1>5, <1>6, <1>8, <1>19, <2>1, <2>2 DEF Ag!Capture
<1>20. ASSUME NEW p \in Agents, Ag!Store(p) PROVE Ag!JobsKept'
  BY <1>5, <1>6, <1>8, <1>20 DEF Ag!Store
<1>21. ASSUME NEW p \in Agents, Ag!Snapshot(p) PROVE Ag!JobsKept'
  <2>1. Ag!JobFits(p) /\ v7[p] = "Snapshot" BY <1>3, <1>21 DEF Ag!Snapshot
  <2>2. v7'[p] = "Write" /\ v8' = v8 BY <1>21 DEF Ag!Snapshot, Ag!Goto
  <2>3. Ag!JobFits(p)' BY <2>1, <2>2 DEF Ag!JobFits, Ag!IsSwap, Ag!Account, Ag!Removing
  <2> QED BY <1>4, <1>21, <2>3 DEF Ag!Snapshot, Ag!Goto
<1>22. ASSUME NEW p \in Agents, Ag!Write(p) PROVE Ag!JobsKept'
  <2>1. Ag!JobFits(p) /\ v7[p] = "Write" BY <1>3, <1>22 DEF Ag!Write
  <2>2. v8[p].kind = "swap" BY <2>1 DEF Ag!JobFits, Ag!IsSwap
  <2> QED BY <1>5, <1>6, <1>8, <1>22, <2>1, <2>2 DEF Ag!Write
<1>23. ASSUME NEW p \in Agents, Ag!Mark(p) PROVE Ag!JobsKept'
  BY <1>5, <1>6, <1>8, <1>23 DEF Ag!Mark
<1>24. ASSUME NEW p \in Agents,
              Ag!Restore(p) \/ Ag!Flock(p) \/ Ag!Forget(p) \/ Ag!Kill(p) PROVE Ag!JobsKept'
  BY <1>5, <1>24 DEF Ag!Restore, Ag!Flock, Ag!Forget, Ag!Kill
<1>25. ASSUME NEW p \in Agents, Ag!Import(p) PROVE Ag!JobsKept'
  <2>1. Ag!JobFits(p) /\ v7[p] = "Import" BY <1>3, <1>25 DEF Ag!Import
  <2>2. v8[p].kind = "import" BY <2>1 DEF Ag!JobFits
  <2> QED BY <1>6, <1>8, <1>25, <2>1, <2>2 DEF Ag!Import
<1>26. ASSUME NEW p \in Agents, Ag!Upsert(p) PROVE Ag!JobsKept'
  <2>1. Ag!JobFits(p) /\ v7[p] = "Upsert" BY <1>3, <1>26 DEF Ag!Upsert
  <2>2. v8[p].kind = "import" BY <2>1 DEF Ag!JobFits
  <2> QED BY <1>6, <1>8, <1>26, <2>1, <2>2 DEF Ag!Upsert
<1>27. ASSUME NEW p \in Agents, Ag!Disconnect(p) \/ Ag!Lock(p) \/ Ag!Confirm(p) \/ Ag!Delete(p)
                                \/ Ag!Unregister(p) PROVE Ag!JobsKept'
  <2>1. Ag!JobFits(p) /\ v7[p] \in Ag!Removing
    BY <1>3, <1>27 DEF Ag!Disconnect, Ag!Lock, Ag!Confirm, Ag!RmStep, Ag!Delete, Ag!Unregister,
       Ag!Removing
  <2>2. v8[p].kind = "remove" BY <2>1 DEF Ag!JobFits
  <2>3. v7[p] # "Idle" BY <2>1 DEF Ag!Removing
  <2>4. CASE Ag!Unregister(p) BY <1>5, <1>6, <1>8, <2>2, <2>3, <2>4 DEF Ag!Unregister
  <2>5. CASE Ag!Disconnect(p) \/ Ag!Lock(p) \/ Ag!Confirm(p) \/ Ag!Delete(p)
    BY <1>6, <1>8, <2>2, <2>3, <2>5 DEF Ag!Disconnect, Ag!Lock, Ag!Confirm, Ag!RmStep, Ag!Delete
  <2> QED BY <1>27, <2>4, <2>5
<1>28. CASE UNCHANGED Ag!antigravityVars
  BY <1>1, <1>28 DEF Ag!antigravityVars, Ag!JobsKept, Ag!JobFits, Ag!IsSwap, Ag!Account
<1> QED
  BY <1>9, <1>10, <1>11, <1>12, <1>13, <1>14, <1>15, <1>16, <1>17, <1>18, <1>19, <1>20, <1>21,
     <1>22, <1>23, <1>24, <1>25, <1>26, <1>27, <1>28 DEF Ag!Next

\* No login becomes newer than the last sign-in of its account, and what is not
\* missed stays kept.
LEMMA AgCopies == ASSUME AntigravityInv, [Ag!Next]_(Ag!antigravityVars) PROVE Ag!CopiesKept'
<1>1. /\ v2 \in [People -> Ag!SignIn] /\ v5 \in [People -> Ag!SignIn]
      /\ v9 \in [Agents -> Ag!SignIn] /\ v10 \in [Agents -> Ag!Login \cup {NoOne}]
      /\ v11 \in [Agents -> Ag!Login \cup {NoOne}] /\ v1 \in Ag!Login \cup {NoOne}
      /\ v7 \in [Agents -> Ag!Steps] /\ v12 \in Nat /\ v17 \subseteq People
      /\ v8 \in [Agents -> [kind : Ag!Kinds, of : People \cup {NoOne}] \cup {Ag!NoJob}]
      /\ v3 \subseteq People
  BY DEF AntigravityInv, Ag!AntigravityTypeOK
<1>2. \A p \in Agents : Ag!JobFits(p) BY DEF AntigravityInv, Ag!JobsKept
<1>3. \A a \in People : Ag!NoneNewer(a) /\ (a \notin v17 => Ag!LastKept(a))
  BY DEF AntigravityInv, Ag!CopiesKept
<1>4. \A p \in Agents :
        /\ v7[p] # "Idle" /\ v8[p].kind # "capture" => Ag!Account(p) \in People
        /\ v7[p] \in {"Store", "Import"} => v10[p] \in Ag!Login
        /\ v7[p] \in {"Snapshot", "Write"} => Ag!AboutToWrite(p)
        /\ v7[p] \in {"Write", "Flock"} => v8[p].kind = "swap"
        /\ v7[p] \in {"Blob", "Fix", "Refresh", "Mark"} \cup Ag!Removing => v8[p].kind # "capture"
        /\ v7[p] \in {"Import", "Upsert"} => v8[p].kind = "import"
  BY <1>1, <1>2 DEF Ag!JobFits, Ag!IsSwap, Ag!AboutToWrite, Ag!Removing
<1> USE <1>1, AgLogins
\* The numbers of the processes: one changes its own.
<1> DEFINE Older(p, a) == /\ Ag!IsOf(v10[p], a) => v10[p].nr <= v5[a]
                          /\ Ag!IsOf(v11[p], a) => v11[p].nr <= v5[a]
                          /\ Ag!Account(p) = a => v9[p] <= v5[a]
           Held(a) == Ag!IsOf(v1, a) => v1.nr <= v5[a]
           Rest == UNCHANGED <<v5, v12>>
<1>5. \A a \in People : /\ v2[a] <= v5[a] /\ v5[a] <= v12 + 1 /\ Held(a)
                        /\ \A p \in Agents : Older(p, a)
  BY <1>3 DEF Ag!NoneNewer
<1>38. Ag!SignIn \subseteq Nat
       /\ \A a \in People : v5[a] \in Nat /\ 0 <= v5[a] /\ v2[a] \in Nat
  OBVIOUS
<1>6. ASSUME NEW a \in People, Rest, v2'[a] <= v5[a], Held(a)',
             \A p \in Agents : Older(p, a)' PROVE Ag!NoneNewer(a)'
  BY <1>5, <1>6 DEF Ag!NoneNewer
<1>7. ASSUME NEW p \in Agents, NEW a \in People, Ag!End(p), Rest PROVE \A q \in Agents : Older(q,
   a)'
  BY <1>5, <1>7 DEF Ag!End, Ag!Account, Ag!NoJob, Ag!IsOf
<1>8. ASSUME NEW a \in People, UNCHANGED Ag!Own, Rest PROVE \A q \in Agents : Older(q, a)'
  BY <1>5, <1>8 DEF Ag!Own, Ag!Account, Ag!IsOf
<1>9. ASSUME NEW a \in People, v1' \in {v1, NoOne}, Rest PROVE Held(a)'
  BY <1>5, <1>9 DEF Ag!IsOf
\* What of a sign-in is kept.
<1>10. ASSUME NEW a \in People, NEW p \in Agents, Ag!LastKept(a), v2'[a] = v2[a], Rest,
              v1' = v1, \A q \in Agents \ {p} : v8'[q] = v8[q]
                 /\ v7'[q] = v7[q] /\ v10'[q] = v10[q],
              Ag!AboutToWrite(p)' => v2[a] = v5[a] PROVE Ag!LastKept(a)'
  BY <1>10 DEF Ag!LastKept, Ag!AboutToWrite, Ag!IsSwap
<1>11. ASSUME NEW a \in People, v2'[a] = v5[a], Rest PROVE Ag!LastKept(a)'
  BY <1>11 DEF Ag!LastKept
<1>12. ASSUME NEW p \in Agents, Ag!End(p) PROVE ~Ag!AboutToWrite(p)'
  BY <1>12 DEF Ag!End, Ag!Goto, Ag!AboutToWrite
<1>13. ASSUME NEW p \in Agents, Ag!End(p) \/ \E s \in Ag!Steps : Ag!Continue(p, s)
       PROVE  \A q \in Agents \ {p} : v8'[q] = v8[q] /\ v7'[q] = v7[q] /\ v10'[q] = v10[q]
  BY <1>13 DEF Ag!End, Ag!Goto, Ag!Continue, Ag!Own
<1>14. {"Idle", "Refresh", "Same", "Snapshot", "Mark", "Flock", "Restore",
        "Upsert", "Lock", "Unregister", "Confirm", "Delete", "Forget"} \subseteq Ag!Steps
  BY DEF Ag!Steps, Ag!Swapping, Ag!Removing
<1>15. ASSUME NEW p \in Agents, NEW s, Ag!Continue(p, s), s \notin {"Store", "Snapshot", "Write"}
       PROVE  ~Ag!AboutToWrite(p)'
  BY <1>15 DEF Ag!Continue, Ag!Goto, Ag!AboutToWrite
\* A copy of a login that was read before.
<1>16. ASSUME NEW p \in Agents, NEW a \in People, NEW n \in Ag!SignIn, n <= v5[a],
              Ag!Copy(a, n), v1' = v1, Rest,
              Ag!End(p) \/ \E s \in Ag!Steps : Ag!Continue(p, s),
              Ag!AboutToWrite(p)' => v7[p] = "Store" /\ Ag!IsSwap(p) /\ v10[p] = [of |-> a,
                      nr |-> n]
       PROVE  Ag!CopiesKept'
  <2>1. ASSUME NEW b \in People PROVE Ag!NoneNewer(b)'
    <3>1. v2'[b] <= v5[b] BY <1>5, <1>16 DEF Ag!Copy
    <3>2. \A q \in Agents : Older(q, b)' BY <1>7, <1>8, <1>16 DEF Ag!Continue
    <3>3. Held(b)' BY <1>9, <1>16
    <3> HIDE DEF Older, Held, Rest
    <3> QED BY <1>6, <1>16, <3>1, <3>2, <3>3
  <2>2. ASSUME NEW b \in People, b \notin v17' PROVE Ag!LastKept(b)'
    <3>1. CASE b # a
      <4>1. b \notin v17 /\ v2'[b] = v2[b] BY <1>16, <2>2, <3>1 DEF Ag!Copy
      <4>2. Ag!LastKept(b) BY <1>3, <4>1
      <4>3. Ag!AboutToWrite(p)' => v2[b] = v5[b]
        BY <1>16, <3>1, <4>2 DEF Ag!LastKept, Ag!AboutToWrite
      <4> HIDE DEF Rest
      <4> QED BY <1>10, <1>13, <1>16, <4>1, <4>2, <4>3
    <3>2. CASE b = a /\ n = v5[a] BY <1>11, <1>16, <3>2 DEF Ag!Copy
    <3>3. CASE b = a /\ n # v5[a]
      <4>6. n \in Nat /\ v5[a] \in Nat /\ v2[a] \in Nat /\ n # v5[a]
        BY <1>38, <3>3
      <4>12. n <= v5[a] BY <1>16
      <4>7. a \notin v17' BY <2>2, <3>3
      <4>8. ~(n < v2[a]) BY <1>16, <4>7 DEF Ag!Copy
      <4>9. a \notin v17 BY <1>16, <4>6, <4>7, <4>8 DEF Ag!Copy
      <4>10. v2'[a] = n BY <1>16 DEF Ag!Copy
      <4>1. v2[a] <= n /\ a \notin v17 /\ v2'[a] = n BY <4>6, <4>8, <4>9, <4>10
      <4>11. Ag!LastKept(a) BY <1>3, <4>1
      <4>14. v2[a] # v5[a] BY <4>1, <4>6, <4>12, Below, Zenon
      <4>2. v2[a] # v5[a] /\ Ag!LastKept(a) BY <4>11, <4>14, Zenon
      <4>3. v1 = [of |-> a, nr |-> v5[a]] BY <4>2 DEF Ag!LastKept
      <4>4. ~Ag!AboutToWrite(p)'
        <5> SUFFICES ASSUME Ag!AboutToWrite(p)' PROVE FALSE OBVIOUS
        <5>1. v7[p] = "Store" /\ Ag!AboutToWrite(p) BY <1>16 DEF Ag!AboutToWrite
        <5>2. v10[p] = [of |-> a, nr |-> v5[a]] BY <4>2, <5>1 DEF Ag!LastKept
        <5> QED BY <1>16, <3>3, <5>2
      <4>5. ASSUME NEW q \in Agents, Ag!AboutToWrite(q)'
            PROVE  v7'[q] = "Store" /\ v10'[q] = [of |-> a, nr |-> v5[a]]
        <5>1. q # p BY <4>4, <4>5
        <5>2. v8'[q] = v8[q] /\ v7'[q] = v7[q] /\ v10'[q] = v10[q]
          BY <1>13, <1>16, <5>1
        <5>3. Ag!AboutToWrite(q) BY <4>5, <5>2 DEF Ag!AboutToWrite, Ag!IsSwap
        <5> QED BY <4>2, <5>2, <5>3 DEF Ag!LastKept
      <4> QED BY <1>16, <3>3, <4>3, <4>5 DEF Ag!LastKept
    <3> QED BY <3>1, <3>2, <3>3
  <2> QED BY <2>1, <2>2 DEF Ag!CopiesKept
\* A step that copies nothing: it ends, or goes on to where it does not write.
<1>17. ASSUME NEW p \in Agents, UNCHANGED v2, v17 \subseteq v17', Rest,
              v1' \in {v1, NoOne} \cup {v11[p], [of |-> Ag!Account(p), nr |-> v9[p]]},
              Ag!End(p) \/ (\E s \in Ag!Steps : Ag!Continue(p, s)),
              \A a \in People \ v17' :
                 \/ v2[a] = v5[a]
                 \/ v1' = v1 /\ ~Ag!AboutToWrite(p)'
       PROVE  Ag!CopiesKept'
  <2>1. ASSUME NEW b \in People PROVE Ag!NoneNewer(b)'
    <3>1. v2'[b] <= v5[b] BY <1>5, <1>17
    <3>2. \A q \in Agents : Older(q, b)' BY <1>7, <1>8, <1>17 DEF Ag!Continue
    <3>3. Held(b)'
      <4>1. CASE v1' \in {v1, NoOne} BY <1>9, <1>17, <4>1
      <4>2. CASE v1' = v11[p] BY <1>5, <1>17, <4>2 DEF Ag!IsOf
      <4>3. CASE v1' = [of |-> Ag!Account(p), nr |-> v9[p]]
        BY <1>5, <1>17, <4>3 DEF Ag!IsOf
      <4> QED BY <1>17, <4>1, <4>2, <4>3
    <3> HIDE DEF Older, Held, Rest
    <3> QED BY <1>6, <1>17, <3>1, <3>2, <3>3
  <2>2. ASSUME NEW b \in People, b \notin v17' PROVE Ag!LastKept(b)'
    <3>1. Ag!LastKept(b) BY <1>3, <1>17, <2>2
    <3>2. CASE v2[b] = v5[b] BY <1>11, <1>17, <3>2
    <3>3. CASE v1' = v1 /\ ~Ag!AboutToWrite(p)'
      <4> HIDE DEF Rest
      <4> QED BY <1>10, <1>13, <1>17, <3>1, <3>3
    <3> QED BY <1>17, <2>2, <3>2, <3>3
  <2> QED BY <2>1, <2>2 DEF Ag!CopiesKept
<1> HIDE DEF Rest
\* A process begins.
<1>18. ASSUME NEW p \in Agents, UNCHANGED <<v2, v17, v1, v11>>, Rest,
              \A q \in Agents \ {p} : /\ v8'[q] = v8[q] /\ v7'[q] = v7[q]
                                      /\ v10'[q] = v10[q] /\ v9'[q] = v9[q],
              v10'[p] \in {v10[p], v1}, ~Ag!AboutToWrite(p)',
              \A a \in People : Ag!Account(p)' = a => v9'[p] <= v5[a]
       PROVE  Ag!CopiesKept'
  <2>1. ASSUME NEW b \in People PROVE Ag!NoneNewer(b)'
    <3>1. v2'[b] <= v5[b] BY <1>5, <1>18
    <3>2. Older(p, b)'
      <4>1. Ag!IsOf(v10'[p], b) => v10'[p].nr <= v5[b] BY <1>5, <1>18 DEF Ag!IsOf
      <4>2. Ag!IsOf(v11'[p], b) => v11'[p].nr <= v5[b] BY <1>5, <1>18 DEF Ag!IsOf
      <4> QED BY <1>18, <4>1, <4>2 DEF Rest, Ag!Account
    <3>3. ASSUME NEW q \in Agents \ {p} PROVE Older(q, b)'
      BY <1>5, <1>18 DEF Rest, Ag!Account, Ag!IsOf
    <3>4. Held(b)' BY <1>9, <1>18
    <3> HIDE DEF Older, Held
    <3> QED BY <1>6, <1>18, <3>1, <3>2, <3>3, <3>4
  <2>2. ASSUME NEW b \in People, b \notin v17' PROVE Ag!LastKept(b)'
    <3>1. Ag!LastKept(b) BY <1>3, <1>18, <2>2
    <3> QED BY <1>10, <1>18, <3>1
  <2> QED BY <2>1, <2>2 DEF Ag!CopiesKept
<1>19. ASSUME NEW p \in Agents, NEW k, NEW a, NEW s \in {"Blob", "Disconnect", "Capture"},
              v7[p] = "Idle", Ag!Start(p, k, a, s) PROVE Ag!CopiesKept'
  <2>1. /\ v7'[p] = s /\ v9'[p] = 0 BY <1>2, <1>19 DEF Ag!Start, Ag!Goto, Ag!JobFits
  <2>2. ~Ag!AboutToWrite(p)' BY <2>1 DEF Ag!AboutToWrite
  <2>3. \A b \in People : v9'[p] <= v5[b] BY <1>38, <2>1
  <2> QED BY <1>18, <1>19, <2>2, <2>3 DEF Ag!Start, Ag!Goto, Rest
<1>20. ASSUME NEW a \in People, Ag!SignInNatively(a) PROVE Ag!CopiesKept'
  <2>1. /\ v12' = v12 + 1 /\ v5' = [v5 EXCEPT ![a] = @ + 1]
        /\ v1' = [of |-> a, nr |-> v5[a] + 1]
        /\ UNCHANGED <<v2, v7, v8, v9, v10, v11>>
    BY <1>20 DEF Ag!SignInNatively, Ag!Own
  <2>2. ASSUME NEW b \in People PROVE Ag!NoneNewer(b)'
    <3>1. v5[b] <= v5'[b] /\ v5'[b] <= v5[b] + 1 /\ v5'[b] \in Nat
      BY <2>1
    <3>2. ASSUME NEW q \in Agents PROVE Older(q, b)'
      <4>1. Older(q, b) BY <1>5
      <4>2. /\ Ag!IsOf(v10[q], b) => v10[q].nr \in Nat
            /\ Ag!IsOf(v11[q], b) => v11[q].nr \in Nat
            /\ v9[q] \in Nat /\ v5[b] \in Nat
        BY DEF Ag!IsOf
      <4>3. /\ Ag!IsOf(v10'[q], b) => v10'[q].nr <= v5'[b]
            /\ Ag!IsOf(v11'[q], b) => v11'[q].nr <= v5'[b]
        BY <2>1, <3>1, <4>1, <4>2 DEF Ag!IsOf
      <4>4. Ag!Account(q)' = b => v9'[q] <= v5'[b]
        BY <2>1, <3>1, <4>1, <4>2 DEF Ag!Account
      <4> QED BY <4>3, <4>4
    <3>3. Held(b)' BY <2>1 DEF Ag!IsOf
    <3>4. v2'[b] <= v5'[b] /\ v5'[b] <= v12' + 1
      BY <1>5, <1>38, <2>1, <3>1
    <3> QED BY <3>2, <3>3, <3>4 DEF Ag!NoneNewer
  <2>3. ASSUME NEW b \in People, b \notin v17' PROVE Ag!LastKept(b)'
    <3>1. CASE b = a
      <4>1. \A p \in Agents : ~Ag!AboutToWrite(p) BY <1>20, <2>3, <3>1 DEF Ag!SignInNatively
      <4>2. \A p \in Agents : ~Ag!AboutToWrite(p)' BY <2>1, <4>1 DEF Ag!AboutToWrite, Ag!IsSwap
      <4> QED BY <2>1, <3>1, <4>2 DEF Ag!LastKept
    <3>2. CASE b # a
      <4>1. b \notin v17 /\ ~(Ag!IsOf(v1, b) /\ v2[b] # v1.nr)
        BY <1>20, <2>3, <3>2 DEF Ag!SignInNatively
      <4>2. Ag!LastKept(b) BY <1>3, <4>1
      <4>3. v2[b] = v5[b] BY <4>1, <4>2 DEF Ag!LastKept, Ag!IsOf
      <4> QED BY <2>1, <3>2, <4>3 DEF Ag!LastKept
    <3> QED BY <3>1, <3>2
  <2> QED BY <2>2, <2>3 DEF Ag!CopiesKept
<1>21. ASSUME NEW p \in Agents, NEW a \in People, Ag!Swap(p, a) \/ Ag!Query(p, a) \/ Ag!Remove(p, a)
       PROVE  Ag!CopiesKept'
  BY <1>19, <1>21 DEF Ag!Swap, Ag!Query, Ag!Remove, Ag!Start
<1>22. ASSUME NEW p \in Agents, Ag!Reconcile(p) PROVE Ag!CopiesKept'
  <2>1. Ag!Start(p, "capture", NoOne, "Capture") BY <1>22 DEF Ag!Reconcile
  <2>2. v7[p] = "Idle" BY <2>1 DEF Ag!Start
  <2> QED BY <1>19, <2>1, <2>2
<1>23. ASSUME NEW p \in Agents, NEW a \in People, Ag!KeepAlive(p, a) PROVE Ag!CopiesKept'
  <2>1. /\ v7'[p] = "Refresh" /\ v9'[p] = v2[a] /\ v8'[p].of = a
    BY <1>23 DEF Ag!KeepAlive, Ag!Goto
  <2>2. ~Ag!AboutToWrite(p)' BY <2>1 DEF Ag!AboutToWrite
  <2>3. \A b \in People : Ag!Account(p)' = b => v9'[p] <= v5[b] BY <1>5, <2>1 DEF Ag!Account
  <2> QED BY <1>18, <1>23, <2>2, <2>3 DEF Ag!KeepAlive, Ag!Goto, Rest, Ag!History
<1>24. ASSUME NEW p \in Agents, Ag!ImportLive(p) PROVE Ag!CopiesKept'
  <2>1. v7'[p] \in {"Import", "Mark"} /\ v7[p] = "Idle" /\ v9' = v9
    BY <1>24 DEF Ag!ImportLive, Ag!Goto
  <2>2. ~Ag!AboutToWrite(p)' BY <2>1 DEF Ag!AboutToWrite
  <2>3. \A b \in People : v9'[p] <= v5[b] BY <1>2, <1>38, <2>1 DEF Ag!JobFits
  <2> QED BY <1>18, <1>24, <2>2, <2>3 DEF Ag!ImportLive, Ag!Goto, Rest
<1>25. ASSUME NEW p \in Agents, Ag!Blob(p) PROVE Ag!CopiesKept'
  <2>1. Ag!Account(p) \in People BY <1>4, <1>25 DEF Ag!Blob
  <2>2. CASE Ag!End(p)
    <3>1. ~Ag!AboutToWrite(p)' /\ UNCHANGED <<v2, v17, v1>> /\ Rest
      BY <1>12, <1>25, <2>2 DEF Ag!Blob, Rest, Ag!History, Ag!Counts
    <3> QED BY <1>17, <2>2, <3>1
  <2>3. ASSUME NEW n, NEW s \in {"Fix", "Refresh"}, v9' = [v9 EXCEPT ![p] = n], Ag!Goto(p, s),
               UNCHANGED <<v8, v10, v11>>, n <= v5[Ag!Account(p)] PROVE Ag!CopiesKept'
    <3>1. ~Ag!AboutToWrite(p)' BY <2>3 DEF Ag!Goto, Ag!AboutToWrite
    <3>2. \A b \in People : Ag!Account(p)' = b => v9'[p] <= v5[b] BY <2>3 DEF Ag!Account
    <3>3. \A q \in Agents \ {p} : /\ v8'[q] = v8[q] /\ v7'[q] = v7[q]
                                  /\ v10'[q] = v10[q] /\ v9'[q] = v9[q]
      BY <2>3 DEF Ag!Goto
    <3>4. UNCHANGED <<v2, v17, v1, v11>> /\ Rest /\ v10'[p] \in {v10[p], v1}
      BY <1>25, <2>3 DEF Ag!Blob, Rest, Ag!History, Ag!Counts
    <3> QED BY <1>18, <3>1, <3>2, <3>3, <3>4
  <2>4. Ag!IsOf(v1, Ag!Account(p)) => v1.nr <= v5[Ag!Account(p)] BY <1>5, <2>1
  <2>5. v2[Ag!Account(p)] <= v5[Ag!Account(p)] BY <1>5, <2>1
  <2> QED BY <1>25, <2>2, <2>3, <2>4, <2>5 DEF Ag!Blob
<1>26. ASSUME NEW p \in Agents, Ag!Fix(p) \/ Ag!Refresh(p) PROVE Ag!CopiesKept'
  <2>1. /\ Ag!Account(p) \in People /\ v9[p] <= v5[Ag!Account(p)] /\ v9[p] \in Ag!SignIn
        /\ v1' = v1 /\ Rest /\ v7[p] # "Store"
    BY <1>4, <1>5, <1>26 DEF Ag!Fix, Ag!Refresh, Rest, Ag!Counts
  <2>2. (Ag!End(p) \/ \E s \in Ag!Steps : Ag!Continue(p, s)) /\ ~Ag!AboutToWrite(p)'
    BY <1>12, <1>14, <1>15, <1>26 DEF Ag!Fix, Ag!Refresh
  <2>3. CASE Ag!Copy(Ag!Account(p), v9[p]) BY <1>16, <2>1, <2>2, <2>3
  <2>4. CASE Ag!NoCopy BY <1>17, <2>1, <2>2, <2>4 DEF Ag!NoCopy
  <2> QED BY <1>26, <2>3, <2>4 DEF Ag!Fix, Ag!Refresh
<1>27. ASSUME NEW p \in Agents, Ag!Same(p) PROVE Ag!CopiesKept'
  <2>1. v7'[p] = "Capture" /\ v8'[p].of = v8[p].of /\ v9' = v9
    BY <1>27 DEF Ag!Same, Ag!Goto, Ag!NoJob
  <2>2. ~Ag!AboutToWrite(p)' BY <2>1 DEF Ag!AboutToWrite
  <2>3. \A b \in People : Ag!Account(p)' = b => v9'[p] <= v5[b] BY <1>5, <2>1 DEF Ag!Account
  <2> QED BY <1>18, <1>27, <2>2, <2>3 DEF Ag!Same, Ag!Goto, Rest, Ag!History, Ag!Counts
<1>28. ASSUME NEW p \in Agents, Ag!Capture(p) PROVE Ag!CopiesKept'
  <2>1. CASE Ag!Goto(p, "Store") /\ v10' = [v10 EXCEPT ![p] = v1] /\ UNCHANGED <<v8, v9, v17>>
    <3>1. UNCHANGED <<v2, v1, v11>> /\ Rest /\ v7[p] = "Capture" /\ v1 \in Ag!Login
      BY <1>28, <2>1 DEF Ag!Capture, Rest, Ag!Counts, Ag!Goto, Ag!Continue, Ag!End
    <3>2. ASSUME NEW b \in People PROVE Ag!NoneNewer(b)'
      <4>1. \A q \in Agents : Older(q, b)'
        BY <1>5, <2>1, <3>1 DEF Rest, Ag!Account, Ag!IsOf
      <4>2. v2'[b] <= v5[b] /\ Held(b)' BY <1>5, <1>9, <3>1
      <4> HIDE DEF Older, Held
      <4> QED BY <1>6, <3>1, <4>1, <4>2
    <3>3. ASSUME NEW b \in People, b \notin v17' PROVE Ag!LastKept(b)'
      <4>1. Ag!LastKept(b) BY <1>3, <2>1, <3>3
      <4>2. v7'[p] = "Store" /\ v10'[p] = v1 BY <2>1 DEF Ag!Goto
      <4>3. CASE v2[b] = v5[b] BY <1>11, <3>1, <4>3
      <4>4. CASE v1 = [of |-> b, nr |-> v5[b]]
        <5>1. ASSUME NEW q \in Agents, Ag!AboutToWrite(q)', q # p
              PROVE  \/ v2[b] = v5[b]
                     \/ v7'[q] = "Store" /\ v10'[q] = [of |-> b, nr |-> v5[b]]
          BY <2>1, <4>1, <5>1 DEF Ag!LastKept, Ag!AboutToWrite, Ag!IsSwap, Ag!Goto
        <5> QED BY <3>1, <4>2, <4>4, <5>1 DEF Ag!LastKept, Rest
      <4> QED BY <4>1, <4>3, <4>4 DEF Ag!LastKept
    <3> QED BY <3>2, <3>3 DEF Ag!CopiesKept
  <2>2. CASE /\ Ag!End(p) \/ Ag!Continue(p, "Snapshot")
             /\ v17' = v17 \cup {a \in People : Ag!IsOf(v1, a)}
    <3>1. UNCHANGED <<v2, v1>> /\ Rest BY <1>28, <2>2 DEF Ag!Capture, Rest, Ag!Counts
    <3>2. \A a \in People \ v17' : v2[a] = v5[a]
      <4> SUFFICES ASSUME NEW a \in People \ v17' PROVE v2[a] = v5[a] OBVIOUS
      <4>1. ~Ag!IsOf(v1, a) /\ a \notin v17 BY <2>2
      <4>2. Ag!LastKept(a) BY <1>3, <4>1
      <4> QED BY <4>1, <4>2 DEF Ag!LastKept, Ag!IsOf
    <3> QED BY <1>14, <1>17, <2>2, <3>1, <3>2
  <2> QED BY <1>28, <2>1, <2>2 DEF Ag!Capture
<1>29. ASSUME NEW p \in Agents, Ag!Store(p) PROVE Ag!CopiesKept'
  <2>1. /\ v10[p] \in Ag!Login /\ v10[p].of \in People /\ v10[p].nr \in Ag!SignIn
        /\ v10[p].nr <= v5[v10[p].of] /\ v10[p] = [of |-> v10[p].of, nr |-> v10[p].nr]
    <3>1. v10[p] \in Ag!Login BY <1>4, <1>29 DEF Ag!Store
    <3>2. Ag!IsOf(v10[p], v10[p].of) BY <3>1 DEF Ag!IsOf
    <3> QED BY <1>5, <3>1, <3>2 DEF Ag!Login
  <2>2. v1' = v1 /\ Rest /\ v7[p] = "Store" BY <1>29 DEF Ag!Store, Rest, Ag!Counts
  <2>3. Ag!End(p) \/ (Ag!Continue(p, "Snapshot") /\ Ag!IsSwap(p)) BY <1>29 DEF Ag!Store
  <2>4. CASE Ag!Copy(v10[p].of, v10[p].nr)
    <3>1. Ag!AboutToWrite(p)' => Ag!IsSwap(p) BY <1>12, <2>3
    <3> QED BY <1>14, <1>16, <2>1, <2>2, <2>3, <2>4, <3>1
  <2>5. CASE UNCHANGED v2 /\ v17' = v17 \cup {v10[p].of}
    <3>1. ASSUME NEW a \in People \ v17'
          PROVE  v2[a] = v5[a] \/ (v1' = v1 /\ ~Ag!AboutToWrite(p)')
      <4>1. CASE Ag!End(p) BY <1>12, <2>2, <4>1
      <4>2. CASE Ag!IsSwap(p)
        <5>1. Ag!AboutToWrite(p) /\ a \notin v17 /\ a # v10[p].of
          BY <2>2, <2>5, <4>2 DEF Ag!AboutToWrite
        <5>2. Ag!LastKept(a) BY <1>3, <5>1
        <5> QED BY <2>1, <5>1, <5>2 DEF Ag!LastKept
      <4> QED BY <2>3, <4>1, <4>2
    <3> QED BY <1>14, <1>17, <2>2, <2>3, <2>5, <3>1
  <2> QED BY <1>29, <2>4, <2>5 DEF Ag!Store
<1>30. ASSUME NEW p \in Agents, Ag!Snapshot(p) PROVE Ag!CopiesKept'
  <2>1. /\ UNCHANGED <<v2, v17, v1, v8, v9, v10>> /\ Rest
        /\ v7' = [v7 EXCEPT ![p] = "Write"] /\ v11' = [v11 EXCEPT ![p] = v1]
        /\ v7[p] = "Snapshot"
    BY <1>30 DEF Ag!Snapshot, Ag!Goto, Rest, Ag!History, Ag!Counts
  <2>2. Ag!AboutToWrite(p) BY <1>4, <2>1
  <2>3. ASSUME NEW b \in People PROVE Ag!NoneNewer(b)'
    <3>1. \A q \in Agents : Older(q, b)' BY <1>5, <2>1 DEF Rest, Ag!Account, Ag!IsOf
    <3>2. v2'[b] <= v5[b] /\ Held(b)' BY <1>5, <1>9, <2>1
    <3> HIDE DEF Older, Held
    <3> QED BY <1>6, <2>1, <3>1, <3>2
  <2>4. ASSUME NEW b \in People, b \notin v17' PROVE Ag!LastKept(b)'
    <3>1. v2[b] = v5[b] BY <1>3, <2>1, <2>2, <2>4 DEF Ag!LastKept
    <3> QED BY <1>11, <2>1, <3>1
  <2> QED BY <2>3, <2>4 DEF Ag!CopiesKept
<1>31. ASSUME NEW p \in Agents, Ag!Write(p) PROVE Ag!CopiesKept'
  <2>1. /\ UNCHANGED <<v2, v17>> /\ Rest /\ v7[p] = "Write"
        /\ v1' \in {[of |-> Ag!Account(p), nr |-> v9[p]], NoOne}
        /\ Ag!End(p) \/ Ag!Continue(p, "Mark")
    BY <1>31 DEF Ag!Write, Rest, Ag!Counts
  <2>2. \A a \in People \ v17' : v2[a] = v5[a]
    BY <1>3, <1>4, <2>1 DEF Ag!LastKept
  <2> QED BY <1>14, <1>17, <2>1, <2>2
<1>32. ASSUME NEW p \in Agents, Ag!Mark(p) PROVE Ag!CopiesKept'
  <2>1. /\ UNCHANGED <<v2, v17, v1>> /\ Rest
        /\ Ag!End(p) \/ Ag!Continue(p, "Flock") \/ Ag!Continue(p, "Restore")
    BY <1>32 DEF Ag!Mark, Rest, Ag!Counts, Ag!History
  <2>2. ~Ag!AboutToWrite(p)' BY <1>12, <1>15, <2>1
  <2> QED BY <1>14, <1>17, <2>1, <2>2
<1>33. ASSUME NEW p \in Agents, Ag!Restore(p) \/ Ag!Delete(p) PROVE Ag!CopiesKept'
  <2>1. /\ UNCHANGED v2 /\ Rest /\ (Ag!End(p) \/ Ag!Continue(p, "Unregister"))
        /\ v1' \in {v1, NoOne, v11[p]}
        /\ v17' = v17 \cup {a \in People : Ag!IsOf(v1, a) /\ v2[a] # v1.nr}
    BY <1>33 DEF Ag!Restore, Ag!Delete, Rest, Ag!Counts
  <2>2. \A a \in People \ v17' : v2[a] = v5[a]
    <3> SUFFICES ASSUME NEW a \in People \ v17' PROVE v2[a] = v5[a] OBVIOUS
    <3>1. ~(Ag!IsOf(v1, a) /\ v2[a] # v1.nr) /\ a \notin v17 BY <2>1
    <3>2. Ag!LastKept(a) BY <1>3, <3>1
    <3> QED BY <3>1, <3>2 DEF Ag!LastKept, Ag!IsOf
  <2> QED BY <1>14, <1>17, <2>1, <2>2
<1>34. ASSUME NEW p \in Agents, Ag!Import(p) PROVE Ag!CopiesKept'
  <2>1. /\ v10[p] \in Ag!Login /\ v10[p].of \in People /\ v10[p].nr \in Ag!SignIn
        /\ v10[p].nr <= v5[v10[p].of]
    <3>1. v10[p] \in Ag!Login BY <1>4, <1>34 DEF Ag!Import
    <3>2. Ag!IsOf(v10[p], v10[p].of) BY <3>1 DEF Ag!IsOf
    <3> QED BY <1>5, <3>1, <3>2
  <2>2. /\ v1' = v1 /\ Rest /\ Ag!Copy(v10[p].of, v10[p].nr) /\ Ag!Continue(p, "Upsert")
    BY <1>34 DEF Ag!Import, Rest, Ag!Counts
  <2>3. ~Ag!AboutToWrite(p)' BY <1>15, <2>2
  <2> QED BY <1>14, <1>16, <2>1, <2>2, <2>3
<1>35. ASSUME NEW p \in Agents,
              Ag!Upsert(p) \/ Ag!Disconnect(p) \/ Ag!Lock(p) \/ Ag!Confirm(p)
                      \/ Ag!Unregister(p) \/ Ag!Flock(p)
                \/ Ag!Kill(p)
       PROVE  Ag!CopiesKept'
  <2>1. UNCHANGED <<v2, v17, v1>> /\ Rest
    BY <1>35 DEF Ag!Upsert, Ag!Disconnect, Ag!Lock, Ag!Confirm, Ag!RmStep, Ag!Unregister,
       Ag!Flock, Ag!Kill, Rest, Ag!Counts, Ag!History
  <2>2. Ag!End(p) \/ \E s \in {"Mark", "Lock", "Unregister", "Confirm", "Delete", "Forget"} :
          Ag!Continue(p, s)
    BY <1>35 DEF Ag!Upsert, Ag!Disconnect, Ag!Lock, Ag!Confirm, Ag!RmStep, Ag!Unregister,
       Ag!Flock, Ag!Kill
  <2>3. ~Ag!AboutToWrite(p)' BY <1>12, <1>15, <2>2
  <2> QED BY <1>14, <1>17, <2>1, <2>2, <2>3
<1>36. ASSUME NEW p \in Agents, Ag!Forget(p) PROVE Ag!CopiesKept'
  <2>1. /\ Ag!End(p) /\ v1' = v1 /\ Rest /\ v2' = [v2 EXCEPT ![Ag!Account(p)] = 0]
        /\ v17' = v17 \cup {Ag!Account(p)}
    BY <1>36 DEF Ag!Forget, Rest, Ag!Counts
  <2>2. ASSUME NEW b \in People PROVE Ag!NoneNewer(b)'
    <3>1. v2'[b] <= v5[b] BY <1>5, <1>38, <2>1
    <3>2. (\A q \in Agents : Older(q, b)') /\ Held(b)' BY <1>7, <1>9, <2>1
    <3> HIDE DEF Older, Held
    <3> QED BY <1>6, <2>1, <3>1, <3>2
  <2>3. ASSUME NEW b \in People, b \notin v17' PROVE Ag!LastKept(b)'
    <3>1. Ag!LastKept(b) /\ v2'[b] = v2[b] BY <1>3, <2>1, <2>3
    <3> QED BY <1>10, <1>12, <1>13, <2>1, <3>1
  <2> QED BY <2>2, <2>3 DEF Ag!CopiesKept
<1>37. CASE UNCHANGED Ag!antigravityVars
  BY <1>3, <1>37 DEF Ag!antigravityVars, Ag!CopiesKept, Ag!NoneNewer, Ag!LastKept, Ag!Account,
     Ag!IsOf, Ag!AboutToWrite, Ag!IsSwap
<1> QED
  BY <1>20, <1>21, <1>22, <1>23, <1>24, <1>25, <1>26, <1>27, <1>28, <1>29, <1>30, <1>31, <1>32,
     <1>33, <1>34, <1>35, <1>36, <1>37 DEF Ag!Next

LEMMA AgEffect == ASSUME AntigravityInv, [Ag!Next]_(Ag!antigravityVars) PROVE Ag!EffectKept'
<1>1. /\ v7 \in [Agents -> Ag!Steps] /\ v11 \in [Agents -> Ag!Login \cup {NoOne}]
      /\ v1 \in Ag!Login \cup {NoOne} /\ v15 \in [Agents -> BOOLEAN]
      /\ v8 \in [Agents -> [kind : Ag!Kinds, of : People \cup {NoOne}] \cup {Ag!NoJob}]
      /\ v3 \subseteq People /\ v4 \subseteq v3 /\ v16 \in People \cup {NoOne}
  BY DEF AntigravityInv, Ag!AntigravityTypeOK
<1>2. \A p \in Agents : Ag!JobFits(p) BY DEF AntigravityInv, Ag!JobsKept
<1>3. Ag!SwapsAlone /\ (~v18 => Ag!StaysInUse /\ Ag!SwapsGoOn) BY DEF AntigravityInv, Ag!EffectKept
<1>4. \A p \in Agents :
        /\ v7[p] # "Idle" /\ v8[p].kind # "capture" => Ag!Account(p) \in People
        /\ v7[p] = "Idle" => v8[p].kind = "none"
        /\ v7[p] \in {"Same", "Snapshot", "Write", "Restore", "Flock"} => Ag!IsSwap(p)
        /\ v7[p] = "Mark" => v8[p].kind \in {"swap", "import"}
        /\ v7[p] \in Ag!Removing => v8[p].kind = "remove"
        /\ v7[p] \in {"Import", "Upsert"} => v8[p].kind = "import"
  BY <1>1, <1>2 DEF Ag!JobFits, Ag!Removing, Ag!NoJob
<1> USE <1>1, AgLogins
\* Who swaps, imports or removes alone: nobody more, but who begins.
<1>5. ASSUME \A q \in Agents : v8'[q] = v8[q] \/ v8'[q].kind \in {"none", "capture", "query",
        "keep"},
             \A q \in Agents : v15'[q] => v15[q], v16' \in {v16, NoOne}
      PROVE  Ag!SwapsAlone'
  <2>1. \A p \in Agents : v8'[p].kind \in {"swap", "import", "remove"} => v8'[p] = v8[p]
    BY <1>5
  <2>2. \A p \in Agents : v8'[p].kind = "remove" => Ag!Account(p) \in People
    <3> SUFFICES ASSUME NEW p \in Agents, v8'[p].kind = "remove" PROVE Ag!Account(p) \in People
      OBVIOUS
    <3>1. v8[p].kind = "remove" BY <2>1
    <3> QED BY <1>4, <3>1
  <2> QED BY <1>3, <1>5, <2>1, <2>2 DEF Ag!SwapsAlone, Ag!IsSwap, Ag!Account
<1>6. ASSUME NEW p \in Agents, NEW s, Ag!End(p) \/ Ag!Continue(p, s)
      PROVE  \A q \in Agents : v8'[q] = v8[q] \/ v8'[q].kind \in {"none", "capture", "query",
              "keep"}
  BY <1>6 DEF Ag!End, Ag!Continue, Ag!Own, Ag!NoJob
\* Nothing of it changes but the step of a process and what is in effect.
<1> DEFINE World == <<v1, v4, v18>>
<1>7. ASSUME NEW p \in Agents, UNCHANGED World, v16' \in {v16, NoOne},
             \A q \in Agents : v15'[q] => v15[q],
             \A q \in Agents \ {p} : v7'[q] = v7[q] /\ v8'[q] = v8[q] /\ v11'[q] = v11[q],
             v8'[p] = v8[p] \/ v8'[p].kind \in {"none", "capture", "query", "keep"},
             Ag!IsSwap(p)' /\ Ag!Written(p)' => Ag!Written(p),
             Ag!IsSwap(p)' => v7'[p] # "Flock",
             Ag!IsSwap(p)' /\ v15[p] /\ v16' # NoOne /\ v7'[p] \in {"Write", "Mark", "Restore"}
                => Ag!IsOf(v11'[p], v16) /\ v4 = {v16},
             Ag!Written(p) => Ag!Written(p)' \/ v16' = NoOne
      PROVE  Ag!EffectKept'
  <2>1. Ag!SwapsAlone' BY <1>5, <1>7
  <2>2. ASSUME ~v18 PROVE Ag!StaysInUse'
    <3> SUFFICES ASSUME v16' # NoOne
                 PROVE  /\ (\A q \in Agents : ~Ag!Written(q)') => Ag!InUse(v16)'
                        /\ \A q \in Agents : v8'[q].kind = "import" => Ag!Account(q)' = v16'
      BY DEF Ag!StaysInUse
    <3>1. v16' = v16 /\ Ag!StaysInUse BY <1>3, <1>7, <2>2
    <3>2. ASSUME \A q \in Agents : ~Ag!Written(q)' PROVE Ag!InUse(v16)'
      <4>1. \A q \in Agents : ~Ag!Written(q) BY <1>7, <3>2 DEF Ag!Written, Ag!IsSwap
      <4> QED BY <1>7, <3>1, <4>1 DEF Ag!StaysInUse, Ag!InUse, Ag!IsOf
    <3>3. \A q \in Agents : v8'[q].kind = "import" => v8'[q] = v8[q] BY <1>7
    <3> QED BY <3>1, <3>2, <3>3 DEF Ag!StaysInUse, Ag!Account
  <2>3. ASSUME ~v18 PROVE Ag!SwapsGoOn'
    <3>1. Ag!SwapsGoOn BY <1>3, <2>3
    <3>2. ASSUME NEW q \in Agents \ {p}, v15'[q], Ag!IsSwap(q)'
          PROVE  /\ Ag!Written(q)' => Ag!IsOf(v1, Ag!Account(q))'
                 /\ v7'[q] = "Flock" => v4' = {Ag!Account(q)'}
                 /\ v16' # NoOne /\ v7'[q] \in {"Write", "Mark", "Restore"} =>
                       Ag!IsOf(v11'[q], v16') /\ v4' = {v16'}
      BY <1>7, <3>1, <3>2 DEF Ag!SwapsGoOn, Ag!Written, Ag!IsSwap, Ag!IsOf, Ag!Account
    <3>3. ASSUME v15'[p], Ag!IsSwap(p)'
          PROVE  /\ Ag!Written(p)' => Ag!IsOf(v1, Ag!Account(p))'
                 /\ v7'[p] = "Flock" => v4' = {Ag!Account(p)'}
                 /\ v16' # NoOne /\ v7'[p] \in {"Write", "Mark", "Restore"} =>
                       Ag!IsOf(v11'[p], v16') /\ v4' = {v16'}
      <4>1. v15[p] /\ v8'[p] = v8[p] /\ Ag!IsSwap(p) BY <1>7, <3>3 DEF Ag!IsSwap
      <4>2. Ag!Written(p)' => Ag!IsOf(v1, Ag!Account(p))'
        BY <1>7, <3>1, <3>3, <4>1 DEF Ag!SwapsGoOn, Ag!IsOf, Ag!Account
      <4>3. v16' # NoOne /\ v7'[p] \in {"Write", "Mark", "Restore"} =>
              Ag!IsOf(v11'[p], v16') /\ v4' = {v16'}
        BY <1>7, <3>3, <4>1 DEF Ag!IsOf
      <4> QED BY <1>7, <3>3, <4>2, <4>3
    <3> QED BY <3>2, <3>3 DEF Ag!SwapsGoOn
  <2> QED BY <1>7, <2>1, <2>2, <2>3 DEF Ag!EffectKept
<1> HIDE DEF World
\* A process that writes nothing goes on, or ends before its write.
<1>8. ASSUME NEW p \in Agents, NEW s, UNCHANGED World, v16' = v16, v15' = v15,
             Ag!End(p) \/ Ag!Continue(p, s), ~Ag!Written(p), s \notin {"Idle", "Write", "Mark",
                     "Restore", "Flock"}
      PROVE  Ag!EffectKept'
  <2>1. v7'[p] \in {"Idle", s} /\ (v7'[p] = "Idle" => v8'[p].kind = "none")
        /\ (v8'[p] = v8[p] \/ v8'[p].kind = "none")
        /\ \A q \in Agents \ {p} : v7'[q] = v7[q] /\ v8'[q] = v8[q] /\ v11'[q] = v11[q]
    <3>1. CASE Ag!End(p) BY <3>1 DEF Ag!End, Ag!Goto, Ag!NoJob
    <3>2. CASE Ag!Continue(p, s) BY <1>8, <3>2 DEF Ag!Continue, Ag!Goto, Ag!Own
    <3> QED BY <1>8, <3>1, <3>2
  <2> QED BY <1>7, <1>8, <2>1 DEF Ag!Written, Ag!IsSwap
\* A process begins what is in nobody's way.
<1>9. ASSUME NEW p \in Agents, NEW k \in Ag!Kinds, NEW a \in People \cup {NoOne},
             NEW s \in {"Blob", "Disconnect", "Capture"}, Ag!Start(p, k, a, s), k # "import",
             k = "remove" => a \in People
      PROVE  Ag!EffectKept'
  <2>1. /\ UNCHANGED World /\ v11' = v11 /\ v7[p] = "Idle" /\ v7'[p] = s
        /\ v8' = [v8 EXCEPT ![p] = [kind |-> k, of |-> a]]
        /\ \A q \in Agents \ {p} : v7'[q] = v7[q]
        /\ v16' = IF k = "remove" /\ a = v16 THEN NoOne ELSE v16
    BY <1>9 DEF Ag!Start, Ag!Goto, World, Ag!Registry
  <2>2. v8[p].kind = "none" /\ ~Ag!Written(p) BY <1>4, <2>1 DEF Ag!Written
  <2>3. \A q \in Agents \ {p} : v15'[q] =>
          /\ v15[q] /\ ~(v8[q].kind \in {"swap", "import"} /\ k = "swap")
          /\ ~(a = Ag!Account(q) /\ (k = "remove" \/ v8[q].kind = "remove"))
    BY <1>9 DEF Ag!Start
  <2>4. v15'[p] => /\ k = "swap"
                    /\ \A q \in Agents : /\ v8[q].kind \notin {"swap", "import"}
                                         /\ ~(a = Ag!Account(q) /\ v8[q].kind = "remove")
    BY <1>9 DEF Ag!Start
  <2>5. v15'[p] \in BOOLEAN /\ \A q \in Agents : v15'[q] \in BOOLEAN BY <1>9 DEF Ag!Start
  <2>6. /\ v8'[p].kind = k /\ v8'[p].of = a
        /\ \A q \in Agents \ {p} : v8'[q] = v8[q]
    BY <2>1
  <2>7. Ag!SwapsAlone'
    <3>1. ASSUME NEW q \in Agents, NEW r \in Agents, v15'[q], Ag!IsSwap(q)',
       Ag!IsSwap(r)' PROVE q = r
      BY <1>3, <2>3, <2>4, <2>6, <3>1 DEF Ag!SwapsAlone, Ag!IsSwap
    <3>2. ASSUME NEW q \in Agents, NEW r \in Agents, v8'[q].kind = "import", v15'[r] PROVE FALSE
      BY <1>3, <1>9, <2>3, <2>4, <2>6, <3>2 DEF Ag!SwapsAlone
    <3>3. ASSUME NEW q \in Agents, v8'[q].kind = "remove"
          PROVE  /\ v16' # Ag!Account(q)'
                 /\ \A r \in Agents : Ag!IsSwap(r)' /\ Ag!Account(r)' = Ag!Account(q)' => ~v15'[r]
      <4>1. v16' # Ag!Account(q)'
        <5>1. CASE q = p BY <1>9, <2>1, <2>6, <3>3, <5>1 DEF Ag!Account
        <5>2. CASE q # p
          <6>1. v8[q].kind = "remove" /\ v8'[q] = v8[q] BY <2>6, <3>3, <5>2
          <6>2. v7[q] # "Idle" /\ Ag!Account(q) \in People /\ v16 # Ag!Account(q)
            BY <1>3, <1>4, <6>1 DEF Ag!SwapsAlone
          <6> QED BY <2>1, <6>1, <6>2 DEF Ag!Account
        <5> QED BY <5>1, <5>2
      <4>2. ASSUME NEW r \in Agents, Ag!IsSwap(r)', Ag!Account(r)' = Ag!Account(q)', v15'[r]
            PROVE FALSE
        BY <1>3, <2>3, <2>4, <2>6, <3>3, <4>2 DEF Ag!SwapsAlone, Ag!IsSwap, Ag!Account
      <4> QED BY <4>1, <4>2
    <3> QED BY <2>5, <3>1, <3>2, <3>3 DEF Ag!SwapsAlone
  <2>8. ASSUME ~v18 PROVE Ag!StaysInUse'
    <3> SUFFICES ASSUME v16' # NoOne
                 PROVE  /\ (\A q \in Agents : ~Ag!Written(q)') => Ag!InUse(v16)'
                        /\ \A q \in Agents : v8'[q].kind = "import" => Ag!Account(q)' = v16'
      BY DEF Ag!StaysInUse
    <3>1. v16' = v16 /\ Ag!StaysInUse BY <1>3, <2>1, <2>8
    <3>2. \A q \in Agents : Ag!Written(q) => Ag!Written(q)'
      BY <2>1, <2>2, <2>6 DEF Ag!Written, Ag!IsSwap
    <3>3. (\A q \in Agents : ~Ag!Written(q)') => Ag!InUse(v16)'
      BY <2>1, <3>1, <3>2 DEF Ag!StaysInUse, Ag!InUse, Ag!IsOf, World, Ag!Registry
    <3>4. \A q \in Agents : v8'[q].kind = "import" => Ag!Account(q)' = v16'
      BY <1>9, <2>6, <3>1 DEF Ag!StaysInUse, Ag!Account
    <3> QED BY <3>3, <3>4
  <2>9. ASSUME ~v18 PROVE Ag!SwapsGoOn'
    <3>1. Ag!SwapsGoOn BY <1>3, <2>9
    <3>2. ~Ag!Written(p)' /\ v7'[p] \notin {"Flock", "Write", "Mark", "Restore"}
      BY <2>1 DEF Ag!Written
    <3>3. ASSUME NEW q \in Agents \ {p}, v15'[q], Ag!IsSwap(q)'
          PROVE  /\ Ag!Written(q)' => Ag!IsOf(v1, Ag!Account(q))'
                 /\ v7'[q] = "Flock" => v4' = {Ag!Account(q)'}
                 /\ v16' # NoOne /\ v7'[q] \in {"Write", "Mark", "Restore"} =>
                       Ag!IsOf(v11'[q], v16') /\ v4' = {v16'}
      BY <2>1, <2>3, <2>6, <3>1, <3>3 DEF Ag!SwapsGoOn, Ag!Written, Ag!IsSwap, Ag!IsOf,
         Ag!Account, World, Ag!Registry
    <3> QED BY <2>1, <3>2, <3>3 DEF Ag!SwapsGoOn
  <2> QED BY <2>1, <2>7, <2>8, <2>9 DEF Ag!EffectKept, World, Ag!Registry
\* A process of which nothing is kept changes agy's login or the marks.
<1>10. ASSUME NEW p \in Agents, NEW a \in People,
              Ag!Swap(p, a) \/ Ag!Query(p, a) \/ Ag!Remove(p, a) PROVE Ag!EffectKept'
  BY <1>9, <1>10 DEF Ag!Swap, Ag!Query, Ag!Remove, Ag!Kinds
<1>11. ASSUME NEW p \in Agents, Ag!Reconcile(p) PROVE Ag!EffectKept'
  BY <1>9, <1>11 DEF Ag!Reconcile, Ag!Kinds
<1>12. ASSUME NEW p \in Agents, NEW a \in People, Ag!KeepAlive(p, a) PROVE Ag!EffectKept'
  <2>1. /\ v7[p] = "Idle" /\ v7'[p] = "Refresh" /\ v8'[p].kind = "keep" /\ v11' = v11
        /\ \A q \in Agents \ {p} : v7'[q] = v7[q] /\ v8'[q] = v8[q]
        /\ UNCHANGED World /\ UNCHANGED <<v15, v16>>
    BY <1>12 DEF Ag!KeepAlive, Ag!Goto, World, Ag!Registry, Ag!History
  <2> QED BY <1>4, <1>7, <2>1 DEF Ag!Written, Ag!IsSwap
<1>13. ASSUME NEW a \in People, Ag!SignInNatively(a) PROVE Ag!EffectKept'
  <2>1. /\ \A q \in Agents : ~v15'[q]
        /\ v16' = NoOne /\ v8' = v8
    BY <1>13 DEF Ag!SignInNatively, Ag!Own
  <2>2. Ag!SwapsAlone' BY <1>5, <2>1
  <2>3. Ag!StaysInUse' /\ Ag!SwapsGoOn' BY <2>1 DEF Ag!StaysInUse, Ag!SwapsGoOn
  <2> QED BY <2>2, <2>3 DEF Ag!EffectKept
<1>14. ASSUME NEW p \in Agents, Ag!ImportLive(p) PROVE Ag!EffectKept'
  <2>1. /\ \A q \in Agents : ~v15'[q]
        /\ v16' = IF \E q \in Agents : Ag!IsSwap(q) THEN NoOne ELSE v16
        /\ UNCHANGED World /\ v1 # NoOne
        /\ v8' = [v8 EXCEPT ![p] = [kind |-> "import", of |-> v1.of]]
        /\ v7[p] = "Idle"
    BY <1>14 DEF Ag!ImportLive, World, Ag!Registry
  <2>2. /\ v8'[p].kind = "import" /\ v8'[p].of = v1.of
        /\ \A q \in Agents \ {p} : v8'[q] = v8[q]
    BY <2>1
  <2>3. Ag!SwapsAlone'
    <3>1. \A q \in Agents : v8'[q].kind = "remove" =>
            v8[q].kind = "remove" /\ v8'[q] = v8[q] /\ v16' # Ag!Account(q)
      <4> SUFFICES ASSUME NEW q \in Agents, v8'[q].kind = "remove"
                   PROVE  v8[q].kind = "remove" /\ v8'[q] = v8[q] /\ v16' # Ag!Account(q)
        OBVIOUS
      <4>1. v8'[q] = v8[q] /\ v8[q].kind = "remove" BY <2>2
      <4>2. Ag!Account(q) \in People /\ v16 # Ag!Account(q) BY <1>3, <1>4, <4>1 DEF Ag!SwapsAlone
      <4> QED BY <2>1, <4>1, <4>2
    <3> QED BY <2>1, <3>1 DEF Ag!SwapsAlone, Ag!Account
  <2>4. ASSUME ~v18 PROVE Ag!StaysInUse'
    <3> SUFFICES ASSUME v16' # NoOne
                 PROVE  Ag!InUse(v16)' /\ \A q \in Agents : v8'[q].kind = "import"
                            => Ag!Account(q)' = v16'
      BY DEF Ag!StaysInUse
    <3>1. v16' = v16 /\ \A q \in Agents : ~Ag!IsSwap(q) BY <2>1
    <3>2. Ag!InUse(v16) /\ \A q \in Agents : v8[q].kind = "import" => Ag!Account(q) = v16
      BY <1>3, <2>4, <3>1 DEF Ag!StaysInUse, Ag!Written
    <3>3. v1.of = v16 BY <3>2 DEF Ag!InUse, Ag!IsOf
    <3>4. Ag!InUse(v16)' BY <2>1, <3>1, <3>2 DEF Ag!InUse, Ag!IsOf, World, Ag!Registry
    <3> QED BY <2>2, <3>1, <3>2, <3>3, <3>4 DEF Ag!Account
  <2>5. Ag!SwapsGoOn' BY <2>1 DEF Ag!SwapsGoOn
  <2> QED BY <2>1, <2>3, <2>4, <2>5 DEF Ag!EffectKept, World, Ag!Registry
<1>15. ASSUME NEW p \in Agents, Ag!Blob(p) PROVE Ag!EffectKept'
  <2>1. /\ v7[p] = "Blob" /\ UNCHANGED World /\ UNCHANGED <<v15, v16>>
    BY <1>15 DEF Ag!Blob, World, Ag!Registry, Ag!History
  <2>2. CASE Ag!End(p) BY <1>8, <2>1, <2>2 DEF Ag!Written
  <2>3. ASSUME NEW s \in {"Fix", "Refresh"}, Ag!Goto(p, s), UNCHANGED <<v8, v10, v11>>
        PROVE  Ag!EffectKept'
    <3>1. v7'[p] = s /\ \A q \in Agents \ {p} : v7'[q] = v7[q] BY <2>3 DEF Ag!Goto
    <3> QED BY <1>7, <2>1, <2>3, <3>1 DEF Ag!Written
  <2> QED BY <1>15, <2>2, <2>3 DEF Ag!Blob
<1>16. ASSUME NEW p \in Agents, Ag!Fix(p) \/ Ag!Refresh(p) PROVE Ag!EffectKept'
  <2>1. /\ v7[p] \in {"Fix", "Refresh"} /\ UNCHANGED World /\ UNCHANGED <<v15, v16>>
        /\ Ag!End(p) \/ Ag!Continue(p, "Refresh") \/ Ag!Continue(p, "Same")
    BY <1>16 DEF Ag!Fix, Ag!Refresh, World, Ag!Registry
  <2> QED BY <1>8, <2>1 DEF Ag!Written
<1>17. ASSUME NEW p \in Agents, Ag!Same(p) PROVE Ag!EffectKept'
  <2>1. /\ v7[p] = "Same" /\ v7'[p] = "Capture" /\ v11' = v11
        /\ UNCHANGED World /\ UNCHANGED <<v15, v16>>
        /\ v8'[p] = v8[p] \/ v8'[p].kind = "capture"
        /\ \A q \in Agents \ {p} : v7'[q] = v7[q] /\ v8'[q] = v8[q]
    BY <1>4, <1>17 DEF Ag!Same, Ag!Goto, World, Ag!Registry, Ag!History, Ag!IsSwap, Ag!NoJob
  <2> QED BY <1>7, <2>1 DEF Ag!Written
<1>18. ASSUME NEW p \in Agents, Ag!Capture(p) PROVE Ag!EffectKept'
  <2>1. /\ v7[p] = "Capture" /\ UNCHANGED World /\ UNCHANGED <<v15, v16>>
    BY <1>18 DEF Ag!Capture, World, Ag!Registry
  <2>2. CASE Ag!End(p) \/ Ag!Continue(p, "Snapshot") BY <1>8, <2>1, <2>2 DEF Ag!Written
  <2>3. CASE Ag!Goto(p, "Store") /\ UNCHANGED <<v8, v11>>
    <3>1. v7'[p] = "Store" /\ \A q \in Agents \ {p} : v7'[q] = v7[q] BY <2>3 DEF Ag!Goto
    <3> QED BY <1>7, <2>1, <2>3, <3>1 DEF Ag!Written
  <2> QED BY <1>18, <2>2, <2>3 DEF Ag!Capture
<1>19. ASSUME NEW p \in Agents, Ag!Store(p) PROVE Ag!EffectKept'
  <2>1. /\ v7[p] = "Store" /\ UNCHANGED World /\ UNCHANGED <<v15, v16>>
        /\ Ag!End(p) \/ Ag!Continue(p, "Snapshot")
    BY <1>19 DEF Ag!Store, World, Ag!Registry
  <2> QED BY <1>8, <2>1 DEF Ag!Written
<1>20. ASSUME NEW p \in Agents, Ag!Snapshot(p) PROVE Ag!EffectKept'
  <2>1. /\ v7[p] = "Snapshot" /\ v7'[p] = "Write" /\ v11'[p] = v1
        /\ UNCHANGED World /\ UNCHANGED <<v15, v16, v8>>
        /\ \A q \in Agents \ {p} : v7'[q] = v7[q] /\ v11'[q] = v11[q]
    BY <1>20 DEF Ag!Snapshot, Ag!Goto, World, Ag!Registry, Ag!History
  <2>2. Ag!IsSwap(p) /\ ~Ag!Written(p) BY <1>4, <2>1 DEF Ag!Written
  <2>3. CASE v18 BY <1>5, <2>1, <2>3 DEF Ag!EffectKept, World, Ag!Registry
  <2>4. ASSUME ~v18, v15[p], v16 # NoOne PROVE Ag!IsOf(v1, v16) /\ v4 = {v16}
    <3>1. \A q \in Agents : ~Ag!Written(q)
      BY <1>3, <2>2, <2>4 DEF Ag!SwapsAlone, Ag!Written
    <3> QED BY <1>3, <2>4, <3>1 DEF Ag!StaysInUse, Ag!InUse
  <2> QED BY <1>7, <2>1, <2>2, <2>3, <2>4 DEF Ag!Written
<1>21. ASSUME NEW p \in Agents, Ag!Write(p) PROVE Ag!EffectKept'
  <2>1. Ag!IsSwap(p) /\ Ag!Account(p) \in People /\ v7[p] = "Write"
    BY <1>4, <1>21 DEF Ag!Write, Ag!IsSwap
  <2>2. v15' = v15 /\ v4' = v4 /\ v18' = v18 BY <1>21 DEF Ag!Write, Ag!Registry
  <2>3. CASE v16' = NoOne /\ Ag!End(p)
    <3>1. Ag!SwapsAlone' BY <1>5, <1>6, <2>2, <2>3
    <3>2. Ag!StaysInUse' BY <2>3 DEF Ag!StaysInUse
    <3>3. ASSUME ~v18, NEW q \in Agents, v15'[q], Ag!IsSwap(q)' PROVE FALSE
      <4>1. q # p /\ v15[q] /\ Ag!IsSwap(q) BY <2>2, <2>3, <3>3 DEF Ag!End, Ag!NoJob, Ag!IsSwap
      <4> QED BY <1>3, <2>1, <4>1 DEF Ag!SwapsAlone
    <3>4. ~v18 => Ag!SwapsGoOn' BY <3>3 DEF Ag!SwapsGoOn
    <3> QED BY <2>2, <3>1, <3>2, <3>4 DEF Ag!EffectKept
  <2>4. CASE /\ v1' = [of |-> Ag!Account(p), nr |-> v9[p]] /\ Ag!Continue(p, "Mark")
             /\ v16' = IF v15[p] THEN v16 ELSE NoOne
    <3>1. Ag!SwapsAlone' BY <1>5, <1>6, <2>2, <2>4
    <3>2. /\ v8' = v8 /\ v11' = v11 /\ v7'[p] = "Mark"
          /\ \A q \in Agents \ {p} : v7'[q] = v7[q]
      BY <2>4 DEF Ag!Continue, Ag!Goto, Ag!Own
    <3>3. Ag!Written(p)' BY <2>1, <3>2 DEF Ag!Written, Ag!IsSwap
    <3>4. ASSUME ~v18 PROVE Ag!StaysInUse'
      BY <1>3, <2>4, <3>2, <3>3, <3>4 DEF Ag!StaysInUse, Ag!Account
    <3>5. ASSUME ~v18, NEW q \in Agents, v15'[q], Ag!IsSwap(q)'
          PROVE  /\ Ag!Written(q)' => Ag!IsOf(v1, Ag!Account(q))'
                 /\ v7'[q] = "Flock" => v4' = {Ag!Account(q)'}
                 /\ v16' # NoOne /\ v7'[q] \in {"Write", "Mark", "Restore"} =>
                       Ag!IsOf(v11'[q], v16') /\ v4' = {v16'}
      <4>1. q = p /\ v15[p] BY <1>3, <2>1, <2>2, <3>2, <3>5 DEF Ag!SwapsAlone, Ag!IsSwap
      <4>2. /\ v1' # NoOne /\ v1'.of = Ag!Account(p)
        <5>1. v9[p] \in Ag!SignIn BY DEF AntigravityInv, Ag!AntigravityTypeOK
        <5> QED BY <2>1, <2>4, <5>1
      <4>3. Ag!IsOf(v1, Ag!Account(p))' BY <3>2, <4>2 DEF Ag!IsOf, Ag!Account
      <4>4. v16' # NoOne => Ag!IsOf(v11'[p], v16') /\ v4' = {v16'}
        BY <1>3, <2>1, <2>2, <2>4, <3>2, <3>5, <4>1 DEF Ag!SwapsGoOn, Ag!IsOf
      <4> QED BY <3>2, <4>1, <4>3, <4>4
    <3>6. ~v18 => Ag!SwapsGoOn' BY <3>5 DEF Ag!SwapsGoOn
    <3> QED BY <2>2, <3>1, <3>4, <3>6 DEF Ag!EffectKept
  <2> QED BY <1>21, <2>3, <2>4 DEF Ag!Write
<1>22. ASSUME NEW p \in Agents, Ag!Mark(p) PROVE Ag!EffectKept'
  <2>1. /\ v7[p] = "Mark" /\ UNCHANGED <<v1, v15, v16, v18>>
    BY <1>22 DEF Ag!Mark, Ag!History
  <2>2. v8[p].kind \in {"swap", "import"} /\ Ag!Account(p) \in People BY <1>4, <2>1
  <2>3. Ag!SwapsAlone'
    <3>1. \E s \in {"Flock", "Restore"} : Ag!End(p) \/ Ag!Continue(p, s) BY <1>22 DEF Ag!Mark
    <3> QED BY <1>5, <1>6, <2>1, <3>1
  <2>4. CASE ~Ag!IsSwap(p)
    <3>1. v8[p].kind = "import" /\ Ag!End(p) BY <1>22, <2>2, <2>4 DEF Ag!Mark, Ag!IsSwap
    <3>2. \A q \in Agents : ~v15'[q] BY <1>3, <2>1, <3>1 DEF Ag!SwapsAlone
    <3>3. v4' \in {v4, {Ag!Account(p)}} BY <1>22 DEF Ag!Mark
    <3>4. Ag!SwapsGoOn' BY <3>2 DEF Ag!SwapsGoOn
    <3>5. ASSUME ~v18 PROVE Ag!StaysInUse'
      <4> SUFFICES ASSUME v16' # NoOne
                   PROVE  /\ (\A q \in Agents : ~Ag!Written(q)') => Ag!InUse(v16)'
                          /\ \A q \in Agents : v8'[q].kind = "import" => Ag!Account(q)' = v16'
        BY DEF Ag!StaysInUse
      <4>1. Ag!StaysInUse /\ Ag!Account(p) = v16 BY <1>3, <2>1, <3>1, <3>5 DEF Ag!StaysInUse
      <4>2. \A q \in Agents : Ag!Written(q) => Ag!Written(q)'
        BY <2>4, <3>1 DEF Ag!End, Ag!Goto, Ag!Written, Ag!IsSwap
      <4>3. (\A q \in Agents : ~Ag!Written(q)') => Ag!InUse(v16)'
        BY <2>1, <3>3, <4>1, <4>2 DEF Ag!StaysInUse, Ag!InUse, Ag!IsOf
      <4>4. \A q \in Agents : v8'[q].kind = "import" => Ag!Account(q)' = v16'
        BY <2>1, <3>1, <4>1 DEF Ag!StaysInUse, Ag!Account, Ag!End, Ag!NoJob
      <4> QED BY <4>3, <4>4
    <3> QED BY <2>1, <2>3, <3>4, <3>5 DEF Ag!EffectKept
  <2>5. CASE Ag!IsSwap(p) /\ Ag!Continue(p, "Flock") /\ v4' = {Ag!Account(p)}
    <3>1. /\ v8' = v8 /\ v11' = v11 /\ v7'[p] = "Flock"
          /\ \A q \in Agents \ {p} : v7'[q] = v7[q]
      BY <2>5 DEF Ag!Continue, Ag!Goto, Ag!Own
    <3>2. Ag!Written(p)' /\ Ag!Written(p) BY <2>1, <2>5, <3>1 DEF Ag!Written, Ag!IsSwap
    <3>3. ASSUME ~v18 PROVE Ag!StaysInUse'
      BY <1>3, <2>1, <3>1, <3>2, <3>3 DEF Ag!StaysInUse, Ag!Account
    <3>4. ASSUME ~v18, NEW q \in Agents, v15'[q], Ag!IsSwap(q)'
          PROVE  /\ Ag!Written(q)' => Ag!IsOf(v1, Ag!Account(q))'
                 /\ v7'[q] = "Flock" => v4' = {Ag!Account(q)'}
                 /\ v16' # NoOne /\ v7'[q] \in {"Write", "Mark", "Restore"} =>
                       Ag!IsOf(v11'[q], v16') /\ v4' = {v16'}
      <4>1. q = p /\ v15[p] BY <1>3, <2>1, <2>5, <3>1, <3>4 DEF Ag!SwapsAlone, Ag!IsSwap
      <4>2. Ag!IsOf(v1, Ag!Account(p)) BY <1>3, <2>5, <3>2, <3>4, <4>1 DEF Ag!SwapsGoOn
      <4> QED BY <2>1, <2>5, <3>1, <4>1, <4>2 DEF Ag!IsOf, Ag!Account
    <3>5. ~v18 => Ag!SwapsGoOn' BY <3>4 DEF Ag!SwapsGoOn
    <3> QED BY <2>1, <2>3, <3>3, <3>5 DEF Ag!EffectKept
  <2>6. CASE Ag!IsSwap(p) /\ Ag!Continue(p, "Restore") /\ v4' = v4
    <3>1. /\ v8' = v8 /\ v11' = v11 /\ v7'[p] = "Restore"
          /\ \A q \in Agents \ {p} : v7'[q] = v7[q]
      BY <2>6 DEF Ag!Continue, Ag!Goto, Ag!Own
    <3>2. Ag!Written(p)' /\ Ag!Written(p) BY <2>1, <2>6, <3>1 DEF Ag!Written, Ag!IsSwap
    <3>3. ASSUME v18 PROVE Ag!EffectKept' BY <2>1, <2>3, <3>3 DEF Ag!EffectKept
    <3>4. ASSUME ~v18, v15[p], v16 # NoOne
          PROVE  Ag!IsOf(v11[p], v16) /\ v4 = {v16}
      BY <1>3, <2>1, <2>6, <3>4 DEF Ag!SwapsGoOn
    <3> QED BY <1>7, <2>1, <2>6, <3>1, <3>2, <3>3, <3>4 DEF World, Ag!Registry
  <2> QED BY <1>22, <2>4, <2>5, <2>6 DEF Ag!Mark
<1>23. ASSUME NEW p \in Agents, Ag!Restore(p) PROVE Ag!EffectKept'
  <2>1. /\ v7[p] = "Restore" /\ UNCHANGED <<v4, v15, v18>> /\ Ag!End(p)
    BY <1>23 DEF Ag!Restore, Ag!Registry
  <2>2. Ag!IsSwap(p) /\ Ag!Written(p) BY <1>4, <2>1 DEF Ag!Written
  <2>3. v16' \in {v16, NoOne} BY <1>23 DEF Ag!Restore
  <2>4. Ag!SwapsAlone' BY <1>5, <1>6, <2>1, <2>3
  <2>5. \A q \in Agents : v15'[q] => ~Ag!IsSwap(q)'
    <3> SUFFICES ASSUME NEW q \in Agents, v15'[q], Ag!IsSwap(q)' PROVE FALSE OBVIOUS
    <3>1. q # p /\ v15[q] /\ Ag!IsSwap(q) BY <2>1 DEF Ag!End, Ag!NoJob, Ag!IsSwap
    <3> QED BY <1>3, <2>2, <3>1 DEF Ag!SwapsAlone
  <2>6. Ag!SwapsGoOn' BY <2>5 DEF Ag!SwapsGoOn
  <2>7. ASSUME ~v18 PROVE Ag!StaysInUse'
    <3> SUFFICES ASSUME v16' # NoOne
                 PROVE  Ag!InUse(v16)' /\ \A q \in Agents : v8'[q].kind = "import"
                            => Ag!Account(q)' = v16'
      BY DEF Ag!StaysInUse
    <3>1. v1' = v11[p] /\ v15[p] /\ v16' = v16 BY <1>23 DEF Ag!Restore
    <3>2. Ag!IsOf(v11[p], v16) /\ v4 = {v16}
      BY <1>3, <2>1, <2>2, <2>7, <3>1 DEF Ag!SwapsGoOn
    <3>3. Ag!StaysInUse BY <1>3, <2>7
    <3>4. \A q \in Agents : v8'[q].kind = "import" => v8'[q] = v8[q]
      BY <2>1 DEF Ag!End, Ag!NoJob
    <3> QED BY <2>1, <3>1, <3>2, <3>3, <3>4 DEF Ag!StaysInUse, Ag!InUse, Ag!IsOf, Ag!Account
  <2> QED BY <2>1, <2>4, <2>6, <2>7 DEF Ag!EffectKept
<1>24. ASSUME NEW p \in Agents, Ag!Flock(p) PROVE Ag!EffectKept'
  <2>1. /\ v7[p] = "Flock" /\ UNCHANGED World /\ v15' = v15 /\ Ag!End(p)
        /\ v16' = IF v15[p] THEN Ag!Account(p) ELSE NoOne
    BY <1>24 DEF Ag!Flock, World, Ag!Registry
  <2>2. Ag!IsSwap(p) /\ Ag!Written(p) /\ Ag!Account(p) \in People
    BY <1>4, <2>1 DEF Ag!Written, Ag!IsSwap
  <2>3. \A q \in Agents : v15'[q] => ~Ag!IsSwap(q)'
    <3> SUFFICES ASSUME NEW q \in Agents, v15'[q], Ag!IsSwap(q)' PROVE FALSE OBVIOUS
    <3>1. q # p /\ v15[q] /\ Ag!IsSwap(q) BY <2>1 DEF Ag!End, Ag!NoJob, Ag!IsSwap
    <3> QED BY <1>3, <2>2, <3>1 DEF Ag!SwapsAlone
  <2>4. Ag!SwapsGoOn' BY <2>3 DEF Ag!SwapsGoOn
  <2>5. \A q \in Agents : v8'[q] = v8[q] \/ v8'[q].kind = "none" BY <2>1 DEF Ag!End, Ag!NoJob
  <2>6. Ag!SwapsAlone'
    <3>1. \A q \in Agents : v8'[q].kind = "remove" => v16' # Ag!Account(q)'
      <4> SUFFICES ASSUME NEW q \in Agents, v8'[q].kind = "remove" PROVE v16' # Ag!Account(q)'
        OBVIOUS
      <4>1. v8[q].kind = "remove" /\ v8'[q] = v8[q] BY <2>5
      <4>2. v15[p] => Ag!Account(p) # Ag!Account(q) BY <1>3, <2>2, <4>1 DEF Ag!SwapsAlone
      <4>3. Ag!Account(q) \in People BY <1>4, <4>1
      <4> QED BY <2>1, <4>1, <4>2, <4>3 DEF Ag!Account
    <3> QED BY <1>3, <2>1, <2>3, <2>5, <3>1 DEF Ag!SwapsAlone, Ag!IsSwap, Ag!Account
  <2>7. ASSUME ~v18 PROVE Ag!StaysInUse'
    <3> SUFFICES ASSUME v16' # NoOne
                 PROVE  Ag!InUse(v16)' /\ \A q \in Agents : v8'[q].kind = "import"
                            => Ag!Account(q)' = v16'
      BY DEF Ag!StaysInUse
    <3>1. v15[p] /\ v16' = Ag!Account(p) BY <2>1
    <3>2. Ag!IsOf(v1, Ag!Account(p)) /\ v4 = {Ag!Account(p)}
      BY <1>3, <2>1, <2>2, <2>7, <3>1 DEF Ag!SwapsGoOn
    <3>3. \A q \in Agents : v8[q].kind # "import" BY <1>3, <3>1 DEF Ag!SwapsAlone
    <3>4. \A q \in Agents : v8'[q].kind # "import" BY <2>5, <3>3
    <3> QED BY <2>1, <3>1, <3>2, <3>4 DEF Ag!InUse, Ag!IsOf, World, Ag!Registry
  <2> QED BY <2>1, <2>4, <2>6, <2>7 DEF Ag!EffectKept, World, Ag!Registry
<1>25. ASSUME NEW p \in Agents, Ag!Import(p) PROVE Ag!EffectKept'
  <2>1. /\ v7[p] = "Import" /\ UNCHANGED World /\ UNCHANGED <<v15, v16>>
        /\ Ag!Continue(p, "Upsert")
    BY <1>25 DEF Ag!Import, World, Ag!Registry
  <2> QED BY <1>8, <2>1 DEF Ag!Written
<1>26. ASSUME NEW p \in Agents, Ag!Upsert(p) PROVE Ag!EffectKept'
  <2>1. /\ v7[p] = "Upsert" /\ UNCHANGED <<v1, v15, v16, v18>>
        /\ v4' = v4 \cup {Ag!Account(p)} /\ Ag!Continue(p, "Mark")
    BY <1>26 DEF Ag!Upsert, Ag!History
  <2>2. v8[p].kind = "import" /\ Ag!Account(p) \in People BY <1>4, <2>1
  <2>3. Ag!SwapsAlone' BY <1>5, <1>6, <2>1
  <2>4. \A q \in Agents : ~v15'[q] BY <1>3, <2>1, <2>2 DEF Ag!SwapsAlone
  <2>5. Ag!SwapsGoOn' BY <2>4 DEF Ag!SwapsGoOn
  <2>6. ASSUME ~v18 PROVE Ag!StaysInUse'
    <3> SUFFICES ASSUME v16' # NoOne
                 PROVE  /\ (\A q \in Agents : ~Ag!Written(q)') => Ag!InUse(v16)'
                        /\ \A q \in Agents : v8'[q].kind = "import" => Ag!Account(q)' = v16'
      BY DEF Ag!StaysInUse
    <3>1. Ag!StaysInUse /\ Ag!Account(p) = v16 BY <1>3, <2>1, <2>2, <2>6 DEF Ag!StaysInUse
    <3>2. v8' = v8 /\ \A q \in Agents : Ag!Written(q) => Ag!Written(q)'
      BY <2>1, <2>2 DEF Ag!Continue, Ag!Goto, Ag!Own, Ag!Written, Ag!IsSwap
    <3>3. (\A q \in Agents : ~Ag!Written(q)') => Ag!InUse(v16)'
      BY <2>1, <3>1, <3>2 DEF Ag!StaysInUse, Ag!InUse, Ag!IsOf
    <3> QED BY <2>1, <3>1, <3>2, <3>3 DEF Ag!StaysInUse, Ag!Account
  <2> QED BY <2>1, <2>3, <2>5, <2>6 DEF Ag!EffectKept
<1>27. ASSUME NEW p \in Agents, Ag!Disconnect(p) \/ Ag!Lock(p) \/ Ag!Confirm(p) \/ Ag!Forget(p)
      PROVE Ag!EffectKept'
  <2>1. /\ UNCHANGED World /\ UNCHANGED <<v15, v16>> /\ v7[p] \in Ag!Removing
        /\ \E s \in {"Lock", "Unregister", "Confirm", "Delete"} : Ag!End(p) \/ Ag!Continue(p, s)
    BY <1>27 DEF Ag!Disconnect, Ag!Lock, Ag!Confirm, Ag!RmStep, Ag!Forget, World, Ag!Registry,
       Ag!History, Ag!Removing
  <2>2. ~Ag!Written(p) BY <2>1 DEF Ag!Written, Ag!Removing
  <2> QED BY <1>8, <2>1, <2>2
<1>28. ASSUME NEW p \in Agents, Ag!Delete(p) PROVE Ag!EffectKept'
  <2>1. /\ v7[p] \in Ag!Removing /\ UNCHANGED <<v4, v15, v16>>
        /\ v1' = NoOne /\ Ag!Continue(p, "Unregister")
        /\ v18' = (v18 \/ (v1 # NoOne /\ v1.of # Ag!Account(p)))
    BY <1>28 DEF Ag!Delete, Ag!Registry, Ag!Removing
  <2>2. v8[p].kind = "remove" /\ ~Ag!IsSwap(p) /\ Ag!Account(p) \in People
    BY <1>4, <2>1 DEF Ag!IsSwap, Ag!Removing
  <2>3. Ag!SwapsAlone' BY <1>5, <1>6, <2>1
  <2>4. \A q \in Agents : Ag!Written(q) <=> Ag!Written(q)'
    BY <2>1, <2>2 DEF Ag!Continue, Ag!Goto, Ag!Own, Ag!Written, Ag!IsSwap
  <2>5. v8' = v8 /\ v11' = v11 /\ \A q \in Agents \ {p} : v7'[q] = v7[q]
    BY <2>1 DEF Ag!Continue, Ag!Goto, Ag!Own
  <2>6. ASSUME ~v18' PROVE Ag!StaysInUse'
    <3>1. ~v18 /\ (v1 = NoOne \/ v1.of = Ag!Account(p)) BY <2>1, <2>6
    <3>2. v16 # NoOne => \E q \in Agents : Ag!Written(q)
      BY <1>3, <2>2, <3>1 DEF Ag!StaysInUse, Ag!InUse, Ag!IsOf, Ag!SwapsAlone
    <3> QED BY <1>3, <2>1, <2>4, <2>5, <3>1, <3>2 DEF Ag!StaysInUse, Ag!Account
  <2>7. ASSUME ~v18' PROVE Ag!SwapsGoOn'
    <3>1. ~v18 /\ (v1 = NoOne \/ v1.of = Ag!Account(p)) BY <2>1, <2>7
    <3>2. ASSUME NEW q \in Agents, v15[q], Ag!IsSwap(q) PROVE ~Ag!Written(q)
      <4>1. Ag!Account(q) # Ag!Account(p) BY <1>3, <2>2, <3>2 DEF Ag!SwapsAlone
      <4>2. Ag!Written(q) => Ag!IsOf(v1, Ag!Account(q)) BY <1>3, <3>1, <3>2 DEF Ag!SwapsGoOn
      <4> QED BY <3>1, <4>1, <4>2 DEF Ag!IsOf
    <3>3. ASSUME NEW q \in Agents, v15'[q], Ag!IsSwap(q)'
          PROVE  /\ Ag!Written(q)' => Ag!IsOf(v1, Ag!Account(q))'
                 /\ v7'[q] = "Flock" => v4' = {Ag!Account(q)'}
                 /\ v16' # NoOne /\ v7'[q] \in {"Write", "Mark", "Restore"} =>
                       Ag!IsOf(v11'[q], v16') /\ v4' = {v16'}
      <4>1. v15[q] /\ Ag!IsSwap(q) /\ q # p BY <2>1, <2>2, <2>5, <3>3 DEF Ag!IsSwap
      <4>2. ~Ag!Written(q)' /\ v7'[q] = v7[q] BY <2>4, <2>5, <3>2, <4>1
      <4>3. /\ v7[q] = "Flock" => v4 = {Ag!Account(q)}
            /\ v16 # NoOne /\ v7[q] \in {"Write", "Mark", "Restore"} =>
                  Ag!IsOf(v11[q], v16) /\ v4 = {v16}
        BY <1>3, <3>1, <4>1 DEF Ag!SwapsGoOn
      <4> QED BY <2>1, <2>5, <4>2, <4>3 DEF Ag!IsOf, Ag!Account
    <3> QED BY <3>3 DEF Ag!SwapsGoOn
  <2> QED BY <2>3, <2>6, <2>7 DEF Ag!EffectKept
<1>29. ASSUME NEW p \in Agents, Ag!Unregister(p) PROVE Ag!EffectKept'
  <2>1. /\ v7[p] \in Ag!Removing /\ UNCHANGED <<v1, v15, v16, v18>>
        /\ v4' = v4 \ {Ag!Account(p)} /\ (Ag!End(p) \/ Ag!Continue(p, "Forget"))
    BY <1>29 DEF Ag!Unregister, Ag!History, Ag!Removing
  <2>2. v8[p].kind = "remove" /\ ~Ag!IsSwap(p) /\ Ag!Account(p) \in People
    BY <1>4, <2>1 DEF Ag!IsSwap, Ag!Removing
  <2>3. Ag!SwapsAlone' BY <1>5, <1>6, <2>1
  <2>4. /\ \A q \in Agents \ {p} : v7'[q] = v7[q] /\ v8'[q] = v8[q] /\ v11'[q] = v11[q]
        /\ v8'[p].kind \in {"none", "remove"} /\ v7'[p] \in {"Idle", "Forget"}
    BY <2>1, <2>2 DEF Ag!End, Ag!Continue, Ag!Goto, Ag!Own, Ag!NoJob
  <2>5. v16 # Ag!Account(p) BY <1>3, <2>2 DEF Ag!SwapsAlone
  <2>6. ASSUME ~v18 PROVE Ag!StaysInUse'
    <3> SUFFICES ASSUME v16' # NoOne
                 PROVE  /\ (\A q \in Agents : ~Ag!Written(q)') => Ag!InUse(v16)'
                        /\ \A q \in Agents : v8'[q].kind = "import" => Ag!Account(q)' = v16'
      BY DEF Ag!StaysInUse
    <3>1. Ag!StaysInUse BY <1>3, <2>6
    <3>2. \A q \in Agents : Ag!Written(q) => Ag!Written(q)' BY <2>2, <2>4 DEF Ag!Written, Ag!IsSwap
    <3>3. (\A q \in Agents : ~Ag!Written(q)') => Ag!InUse(v16)'
      BY <2>1, <2>5, <3>1, <3>2 DEF Ag!StaysInUse, Ag!InUse, Ag!IsOf
    <3>4. \A q \in Agents : v8'[q].kind = "import" => Ag!Account(q)' = v16'
      BY <2>1, <2>4, <3>1 DEF Ag!StaysInUse, Ag!Account
    <3> QED BY <3>3, <3>4
  <2>7. ASSUME ~v18 PROVE Ag!SwapsGoOn'
    <3>1. ASSUME NEW q \in Agents, v15'[q], Ag!IsSwap(q)'
          PROVE  /\ Ag!Written(q)' => Ag!IsOf(v1, Ag!Account(q))'
                 /\ v7'[q] = "Flock" => v4' = {Ag!Account(q)'}
                 /\ v16' # NoOne /\ v7'[q] \in {"Write", "Mark", "Restore"} =>
                       Ag!IsOf(v11'[q], v16') /\ v4' = {v16'}
      <4>1. q # p BY <2>4, <3>1 DEF Ag!IsSwap
      <4>2. v15[q] /\ Ag!IsSwap(q) BY <2>1, <2>4, <3>1, <4>1 DEF Ag!IsSwap
      <4>3. Ag!Account(q) # Ag!Account(p) BY <1>3, <2>2, <4>2 DEF Ag!SwapsAlone
      <4>4. /\ Ag!Written(q) => Ag!IsOf(v1, Ag!Account(q))
            /\ v7[q] = "Flock" => v4 = {Ag!Account(q)}
            /\ v16 # NoOne /\ v7[q] \in {"Write", "Mark", "Restore"} =>
                  Ag!IsOf(v11[q], v16) /\ v4 = {v16}
        BY <1>3, <2>7, <4>2 DEF Ag!SwapsGoOn
      <4>5. Ag!Written(q)' <=> Ag!Written(q) BY <2>4, <4>1 DEF Ag!Written, Ag!IsSwap
      <4> QED BY <2>1, <2>4, <2>5, <4>1, <4>3, <4>4, <4>5 DEF Ag!IsOf, Ag!Account
    <3> QED BY <3>1 DEF Ag!SwapsGoOn
  <2> QED BY <2>1, <2>3, <2>6, <2>7 DEF Ag!EffectKept
<1>30. ASSUME NEW p \in Agents, Ag!Kill(p) PROVE Ag!EffectKept'
  <2>1. /\ UNCHANGED World /\ v15' = v15 /\ Ag!End(p)
        /\ v16' = IF v7[p] \in {"Mark", "Restore", "Flock"} THEN NoOne ELSE v16
    BY <1>30 DEF Ag!Kill, World, Ag!Registry
  <2>2. /\ v7'[p] = "Idle" /\ v8'[p].kind = "none"
        /\ \A q \in Agents \ {p} : v7'[q] = v7[q] /\ v8'[q] = v8[q] /\ v11'[q] = v11[q]
    BY <2>1 DEF Ag!End, Ag!Goto, Ag!NoJob
  <2>3. ~Ag!IsSwap(p)' BY <2>2 DEF Ag!IsSwap
  <2>4. Ag!Written(p) => v16' = NoOne BY <2>1 DEF Ag!Written
  <2> QED BY <1>7, <2>1, <2>2, <2>3, <2>4
<1>31. CASE UNCHANGED Ag!antigravityVars
  BY <1>3, <1>31 DEF Ag!antigravityVars, Ag!EffectKept, Ag!SwapsAlone, Ag!StaysInUse,
     Ag!SwapsGoOn, Ag!IsSwap, Ag!Account, Ag!Written, Ag!InUse, Ag!IsOf
<1> QED
  BY <1>10, <1>11, <1>12, <1>13, <1>14, <1>15, <1>16, <1>17, <1>18, <1>19, <1>20, <1>21, <1>22,
     <1>23, <1>24, <1>25, <1>26, <1>27, <1>28, <1>29, <1>30, <1>31 DEF Ag!Next

LEMMA AgGood == AntigravityInv => Ag!AntigravityInEffect /\ Ag!SignInKept
<1> SUFFICES ASSUME AntigravityInv PROVE Ag!AntigravityInEffect /\ Ag!SignInKept OBVIOUS
<1>1. Ag!SignInKept
  BY DEF AntigravityInv, Ag!CopiesKept, Ag!LastKept, Ag!SignInKept, Ag!AntigravityTypeOK
<1>2. ASSUME v16 # NoOne, ~Ag!SwapUnderWay, ~v18
      PROVE  Ag!IsOf(v1, v16) /\ v4 = {v16}
  <2>1. \A p \in Agents : ~Ag!Written(p) BY <1>2 DEF Ag!SwapUnderWay, Ag!Written
  <2> QED BY <1>2, <2>1 DEF AntigravityInv, Ag!EffectKept, Ag!StaysInUse, Ag!InUse
<1> QED BY <1>1, <1>2 DEF Ag!AntigravityInEffect

-----------------------------------------------------------------------------
(* Codex                                                                      *)

LEMMA CoConstants ==
    /\ NoOne \notin People /\ us # others /\ Co!Programs = {us, others}
    /\ MaxCodexTokens \in Nat /\ MaxCodexAsks \in Nat /\ MaxCodexStarts \in Nat
    /\ MaxCodexSwaps \in Nat /\ MaxCodexFaults \in Nat
  BY CodexConstants DEF Co!CodexAssumption, Co!Programs

\* A credential is not the value that says there is none.
LEMMA CoCreds ==
    /\ \A t \in Co!Cred : t # NoOne /\ t.of \in People /\ t.token \in Co!Token /\ t.token \in Nat
    /\ \A a \in People, n \in Co!Token : [of |-> a, token |-> n] \in Co!Cred
    /\ 0 \in Co!Token
<1>1. Co!Token \subseteq Nat /\ 0 \in Co!Token BY CoConstants DEF Co!Token
<1>2. NoOne \notin [of : People, token : Nat] BY CodexConstants DEF Co!CodexAssumption
<1>3. \A t \in Co!Cred : t \in [of : People, token : Nat] BY <1>1 DEF Co!Cred
<1>4. \A t \in Co!Cred : t.of \in People /\ t.token \in Co!Token BY DEF Co!Cred
<1>5. \A a \in People, n \in Co!Token : [of |-> a, token |-> n] \in Co!Cred BY DEF Co!Cred
<1> QED BY <1>1, <1>2, <1>3, <1>4, <1>5

CodexInv == Co!CodexTypeOK /\ Co!AskersKept /\ Co!AloneKept /\ Co!CodexTokenKept

LEMMA CoInit == Co!Init => CodexInv
<1> SUFFICES ASSUME Co!Init PROVE CodexInv OBVIOUS
<1> USE CoConstants, CoCreds DEF Co!Init
<1>1. Co!CodexTypeOK
  <2>1. "Idle" \in Co!CodexSteps BY DEF Co!CodexSteps
  <2>2. v8 \in [Agents -> BOOLEAN] BY DEF Co!Token
  <2>3. /\ v10 \in 0 .. MaxCodexAsks /\ v11 \in 0 .. MaxCodexStarts
        /\ v12 \in 0 .. MaxCodexSwaps /\ v13 \in 0 .. MaxCodexFaults
    OBVIOUS
  <2> QED BY <2>1, <2>2, <2>3 DEF Co!CodexTypeOK
<1>2. Co!AskersKept BY DEF Co!AskersKept, Co!AskerFits
<1>3. Co!AloneKept BY DEF Co!AloneKept, Co!Alone, Co!LoadedNewest
<1>4. Co!CodexTokenKept BY DEF Co!CodexTokenKept, Co!NextToken
<1> QED BY <1>1, <1>2, <1>3, <1>4 DEF CodexInv

LEMMA CoTypes == ASSUME Co!CodexTypeOK, Co!AskersKept, [Co!Next]_(Co!codexVars)
    PROVE Co!CodexTypeOK'
<1> USE CoConstants, CoCreds DEF Co!CodexTypeOK
<1>0. \A k \in Agents : Co!AskerFits(k) BY DEF Co!AskersKept
<1>1. \A k \in Agents, s \in Co!CodexSteps : Co!Goto(k, s) => v5' \in [Agents -> Co!CodexSteps]
  BY DEF Co!Goto
<1>2. {"Idle", "Socket", "Check", "Spawn", "Query", "Refresh", "Save", "Direct",
        "Done"} = Co!CodexSteps
  BY DEF Co!CodexSteps
<1>3. \A k \in Agents : Co!Closed(k) => v7' \in [Agents -> Co!Cred \cup {NoOne}]
        /\ v8' \in [Agents -> BOOLEAN]
  BY DEF Co!Closed
<1>4. ASSUME NEW k \in Agents, NEW of \in People, Co!Answered(k, of)
      PROVE  v5' \in [Agents -> Co!CodexSteps] /\ v9' \in [Agents -> People \cup {NoOne}]
  BY <1>1, <1>2, <1>4 DEF Co!Answered
<1>5. ASSUME NEW k \in Agents, NEW s \in Co!CodexSteps, Co!Failed(k, s)
      PROVE  v5' \in [Agents -> Co!CodexSteps] /\ v9' \in [Agents -> People \cup {NoOne}]
  BY <1>1, <1>2, <1>5 DEF Co!Failed
<1>6. ASSUME NEW k \in Agents, Co!Ask(k) PROVE Co!CodexTypeOK'
  <2>1. v5' \in [Agents -> Co!CodexSteps] BY <1>1, <1>2, <1>6 DEF Co!Ask
  <2>2. v10' \in 0 .. MaxCodexAsks BY <1>6 DEF Co!Ask
  <2>3. v6' \in [Agents -> Co!Cred \cup {NoOne}] BY <1>6 DEF Co!Ask
  <2>4. UNCHANGED <<v1, v2, v3, v4, v7, v8, v9, v11,
                    v12, v13, v14, v15, v16>>
    BY <1>6 DEF Co!Ask, Co!Tokens, Co!History
  <2> QED BY <2>1, <2>2, <2>3, <2>4
<1>7. ASSUME NEW k \in Agents, Co!Socket(k) PROVE Co!CodexTypeOK'
  <2>1. v5' \in [Agents -> Co!CodexSteps] /\ v9' \in [Agents -> People \cup {NoOne}]
    <3>1. v4[others] # NoOne => v4[others].of \in People OBVIOUS
    <3> QED BY <1>1, <1>2, <1>4, <1>5, <1>7, <3>1 DEF Co!Socket
  <2> QED BY <1>7, <2>1 DEF Co!Socket, Co!Tokens, Co!Bounds, Co!History
<1>8. ASSUME NEW k \in Agents, Co!Check(k) PROVE Co!CodexTypeOK'
  <2>1. v5' \in [Agents -> Co!CodexSteps] BY <1>1, <1>2, <1>8 DEF Co!Check
  <2>2. v8' \in [Agents -> BOOLEAN] BY <1>8 DEF Co!Check
  <2> QED BY <1>8, <2>1, <2>2 DEF Co!Check, Co!Tokens, Co!Bounds, Co!History
<1>9. ASSUME NEW k \in Agents, Co!Spawn(k) PROVE Co!CodexTypeOK'
  <2>1. v5' \in [Agents -> Co!CodexSteps] BY <1>1, <1>2, <1>9 DEF Co!Spawn
  <2>2. v7' \in [Agents -> Co!Cred \cup {NoOne}] /\ v8' \in [Agents -> BOOLEAN]
    BY <1>3, <1>9 DEF Co!Spawn
  <2>3. v14' \in BOOLEAN BY <1>9 DEF Co!Spawn
  <2> QED BY <1>9, <2>1, <2>2, <2>3 DEF Co!Spawn, Co!Tokens, Co!Bounds
<1>10. ASSUME NEW k \in Agents, Co!Query(k) PROVE Co!CodexTypeOK'
  <2>1. v7[k] \in Co!Cred BY <1>0, <1>10 DEF Co!Query, Co!AskerFits
  <2>2. v5' \in [Agents -> Co!CodexSteps] /\ v9' \in [Agents -> People \cup {NoOne}]
    BY <1>1, <1>2, <1>4, <1>5, <1>10, <2>1 DEF Co!Query
  <2>3. v7' \in [Agents -> Co!Cred \cup {NoOne}] /\ v8' \in [Agents -> BOOLEAN]
    BY <1>3, <1>10 DEF Co!Query
  <2> QED BY <1>10, <2>2, <2>3 DEF Co!Query, Co!Tokens, Co!Bounds, Co!History
<1>11. ASSUME NEW k \in Agents, Co!Refresh(k) PROVE Co!CodexTypeOK'
  <2>1. v7[k] \in Co!Cred BY <1>0, <1>11 DEF Co!Refresh, Co!AskerFits
  <2>2. v5' \in [Agents -> Co!CodexSteps] BY <1>1, <1>2, <1>11 DEF Co!Refresh
  <2>3. v3' \in [People -> Co!Token] BY <1>11, <2>1 DEF Co!Refresh, Co!Token
  <2>4. v7' \in [Agents -> Co!Cred \cup {NoOne}]
    <3>1. CASE Co!Closed(k) BY <1>3, <3>1
    <3>2. CASE /\ v7' = [v7 EXCEPT ![k].token = @ + 1] /\ v7[k].token = v3[v7[k].of]
               /\ v3[v7[k].of] < MaxCodexTokens
      <4>1. [v7[k] EXCEPT !.token = @ + 1] \in Co!Cred BY <2>1, <3>2 DEF Co!Cred, Co!Token
      <4> QED BY <3>2, <4>1
    <3> QED BY <1>11, <3>1, <3>2 DEF Co!Refresh
  <2>5. v8' \in [Agents -> BOOLEAN] BY <1>3, <1>11 DEF Co!Refresh
  <2>6. v13' \in 0 .. MaxCodexFaults /\ v16' \subseteq People BY <1>11, <2>1 DEF Co!Refresh
  <2> QED BY <1>11, <2>2, <2>3, <2>4, <2>5, <2>6 DEF Co!Refresh
<1>12. ASSUME NEW k \in Agents, Co!Save(k) PROVE Co!CodexTypeOK'
  <2>1. v7[k] \in Co!Cred BY <1>0, <1>12 DEF Co!Save, Co!AskerFits
  <2>2. v5' \in [Agents -> Co!CodexSteps] BY <1>1, <1>2, <1>12 DEF Co!Save
  <2>3. v8' \in [Agents -> BOOLEAN] BY <1>12 DEF Co!Save
  <2> QED BY <1>12, <2>1, <2>2, <2>3 DEF Co!Save, Co!Bounds, Co!History
<1>13. ASSUME NEW k \in Agents, Co!Direct(k) \/ Co!Done(k) PROVE Co!CodexTypeOK'
  <2>1. v5' \in [Agents -> Co!CodexSteps] BY <1>1, <1>2, <1>13 DEF Co!Direct, Co!Done
  <2>2. CASE Co!Direct(k)
    <3>1. v6[k] \in Co!Cred BY <1>0, <2>2 DEF Co!Direct, Co!AskerFits
    <3>2. v9' \in [Agents -> People \cup {NoOne}] BY <2>2, <3>1 DEF Co!Direct
    <3> QED BY <2>1, <2>2, <3>2 DEF Co!Direct, Co!Tokens, Co!Bounds, Co!History
  <2>3. CASE Co!Done(k)
    <3>1. v6' \in [Agents -> Co!Cred \cup {NoOne}] /\ v9' \in [Agents -> People \cup {NoOne}]
      BY <2>3 DEF Co!Done
    <3> QED BY <2>1, <2>3, <3>1 DEF Co!Done, Co!Tokens, Co!Bounds, Co!History
  <2> QED BY <1>13, <2>2, <2>3
<1>14. ASSUME NEW c \in Co!Programs, Co!Starts(c) PROVE Co!CodexTypeOK'
  <2>1. v4' \in [Co!Programs -> Co!Cred \cup {NoOne}] BY <1>14 DEF Co!Starts
  <2>2. v11' \in 0 .. MaxCodexStarts BY <1>14 DEF Co!Starts
  <2>3. v14' \in BOOLEAN BY <1>14 DEF Co!Starts
  <2> QED BY <1>14, <2>1, <2>2, <2>3 DEF Co!Starts, Co!Tokens
<1>15. ASSUME NEW c \in Co!Programs, Co!Ends(c) PROVE Co!CodexTypeOK'
  <2>1. v4' \in [Co!Programs -> Co!Cred \cup {NoOne}] BY <1>15 DEF Co!Ends
  <2> QED BY <1>15, <2>1 DEF Co!Ends, Co!Tokens, Co!Bounds, Co!History
<1>16. ASSUME NEW c \in Co!Programs, Co!Refreshes(c) PROVE Co!CodexTypeOK'
  <2>1. v4[c] \in Co!Cred BY <1>16 DEF Co!Refreshes
  <2>2. CASE /\ v4[c].token = v3[v4[c].of] /\ v3[v4[c].of] < MaxCodexTokens
             /\ v3' = [v3 EXCEPT ![v4[c].of] = @ + 1]
             /\ v4' = [v4 EXCEPT ![c].token = @ + 1] /\ v1' = v4'[c]
             /\ UNCHANGED v15
    <3>1. [v4[c] EXCEPT !.token = @ + 1] \in Co!Cred BY <2>1, <2>2 DEF Co!Cred, Co!Token
    <3>2. v4' \in [Co!Programs -> Co!Cred \cup {NoOne}] /\ v4'[c] \in Co!Cred BY <2>2, <3>1
    <3>3. v3' \in [People -> Co!Token] BY <2>1, <2>2 DEF Co!Token
    <3> QED BY <1>16, <2>2, <3>2, <3>3 DEF Co!Refreshes, Co!Bounds
  <2>3. CASE v15' = TRUE /\ UNCHANGED <<v3, v4, v1>>
    BY <1>16, <2>3 DEF Co!Refreshes, Co!Bounds
  <2> QED BY <1>16, <2>2, <2>3 DEF Co!Refreshes
<1>17. ASSUME NEW a \in People, Co!CodexSwap(a) PROVE Co!CodexTypeOK'
  <2>1. v2' \in [People -> Co!Token] BY <1>17 DEF Co!CodexSwap
  <2>2. v1' \in Co!Cred BY <1>17, <2>1 DEF Co!CodexSwap
  <2>3. v12' \in 0 .. MaxCodexSwaps BY <1>17 DEF Co!CodexSwap
  <2> QED BY <1>17, <2>1, <2>2, <2>3 DEF Co!CodexSwap, Co!History
<1>18. CASE UNCHANGED Co!codexVars BY <1>18 DEF Co!codexVars
<1> QED
  BY <1>6, <1>7, <1>8, <1>9, <1>10, <1>11, <1>12, <1>13, <1>14, <1>15, <1>16, <1>17, <1>18
     DEF Co!Next

LEMMA CoAskers == ASSUME Co!CodexTypeOK, Co!AskersKept, [Co!Next]_(Co!codexVars)
    PROVE Co!AskersKept'
<1>0. /\ v1 \in Co!Cred /\ v5 \in [Agents -> Co!CodexSteps] /\ v8 \in [Agents -> BOOLEAN]
      /\ v6 \in [Agents -> Co!Cred \cup {NoOne}] /\ v7 \in [Agents -> Co!Cred \cup {NoOne}]
      /\ v9 \in [Agents -> People \cup {NoOne}]
  BY DEF Co!CodexTypeOK
<1>1. \A k \in Agents : Co!AskerFits(k) BY DEF Co!AskersKept
<1> USE <1>0, CoCreds
<1>2. ASSUME NEW k \in Agents, Co!AskerFits(k)',
             \A l \in Agents \ {k} :
                /\ v5'[l] = v5[l] /\ v7'[l] = v7[l] /\ v8'[l] = v8[l]
                /\ v9'[l] = v9[l] /\ v6'[l] = v6[l]
      PROVE  Co!AskersKept'
  <2>1. ASSUME NEW l \in Agents \ {k} PROVE Co!AskerFits(l)' BY <1>1, <1>2, <2>1 DEF Co!AskerFits
  <2> QED BY <1>2, <2>1 DEF Co!AskersKept
<1>3. ASSUME UNCHANGED <<v5, v7, v8, v9, v6>> PROVE Co!AskersKept'
  BY <1>1, <1>3 DEF Co!AskersKept, Co!AskerFits
<1>4. ASSUME NEW k \in Agents, Co!Ask(k) PROVE Co!AskersKept'
  <2>1. Co!AskerFits(k)' BY <1>1, <1>4 DEF Co!Ask, Co!Goto, Co!AskerFits
  <2> QED BY <1>2, <1>4, <2>1 DEF Co!Ask, Co!Goto
<1>5. ASSUME NEW k \in Agents, Co!Socket(k) PROVE Co!AskersKept'
  <2>1. Co!AskerFits(k) BY <1>1
  <2>2. Co!AskerFits(k)'
    BY <1>5, <2>1 DEF Co!Socket, Co!Answered, Co!Attributed, Co!Failed, Co!Goto, Co!AskerFits
  <2>3. \A l \in Agents \ {k} : v5'[l] = v5[l] /\ v9'[l] = v9[l]
    BY <1>5 DEF Co!Socket, Co!Answered, Co!Failed, Co!Goto
  <2> QED BY <1>2, <1>5, <2>2, <2>3 DEF Co!Socket
<1>6. ASSUME NEW k \in Agents, Co!Check(k) PROVE Co!AskersKept'
  <2>1. Co!AskerFits(k)' BY <1>1, <1>6 DEF Co!Check, Co!Goto, Co!AskerFits
  <2> QED BY <1>2, <1>6, <2>1 DEF Co!Check, Co!Goto
<1>7. ASSUME NEW k \in Agents, Co!Spawn(k) PROVE Co!AskersKept'
  <2>1. Co!AskerFits(k) BY <1>1
  <2>2. Co!AskerFits(k)' BY <1>7, <2>1 DEF Co!Spawn, Co!Closed, Co!Goto, Co!AskerFits
  <2> QED BY <1>2, <1>7, <2>2 DEF Co!Spawn, Co!Closed, Co!Goto
<1>8. ASSUME NEW k \in Agents, Co!Query(k) PROVE Co!AskersKept'
  <2>1. Co!AskerFits(k) BY <1>1
  <2>2. Co!AskerFits(k)'
    <3>1. CASE Co!Goto(k, "Refresh") /\ v8[k] /\ UNCHANGED <<v7, v8, v9>>
      BY <1>8, <2>1, <3>1 DEF Co!Query, Co!Goto, Co!AskerFits
    <3>2. CASE Co!Closed(k) /\ (Co!Answered(k, v7[k].of) \/ Co!Failed(k, "Direct"))
      BY <1>8, <2>1, <3>2 DEF Co!Query, Co!Answered, Co!Attributed, Co!Failed, Co!Goto, Co!Closed,
         Co!AskerFits
    <3> QED BY <1>8, <3>1, <3>2 DEF Co!Query
  <2>3. \A l \in Agents \ {k} :
           /\ v5'[l] = v5[l] /\ v9'[l] = v9[l]
           /\ v7'[l] = v7[l] /\ v8'[l] = v8[l]
    BY <1>8 DEF Co!Query, Co!Answered, Co!Failed, Co!Goto, Co!Closed
  <2> QED BY <1>2, <1>8, <2>2, <2>3 DEF Co!Query
<1>9. ASSUME NEW k \in Agents, Co!Refresh(k) PROVE Co!AskersKept'
  <2>1. Co!AskerFits(k) BY <1>1
  <2>2. Co!AskerFits(k)'
    <3>1. CASE Co!Closed(k) /\ Co!Goto(k, "Direct")
      BY <1>9, <2>1, <3>1 DEF Co!Refresh, Co!Goto, Co!Closed, Co!AskerFits
    <3>2. CASE /\ v7' = [v7 EXCEPT ![k].token = @ + 1] /\ Co!Goto(k, "Save") /\ UNCHANGED v8
               /\ v7[k].token = v3[v7[k].of] /\ v3[v7[k].of] < MaxCodexTokens
      <4>1. v7'[k] \in Co!Cred
        <5>1. v7[k] \in Co!Cred BY <1>9, <2>1 DEF Co!Refresh, Co!AskerFits
        <5>2. [v7[k] EXCEPT !.token = @ + 1] \in Co!Cred
          BY <3>2, <5>1, CoConstants DEF Co!Cred, Co!Token
        <5> QED BY <3>2, <5>2
      <4> QED BY <1>9, <2>1, <3>2, <4>1 DEF Co!Refresh, Co!Goto, Co!AskerFits
    <3> QED BY <1>9, <3>1, <3>2 DEF Co!Refresh
  <2>3. \A l \in Agents \ {k} :
           v5'[l] = v5[l] /\ v7'[l] = v7[l] /\ v8'[l] = v8[l]
    BY <1>9 DEF Co!Refresh, Co!Goto, Co!Closed
  <2> QED BY <1>2, <1>9, <2>2, <2>3 DEF Co!Refresh
<1>10. ASSUME NEW k \in Agents, Co!Save(k) \/ Co!Direct(k) \/ Co!Done(k) PROVE Co!AskersKept'
  <2>1. Co!AskerFits(k) BY <1>1
  <2>2. Co!AskerFits(k)' BY <1>10, <2>1 DEF Co!Save, Co!Direct, Co!Done, Co!Goto, Co!AskerFits
  <2>3. \A l \in Agents \ {k} :
           /\ v5'[l] = v5[l] /\ v9'[l] = v9[l] /\ v6'[l] = v6[l]
           /\ v7'[l] = v7[l] /\ v8'[l] = v8[l]
    BY <1>10 DEF Co!Save, Co!Direct, Co!Done, Co!Goto
  <2> QED BY <1>2, <2>2, <2>3
<1>11. CASE \/ UNCHANGED Co!codexVars
            \/ \E c \in Co!Programs : Co!Starts(c) \/ Co!Ends(c) \/ Co!Refreshes(c)
            \/ \E a \in People : Co!CodexSwap(a)
  BY <1>3, <1>11 DEF Co!codexVars, Co!Starts, Co!Ends, Co!Refreshes, Co!CodexSwap
<1> QED BY <1>4, <1>5, <1>6, <1>7, <1>8, <1>9, <1>10, <1>11 DEF Co!Next

LEMMA CoAlone ==
    ASSUME CodexInv, [Co!Next]_(Co!codexVars) PROVE Co!AloneKept' /\ Co!CodexTokenKept'
<1>0. /\ v1 \in Co!Cred /\ v2 \in [People -> Co!Token] /\ v3 \in [People -> Co!Token]
      /\ v4 \in [Co!Programs -> Co!Cred \cup {NoOne}] /\ v5 \in [Agents -> Co!CodexSteps]
      /\ v7 \in [Agents -> Co!Cred \cup {NoOne}] /\ v8 \in [Agents -> BOOLEAN]
      /\ v16 \subseteq People /\ v14 \in BOOLEAN /\ v15 \in BOOLEAN
  BY DEF CodexInv, Co!CodexTypeOK
<1>1. \A k \in Agents : Co!AskerFits(k) BY DEF CodexInv, Co!AskersKept
<1>2. ~v14 =>
        /\ \A k \in Agents : Co!Alone(k)
        /\ \A c \in Co!Programs : Co!LoadedNewest(c)
        /\ v15 => v16 # {}
        /\ \A a \in People \ v16 :
              \/ Co!NextToken(a) = v3[a]
              \/ \E k \in Agents : v5[k] = "Save" /\ v7[k] = [of |-> a, token |-> v3[a]]
  BY DEF CodexInv, Co!AloneKept, Co!CodexTokenKept
<1> USE <1>0, CoCreds
\* No token is touched, by commands that do not refresh one.
<1>3. ASSUME v14 => v14', UNCHANGED <<v1, v2, v3, v4, v15, v16>>,
             NEW k \in Agents,
             \A l \in Agents \ {k} :
                v5'[l] = v5[l] /\ v7'[l] = v7[l] /\ v8'[l] = v8[l],
             v5[k] # "Save", v5'[k] # "Save", ~v14' => Co!Alone(k)',
             ~v14' /\ v8'[k] /\ ~v8[k] => \A l \in Agents : v7[l] = NoOne
      PROVE  Co!AloneKept' /\ Co!CodexTokenKept'
  <2> SUFFICES ASSUME ~v14' PROVE Co!AloneKept' /\ Co!CodexTokenKept'
    BY DEF Co!AloneKept, Co!CodexTokenKept
  <2>1. ASSUME NEW l \in Agents \ {k} PROVE Co!Alone(l)'
    BY <1>2, <1>3, <2>1 DEF Co!Alone
  <2>2. \A c \in Co!Programs : Co!LoadedNewest(c)' BY <1>2, <1>3 DEF Co!LoadedNewest
  <2>3. Co!CodexTokenKept'
    <3>1. \A l \in Agents : v5[l] = "Save" => v5'[l] = "Save" /\ v7'[l] = v7[l]
      BY <1>3
    <3>2. \A a : Co!NextToken(a)' = Co!NextToken(a) BY <1>3 DEF Co!NextToken
    <3> QED BY <1>2, <1>3, <3>1, <3>2 DEF Co!CodexTokenKept
  <2> QED BY <1>3, <2>1, <2>2, <2>3 DEF Co!AloneKept
<1>4. ASSUME NEW k \in Agents, Co!Ask(k) \/ Co!Socket(k) \/ Co!Direct(k) \/ Co!Done(k)
      PROVE Co!AloneKept' /\ Co!CodexTokenKept'
  <2>1. UNCHANGED <<v1, v2, v3, v4, v7, v8, v14, v15, v16>>
    BY <1>4 DEF Co!Ask, Co!Socket, Co!Direct, Co!Done, Co!Tokens, Co!History
  <2>2. v5[k] # "Save" /\ v5'[k] # "Save" /\ \A l \in Agents \ {k} : v5'[l] = v5[l]
    BY <1>4 DEF Co!Ask, Co!Socket, Co!Direct, Co!Done, Co!Answered, Co!Failed, Co!Goto
  <2>3. ~v14 => Co!Alone(k)' BY <1>2, <2>1, <2>2 DEF Co!Alone
  <2> QED BY <1>3, <2>1, <2>2, <2>3
<1>5. ASSUME NEW k \in Agents, Co!Check(k) PROVE Co!AloneKept' /\ Co!CodexTokenKept'
  <2>1. /\ UNCHANGED <<v1, v2, v3, v4, v7, v14, v15, v16>>
        /\ v5[k] = "Check" /\ v5'[k] = "Spawn"
    BY <1>5 DEF Co!Check, Co!Goto, Co!Tokens, Co!History
  <2>2. \A l \in Agents \ {k} : v5'[l] = v5[l] /\ v8'[l] = v8[l]
    BY <1>5 DEF Co!Check, Co!Goto
  <2>3. v8'[k] => (\A c \in Co!Programs : v4[c] = NoOne) /\ \A l \in Agents : v7[l] = NoOne
    BY <1>5 DEF Co!Check
  <2>4. Co!Alone(k)'
    <3>1. v7[k] = NoOne BY <1>1, <2>1 DEF Co!AskerFits
    <3> QED BY <2>1, <2>3, <3>1 DEF Co!Alone
  <2> QED BY <1>3, <2>1, <2>2, <2>3, <2>4

<1>6. ASSUME NEW k \in Agents, Co!Spawn(k) PROVE Co!AloneKept' /\ Co!CodexTokenKept'
  <2>1. /\ UNCHANGED <<v1, v2, v3, v4, v15, v16>>
        /\ v5[k] = "Spawn" /\ v5'[k] # "Save" /\ (v14 => v14')
    BY <1>6 DEF Co!Spawn, Co!Goto, Co!Tokens
  <2>2. \A l \in Agents \ {k} :
           v5'[l] = v5[l] /\ v7'[l] = v7[l] /\ v8'[l] = v8[l]
    BY <1>6 DEF Co!Spawn, Co!Goto, Co!Closed
  <2>3. v8'[k] => v8[k] /\ v7'[k] = v1 BY <1>6 DEF Co!Spawn, Co!Closed
  <2>4. ~v14' => Co!Alone(k)'
    <3>1. ~v14' /\ v8[k] => \A l \in Agents \ {k} : ~v8[l] BY <1>6 DEF Co!Spawn
    <3>2. ~v14' /\ v8[k] => \A c \in Co!Programs : v4[c] = NoOne BY <1>2, <2>1 DEF Co!Alone
    <3> QED BY <2>1, <2>2, <2>3, <3>1, <3>2 DEF Co!Alone
  <2> QED BY <1>3, <2>1, <2>2, <2>3, <2>4
<1>7. ASSUME NEW k \in Agents, Co!Query(k) PROVE Co!AloneKept' /\ Co!CodexTokenKept'
  <2>1. /\ UNCHANGED <<v1, v2, v3, v4, v14, v15, v16>> /\ v5[k] = "Query"
        /\ v5'[k] # "Save"
    BY <1>7 DEF Co!Query, Co!Answered, Co!Failed, Co!Goto, Co!Tokens, Co!History
  <2>2. \A l \in Agents \ {k} :
           v5'[l] = v5[l] /\ v7'[l] = v7[l] /\ v8'[l] = v8[l]
    BY <1>7 DEF Co!Query, Co!Answered, Co!Failed, Co!Goto, Co!Closed
  <2>3. v8'[k] => v8[k] /\ v7'[k] = v7[k] BY <1>7 DEF Co!Query, Co!Closed
  <2>4. ~v14 => Co!Alone(k)' BY <1>2, <2>1, <2>2, <2>3 DEF Co!Alone
  <2> QED BY <1>3, <2>1, <2>2, <2>3, <2>4
\* Who may refresh is the only one who does.
<1>8. ASSUME NEW k \in Agents, v5[k] \in {"Refresh", "Save"}, ~v14
      PROVE  /\ v7[k] \in Co!Cred /\ Co!Alone(k) /\ v8[k]
             /\ \A c \in Co!Programs : v4[c] = NoOne
             /\ \A l \in Agents \ {k} : ~v8[l] /\ v5[l] # "Save"
             /\ v1.of # v7[k].of => v1.token = v2[v1.of]
             /\ v5[k] = "Save" => v7[k].token = v3[v7[k].of]
  BY <1>1, <1>2, <1>8 DEF Co!AskerFits, Co!Alone
<1>9. ASSUME NEW k \in Agents, Co!Refresh(k) PROVE Co!AloneKept' /\ Co!CodexTokenKept'
  <2> SUFFICES ASSUME ~v14 PROVE Co!AloneKept' /\ Co!CodexTokenKept'
    BY <1>9 DEF Co!Refresh, Co!AloneKept, Co!CodexTokenKept
  <2>1. /\ UNCHANGED <<v1, v2, v4, v14, v15>> /\ v5[k] = "Refresh"
        /\ v16 \subseteq v16'
    BY <1>9 DEF Co!Refresh
  <2>2. \A l \in Agents \ {k} :
           v5'[l] = v5[l] /\ v7'[l] = v7[l] /\ v8'[l] = v8[l]
    BY <1>9 DEF Co!Refresh, Co!Goto, Co!Closed
  <2>3. \/ Co!Closed(k) /\ v5'[k] = "Direct"
        \/ /\ v3' = [v3 EXCEPT ![v7[k].of] = @ + 1] /\ v7[k].token = v3[v7[k].of]
           /\ v7' = [v7 EXCEPT ![k].token = @ + 1] /\ v5'[k] = "Save"
           /\ UNCHANGED v8
    BY <1>9 DEF Co!Refresh, Co!Goto
  <2>4. \A l \in Agents : Co!Alone(l)'
    <3>1. CASE Co!Closed(k)
      <4>1. ~v8'[k] BY <3>1 DEF Co!Closed
      <4> QED BY <1>8, <2>1, <2>2, <4>1 DEF Co!Alone
    <3>2. CASE /\ v3' = [v3 EXCEPT ![v7[k].of] = @ + 1] /\ v7[k].token = v3[v7[k].of]
               /\ v7' = [v7 EXCEPT ![k].token = @ + 1] /\ UNCHANGED v8
      <4>1. v7'[k].of = v7[k].of /\ v7'[k].token = v3'[v7[k].of] BY <1>8, <2>1, <3>2 DEF Co!Cred
      <4>2. Co!Alone(k)' BY <1>8, <2>1, <2>2, <3>2, <4>1 DEF Co!Alone
      <4>3. ASSUME NEW l \in Agents \ {k} PROVE Co!Alone(l)' BY <1>8, <2>1, <2>2, <4>3 DEF Co!Alone
      <4> QED BY <4>2, <4>3
    <3> QED BY <2>3, <3>1, <3>2
  <2>5. \A c \in Co!Programs : Co!LoadedNewest(c)' BY <1>8, <2>1 DEF Co!LoadedNewest
  <2>6. Co!CodexTokenKept'
    <3>1. ASSUME NEW a \in People \ v16'
          PROVE Co!NextToken(a)' = Co!NextToken(a) /\ Co!NextToken(a) = v3[a]
      <4>1. ~ \E l \in Agents : v5[l] = "Save" BY <1>8, <2>1
      <4> QED BY <1>2, <2>1, <3>1, <4>1 DEF Co!NextToken
    <3>2. ASSUME NEW a \in People \ v16', v3'[a] # v3[a]
          PROVE  v5'[k] = "Save" /\ v7'[k] = [of |-> a, token |-> v3'[a]]
      <4>1. a = v7[k].of /\ v3' = [v3 EXCEPT ![v7[k].of] = @ + 1] /\ v7[k].token = v3[a]
        BY <1>8, <1>9, <2>1, <3>2 DEF Co!Refresh
      <4>2. v7' = [v7 EXCEPT ![k].token = @ + 1] /\ v5'[k] = "Save"
        BY <1>9, <2>1, <3>2, <4>1 DEF Co!Refresh, Co!Goto
      <4>3. v7[k] = [of |-> v7[k].of, token |-> v7[k].token] BY <1>8, <2>1 DEF Co!Cred
      <4>4. v7'[k] = [of |-> a, token |-> v3[a] + 1] BY <4>1, <4>2, <4>3
      <4> QED BY <4>1, <4>2, <4>4
    <3> QED BY <1>2, <2>1, <3>1, <3>2 DEF Co!CodexTokenKept
  <2> QED BY <2>4, <2>5, <2>6 DEF Co!AloneKept
<1>10. ASSUME NEW k \in Agents, Co!Save(k) PROVE Co!AloneKept' /\ Co!CodexTokenKept'
  <2> SUFFICES ASSUME ~v14 PROVE Co!AloneKept' /\ Co!CodexTokenKept'
    BY <1>10 DEF Co!Save, Co!AloneKept, Co!CodexTokenKept, Co!History
  <2>1. /\ UNCHANGED <<v2, v3, v4, v7, v14, v15, v16>> /\ v5[k] = "Save"
        /\ v1' = v7[k] /\ v8'[k] = FALSE
    BY <1>10 DEF Co!Save, Co!History
  <2>2. \A l \in Agents \ {k} : v5'[l] = v5[l] /\ v8'[l] = v8[l]
    BY <1>10 DEF Co!Save, Co!Goto
  <2>3. \A l \in Agents : ~v8'[l] BY <1>8, <2>1, <2>2
  <2>4. \A c \in Co!Programs : Co!LoadedNewest(c)' BY <1>8, <2>1 DEF Co!LoadedNewest
  <2>5. ASSUME NEW a \in People \ v16 PROVE Co!NextToken(a)' = v3[a]
    <3>1. CASE v7[k].of = a
      BY <1>8, <2>1, <3>1 DEF Co!NextToken
    <3>2. CASE v7[k].of # a
      <4>1. Co!NextToken(a) = v3[a]
        <5>1. \/ Co!NextToken(a) = v3[a]
              \/ v7[k] = [of |-> a, token |-> v3[a]]
          BY <1>2, <1>8, <2>1
        <5> QED BY <3>2, <5>1
      <4> QED BY <1>8, <2>1, <3>2, <4>1 DEF Co!NextToken
    <3> QED BY <3>1, <3>2
  <2> QED BY <1>2, <2>1, <2>3, <2>4, <2>5 DEF Co!AloneKept, Co!Alone, Co!CodexTokenKept

<1>11. ASSUME NEW c \in Co!Programs, Co!Starts(c) PROVE Co!AloneKept' /\ Co!CodexTokenKept'
  <2> SUFFICES ASSUME ~v14' PROVE Co!AloneKept' /\ Co!CodexTokenKept'
    BY DEF Co!AloneKept, Co!CodexTokenKept
  <2>1. /\ UNCHANGED <<v1, v2, v3, v5, v7, v8, v15, v16>>
        /\ v4' = [v4 EXCEPT ![c] = v1] /\ ~v14 /\ \A k \in Agents : ~v8[k]
    BY <1>11 DEF Co!Starts, Co!Tokens
  <2>2. \A a \in People \ v16 : Co!NextToken(a) = v3[a] BY <1>1, <1>2, <2>1 DEF Co!AskerFits
  <2>3. ASSUME NEW d \in Co!Programs PROVE Co!LoadedNewest(d)'
    <3>1. v1.of \notin v16 => v1.token = v3[v1.of] BY <2>2 DEF Co!NextToken
    <3> QED BY <1>2, <2>1, <3>1 DEF Co!LoadedNewest
  <2>4. \A k \in Agents : Co!Alone(k)' BY <2>1 DEF Co!Alone
  <2>5. Co!CodexTokenKept' BY <1>2, <2>1, <2>2 DEF Co!CodexTokenKept, Co!NextToken
  <2> QED BY <2>3, <2>4, <2>5 DEF Co!AloneKept
<1>12. ASSUME NEW c \in Co!Programs, Co!Ends(c) PROVE Co!AloneKept' /\ Co!CodexTokenKept'
  <2> SUFFICES ASSUME ~v14 PROVE Co!AloneKept' /\ Co!CodexTokenKept'
    BY <1>12 DEF Co!Ends, Co!AloneKept, Co!CodexTokenKept, Co!History
  <2>1. /\ UNCHANGED <<v1, v2, v3, v5, v7, v8, v14, v15, v16>>
        /\ v4' = [v4 EXCEPT ![c] = NoOne]
    BY <1>12 DEF Co!Ends, Co!Tokens, Co!History
  <2>2. \A d \in Co!Programs : Co!LoadedNewest(d)' BY <1>2, <2>1 DEF Co!LoadedNewest
  <2>3. \A k \in Agents : Co!Alone(k)' BY <1>2, <2>1 DEF Co!Alone
  <2>4. Co!CodexTokenKept' BY <1>2, <2>1 DEF Co!CodexTokenKept, Co!NextToken
  <2> QED BY <2>2, <2>3, <2>4 DEF Co!AloneKept
\* A program refreshes beside no other, and no app-server may.
<1>13. ASSUME NEW c \in Co!Programs, Co!Refreshes(c) PROVE Co!AloneKept' /\ Co!CodexTokenKept'
  <2> SUFFICES ASSUME ~v14 PROVE Co!AloneKept' /\ Co!CodexTokenKept'
    BY <1>13 DEF Co!Refreshes, Co!AloneKept, Co!CodexTokenKept
  <2>1. /\ UNCHANGED <<v2, v5, v7, v8, v14, v16>>
        /\ v4[c] \in Co!Cred /\ v1.of = v4[c].of
        /\ \A d \in Co!Programs \ {c} : v4[d] # NoOne => v4[d].of # v4[c].of
    BY <1>13 DEF Co!Refreshes
  <2>2. \A k \in Agents : ~v8[k] BY <1>2, <2>1 DEF Co!Alone
  <2>3. \A k \in Agents : Co!Alone(k)' BY <2>1, <2>2 DEF Co!Alone
  <2>4. \A a \in People \ v16 : Co!NextToken(a) = v3[a] BY <1>1, <1>2, <2>2 DEF Co!AskerFits
  <2>5. CASE /\ v4[c].token = v3[v4[c].of]
             /\ v3' = [v3 EXCEPT ![v4[c].of] = @ + 1]
             /\ v4' = [v4 EXCEPT ![c].token = @ + 1] /\ v1' = v4'[c]
             /\ UNCHANGED v15
    <3>1. v4'[c] = [of |-> v4[c].of, token |-> v3'[v4[c].of]]
      <4>1. v4[c] = [of |-> v4[c].of, token |-> v4[c].token] BY <2>1 DEF Co!Cred
      <4>2. v4'[c] = [of |-> v4[c].of, token |-> v4[c].token + 1] BY <2>5, <4>1
      <4>3. v4[c].of \in People BY <2>1
      <4> QED BY <2>5, <4>2, <4>3
    <3>2. ASSUME NEW d \in Co!Programs PROVE Co!LoadedNewest(d)'
      <4>1. CASE d = c BY <3>1, <4>1 DEF Co!LoadedNewest
      <4>2. CASE d # c BY <1>2, <2>1, <2>5, <4>2 DEF Co!LoadedNewest
      <4> QED BY <4>1, <4>2
    <3>3. ASSUME NEW a \in People \ v16 PROVE Co!NextToken(a)' = v3'[a]
      <4>1. CASE a = v4[c].of BY <2>5, <3>1, <4>1 DEF Co!NextToken
      <4>2. CASE a # v4[c].of
        <5>1. v3'[a] = v3[a] /\ v1'.of = v4[c].of BY <2>5, <3>1, <4>2
        <5>2. Co!NextToken(a)' = Co!NextToken(a) BY <2>1, <4>2, <5>1 DEF Co!NextToken
        <5> QED BY <2>4, <5>1, <5>2
      <4> QED BY <4>1, <4>2
    <3> QED BY <1>2, <2>1, <2>3, <2>5, <3>2, <3>3 DEF Co!AloneKept, Co!CodexTokenKept
  <2>6. CASE v4[c].token # v3[v4[c].of] /\ UNCHANGED <<v3, v4, v1>>
    <3>1. v16 # {} BY <1>2, <2>1, <2>6 DEF Co!LoadedNewest
    <3>2. \A d \in Co!Programs : Co!LoadedNewest(d)' BY <1>2, <2>1, <2>6 DEF Co!LoadedNewest
    <3>3. Co!CodexTokenKept' BY <2>1, <2>4, <2>6, <3>1 DEF Co!CodexTokenKept, Co!NextToken
    <3> QED BY <2>3, <3>2, <3>3 DEF Co!AloneKept
  <2> QED BY <1>13, <2>5, <2>6 DEF Co!Refreshes
<1>14. ASSUME NEW a \in People, Co!CodexSwap(a) PROVE Co!AloneKept' /\ Co!CodexTokenKept'
  <2> SUFFICES ASSUME ~v14 PROVE Co!AloneKept' /\ Co!CodexTokenKept'
    BY <1>14 DEF Co!CodexSwap, Co!AloneKept, Co!CodexTokenKept, Co!History
  <2>1. /\ UNCHANGED <<v3, v4, v5, v7, v8, v14, v15, v16>>
        /\ v2' = [v2 EXCEPT ![v1.of] = v1.token]
        /\ v1' = [of |-> a, token |-> v2'[a]] /\ a # v1.of
    BY <1>14 DEF Co!CodexSwap, Co!History
  <2>2. v1'.of = a /\ v1'.token = v2'[a] BY <2>1
  <2>3. \A k \in Agents : Co!Alone(k)' BY <1>2, <2>1, <2>2 DEF Co!Alone
  <2>4. \A c \in Co!Programs : Co!LoadedNewest(c)' BY <1>2, <2>1 DEF Co!LoadedNewest
  <2>5. \A b \in People : Co!NextToken(b)' = Co!NextToken(b) BY <2>1, <2>2 DEF Co!NextToken
  <2>6. Co!CodexTokenKept' BY <1>2, <2>1, <2>5 DEF Co!CodexTokenKept
  <2> QED BY <2>3, <2>4, <2>6 DEF Co!AloneKept
<1>15. CASE UNCHANGED Co!codexVars
  <2>1. UNCHANGED <<v1, v2, v3, v4, v5, v7, v8, v14, v15, v16>>
    BY <1>15 DEF Co!codexVars
  <2>2. Co!AloneKept' BY <1>2, <2>1 DEF Co!AloneKept, Co!Alone, Co!LoadedNewest
  <2>3. Co!CodexTokenKept' BY <1>2, <2>1 DEF Co!CodexTokenKept, Co!NextToken
  <2> QED BY <2>2, <2>3
<1> QED BY <1>4, <1>5, <1>6, <1>7, <1>9, <1>10, <1>11, <1>12, <1>13, <1>14, <1>15 DEF Co!Next

LEMMA CoNext == CodexInv /\ [Co!Next]_(Co!codexVars) => CodexInv'
  BY CoTypes, CoAskers, CoAlone DEF CodexInv

-----------------------------------------------------------------------------
(* Kimi                                                                       *)

\* What of the types the rest needs; the lock's age is left out.
KimiTypes ==
    /\ v2 \in Ki!Cred /\ v4 \in People
    /\ v3 \in [People -> Ki!Token] /\ v5 \in [People -> Ki!Token]
    /\ v7 \in [id : Nat, stale : BOOLEAN] \cup {NoOne} /\ v8 \in Nat
    /\ v9 \in [Agents -> Ki!KimiSteps] /\ v10 \in [Agents -> Ki!Cred \cup {NoOne}]
    /\ v11 \in [Agents -> Ki!Token] /\ v13 \in [Agents -> Ki!Cred \cup {NoOne}]
    /\ v17 \in BOOLEAN /\ v18 \in BOOLEAN /\ v19 \subseteq People

KimiInv ==
    /\ KimiTypes /\ Ki!RecoveriesKept /\ Ki!InsideAlone /\ Ki!NoneNewer /\ Ki!WritesKept
        /\ Ki!KimiTokenKept

LEMMA KiCreds ==
    /\ \A t \in Ki!Cred : t # NoOne /\ t.of \in People /\ t.token \in Ki!Token /\ t.token \in Nat
    /\ \A a \in People, n \in Ki!Token : [of |-> a, token |-> n] \in Ki!Cred
    /\ Ki!Token \subseteq Nat /\ 0 \in Ki!Token /\ MaxKimiTokens \in Nat
    /\ \A l \in [id : Nat, stale : BOOLEAN] : l # NoOne
<1>1. MaxKimiTokens \in Nat BY KimiConstants DEF Ki!KimiAssumption
<1>2. Ki!Token \subseteq Nat /\ 0 \in Ki!Token BY <1>1 DEF Ki!Token
<1>3. NoOne \notin [of : People, token : Nat] /\ NoOne \notin [id : Nat, stale : BOOLEAN]
  BY KimiConstants DEF Ki!KimiAssumption
<1>4. \A t \in Ki!Cred : t \in [of : People, token : Nat] BY <1>2 DEF Ki!Cred
<1>5. \A t \in Ki!Cred : t.of \in People /\ t.token \in Ki!Token BY DEF Ki!Cred
<1>6. \A a \in People, n \in Ki!Token : [of |-> a, token |-> n] \in Ki!Cred BY DEF Ki!Cred
<1> QED BY <1>1, <1>2, <1>3, <1>4, <1>5, <1>6

LEMMA KiInit == Ki!Init => KimiInv
<1> SUFFICES ASSUME Ki!Init PROVE KimiInv OBVIOUS
<1> USE KiCreds DEF Ki!Init
<1>1. KimiTypes
  <2>1. "Idle" \in Ki!KimiSteps BY DEF Ki!KimiSteps
  <2> QED BY <2>1 DEF KimiTypes
<1>2. Ki!RecoveriesKept BY DEF Ki!RecoveriesKept, Ki!RecoveryFits
<1>3. Ki!InsideAlone BY DEF Ki!InsideAlone, Ki!Holding, Ki!Inside
<1>4. Ki!NoneNewer BY DEF Ki!NoneNewer
<1>5. Ki!WritesKept BY DEF Ki!WritesKept, Ki!WritesNewest
<1>6. Ki!KimiTokenKept BY DEF Ki!KimiTokenKept, Ki!NextToken
<1> QED BY <1>1, <1>2, <1>3, <1>4, <1>5, <1>6 DEF KimiInv

LEMMA KiTypes == ASSUME KimiTypes, Ki!RecoveriesKept, [Ki!Next]_(Ki!kimiVars) PROVE KimiTypes'
<1> USE KiCreds DEF KimiTypes
<1>0. \A k \in Agents : Ki!RecoveryFits(k) BY DEF Ki!RecoveriesKept
<1>1. Ki!KimiSteps = {"Read", "Post", "Write", "Clear", "Mark", "Leave", "Idle", "Try", "Look",
        "Recheck", "Rename"}
  BY DEF Ki!KimiSteps, Ki!Inside
<1>2. \A k \in Agents, s \in Ki!KimiSteps : Ki!Goto(k, s) => v9' \in [Agents -> Ki!KimiSteps]
  BY DEF Ki!Goto
<1>3. \A k \in Agents : Ki!Again(k) => v9' \in [Agents -> Ki!KimiSteps] BY <1>1, <1>2 DEF Ki!Again
<1>4. \A n \in Nat : Ki!Lock(n) \in [id : Nat, stale : BOOLEAN] BY DEF Ki!Lock
<1>5. ASSUME NEW k \in Agents, Ki!Unauthorized(k) PROVE KimiTypes'
  <2>1. v9' \in [Agents -> Ki!KimiSteps] BY <1>1, <1>2, <1>5 DEF Ki!Unauthorized
  <2>2. v10' \in [Agents -> Ki!Cred \cup {NoOne}] BY <1>5 DEF Ki!Unauthorized
  <2> QED BY <1>5, <2>1, <2>2 DEF Ki!Unauthorized, Ki!Stores, Ki!Locking, Ki!History
<1>6. ASSUME NEW k \in Agents, Ki!Try(k) PROVE KimiTypes'
  <2>1. v9' \in [Agents -> Ki!KimiSteps] BY <1>1, <1>2, <1>6 DEF Ki!Try
  <2>2. v7' \in [id : Nat, stale : BOOLEAN] \cup {NoOne} /\ v8' \in Nat BY <1>4, <1>6 DEF Ki!Try
  <2> QED BY <1>6, <2>1, <2>2 DEF Ki!Try, Ki!Stores, Ki!Own, Ki!History
<1>7. ASSUME NEW k \in Agents, Ki!Look(k) \/ Ki!Recheck(k) \/ Ki!Rename(k) PROVE KimiTypes'
  <2>1. v9' \in [Agents -> Ki!KimiSteps]
    <3>1. \/ Ki!Again(k)
          \/ \E s \in {"Try", "Idle", "Recheck", "Rename"} : Ki!Goto(k, s)
      BY <1>7 DEF Ki!Look, Ki!Recheck, Ki!Rename
    <3> QED BY <1>1, <1>2, <1>3, <3>1
  <2>2. /\ UNCHANGED <<v2, v3, v4, v5, v10, v11, v13, v8, v18, v19>>
        /\ v7' \in {v7, NoOne}
    BY <1>7 DEF Ki!Look, Ki!Recheck, Ki!Rename, Ki!Stores, Ki!Own, Ki!History
  <2>3. v17' \in BOOLEAN BY <1>7 DEF Ki!Look, Ki!Recheck, Ki!Rename, Ki!History
  <2> QED BY <2>1, <2>2, <2>3
<1>8. ASSUME NEW k \in Agents, Ki!Read(k) PROVE KimiTypes'
  <2>1. v9' \in [Agents -> Ki!KimiSteps]
    <3>1. Ki!Goto(k, "Leave") \/ Ki!Goto(k, "Post") BY <1>8 DEF Ki!Read
    <3> QED BY <1>1, <1>2, <3>1
  <2>2. v13' \in [Agents -> Ki!Cred \cup {NoOne}]
    <3>1. UNCHANGED v13 \/ Ki!Retry(k, v2) BY <1>8 DEF Ki!Read
    <3> QED BY <3>1 DEF Ki!Retry
  <2> QED BY <1>8, <2>1, <2>2 DEF Ki!Read, Ki!Stores, Ki!Locking, Ki!History
<1>9. ASSUME NEW k \in Agents, Ki!Post(k) PROVE KimiTypes'
  <2>1. v10[k] \in Ki!Cred BY <1>0, <1>9 DEF Ki!Post, Ki!RecoveryFits
  <2>2. v9' \in [Agents -> Ki!KimiSteps] BY <1>1, <1>2, <1>9 DEF Ki!Post
  <2>3. v5' \in [People -> Ki!Token] BY <1>9, <2>1 DEF Ki!Post, Ki!Token
  <2>4. v11' \in [Agents -> Ki!Token]
    <3>1. v5[v10[k].of] < MaxKimiTokens => v5[v10[k].of] + 1 \in Ki!Token
      BY <2>1 DEF Ki!Token
    <3> QED BY <1>9, <3>1 DEF Ki!Post
  <2>5. v19' \subseteq People BY <1>9, <2>1 DEF Ki!Post
  <2> QED BY <1>9, <2>2, <2>3, <2>4, <2>5 DEF Ki!Post, Ki!Locking
<1>10. ASSUME NEW k \in Agents, Ki!Write(k) PROVE KimiTypes'
  <2>1. v10[k] \in Ki!Cred BY <1>0, <1>10 DEF Ki!Write, Ki!RecoveryFits
  <2>2. v9' \in [Agents -> Ki!KimiSteps] BY <1>1, <1>2, <1>10 DEF Ki!Write
  <2>3. v2' \in Ki!Cred
    <3>1. v2' = [of |-> v10[k].of, token |-> v11[k]] \/ UNCHANGED v2
      BY <1>10 DEF Ki!Write
    <3>2. v10[k].of \in People /\ v11[k] \in Ki!Token BY <2>1
    <3>3. [of |-> v10[k].of, token |-> v11[k]] \in Ki!Cred BY <3>2
    <3> QED BY <3>1, <3>3
  <2>4. v13' \in [Agents -> Ki!Cred \cup {NoOne}] BY <1>10, <2>3 DEF Ki!Write, Ki!Retry
  <2>5. v19' \subseteq People BY <1>10, <2>1 DEF Ki!Write
  <2> QED BY <1>10, <2>2, <2>3, <2>4, <2>5 DEF Ki!Write, Ki!Locking
<1>11. ASSUME NEW k \in Agents, Ki!Clear(k) \/ Ki!Mark(k) \/ Ki!Leave(k) PROVE KimiTypes'
  <2>1. v9' \in [Agents -> Ki!KimiSteps] BY <1>1, <1>2, <1>11 DEF Ki!Clear, Ki!Mark, Ki!Leave
  <2>2. v10' \in [Agents -> Ki!Cred \cup {NoOne}]
    BY <1>11 DEF Ki!Clear, Ki!Mark, Ki!Leave, Ki!Own, Ki!Forget
  <2>3. v11' \in [Agents -> Ki!Token] BY <1>11 DEF Ki!Clear, Ki!Mark, Ki!Leave, Ki!Own, Ki!Forget
  <2>4. v13' \in [Agents -> Ki!Cred \cup {NoOne}]
    BY <1>11 DEF Ki!Clear, Ki!Mark, Ki!Leave, Ki!Own, Ki!Forget
  <2>5. UNCHANGED <<v2, v3, v4, v5, v8, v18, v19>> /\ v7' \in {v7, NoOne}
    BY <1>11 DEF Ki!Clear, Ki!Mark, Ki!Leave, Ki!Stores, Ki!Locking, Ki!History
  <2>6. v17' \in BOOLEAN BY <1>11 DEF Ki!Clear, Ki!Mark, Ki!Leave, Ki!History
  <2> QED BY <2>1, <2>2, <2>3, <2>4, <2>5, <2>6
<1>12. ASSUME NEW k \in Agents, Ki!Beat(k) PROVE KimiTypes'
  <2>1. v7' \in [id : Nat, stale : BOOLEAN] \cup {NoOne} /\ v8' \in Nat BY <1>4, <1>12 DEF Ki!Beat
  <2> QED BY <1>12, <2>1 DEF Ki!Beat, Ki!Stores, Ki!Own, Ki!History
<1>13. ASSUME NEW k \in Agents, Ki!Kill(k) PROVE KimiTypes'
  <2>1. v9' \in [Agents -> Ki!KimiSteps] BY <1>1, <1>2, <1>13 DEF Ki!Kill
  <2>2. v10' \in [Agents -> Ki!Cred \cup {NoOne}] BY <1>13 DEF Ki!Kill, Ki!Forget
  <2>3. v11' \in [Agents -> Ki!Token] BY <1>13 DEF Ki!Kill, Ki!Forget
  <2>4. v13' \in [Agents -> Ki!Cred \cup {NoOne}] BY <1>13 DEF Ki!Kill, Ki!Forget
  <2>5. v19' \subseteq People
    <3>1. v9[k] = "Write" => v10[k] \in Ki!Cred BY <1>0 DEF Ki!RecoveryFits
    <3> QED BY <1>13, <3>1 DEF Ki!Kill
  <2> QED BY <1>13, <2>1, <2>2, <2>3, <2>4, <2>5 DEF Ki!Kill, Ki!Stores
<1>14. ASSUME Ki!GrowStale PROVE KimiTypes'
  <2>1. v7' \in [id : Nat, stale : BOOLEAN] BY <1>14 DEF Ki!GrowStale
  <2> QED BY <1>14, <2>1 DEF Ki!GrowStale, Ki!Stores, Ki!Own, Ki!History
<1>15. ASSUME NEW a \in People, Ki!KimiSwap(a) PROVE KimiTypes'
  <2>1. v3' \in [People -> Ki!Token] BY <1>15 DEF Ki!KimiSwap
  <2>2. v2' \in Ki!Cred BY <1>15, <2>1 DEF Ki!KimiSwap
  <2>3. v18' \in BOOLEAN BY <1>15 DEF Ki!KimiSwap
  <2> QED BY <1>15, <2>1, <2>2, <2>3 DEF Ki!KimiSwap, Ki!Locking, Ki!Own
<1>16. ASSUME NEW a \in People, Ki!RefreshParked(a) PROVE KimiTypes'
  <2>1. v5' \in [People -> Ki!Token] BY <1>16 DEF Ki!RefreshParked, Ki!Token
  <2>2. v3' \in [People -> Ki!Token] BY <1>16 DEF Ki!RefreshParked, Ki!Token
  <2> QED BY <1>16, <2>1, <2>2 DEF Ki!RefreshParked, Ki!Locking, Ki!Own, Ki!History
<1>17. CASE UNCHANGED Ki!kimiVars BY <1>17 DEF Ki!kimiVars
<1> QED
  BY <1>5, <1>6, <1>7, <1>8, <1>9, <1>10, <1>11, <1>12, <1>13, <1>14, <1>15, <1>16, <1>17
     DEF Ki!Next

LEMMA KiRecoveries == ASSUME KimiTypes, Ki!RecoveriesKept, [Ki!Next]_(Ki!kimiVars)
    PROVE Ki!RecoveriesKept'
<1>0. /\ v2 \in Ki!Cred /\ v9 \in [Agents -> Ki!KimiSteps] /\ v10 \in [Agents -> Ki!Cred
          \cup {NoOne}]
      /\ v13 \in [Agents -> Ki!Cred \cup {NoOne}]
  BY DEF KimiTypes
<1>1. \A k \in Agents : Ki!RecoveryFits(k) BY DEF Ki!RecoveriesKept
<1> USE <1>0, KiCreds
<1>2. ASSUME NEW k \in Agents, Ki!RecoveryFits(k)',
             \A l \in Agents \ {k} :
                v9'[l] = v9[l] /\ v10'[l] = v10[l] /\ v13'[l] = v13[l]
      PROVE  Ki!RecoveriesKept'
  <2>1. ASSUME NEW l \in Agents \ {k} PROVE Ki!RecoveryFits(l)'
    BY <1>1, <1>2, <2>1 DEF Ki!RecoveryFits
  <2> QED BY <1>2, <2>1 DEF Ki!RecoveriesKept
<1>3. ASSUME NEW k \in Agents, Ki!Unauthorized(k) PROVE Ki!RecoveriesKept'
  <2>1. Ki!RecoveryFits(k)' BY <1>1, <1>3 DEF Ki!Unauthorized, Ki!Goto, Ki!RecoveryFits
  <2> QED BY <1>2, <1>3, <2>1 DEF Ki!Unauthorized, Ki!Goto
\* Before the lock, and where only the mark is written.
<1>4. ASSUME NEW k \in Agents, NEW s, v9[k] # "Idle", Ki!Goto(k, s), UNCHANGED <<v10, v13>>,
             v9[k] \in {"Clear", "Leave"} => s = "Leave"
      PROVE  Ki!RecoveriesKept'
  <2>1. Ki!RecoveryFits(k)' BY <1>1, <1>4 DEF Ki!Goto, Ki!RecoveryFits
  <2> QED BY <1>2, <1>4, <2>1 DEF Ki!Goto
<1>5. ASSUME NEW k \in Agents, Ki!Try(k) \/ Ki!Look(k) \/ Ki!Recheck(k) \/ Ki!Rename(k)
      PROVE Ki!RecoveriesKept'
  <2>1. /\ v9[k] \in {"Try", "Look", "Recheck", "Rename"} /\ UNCHANGED <<v10, v13>>
        /\ \E s : Ki!Goto(k, s)
    BY <1>5 DEF Ki!Try, Ki!Look, Ki!Recheck, Ki!Rename, Ki!Again, Ki!Own
  <2> QED BY <1>4, <2>1
<1>6. ASSUME NEW k \in Agents, Ki!Read(k) PROVE Ki!RecoveriesKept'
  <2>1. Ki!RecoveryFits(k) /\ v9[k] = "Read" BY <1>1, <1>6 DEF Ki!Read
  <2>2. UNCHANGED v10 BY <1>6 DEF Ki!Read
  <2>3. CASE Ki!Goto(k, "Leave") /\ Ki!Retry(k, v2) /\ v2.of = v10[k].of
    <3>1. Ki!RecoveryFits(k)' BY <2>1, <2>2, <2>3 DEF Ki!Retry, Ki!Goto, Ki!RecoveryFits
    <3> QED BY <1>2, <2>2, <2>3, <3>1 DEF Ki!Retry, Ki!Goto
  <2>4. CASE (Ki!Goto(k, "Leave") \/ Ki!Goto(k, "Post")) /\ UNCHANGED v13
    BY <1>4, <2>1, <2>2, <2>4
  <2> QED BY <1>6, <2>3, <2>4 DEF Ki!Read
<1>7. ASSUME NEW k \in Agents, Ki!Post(k) \/ Ki!Clear(k) \/ Ki!Mark(k) PROVE Ki!RecoveriesKept'
  <2>1. /\ v9[k] \in {"Post", "Clear", "Mark"} /\ UNCHANGED <<v10, v13>>
        /\ \E s : Ki!Goto(k, s) /\ (v9[k] = "Clear" => s = "Leave")
    BY <1>7 DEF Ki!Post, Ki!Clear, Ki!Mark, Ki!Own
  <2> QED BY <1>4, <2>1
<1>8. ASSUME NEW k \in Agents, Ki!Write(k) PROVE Ki!RecoveriesKept'
  <2>1. Ki!RecoveryFits(k) /\ v9[k] = "Write" /\ UNCHANGED v10 BY <1>1, <1>8 DEF Ki!Write
  <2>2. CASE v2' = [of |-> v10[k].of, token |-> v11[k]] /\ Ki!Retry(k, v2') /\ Ki!Goto(k, "Clear")
    <3>1. v13'[k].of = v10[k].of BY <2>2 DEF Ki!Retry
    <3>2. Ki!RecoveryFits(k)' BY <2>1, <2>2, <3>1 DEF Ki!Goto, Ki!RecoveryFits
    <3> QED BY <1>2, <2>1, <2>2, <3>2 DEF Ki!Retry, Ki!Goto
  <2>3. CASE Ki!Goto(k, "Leave") /\ UNCHANGED v13 BY <1>4, <2>1, <2>3
  <2> QED BY <1>8, <2>2, <2>3 DEF Ki!Write
<1>9. ASSUME NEW k \in Agents, Ki!Leave(k) \/ Ki!Kill(k) PROVE Ki!RecoveriesKept'
  <2>1. Ki!Goto(k, "Idle") /\ Ki!Forget(k) BY <1>9 DEF Ki!Leave, Ki!Kill
  <2>2. Ki!RecoveryFits(k)' BY <2>1 DEF Ki!Goto, Ki!Forget, Ki!RecoveryFits
  <2> QED BY <1>2, <2>1, <2>2 DEF Ki!Goto, Ki!Forget
<1>10. CASE \/ UNCHANGED Ki!kimiVars \/ Ki!GrowStale \/ \E k \in Agents : Ki!Beat(k)
            \/ \E a \in People : Ki!KimiSwap(a) \/ Ki!RefreshParked(a)
  <2>1. UNCHANGED <<v9, v10, v13>>
    BY <1>10 DEF Ki!kimiVars, Ki!GrowStale, Ki!Beat, Ki!KimiSwap, Ki!RefreshParked, Ki!Own
  <2> QED BY <1>1, <2>1 DEF Ki!RecoveriesKept, Ki!RecoveryFits
<1> QED BY <1>3, <1>5, <1>6, <1>7, <1>8, <1>9, <1>10 DEF Ki!Next

LEMMA KiInside == ASSUME KimiTypes, Ki!InsideAlone, [Ki!Next]_(Ki!kimiVars) PROVE Ki!InsideAlone'
<1>0. v7 \in [id : Nat, stale : BOOLEAN] \cup {NoOne} /\ v9 \in [Agents -> Ki!KimiSteps]
        /\ v8 \in Nat
  BY DEF KimiTypes
<1>1. \A n \in Nat : Ki!Lock(n) # NoOne BY KiCreds DEF Ki!Lock
<1> USE <1>0
<1>2. ASSUME NEW k \in Agents, NEW s, Ki!Goto(k, s), v17 => v17',
             \A l \in Agents \ {k} : Ki!Holding(l) => v7' # NoOne \/ v17',
             s \in Ki!Inside => v7' # NoOne /\ (v9[k] \in Ki!Inside
                     \/ \A l \in Agents : ~Ki!Holding(l))
      PROVE  Ki!InsideAlone'
  <2>1. \A l \in Agents \ {k} : Ki!Holding(l)' <=> Ki!Holding(l) BY <1>2 DEF Ki!Goto, Ki!Holding
  <2>2. Ki!Holding(k)' <=> s \in Ki!Inside BY <1>2 DEF Ki!Goto, Ki!Holding
  <2>3. ~v17' => ~v17 BY <1>2
  <2> QED BY <1>2, <2>1, <2>2, <2>3 DEF Ki!InsideAlone, Ki!Holding
<1>3. ASSUME UNCHANGED <<v9, v17>>, v7 # NoOne => v7' # NoOne PROVE Ki!InsideAlone'
  BY <1>3 DEF Ki!InsideAlone, Ki!Holding
<1>4. ASSUME NEW k \in Agents, Ki!Unauthorized(k) PROVE Ki!InsideAlone'
  <2>1. "Try" \notin Ki!Inside BY DEF Ki!Inside
  <2>2. v17' = v17 /\ v7' = v7 /\ Ki!Goto(k, "Try")
    BY <1>4 DEF Ki!Unauthorized, Ki!Locking, Ki!History
  <2>3. ~v17 => \A l \in Agents \ {k} : Ki!Holding(l) => v7 # NoOne BY DEF Ki!InsideAlone
  <2> QED BY <1>2, <2>1, <2>2, <2>3
<1>5. ASSUME NEW k \in Agents, Ki!Try(k) PROVE Ki!InsideAlone'
  <2>1. UNCHANGED v17 BY <1>5 DEF Ki!Try, Ki!History
  <2>2. CASE v7 = NoOne /\ v7' = Ki!Lock(v8 + 1) /\ Ki!Goto(k, "Read")
    <3>1. v7' # NoOne BY <1>1, <2>2
    <3>2. ~v17 => \A l \in Agents : ~Ki!Holding(l) BY <2>2 DEF Ki!InsideAlone
    <3> QED BY <2>1, <2>2, <3>1, <3>2 DEF Ki!InsideAlone, Ki!Holding, Ki!Goto
  <2>3. CASE \E s \in {"Look", "Idle"} : Ki!Goto(k, s) /\ UNCHANGED v7
    <3>1. PICK s \in {"Look", "Idle"} : Ki!Goto(k, s) BY <2>3
    <3>2. s \notin Ki!Inside BY DEF Ki!Inside
    <3>3. ~v17 => \A l \in Agents \ {k} : Ki!Holding(l) => v7 # NoOne BY DEF Ki!InsideAlone
    <3> QED BY <1>2, <2>1, <2>3, <3>1, <3>2, <3>3
  <2> QED BY <1>5, <2>2, <2>3 DEF Ki!Try
<1>6. ASSUME NEW k \in Agents, Ki!Look(k) \/ Ki!Recheck(k) \/ Ki!Rename(k) PROVE Ki!InsideAlone'
  <2>1. \E s \in {"Try", "Idle", "Recheck", "Rename"} : Ki!Goto(k, s)
    BY <1>6 DEF Ki!Look, Ki!Recheck, Ki!Rename, Ki!Again
  <2>2. PICK s \in {"Try", "Idle", "Recheck", "Rename"} : Ki!Goto(k, s) BY <2>1
  <2>3. s \notin Ki!Inside BY DEF Ki!Inside
  <2>4. v17 => v17' BY <1>6 DEF Ki!Look, Ki!Recheck, Ki!Rename, Ki!History
  <2>5. \A l \in Agents \ {k} : Ki!Holding(l) => v7' # NoOne \/ v17'
    <3>1. Ki!Rename(k) => (Ki!Held => v17' \/ v7 = NoOne) BY <1>6 DEF Ki!Rename
    <3>2. Ki!Look(k) \/ Ki!Recheck(k) => v7' = v7 /\ v17' = v17
      BY <1>6 DEF Ki!Look, Ki!Recheck, Ki!History
    <3>3. \A l \in Agents : Ki!Holding(l) => Ki!Held BY DEF Ki!Held
    <3>4. \A l \in Agents : Ki!Holding(l) /\ ~v17 => v7 # NoOne BY DEF Ki!InsideAlone
    <3> QED BY <1>6, <2>4, <3>1, <3>2, <3>3, <3>4
  <2> QED BY <1>2, <2>2, <2>3, <2>4, <2>5
\* Under the lock.
<1>7. ASSUME NEW k \in Agents, Ki!Read(k) \/ Ki!Post(k) \/ Ki!Write(k) \/ Ki!Clear(k) \/ Ki!Mark(k)
      PROVE Ki!InsideAlone'
  <2>1. /\ v9[k] \in Ki!Inside /\ UNCHANGED <<v7, v17>>
        /\ \E s \in Ki!Inside : Ki!Goto(k, s)
    BY <1>7 DEF Ki!Read, Ki!Post, Ki!Write, Ki!Clear, Ki!Mark, Ki!Locking, Ki!History, Ki!Inside
  <2>2. PICK s \in Ki!Inside : Ki!Goto(k, s) BY <2>1
  <2>3. ~v17 => v7 # NoOne BY <2>1 DEF Ki!InsideAlone, Ki!Holding
  <2>4. \A l \in Agents \ {k} : Ki!Holding(l)' <=> Ki!Holding(l) BY <2>2 DEF Ki!Goto, Ki!Holding
  <2>5. Ki!Holding(k) BY <2>1 DEF Ki!Holding
  <2> QED BY <2>1, <2>3, <2>4, <2>5 DEF Ki!InsideAlone
<1>8. ASSUME NEW k \in Agents, Ki!Leave(k) \/ Ki!Kill(k) PROVE Ki!InsideAlone'
  <2>1. "Idle" \notin Ki!Inside /\ Ki!Goto(k, "Idle") BY <1>8 DEF Ki!Leave, Ki!Kill, Ki!Inside
  <2>2. v17 => v17' BY <1>8 DEF Ki!Leave, Ki!Kill
  <2>3. \A l \in Agents \ {k} : ~v17' => ~Ki!Holding(l)
    <3>1. Ki!Leave(k) => \A l \in Agents \ {k} : ~v17' => ~Ki!Holding(l) BY DEF Ki!Leave
    <3>2. Ki!Kill(k) => \A l \in Agents \ {k} : ~v17' => ~Ki!Holding(l)
      BY <2>2 DEF Ki!Kill, Ki!InsideAlone
    <3> QED BY <1>8, <3>1, <3>2
  <2> QED BY <1>2, <2>1, <2>2, <2>3
<1>9. ASSUME NEW k \in Agents, Ki!Beat(k) PROVE Ki!InsideAlone'
  BY <1>1, <1>3, <1>9 DEF Ki!Beat, Ki!History
<1>10. ASSUME Ki!GrowStale PROVE Ki!InsideAlone'
  <2>1. v7' # NoOne
    <3>1. v7' \in [id : Nat, stale : BOOLEAN] BY <1>10 DEF Ki!GrowStale
    <3> QED BY <3>1, KiCreds
  <2> QED BY <1>3, <1>10, <2>1 DEF Ki!GrowStale, Ki!History
<1>11. CASE UNCHANGED Ki!kimiVars \/ \E a \in People : Ki!KimiSwap(a) \/ Ki!RefreshParked(a)
  <2>1. UNCHANGED <<v9, v17, v7>>
    BY <1>11 DEF Ki!kimiVars, Ki!KimiSwap, Ki!RefreshParked, Ki!Locking, Ki!History
  <2> QED BY <1>3, <2>1
<1> QED BY <1>4, <1>5, <1>6, <1>7, <1>8, <1>9, <1>10, <1>11 DEF Ki!Next

\* The tokens: only Post and RefreshParked make new ones, and only a process that
\* is in may be about to write one.
LEMMA KiTokens == ASSUME KimiInv, [Ki!Next]_(Ki!kimiVars)
    PROVE (Ki!NoneNewer /\ Ki!WritesKept /\ Ki!KimiTokenKept)'
<1> DEFINE Tokens == Ki!NoneNewer /\ Ki!WritesKept /\ Ki!KimiTokenKept
<1> SUFFICES Tokens' OBVIOUS
<1>0. /\ v2 \in Ki!Cred /\ v3 \in [People -> Ki!Token] /\ v5 \in [People -> Ki!Token]
      /\ v9 \in [Agents -> Ki!KimiSteps] /\ v10 \in [Agents -> Ki!Cred \cup {NoOne}]
      /\ v11 \in [Agents -> Ki!Token] /\ v4 \in People /\ Ki!Token \subseteq Nat
  BY KiCreds DEF KimiInv, KimiTypes
<1>1. Ki!NoneNewer /\ Ki!WritesKept /\ Ki!KimiTokenKept BY DEF KimiInv
<1>2. \A k \in Agents : v9[k] # "Idle" => v10[k] \in Ki!Cred
  BY <1>0 DEF KimiInv, Ki!RecoveriesKept, Ki!RecoveryFits
<1>3. \A k \in Agents : \A l \in Agents \ {k} :
         ~v17 /\ v9[k] \in {"Post", "Write"} => v9[l] \notin {"Post", "Write"}
  BY DEF KimiInv, Ki!InsideAlone, Ki!Holding, Ki!Inside
<1>4. v2.of \in People /\ v2.token \in Nat BY <1>0, KiCreds
<1>5. \A k \in Agents : v9[k] # "Idle" => v10[k].of \in People /\ v10[k].token \in Nat
  BY <1>2, KiCreds
<1> HIDE DEF Tokens
\* What touches neither a token nor who is about to write one.
<1>6. ASSUME UNCHANGED <<v2, v3, v4, v5, v19, v18>>, v17 => v17',
             \A l \in Agents : (v9'[l] \in {"Post", "Write"} \/ v9[l] = "Write") =>
                 v9'[l] = v9[l] /\ v10'[l] = v10[l] /\ v11'[l] = v11[l]
      PROVE  Tokens'
  <2>1. Ki!NoneNewer' BY <1>1, <1>6 DEF Ki!NoneNewer
  <2>2. Ki!WritesKept' BY <1>1, <1>6 DEF Ki!WritesKept, Ki!WritesNewest
  <2>3. Ki!KimiTokenKept' BY <1>1, <1>6 DEF Ki!KimiTokenKept, Ki!NextToken
  <2> QED BY <2>1, <2>2, <2>3 DEF Tokens
\* One that may have had a new token is done with it, and has lost it.
<1>7. ASSUME NEW k \in Agents, v9[k] \in Ki!Inside,
             UNCHANGED <<v2, v3, v4, v5, v18>>, v17' = v17,
             v9'[k] \notin {"Post", "Write"}, v19 \subseteq v19',
             v9[k] = "Write" => v10[k].of \in v19',
             \A l \in Agents \ {k} :
                 v9'[l] = v9[l] /\ v10'[l] = v10[l] /\ v11'[l] = v11[l]
      PROVE  Tokens'
  <2>1. Ki!NoneNewer' BY <1>1, <1>7 DEF Ki!NoneNewer
  <2>2. Ki!WritesKept' BY <1>1, <1>7 DEF Ki!WritesKept, Ki!WritesNewest
  <2>3. Ki!KimiTokenKept' BY <1>1, <1>7 DEF Ki!KimiTokenKept, Ki!NextToken
  <2> QED BY <2>1, <2>2, <2>3 DEF Tokens
<1>8. ASSUME NEW k \in Agents, Ki!Unauthorized(k) PROVE Tokens'
  BY <1>0, <1>6, <1>8 DEF Ki!Unauthorized, Ki!Goto, Ki!Stores, Ki!History
<1>9. ASSUME NEW k \in Agents, Ki!Try(k) \/ Ki!Look(k) \/ Ki!Recheck(k) \/ Ki!Rename(k)
      PROVE Tokens'
  <2>1. /\ v9[k] \in {"Try", "Look", "Recheck", "Rename"}
        /\ \E s \in {"Read", "Look", "Idle", "Try", "Recheck", "Rename"} : Ki!Goto(k, s)
    BY <1>9 DEF Ki!Try, Ki!Look, Ki!Recheck, Ki!Rename, Ki!Again
  <2>2. UNCHANGED <<v2, v3, v4, v5, v19, v18, v10, v11>>
    BY <1>9 DEF Ki!Try, Ki!Look, Ki!Recheck, Ki!Rename, Ki!Stores, Ki!Own, Ki!History
  <2>3. v17 => v17' BY <1>9 DEF Ki!Try, Ki!Look, Ki!Recheck, Ki!Rename, Ki!History
  <2> QED BY <1>0, <1>6, <2>1, <2>2, <2>3 DEF Ki!Goto
<1>10. ASSUME NEW k \in Agents, Ki!Read(k) PROVE Tokens'
  <2>1. UNCHANGED <<v2, v3, v4, v5, v19, v18, v10, v11, v17>> /\ v9[k] = "Read"
    BY <1>10 DEF Ki!Read, Ki!Stores, Ki!History
  <2>2. CASE Ki!Goto(k, "Leave") BY <1>0, <1>6, <2>1, <2>2 DEF Ki!Goto
  <2>3. CASE Ki!Goto(k, "Post") /\ v2 = v10[k]
    <3>1. Ki!NoneNewer' BY <1>0, <1>1, <2>1, <2>3 DEF Ki!NoneNewer, Ki!Goto
    <3>2. Ki!WritesKept' BY <1>0, <1>1, <2>1, <2>3 DEF Ki!WritesKept, Ki!WritesNewest, Ki!Goto
    <3>3. Ki!KimiTokenKept' BY <1>0, <1>1, <2>1, <2>3 DEF Ki!KimiTokenKept, Ki!NextToken, Ki!Goto
    <3> QED BY <3>1, <3>2, <3>3 DEF Tokens
  <2> QED BY <1>10, <2>2, <2>3 DEF Ki!Read
<1>11. ASSUME NEW k \in Agents, Ki!Clear(k) \/ Ki!Mark(k) \/ Ki!Leave(k) PROVE Tokens'
  <2>1. /\ v9[k] \in {"Clear", "Mark", "Leave"} /\ \E s \in {"Leave", "Idle"} : Ki!Goto(k, s)
        /\ UNCHANGED <<v2, v3, v4, v5, v19, v18>>
    BY <1>11 DEF Ki!Clear, Ki!Mark, Ki!Leave, Ki!Stores, Ki!History
  <2>2. \A l \in Agents \ {k} : v10'[l] = v10[l] /\ v11'[l] = v11[l]
    BY <1>0, <1>11 DEF Ki!Clear, Ki!Mark, Ki!Leave, Ki!Own, Ki!Forget
  <2>3. Ki!Clear(k) \/ Ki!Mark(k) => v17' = v17 BY DEF Ki!Clear, Ki!Mark, Ki!History
  <2>4. Ki!Leave(k) => (v17 => v17') BY DEF Ki!Leave
  <2> QED BY <1>0, <1>6, <1>11, <2>1, <2>2, <2>3, <2>4 DEF Ki!Goto
<1>12. CASE UNCHANGED Ki!kimiVars \/ Ki!GrowStale \/ \E k \in Agents : Ki!Beat(k)
  <2>1. UNCHANGED <<v2, v3, v4, v5, v19, v18, v17, v9, v10, v11>>
    BY <1>12 DEF Ki!kimiVars, Ki!GrowStale, Ki!Beat, Ki!Stores, Ki!Own, Ki!History
  <2> QED BY <1>6, <2>1
\* The server gives a new token; its answer may get lost.
<1>13. ASSUME NEW k \in Agents, Ki!Post(k) PROVE Tokens'
  <2> DEFINE a == v10[k].of
  <2>1. v9[k] = "Post" /\ a \in People /\ v10[k].token \in Nat BY <1>5, <1>13 DEF Ki!Post
  <2>2. UNCHANGED <<v2, v3, v4, v10, v18, v17>> BY <1>13 DEF Ki!Post
  <2>3. CASE UNCHANGED <<v5, v11, v19>> /\ (Ki!Goto(k, "Mark") \/ Ki!Goto(k, "Leave"))
    BY <1>0, <1>6, <2>1, <2>2, <2>3 DEF Ki!Goto
  <2>4. ASSUME v10[k].token = v5[a], v5' = [v5 EXCEPT ![a] = @ + 1],
               \/ v11' = [v11 EXCEPT ![k] = v5[a] + 1] /\ Ki!Goto(k, "Write") /\ v19' = v19
               \/ v11' = v11 /\ Ki!Goto(k, "Leave") /\ v19' = v19 \cup {a}
        PROVE  Tokens'
    <3> HIDE DEF a
    <3>1. v5'[a] = v5[a] + 1 /\ \A b \in People \ {a} : v5'[b] = v5[b]
      BY <1>0, <2>1, <2>4
    <3>2. v5[a] \in Nat /\ \A b \in People : v5[b] \in Nat /\ v3[b] \in Nat BY <1>0, <2>1
    <3>3. \A b \in People : v5[b] <= v5'[b] BY <3>1, <3>2
    <3>4. \A b \in People : v5'[b] \in Nat BY <3>1, <3>2
    <3>5. \A b \in People : v3[b] <= v5[b] BY <1>1 DEF Ki!NoneNewer
    <3>6. v3[a] < v5'[a] BY <2>1, <3>1, <3>2, <3>5
    <3>7. v2.of = a => v2.token < v5'[a] BY <1>1, <1>4, <3>1, <3>2 DEF Ki!NoneNewer
    <3>8. \A l \in Agents \ {k} : v9'[l] = v9[l] /\ v11'[l] = v11[l] BY <1>0, <2>4 DEF Ki!Goto
    <3>9. v9'[k] = "Write" => v11'[k] = v5'[a] /\ v19' = v19 BY <1>0, <2>4, <3>1 DEF Ki!Goto
    <3>10. v9'[k] # "Write" => a \in v19' BY <1>0, <2>4 DEF Ki!Goto
    <3>11. v9'[k] \in {"Write", "Leave"} /\ v19 \subseteq v19' BY <1>0, <2>4 DEF Ki!Goto
    <3>12. v10' = v10 /\ v10[k].of = a BY <2>2 DEF a
    <3>13. Ki!NoneNewer'
      <4>1. \A b \in People : v3'[b] <= v5'[b] BY <2>2, <3>2, <3>3, <3>4, <3>5
      <4>2. v2'.token <= v5'[v2'.of] BY <1>1, <1>4, <2>2, <3>2, <3>3, <3>4 DEF Ki!NoneNewer
      <4>3. ASSUME NEW l \in Agents, v9'[l] = "Write" PROVE v11'[l] <= v5'[v10'[l].of]
        <5>1. CASE l = k BY <2>1, <3>4, <3>9, <3>12, <4>3, <5>1
        <5>2. CASE l # k
          <6>1. v9[l] = "Write" /\ v11'[l] = v11[l] BY <3>8, <4>3, <5>2
          <6>2. v11[l] <= v5[v10[l].of] /\ v10[l].of \in People /\ v11[l] \in Nat
            BY <1>0, <1>1, <1>5, <6>1 DEF Ki!NoneNewer
          <6> QED BY <3>2, <3>3, <3>4, <3>12, <6>1, <6>2
        <5> QED BY <5>1, <5>2
      <4> QED BY <4>1, <4>2, <4>3 DEF Ki!NoneNewer
    <3>14. ASSUME ~v17 PROVE \A l \in Agents \ {k} : v9'[l] \notin {"Post", "Write"}
      BY <1>3, <2>1, <3>8, <3>14
    <3>15. Ki!WritesKept'
      <4>1. ASSUME ~v17 PROVE \A l \in Agents : Ki!WritesNewest(l)'
        <5>1. \A l \in Agents \ {k} : Ki!WritesNewest(l)' BY <3>14, <4>1 DEF Ki!WritesNewest
        <5>2. Ki!WritesNewest(k) BY <1>1, <4>1 DEF Ki!WritesKept
        <5>3. Ki!WritesNewest(k)'
          BY <2>1, <2>2, <3>6, <3>7, <3>9, <3>11, <3>12, <5>2 DEF Ki!WritesNewest
        <5> QED BY <5>1, <5>3
      <4>2. ~v17 /\ v2.of # v4 /\ v2.of \notin v19' =>
               v3[v2.of] # v5'[v2.of]
        <5>1. v2.of = a => v3[v2.of] # v5'[v2.of] BY <3>2, <3>4, <3>6, <2>1
        <5> QED BY <1>1, <1>4, <3>1, <3>11, <5>1 DEF Ki!WritesKept
      <4> QED BY <2>2, <4>1, <4>2 DEF Ki!WritesKept
    <3>16. Ki!KimiTokenKept'
      <4>1. ASSUME ~v17, NEW b \in People \ v19', b # a PROVE Ki!NextToken(b) = v5'[b]
        <5>1. \A l \in Agents : v9[l] # "Write" BY <1>3, <2>1, <4>1
        <5> QED BY <1>1, <3>1, <3>11, <4>1, <5>1 DEF Ki!KimiTokenKept
      <4>2. \A b \in People : Ki!NextToken(b)' = Ki!NextToken(b) BY <2>2 DEF Ki!NextToken
      <4>3. ~v17 => v18 \/ v2.of = v4 BY <1>1 DEF Ki!KimiTokenKept
      <4>4. a \notin v19' => v9'[k] = "Write" /\ v10'[k].of = a /\ v11'[k] = v5'[a]
        BY <3>9, <3>10, <3>12
      <4> QED BY <2>2, <4>1, <4>2, <4>3, <4>4 DEF Ki!KimiTokenKept
    <3> QED BY <3>13, <3>15, <3>16 DEF Tokens
  <2> QED BY <1>13, <2>3, <2>4 DEF Ki!Post
\* A new token goes to the file.
<1>14. ASSUME NEW k \in Agents, Ki!Write(k) PROVE Tokens'
  <2>1. /\ v9[k] = "Write" /\ v10[k].of \in People
        /\ UNCHANGED <<v3, v4, v5, v10, v11, v18, v17>>
    BY <1>5, <1>14 DEF Ki!Write
  <2>2. CASE Ki!Goto(k, "Leave") /\ v19' = v19 \cup {v10[k].of} /\ UNCHANGED v2
    BY <1>0, <1>7, <2>1, <2>2 DEF Ki!Goto, Ki!Inside
  <2>3. ASSUME v2' = [of |-> v10[k].of, token |-> v11[k]], Ki!Goto(k, "Clear"),
     v19' = v19 PROVE Tokens'
    <3>0. PICK a \in People : v10[k].of = a BY <2>1
    <3>1. v2'.of = a /\ v2'.token = v11[k] BY <2>3, <3>0
    <3>2. \A l \in Agents \ {k} : v9'[l] = v9[l] BY <1>0, <2>3 DEF Ki!Goto
    <3>3. v9'[k] = "Clear" BY <1>0, <2>3 DEF Ki!Goto
    <3>4. v11[k] <= v5[a] BY <1>1, <2>1, <3>0 DEF Ki!NoneNewer
    <3>5. ~v17 => Ki!WritesNewest(k) BY <1>1 DEF Ki!WritesKept
    <3>6. ~v17 => v11[k] = v5[a] /\ v3[a] < v5[a] BY <2>1, <3>0, <3>5 DEF Ki!WritesNewest
    <3>7. ~v17 /\ v2.of # a =>
             v18 /\ v2.of = v4 /\ v2.token = v3[v2.of]
      BY <2>1, <3>0, <3>5 DEF Ki!WritesNewest
    <3>8. Ki!NoneNewer' BY <1>1, <2>1, <3>1, <3>2, <3>3, <3>4 DEF Ki!NoneNewer
    <3>9. ~v17 => \A l \in Agents : v9'[l] \notin {"Post", "Write"} BY <1>3, <2>1, <3>2, <3>3
    <3>10. v5[a] \in Nat /\ v3[a] \in Nat BY <1>0
    <3>11. Ki!WritesKept'
      <4>1. ~v17 => \A l \in Agents : Ki!WritesNewest(l)' BY <3>9 DEF Ki!WritesNewest
      <4>2. ~v17 => v3[a] # v5[a] BY <3>6, <3>10
      <4> QED BY <2>1, <3>1, <4>1, <4>2 DEF Ki!WritesKept
    <3>12. Ki!KimiTokenKept'
      <4>1. ASSUME ~v17 PROVE v18 \/ a = v4 BY <1>1, <3>7, <4>1 DEF Ki!KimiTokenKept
      <4>2. ~v17 => Ki!NextToken(a)' = v5[a] BY <3>1, <3>6 DEF Ki!NextToken
      <4>3. ASSUME ~v17, NEW b \in People \ v19, b # a PROVE Ki!NextToken(b)' = v5[b]
        <5>1. \A l \in Agents : v9[l] = "Write" => v10[l].of # b BY <1>3, <2>1, <3>0, <4>3
        <5>2. Ki!NextToken(b) = v5[b] BY <1>1, <4>3, <5>1 DEF Ki!KimiTokenKept
        <5>3. v3[b] = v5[b] BY <3>7, <4>3, <5>2 DEF Ki!NextToken
        <5> QED BY <2>1, <3>1, <4>3, <5>3 DEF Ki!NextToken
      <4> QED BY <2>1, <2>3, <3>1, <4>1, <4>2, <4>3 DEF Ki!KimiTokenKept
    <3> QED BY <3>8, <3>11, <3>12 DEF Tokens
  <2> QED BY <1>14, <2>2, <2>3 DEF Ki!Write
<1>15. ASSUME NEW k \in Agents, Ki!Kill(k) PROVE Tokens'
  <2>1. /\ v9[k] \in Ki!Inside /\ Ki!Goto(k, "Idle") /\ Ki!Forget(k)
        /\ UNCHANGED <<v2, v3, v4, v5, v18, v17>>
        /\ v19 \subseteq v19' /\ (v9[k] = "Write" => v10[k].of \in v19')
    BY <1>15 DEF Ki!Kill, Ki!Stores, Ki!Holding
  <2> QED BY <1>0, <1>7, <2>1 DEF Ki!Goto, Ki!Forget
\* A swap moves tokens, and no token used next changes.
<1>16. ASSUME NEW a \in People, Ki!KimiSwap(a) PROVE Tokens'
  <2>1. /\ v3' = [v3 EXCEPT ![v2.of] = v2.token]
        /\ v2' = [of |-> a, token |-> v3'[a]] /\ v4' = a
        /\ v18' = (v18 \/ \E k \in Agents : v9[k] \in {"Post", "Write"})
        /\ UNCHANGED <<v5, v9, v10, v11, v17, v19>>
    BY <1>16 DEF Ki!KimiSwap, Ki!Own
  <2>2. /\ v3'[v2.of] = v2.token
        /\ \A b \in People \ {v2.of} : v3'[b] = v3[b]
    BY <1>0, <1>4, <2>1
  <2>3. v2'.of = a /\ v2'.token = v3'[a] BY <2>1
  <2>4. \A b \in People : Ki!NextToken(b)' = v3'[b] BY <2>3 DEF Ki!NextToken
  <2>5. \A b \in People : Ki!NextToken(b) = v3'[b] BY <2>2 DEF Ki!NextToken
  <2>6. \A b \in People : v3'[b] <= v5[b] BY <1>1, <2>2 DEF Ki!NoneNewer
  <2>7. Ki!NoneNewer' BY <1>1, <2>1, <2>3, <2>6 DEF Ki!NoneNewer
  <2>8. ASSUME ~v17, NEW k \in Agents PROVE Ki!WritesNewest(k)'
    <3>1. v9[k] = "Write" => v3'[v10[k].of] < v5[v10[k].of]
      BY <1>1, <1>5, <2>2, <2>8 DEF Ki!WritesKept, Ki!WritesNewest
    <3>2. v9[k] = "Write" => v11[k] = v5[v10[k].of] BY <1>1, <2>8 DEF Ki!WritesKept, Ki!WritesNewest
    <3> QED BY <2>1, <2>3, <3>1, <3>2 DEF Ki!WritesNewest
  <2>9. Ki!WritesKept' BY <2>1, <2>3, <2>8 DEF Ki!WritesKept
  <2>10. Ki!KimiTokenKept' BY <1>1, <2>1, <2>3, <2>4, <2>5 DEF Ki!KimiTokenKept
  <2> QED BY <2>7, <2>9, <2>10 DEF Tokens
<1>17. ASSUME NEW a \in People, Ki!RefreshParked(a) PROVE Tokens'
  <2>1. /\ v4 # a /\ v3[a] = v5[a]
        /\ v5' = [v5 EXCEPT ![a] = @ + 1]
        /\ v3' = [v3 EXCEPT ![a] = v5[a] + 1]
        /\ UNCHANGED <<v2, v4, v9, v10, v11, v17, v18, v19>>
    BY <1>17 DEF Ki!RefreshParked, Ki!Own, Ki!History
  <2>2. /\ v5'[a] = v5[a] + 1 /\ v3'[a] = v5[a] + 1
        /\ \A b \in People \ {a} : v5'[b] = v5[b] /\ v3'[b] = v3[b]
    BY <1>0, <2>1
  <2>3. \A b \in People : v5[b] \in Nat BY <1>0
  <2>4. \A b \in People : v5[b] <= v5'[b] /\ v5'[b] \in Nat BY <2>2, <2>3
  <2>5. Ki!NoneNewer'
    <3>1. \A b \in People : v3'[b] <= v5'[b] BY <1>1, <2>2, <2>3 DEF Ki!NoneNewer
    <3>2. v2.token <= v5'[v2.of] BY <1>1, <1>4, <2>3, <2>4 DEF Ki!NoneNewer
    <3>3. ASSUME NEW k \in Agents, v9[k] = "Write" PROVE v11[k] <= v5'[v10[k].of]
      <4>1. v11[k] <= v5[v10[k].of] /\ v10[k].of \in People /\ v11[k] \in Nat
        BY <1>0, <1>1, <1>5, <3>3 DEF Ki!NoneNewer
      <4> QED BY <2>3, <2>4, <4>1
    <3> QED BY <2>1, <3>1, <3>2, <3>3 DEF Ki!NoneNewer
  <2>6. ASSUME ~v17, NEW k \in Agents PROVE Ki!WritesNewest(k)'
    <3>1. Ki!WritesNewest(k) BY <1>1, <2>6 DEF Ki!WritesKept
    <3>2. v9[k] = "Write" => v10[k].of # a BY <2>1, <2>3, <3>1 DEF Ki!WritesNewest
    <3>3. v9[k] = "Write" => v5'[v10[k].of] = v5[v10[k].of] /\ v3'[v10[k].of] = v3[v10[k].of]
      BY <1>5, <2>2, <3>2
    <3>4. v2.of = v4 => v3'[v2.of] = v3[v2.of] BY <1>4, <2>1, <2>2
    <3> QED BY <2>1, <3>1, <3>3, <3>4 DEF Ki!WritesNewest
  <2>7. ~v17 /\ v2.of # v4 /\ v2.of \notin v19 => v2.of # a
    BY <1>1, <2>1 DEF Ki!WritesKept
  <2>8. Ki!WritesKept'
    <3>1. ~v17 /\ v2.of # v4 /\ v2.of \notin v19 =>
             v3'[v2.of] # v5'[v2.of]
      BY <1>1, <1>4, <2>2, <2>7 DEF Ki!WritesKept
    <3> QED BY <2>1, <2>6, <3>1 DEF Ki!WritesKept
  <2>9. Ki!KimiTokenKept'
    <3>1. ASSUME ~v17, NEW b \in People \ v19, b # a
          PROVE  \/ Ki!NextToken(b)' = v5'[b]
                 \/ \E k \in Agents : v9[k] = "Write" /\ v10[k].of = b /\ v11[k] = v5'[b]
      <4>1. Ki!NextToken(b)' = Ki!NextToken(b) /\ v5'[b] = v5[b]
        BY <2>1, <2>2, <3>1 DEF Ki!NextToken
      <4> QED BY <1>1, <3>1, <4>1 DEF Ki!KimiTokenKept
    <3>2. ~v17 /\ a \notin v19 => Ki!NextToken(a)' = v5'[a] BY <2>1, <2>2, <2>7 DEF Ki!NextToken
    <3>3. ~v17 => v18 \/ v2.of = v4 BY <1>1 DEF Ki!KimiTokenKept
    <3> QED BY <2>1, <3>1, <3>2, <3>3 DEF Ki!KimiTokenKept
  <2> QED BY <2>5, <2>8, <2>9 DEF Tokens
<1> QED BY <1>8, <1>9, <1>10, <1>11, <1>12, <1>13, <1>14, <1>15, <1>16, <1>17 DEF Ki!Next

LEMMA KiNext == ASSUME KimiInv, [Ki!Next]_(Ki!kimiVars) PROVE KimiInv'
BY KiTypes, KiRecoveries, KiInside, KiTokens DEF KimiInv

-----------------------------------------------------------------------------
\* What bounds the lock's age: a recovery makes the lock once at most, and a
\* heartbeat renews it once for each time that it has grown stale under a holder.
Trying == {k \in Agents : v9[k] \in {"Try", "Look", "Recheck", "Rename"}}
Overdue == IF v7 # NoOne /\ v7.stale /\ Ki!Held THEN 1 ELSE 0
MadeKept == IsFiniteSet(Trying) /\ v8 + Cardinality(Trying) + Overdue <= v14 + v16
KimiBounds ==
    /\ v1 \in {"file", "directory"} /\ v6 \in Ki!Cred \cup {NoOne}
    /\ v14 \in 0 .. MaxRecoveries /\ v15 \in 0 .. MaxKimiSwaps
    /\ v16 \in 0 .. MaxKimiFaults
    /\ v12 \in [Agents -> Nat] /\ \A k \in Agents : v12[k] <= v8
    /\ v7 # NoOne => v7.id <= v8
    /\ MadeKept

LEMMA KiNumbers == {MaxRecoveries, MaxKimiSwaps, MaxKimiFaults} \subseteq Nat
  BY KimiConstants DEF Ki!KimiAssumption

LEMMA KiStarts == Ki!Init => KimiBounds
<1> SUFFICES ASSUME Ki!Init PROVE KimiBounds OBVIOUS
<1>1. Trying = {} BY DEF Ki!Init, Trying
<1>2. Overdue = 0 BY DEF Ki!Init, Overdue
<1>3. MadeKept BY <1>1, <1>2, FS_EmptySet DEF MadeKept, Ki!Init
<1>4. /\ v14 \in 0 .. MaxRecoveries /\ v15 \in 0 .. MaxKimiSwaps
      /\ v16 \in 0 .. MaxKimiFaults
  BY KiNumbers DEF Ki!Init
<1> QED BY <1>3, <1>4 DEF Ki!Init, KimiBounds

LEMMA KiTyped == KimiTypes /\ KimiBounds => Ki!KimiTypeOK
<1> SUFFICES ASSUME KimiTypes, KimiBounds PROVE Ki!KimiTypeOK OBVIOUS
<1>1. Cardinality(Trying) \in Nat /\ Overdue \in {0, 1}
  BY FS_CardinalityType DEF KimiBounds, MadeKept, Overdue
<1>2. v8 \in Ki!Stamps
  BY <1>1, KiNumbers DEF KimiTypes, KimiBounds, MadeKept, Ki!Stamps
<1>3. \A n \in Nat : n <= v8 => n \in Ki!Stamps BY <1>2, KiNumbers DEF Ki!Stamps
<1>4. v12 \in [Agents -> Ki!Stamps] BY <1>3 DEF KimiBounds
<1>5. v7 \in [id : Ki!Stamps, stale : BOOLEAN] \cup {NoOne} BY <1>3 DEF KimiTypes, KimiBounds
<1> QED BY <1>2, <1>4, <1>5 DEF KimiTypes, KimiBounds, Ki!KimiTypeOK

\* What may be made goes down, or something else that is bounded goes up.
LEMMA KiFewer ==
    ASSUME KimiBounds, v8 \in Nat, v8' \in Nat, v14' \in Nat, v16' \in Nat,
           Trying' \subseteq Trying,
           v8' + Overdue' + v14 + v16 <= v8 + Overdue + v14' + v16'
    PROVE  MadeKept'
<1>1. IsFiniteSet(Trying) /\ v8 + Cardinality(Trying) + Overdue <= v14 + v16
  BY DEF KimiBounds, MadeKept
<1>2. Overdue \in Nat /\ Overdue' \in Nat BY DEF Overdue
<1>3. v14 \in Nat /\ v16 \in Nat BY DEF KimiBounds
<1>4. IsFiniteSet(Trying') /\ Cardinality(Trying') <= Cardinality(Trying)
  BY <1>1, FS_Subset
<1>5. Cardinality(Trying) \in Nat /\ Cardinality(Trying') \in Nat
  BY <1>1, <1>4, FS_CardinalityType
<1>6. v8' + Cardinality(Trying') + Overdue' <= v14' + v16'
  <2>1. PICK m \in Nat, n \in Nat : m = v8 /\ n = v8' OBVIOUS
  <2>2. PICK o \in Nat, p \in Nat : o = Overdue /\ p = Overdue' BY <1>2
  <2>3. PICK c \in Nat, d \in Nat : c = Cardinality(Trying) /\ d = Cardinality(Trying') BY <1>5
  <2>4. PICK r \in Nat, s \in Nat : r = v14 /\ s = v14' BY <1>3
  <2>5. PICK f \in Nat, g \in Nat : f = v16 /\ g = v16' BY <1>3
  <2>6. n + p + r + f <= m + o + s + g /\ m + c + o <= r + f /\ d <= c
    BY <1>1, <1>4, <2>1, <2>2, <2>3, <2>4, <2>5
  <2>7. n + d + p <= s + g BY <2>6
  <2> QED BY <2>1, <2>2, <2>3, <2>4, <2>5, <2>7
<1> QED BY <1>4, <1>6 DEF MadeKept

LEMMA KiOverdue ==
    ASSUME v7' \in {v7, NoOne}, Ki!Held' => Ki!Held
    PROVE  Overdue' <= Overdue /\ Overdue \in Nat /\ Overdue' \in Nat
  BY DEF Overdue

LEMMA KiCounts == ASSUME KimiInv, KimiBounds, Ki!Next PROVE MadeKept'
<1>0. /\ v8 \in Nat /\ v14 \in Nat /\ v16 \in Nat
      /\ v9 \in [Agents -> Ki!KimiSteps] /\ Overdue \in {0, 1} /\ Overdue' \in {0, 1}
  BY DEF KimiInv, KimiTypes, KimiBounds, Overdue
<1>9. v8 \in Nat /\ v14 \in Nat /\ v16 \in Nat /\ Overdue \in Nat /\ Overdue' \in Nat
  BY <1>0
<1>10. ASSUME v8' = v8, v14' = v14, v16' \in {v16, v16 + 1},
              Overdue' <= Overdue \/ v16' = v16 + 1
       PROVE  v8' + Overdue' + v14 + v16 <= v8 + Overdue + v14' + v16'
  <2>1. \A m, o, p, r, f \in Nat : p <= o => m + p + r + f <= m + o + r + f OBVIOUS
  <2>2. \A m, o, p, r, f \in Nat : p <= o + 1 => m + p + r + f <= m + o + r + (f + 1) OBVIOUS
  <2>3. Overdue' <= Overdue + 1 BY <1>0
  <2>4. CASE v16' = v16
    <3>1. Overdue' <= Overdue BY <1>9, <1>10, <2>4
    <3> QED BY <1>9, <1>10, <2>1, <2>4, <3>1, Zenon
  <2>5. CASE v16' = v16 + 1 BY <1>9, <1>10, <2>2, <2>3, <2>5, Zenon
  <2> QED BY <1>10, <2>4, <2>5
<1>1. ASSUME NEW k \in Agents, Ki!Unauthorized(k) PROVE MadeKept'
  <2>1. UNCHANGED <<v8, v7, v16>> /\ v14' = v14 + 1
        /\ v9[k] = "Idle" /\ v9' = [v9 EXCEPT ![k] = "Try"]
    BY <1>1 DEF Ki!Unauthorized, Ki!Goto, Ki!Locking
  <2>2. \A l \in Agents : Ki!Holding(l)' = Ki!Holding(l) BY <1>0, <2>1 DEF Ki!Holding, Ki!Inside
  <2>3. Overdue' = Overdue BY <2>1, <2>2 DEF Overdue, Ki!Held
  <2>4. Trying' = Trying \cup {k} BY <1>0, <2>1 DEF Trying
  <2>5. IsFiniteSet(Trying) /\ v8 + Cardinality(Trying) + Overdue <= v14 + v16
    BY DEF KimiBounds, MadeKept
  <2>6. /\ IsFiniteSet(Trying') /\ Cardinality(Trying) \in Nat
        /\ Cardinality(Trying') \in {Cardinality(Trying), Cardinality(Trying) + 1}
    BY <2>4, <2>5, FS_AddElement, FS_CardinalityType
  <2>7. v8' + Cardinality(Trying') + Overdue' <= v14' + v16'
    BY <1>0, <2>1, <2>3, <2>5, <2>6
  <2> QED BY <2>6, <2>7 DEF MadeKept
<1>2. ASSUME NEW k \in Agents, Ki!Try(k) PROVE MadeKept'
  <2>0. v9[k] = "Try" /\ UNCHANGED <<v14, v16>> BY <1>2 DEF Ki!Try, Ki!Bounds
  <2>1. CASE v7 = NoOne
    <3>1. v8' = v8 + 1 /\ v7' = Ki!Lock(v8 + 1) /\ v9' = [v9 EXCEPT ![k] = "Read"]
      BY <1>2, <2>1 DEF Ki!Try, Ki!Goto
    <3>2. Overdue' = 0 BY <3>1 DEF Overdue, Ki!Lock
    <3>3. k \in Trying /\ Trying' = Trying \ {k} BY <1>0, <2>0, <3>1 DEF Trying
    <3>4. IsFiniteSet(Trying) /\ v8 + Cardinality(Trying) + Overdue <= v14 + v16
      BY DEF KimiBounds, MadeKept
    <3>5. /\ IsFiniteSet(Trying') /\ Cardinality(Trying) \in Nat
          /\ Cardinality(Trying') = Cardinality(Trying) - 1
      BY <3>3, <3>4, FS_RemoveElement, FS_CardinalityType
    <3>6. v8' + Cardinality(Trying') + Overdue' <= v14' + v16'
      BY <1>0, <2>0, <3>1, <3>2, <3>4, <3>5
    <3> QED BY <3>5, <3>6 DEF MadeKept
  <2>2. CASE v7 # NoOne
    <3>1. UNCHANGED <<v7, v8>> /\ \E s \in {"Look", "Idle"} : Ki!Goto(k, s)
      BY <1>2, <2>2 DEF Ki!Try
    <3>2. PICK s \in {"Look", "Idle"} : v9' = [v9 EXCEPT ![k] = s] BY <3>1 DEF Ki!Goto
    <3>3. \A l \in Agents : Ki!Holding(l)' = Ki!Holding(l)
      BY <1>0, <2>0, <3>2 DEF Ki!Holding, Ki!Inside
    <3>4. Overdue' = Overdue BY <3>1, <3>3 DEF Overdue, Ki!Held
    <3>5. Trying' \subseteq Trying BY <1>0, <2>0, <3>2 DEF Trying
    <3>6. v8' + Overdue' + v14 + v16 <= v8 + Overdue + v14' + v16'
      BY <1>0, <2>0, <3>1, <3>4
    <3> QED BY <1>0, <2>0, <3>1, <3>5, <3>6, KiFewer
  <2> QED BY <2>1, <2>2
<1>3. ASSUME NEW k \in Agents, Ki!Look(k) \/ Ki!Recheck(k) \/ Ki!Rename(k) PROVE MadeKept'
  <2>1. /\ v9[k] \in {"Look", "Recheck", "Rename"} /\ v7' \in {v7, NoOne}
        /\ UNCHANGED <<v8, v14, v16>>
    BY <1>3 DEF Ki!Look, Ki!Recheck, Ki!Rename, Ki!Bounds
  <2>2. \E s \in {"Try", "Idle", "Recheck", "Rename"} : Ki!Goto(k, s)
    <3>1. Ki!Again(k) \/ \E s \in {"Try", "Idle", "Recheck", "Rename"} : Ki!Goto(k, s)
      BY <1>3 DEF Ki!Look, Ki!Recheck, Ki!Rename
    <3> QED BY <3>1 DEF Ki!Again
  <2>3. PICK s \in {"Try", "Idle", "Recheck", "Rename"} : v9' = [v9 EXCEPT ![k] = s]
    BY <2>2 DEF Ki!Goto
  <2>4. \A l \in Agents : Ki!Holding(l)' = Ki!Holding(l)
    BY <1>0, <2>1, <2>3 DEF Ki!Holding, Ki!Inside
  <2>5. Overdue' <= Overdue BY <2>1, <2>4, KiOverdue DEF Ki!Held
  <2>6. Trying' \subseteq Trying BY <1>0, <2>1, <2>3 DEF Trying
  <2>7. v8' + Overdue' + v14 + v16 <= v8 + Overdue + v14' + v16'
    BY <1>10, <2>1, <2>5
  <2> QED BY <1>0, <2>1, <2>6, <2>7, KiFewer
<1>4. ASSUME NEW k \in Agents,
             Ki!Read(k) \/ Ki!Post(k) \/ Ki!Write(k) \/ Ki!Clear(k) \/ Ki!Mark(k)
      PROVE  MadeKept'
  <2>1. /\ v9[k] \in Ki!Inside /\ UNCHANGED <<v7, v8, v14>>
        /\ v16' \in {v16, v16 + 1}
    BY <1>4 DEF Ki!Read, Ki!Post, Ki!Write, Ki!Clear, Ki!Mark, Ki!Inside, Ki!Bounds, Ki!Locking
  <2>2. PICK s \in Ki!Inside : v9' = [v9 EXCEPT ![k] = s]
    BY <1>4 DEF Ki!Read, Ki!Post, Ki!Write, Ki!Clear, Ki!Mark, Ki!Inside, Ki!Goto
  <2>3. \A l \in Agents : Ki!Holding(l)' = Ki!Holding(l) BY <1>0, <2>1, <2>2 DEF Ki!Holding
  <2>4. Overdue' <= Overdue BY <2>1, <2>3, KiOverdue DEF Ki!Held
  <2>5. Trying' \subseteq Trying BY <1>0, <2>1, <2>2 DEF Trying, Ki!Inside
  <2>6. /\ v16' \in Nat
        /\ v8' + Overdue' + v14 + v16 <= v8 + Overdue + v14' + v16'
    <3>1. v16' \in Nat BY <1>9, <2>1
    <3>2. v8' = v8 /\ v14' = v14 BY <2>1
    <3> QED BY <1>10, <2>1, <2>4, <3>1, <3>2
  <2> QED BY <1>0, <2>1, <2>5, <2>6, KiFewer
<1>5. ASSUME NEW k \in Agents, Ki!Leave(k) \/ Ki!Kill(k) PROVE MadeKept'
  <2>1. /\ v9[k] \in Ki!Inside /\ UNCHANGED <<v8, v14>> /\ v7' \in {v7, NoOne}
        /\ v16' \in {v16, v16 + 1}
        /\ v9' = [v9 EXCEPT ![k] = "Idle"]
    BY <1>5 DEF Ki!Leave, Ki!Kill, Ki!Holding, Ki!Inside, Ki!Bounds, Ki!Goto
  <2>2. \A l \in Agents : Ki!Holding(l)' => Ki!Holding(l) BY <1>0, <2>1 DEF Ki!Holding, Ki!Inside
  <2>3. Overdue' <= Overdue
    <3>1. Ki!Held' => Ki!Held BY <2>2 DEF Ki!Held
    <3> QED BY <2>1, <3>1, KiOverdue
  <2>4. Trying' \subseteq Trying BY <1>0, <2>1 DEF Trying
  <2>5. /\ v16' \in Nat
        /\ v8' + Overdue' + v14 + v16 <= v8 + Overdue + v14' + v16'
    <3>1. v16' \in Nat BY <1>9, <2>1
    <3>2. v8' = v8 /\ v14' = v14 BY <2>1
    <3> QED BY <1>10, <2>1, <2>3, <3>1, <3>2
  <2> QED BY <1>0, <2>1, <2>4, <2>5, KiFewer
<1>6. ASSUME NEW k \in Agents, Ki!Beat(k) PROVE MadeKept'
  <2>1. /\ v7 # NoOne /\ v7.stale /\ Ki!Holding(k) /\ v8' = v8 + 1
        /\ v7' = Ki!Lock(v8 + 1) /\ UNCHANGED <<v9, v14, v16>>
    BY <1>6 DEF Ki!Beat, Ki!Bounds
  <2>2. Overdue = 1 /\ Overdue' = 0 BY <2>1 DEF Overdue, Ki!Held, Ki!Lock
  <2>3. Trying' = Trying BY <2>1 DEF Trying
  <2>4. v8' + Overdue' + v14 + v16 <= v8 + Overdue + v14' + v16'
    BY <1>0, <2>1, <2>2
  <2> QED BY <1>0, <2>1, <2>3, <2>4, KiFewer
<1>7. ASSUME Ki!GrowStale PROVE MadeKept'
  <2>1. UNCHANGED <<v8, v9, v14>> /\ v7 # NoOne /\ ~v7.stale
    BY <1>7 DEF Ki!GrowStale
  <2>2. Trying' = Trying /\ Ki!Held' = Ki!Held BY <2>1 DEF Trying, Ki!Held, Ki!Holding
  <2>3. /\ v16' \in Nat
        /\ v8' + Overdue' + v14 + v16 <= v8 + Overdue + v14' + v16'
    <3>1. CASE Ki!Held
      <4>1. v16' = v16 + 1 BY <1>7, <3>1 DEF Ki!GrowStale
      <4>2. v16' \in Nat BY <1>9, <4>1
      <4>3. v8' = v8 /\ v14' = v14 BY <2>1
      <4> QED BY <1>10, <4>1, <4>2, <4>3
    <3>2. CASE ~Ki!Held
      <4>1. v16' = v16 BY <1>7, <3>2 DEF Ki!GrowStale
      <4>2. Overdue' = 0 BY <2>2, <3>2 DEF Overdue
      <4> QED BY <1>0, <2>1, <4>1, <4>2
    <3> QED BY <3>1, <3>2
  <2> QED BY <1>0, <2>1, <2>2, <2>3, KiFewer
<1>8. ASSUME NEW a \in People, Ki!KimiSwap(a) \/ Ki!RefreshParked(a) PROVE MadeKept'
  <2>1. UNCHANGED <<v8, v7, v9, v14, v16>>
    BY <1>8 DEF Ki!KimiSwap, Ki!RefreshParked, Ki!Locking, Ki!Bounds
  <2>2. Trying' = Trying /\ Overdue' = Overdue BY <2>1 DEF Trying, Overdue, Ki!Held, Ki!Holding
  <2> QED BY <1>0, <2>1, <2>2, KiFewer
<1> QED BY <1>1, <1>2, <1>3, <1>4, <1>5, <1>6, <1>7, <1>8 DEF Ki!Next

LEMMA KiBounded == ASSUME KimiInv, KimiBounds, [Ki!Next]_(Ki!kimiVars) PROVE KimiBounds'
<1>0. /\ v8 \in Nat /\ v7 \in [id : Nat, stale : BOOLEAN] \cup {NoOne}
      /\ \A k \in Agents : v9[k] # "Idle" => v10[k] \in Ki!Cred
  BY DEF KimiInv, KimiTypes, Ki!RecoveriesKept, Ki!RecoveryFits
<1>1. CASE UNCHANGED Ki!kimiVars
  <2>1. UNCHANGED <<v1, v6, v7, v8, v9, v12, v14, v15,
                    v16>>
    BY <1>1 DEF Ki!kimiVars
  <2>2. MadeKept' BY <2>1 DEF KimiBounds, MadeKept, Trying, Overdue, Ki!Held, Ki!Holding
  <2> QED BY <2>1, <2>2 DEF KimiBounds
<1>2. CASE Ki!Next
  <2>1. MadeKept' BY <1>2, KiCounts
  <2>2. v1' = v1
    BY <1>2 DEF Ki!Next, Ki!Unauthorized, Ki!Try, Ki!Look, Ki!Recheck, Ki!Rename, Ki!Read,
       Ki!Post, Ki!Write, Ki!Clear, Ki!Mark, Ki!Leave,
       Ki!Beat, Ki!Kill, Ki!GrowStale, Ki!KimiSwap, Ki!RefreshParked, Ki!Bounds
  <2>3. v6' \in Ki!Cred \cup {NoOne}
    <3>1. ASSUME NEW k \in Agents, Ki!Mark(k) PROVE v6' \in Ki!Cred
      BY <1>0, <3>1 DEF Ki!Mark
    <3>2. (\E k \in Agents : Ki!Mark(k)) \/ v6' \in {v6, NoOne}
      BY <1>2 DEF Ki!Next, Ki!Unauthorized, Ki!Try, Ki!Look, Ki!Recheck, Ki!Rename, Ki!Read,
         Ki!Post, Ki!Write, Ki!Clear, Ki!Leave,
         Ki!Beat, Ki!Kill, Ki!GrowStale, Ki!KimiSwap, Ki!RefreshParked, Ki!Stores
    <3> QED BY <3>1, <3>2 DEF KimiBounds
  <2>4. v14' \in 0 .. MaxRecoveries
    <3>1. \/ v14' = v14
          \/ v14 < MaxRecoveries /\ v14' = v14 + 1
      BY <1>2 DEF Ki!Next, Ki!Unauthorized, Ki!Try, Ki!Look, Ki!Recheck, Ki!Rename, Ki!Read,
         Ki!Post, Ki!Write, Ki!Clear, Ki!Mark,
         Ki!Leave, Ki!Beat, Ki!Kill, Ki!GrowStale, Ki!KimiSwap, Ki!RefreshParked, Ki!Bounds
    <3> QED BY <3>1, KiNumbers DEF KimiBounds
  <2>5. v15' \in 0 .. MaxKimiSwaps
    <3>1. \/ v15' = v15
          \/ v15 < MaxKimiSwaps /\ v15' = v15 + 1
      BY <1>2 DEF Ki!Next, Ki!Unauthorized, Ki!Try, Ki!Look, Ki!Recheck, Ki!Rename, Ki!Read,
         Ki!Post, Ki!Write, Ki!Clear, Ki!Mark,
         Ki!Leave, Ki!Beat, Ki!Kill, Ki!GrowStale, Ki!KimiSwap, Ki!RefreshParked, Ki!Bounds
    <3> QED BY <3>1, KiNumbers DEF KimiBounds
  <2>6. v16' \in 0 .. MaxKimiFaults
    <3>1. \/ v16' = v16
          \/ v16 < MaxKimiFaults /\ v16' = v16 + 1
      BY <1>2 DEF Ki!Next, Ki!Unauthorized, Ki!Try, Ki!Look, Ki!Recheck, Ki!Rename, Ki!Read,
         Ki!Post, Ki!Write, Ki!Clear, Ki!Mark,
         Ki!Leave, Ki!Beat, Ki!Kill, Ki!GrowStale, Ki!KimiSwap, Ki!RefreshParked, Ki!Bounds
    <3> QED BY <3>1, KiNumbers DEF KimiBounds
  <2>7. /\ v8' \in {v8, v8 + 1}
        /\ v7' # NoOne => v7'.id <= v8'
    <3>1. CASE \E k \in Agents : Ki!Try(k) \/ Ki!Beat(k)
      <4>1. \/ UNCHANGED <<v8, v7>>
            \/ v8' = v8 + 1 /\ v7' = Ki!Lock(v8 + 1)
        BY <3>1 DEF Ki!Try, Ki!Beat
      <4>2. Ki!Lock(v8 + 1).id = v8 + 1 /\ v8 + 1 \in Nat BY <1>0 DEF Ki!Lock
      <4> QED BY <1>0, <4>1, <4>2 DEF KimiBounds
    <3>2. CASE Ki!GrowStale
      <4>1. v8' = v8 /\ v7 # NoOne /\ v7' = [v7 EXCEPT !.stale = TRUE]
        BY <3>2 DEF Ki!GrowStale
      <4>2. v7'.id = v7.id BY <1>0, <4>1
      <4> QED BY <4>1, <4>2 DEF KimiBounds
    <3>3. CASE ~(\E k \in Agents : Ki!Try(k) \/ Ki!Beat(k)) /\ ~Ki!GrowStale
      <4>1. v8' = v8 /\ v7' \in {v7, NoOne}
        BY <1>2, <3>3 DEF Ki!Next, Ki!Unauthorized, Ki!Look, Ki!Recheck, Ki!Rename, Ki!Read,
           Ki!Post, Ki!Write, Ki!Clear, Ki!Mark,
           Ki!Leave, Ki!Kill, Ki!KimiSwap, Ki!RefreshParked, Ki!Locking
      <4> QED BY <4>1 DEF KimiBounds
    <3> QED BY <3>1, <3>2, <3>3
  <2>8. v12' \in [Agents -> Nat] /\ \A k \in Agents : v12'[k] <= v8'
    <3>1. ASSUME NEW k \in Agents, NEW n \in Nat, n <= v8, Ki!Note(k, n)
          PROVE  v12' \in [Agents -> Nat] /\ \A l \in Agents : v12'[l] <= v8
      BY <3>1 DEF Ki!Note, KimiBounds
    <3>2. v12' \in [Agents -> Nat] /\ \A l \in Agents : v12'[l] <= v8
      <4>1. CASE UNCHANGED v12 BY <4>1 DEF KimiBounds
      <4>2. CASE \E k \in Agents : Ki!Note(k, 0) BY <1>0, <3>1, <4>2
      <4>3. CASE \E k \in Agents : Ki!Note(k, v7.id) /\ v7 # NoOne
        <5>1. v7 # NoOne => v7.id \in Nat /\ v7.id <= v8
          BY <1>0 DEF KimiBounds
        <5> QED BY <3>1, <4>3, <5>1
      <4> QED
        BY <1>2, <4>1, <4>2, <4>3 DEF Ki!Next, Ki!Unauthorized, Ki!Try, Ki!Look, Ki!Recheck,
           Ki!Rename, Ki!Read, Ki!Post,
           Ki!Write, Ki!Clear, Ki!Mark, Ki!Leave, Ki!Beat, Ki!Kill, Ki!GrowStale, Ki!KimiSwap,
           Ki!RefreshParked, Ki!Locking
    <3>3. \A l \in Agents : v12'[l] \in Nat BY <3>2
    <3> QED BY <1>0, <2>7, <3>2, <3>3
  <2> QED BY <2>1, <2>2, <2>3, <2>4, <2>5, <2>6, <2>7, <2>8 DEF KimiBounds
<1> QED BY <1>1, <1>2

-----------------------------------------------------------------------------
(* Cursor                                                                     *)

\* The types, by what the actions leave alone together.
CuServer == v2 \in [People -> SUBSET Cu!Gens] /\ v3 \in [People -> Cu!Gens]
CuClient == v4 \in Cu!MaybeToken /\ v5 \in BOOLEAN /\ v6 \in Cu!MaybeToken
CuOurs == v7 \subseteq People /\ v8 \in People \cup {NoOne} /\ v9 \in [People -> Cu!MaybeToken]
CuLocks == v10 \in Agents \cup {NoOne} /\ v11 \in [People -> Agents \cup {NoOne}]
CuDead == v12 \in [People -> Cu!Gens]
CuStage == v13 \in [Agents -> Cu!Stages]
CuCommand == v14 \in [Agents -> Cu!Calls \cup {"none"}] /\ v15 \in [Agents -> People \cup {NoOne}]
CuBits ==
    /\ v16 \in [Agents -> Cu!MaybeToken] /\ v17 \in [Agents -> Cu!MaybeToken]
    /\ v18 \in [Agents -> [disk : Cu!MaybeToken, mark : People \cup {NoOne}, known : SUBSET People]]
    /\ v19 \in [Agents -> BOOLEAN]
CuCaps == v1 \in BOOLEAN /\ v20 \in 0 .. MaxCalls /\ v21 \in 0 .. MaxUserSteps
CuFaults == v22 \in 0 .. MaxCursorFaults
CuShared == v23 \subseteq People
CuLately == v24 \in Agents \cup {NoOne} /\ v25 \in People \cup {NoOne}
CuGroups ==
    /\ CuServer /\ CuClient /\ CuOurs /\ CuLocks /\ CuDead /\ CuStage /\ CuCommand /\ CuBits
    /\ CuCaps /\ CuFaults /\ CuShared /\ CuLately

LEMMA CuTyped == (Cu!CursorTypeOK <=> CuGroups) /\ (Cu!CursorTypeOK' <=> CuGroups')
  BY DEF Cu!CursorTypeOK, CuGroups, CuServer, CuClient, CuOurs, CuLocks, CuDead, CuStage,
     CuCommand, CuBits, CuCaps, CuFaults, CuShared, CuLately

LEMMA CuConstants ==
    /\ NoOne \notin People /\ NoOne \notin Agents
    /\ MaxTokens \in Nat \ {0} /\ MaxCalls \in Nat /\ MaxUserSteps \in Nat
        /\ MaxCursorFaults \in Nat
  BY CursorConstants DEF Cu!CursorSwitchAssumption

\* A token is none of the values that say there is none.
LEMMA CuTokens ==
    /\ \A t \in Cu!Tokens : t # NoToken /\ t.of \in People /\ t.gen \in Cu!Gens
    /\ \A t \in Cu!MaybeToken : t # NoToken => t \in Cu!Tokens
    /\ Cu!Tokens \subseteq Cu!MaybeToken /\ NoToken \in Cu!MaybeToken
<1>1. NoToken \notin [of : People, gen : Nat] BY CursorConstants DEF Cu!CursorSwitchAssumption
<1>2. \A t \in Cu!Tokens : t \in [of : People, gen : Nat] BY CuConstants DEF Cu!Tokens, Cu!Gens
<1>3. \A t \in Cu!Tokens : t.of \in People /\ t.gen \in Cu!Gens BY DEF Cu!Tokens
<1> QED BY <1>1, <1>2, <1>3 DEF Cu!MaybeToken

LEMMA CuInit == Cu!Init => Cu!CursorTypeOK
<1> SUFFICES ASSUME Cu!Init PROVE CuGroups BY CuTyped
<1> USE CuConstants, CuTokens DEF Cu!Init
<1>0. 1 \in Cu!Gens BY DEF Cu!Gens
<1>1. \A a \in People : [of |-> a, gen |-> 1] \in Cu!Tokens BY <1>0 DEF Cu!Tokens
<1>2. CuServer BY DEF CuServer, Cu!Gens
<1>3. CuClient
  <2>1. v4 \in Cu!Tokens BY <1>1
  <2>2. v5 \in BOOLEAN
    <3>1. CASE v1 BY <3>1
    <3>2. CASE ~v1 BY <3>2
    <3> QED BY <3>1, <3>2
  <2>3. v6 \in Cu!MaybeToken BY <2>1
  <2> QED BY <2>1, <2>2, <2>3 DEF CuClient
<1>4. CuOurs BY <1>1 DEF CuOurs
<1>5. CuLocks /\ CuDead BY DEF CuLocks, CuDead, Cu!Gens
<1>6. CuStage /\ CuCommand BY DEF CuStage, CuCommand, Cu!Stages, Cu!Calls
<1>7. CuBits BY DEF CuBits, Cu!Nothing
<1>8. CuCaps
  <2>1. v1 \in BOOLEAN BY CursorConstants DEF Cu!CursorSwitchAssumption
  <2> QED BY <2>1 DEF CuCaps
<1>9. CuFaults /\ CuShared /\ CuLately BY DEF CuFaults, CuShared, CuLately
<1> QED BY <1>2, <1>3, <1>4, <1>5, <1>6, <1>7, <1>8, <1>9 DEF CuGroups

\* What an action leaves alone keeps its type.
LEMMA CuSame ==
    ASSUME CuGroups
    PROVE  /\ UNCHANGED Cu!server => CuServer'
           /\ UNCHANGED Cu!client => CuClient'
           /\ UNCHANGED Cu!ours => CuOurs'
           /\ UNCHANGED Cu!lockings => CuLocks'
           /\ UNCHANGED v12 => CuDead'
           /\ UNCHANGED v13 => CuStage'
           /\ UNCHANGED Cu!command => CuCommand'
           /\ UNCHANGED Cu!token => CuBits'
           /\ UNCHANGED Cu!caps => CuCaps' /\ CuFaults'
           /\ UNCHANGED Cu!capsButFaults => CuCaps'
           /\ UNCHANGED v22 => CuFaults'
           /\ UNCHANGED v23 => CuShared'
           /\ UNCHANGED Cu!lately => CuLately'
           /\ UNCHANGED Cu!past => CuShared' /\ CuLately'
<1> USE DEF CuGroups
<1>1. /\ UNCHANGED Cu!server => CuServer'
      /\ UNCHANGED Cu!client => CuClient'
  BY DEF Cu!server, Cu!client, CuServer, CuClient
<1>2. UNCHANGED Cu!ours => CuOurs' BY DEF Cu!ours, CuOurs
<1>3. UNCHANGED Cu!lockings => CuLocks' BY DEF Cu!lockings, CuLocks
<1>4. UNCHANGED Cu!command => CuCommand' BY DEF Cu!command, CuCommand
<1>5. UNCHANGED Cu!token => CuBits' BY DEF Cu!token, CuBits
<1>6. UNCHANGED Cu!caps => CuCaps' /\ CuFaults' BY DEF Cu!caps, CuCaps, CuFaults
<1>7. UNCHANGED Cu!capsButFaults => CuCaps' BY DEF Cu!capsButFaults, CuCaps
<1>8. UNCHANGED Cu!past => CuShared' /\ CuLately' BY DEF Cu!past, Cu!lately, CuShared, CuLately
<1>9. /\ UNCHANGED v12 => CuDead'
      /\ UNCHANGED v13 => CuStage'
      /\ UNCHANGED v22 => CuFaults'
      /\ UNCHANGED v23 => CuShared'
      /\ UNCHANGED Cu!lately => CuLately'
  BY DEF Cu!lately, CuDead, CuStage, CuFaults, CuShared, CuLately
<1> QED BY <1>1, <1>2, <1>3, <1>4, <1>5, <1>6, <1>7, <1>8, <1>9

LEMMA CuMoves ==
    ASSUME CuGroups, NEW p \in Agents
    PROVE  /\ \A s \in Cu!Stages : Cu!Move(p, s) => CuStage'
           /\ Cu!Over(p) => CuStage' /\ CuCommand' /\ CuBits' /\ CuLocks'
           /\ Cu!Faulty => CuFaults'
           /\ Cu!NoFault => CuFaults'
           /\ Cu!SomethingElse => CuLately'
           /\ Cu!EndsWell(p) => CuLately'
<1> USE CuConstants DEF CuGroups
<1>1. \A s \in Cu!Stages : Cu!Move(p, s) => CuStage' BY DEF Cu!Move, CuStage
<1>2. Cu!Over(p) => CuStage' BY DEF Cu!Over, Cu!Move, CuStage, Cu!Stages
<1>3. Cu!Over(p) => CuCommand' BY DEF Cu!Over, CuCommand
<1>4. Cu!Over(p) => CuBits'
  <2>1. Cu!Nothing \in [disk : Cu!MaybeToken, mark : People \cup {NoOne}, known : SUBSET People]
    BY CuTokens DEF Cu!Nothing
  <2>2. Cu!Over(p) => v19' \in [Agents -> BOOLEAN] BY DEF Cu!Over, CuBits
  <2> QED BY <2>1, <2>2, CuTokens DEF Cu!Over, CuBits
<1>5. Cu!Over(p) => CuLocks' BY DEF Cu!Over, CuLocks
<1>6. Cu!Faulty => CuFaults' BY DEF Cu!Faulty, CuFaults
<1>7. Cu!NoFault => CuFaults' BY DEF Cu!NoFault, CuFaults
<1>8. (Cu!SomethingElse => CuLately') /\ (Cu!EndsWell(p) => CuLately')
  BY DEF Cu!SomethingElse, Cu!EndsWell, CuLately, CuCommand
<1> QED BY <1>1, <1>2, <1>3, <1>4, <1>5, <1>6, <1>7, <1>8

LEMMA CuRotates ==
    ASSUME CuServer, NEW t \in Cu!Tokens, Cu!Rotate(t)
    PROVE  CuServer' /\ Cu!Rotated(t) \in Cu!Tokens /\ Cu!Rotated(t).of = t.of
<1>1. t.of \in People /\ v3[t.of] + 1 \in Cu!Gens
  BY CuTokens, CuConstants DEF Cu!Rotate, CuServer, Cu!Gens
<1>2. CuServer' BY <1>1 DEF Cu!Rotate, CuServer
<1>3. Cu!Rotated(t) \in Cu!Tokens /\ Cu!Rotated(t).of = t.of BY <1>1 DEF Cu!Rotated, Cu!Tokens
<1> QED BY <1>2, <1>3

\* The tokens in hand at a command's step.
LEMMA CuInHand ==
    ASSUME CuGroups, Cu!CommandsKept
    PROVE  /\ \A p \in Agents : v13[p] = "Store" \/ (v13[p] = "Mark" /\ v14[p] = "sync") =>
                 v17[p] \in Cu!Tokens
           /\ \A p \in Agents : v13[p] \in {"Write", "RefreshLock", "Post", "Save"} =>
                 v16[p] \in Cu!Tokens /\ v16[p].of = v15[p] /\ v15[p] \in People
           /\ \A p \in Agents : v13[p] \in {"Target", "Write", "Start", "RmWrite", "Fetch"} \/
                 (v13[p] = "Mark" /\ v14[p] # "sync") => v15[p] \in People
<1>1. \A p \in Agents : v17[p] \in Cu!MaybeToken /\ v16[p] \in Cu!MaybeToken BY DEF CuGroups, CuBits
<1>2. \A p \in Agents : Cu!CommandFits(p) BY DEF Cu!CommandsKept
<1> QED BY <1>1, <1>2, CuTokens DEF Cu!CommandFits

LEMMA CuTypes == ASSUME Cu!CursorTypeOK, Cu!CommandsKept, [Cu!Next]_(Cu!cursorVars)
    PROVE Cu!CursorTypeOK'
<1> SUFFICES CuGroups' BY CuTyped
<1>0. CuGroups BY CuTyped
<1> USE <1>0, CuSame, CuMoves
<1>1. ASSUME NEW p \in Agents, NEW k \in Cu!Calls, NEW a \in People \cup {NoOne},
        NEW s \in Cu!Stages,
             Cu!Call(p, k, a, s)
      PROVE  CuGroups'
  <2>1. CuStage' BY <1>1 DEF Cu!Call
  <2>2. CuCommand' BY <1>1 DEF Cu!Call, CuGroups, CuCommand
  <2>3. CuCaps' /\ CuFaults' BY <1>1, CuConstants DEF Cu!Call, CuGroups, CuCaps, CuFaults
  <2> QED BY <1>1, <2>1, <2>2, <2>3 DEF Cu!Call, CuGroups
<1>2. ASSUME NEW p \in Agents, Cu!LockSwitch(p) PROVE CuGroups'
  <2>1. CuStage' /\ CuCommand' /\ CuBits'
    <3>1. {"Stop", "RmWrite", "Read"} \subseteq Cu!Stages BY DEF Cu!Stages
    <3> QED BY <1>2, <3>1 DEF Cu!LockSwitch
  <2>2. CuLocks' BY <1>2 DEF Cu!LockSwitch, CuGroups, CuLocks
  <2>3. CuLately' BY <1>2 DEF Cu!LockSwitch, CuGroups, CuLately
  <2> QED BY <1>2, <2>1, <2>2, <2>3 DEF Cu!LockSwitch, CuGroups
<1>3. ASSUME NEW p \in Agents, Cu!StopClient(p) PROVE CuGroups'
  <2>1. CuStage' /\ CuCommand'
    <3>1. {"RmWrite", "Read"} \subseteq Cu!Stages BY DEF Cu!Stages
    <3> QED BY <1>3, <3>1 DEF Cu!StopClient
  <2>2. CuBits'
    <3>1. CASE Cu!Over(p) BY <3>1
    <3>2. CASE UNCHANGED Cu!token BY <3>2
    <3>3. CASE v19' = [v19 EXCEPT ![p] = v14[p] = "switch"] /\ UNCHANGED <<v16, v17, v18>>
      BY <3>3 DEF CuGroups, CuBits
    <3> QED BY <1>3, <3>1, <3>2, <3>3 DEF Cu!StopClient
  <2>3. CuClient'
    <3>1. CASE v5 /\ v4' = v6 /\ v5' = FALSE /\ v6' = NoToken
      BY <3>1, CuTokens DEF CuGroups, CuClient
    <3> QED BY <1>3, <3>1 DEF Cu!StopClient
  <2>4. CuLocks' /\ CuFaults' BY <1>3 DEF Cu!StopClient
  <2> QED BY <1>3, <2>1, <2>2, <2>3, <2>4 DEF Cu!StopClient, CuGroups
<1>4. ASSUME NEW p \in Agents, Cu!ReadLive(p) PROVE CuGroups'
  <2>1. \/ /\ v16' = [v16 EXCEPT ![p] = v9[v15[p]]] /\ Cu!Move(p, "Fetch")
           /\ UNCHANGED <<Cu!lockings, Cu!command, v17, v18, v19>> /\ v14[p] = "query"
        \/ /\ v17' = [v17 EXCEPT ![p] = v4] /\ Cu!Move(p, "Store")
           /\ UNCHANGED <<Cu!lockings, Cu!command, v16, v18, v19>>
        \/ /\ Cu!Move(p, "Reopen") \/ Cu!Move(p, "Target")
           /\ UNCHANGED <<Cu!lockings, Cu!command, Cu!token>>
        \/ Cu!Over(p)
    BY <1>4 DEF Cu!ReadLive
  <2>2. {"Fetch", "Store", "Reopen", "Target"} \subseteq Cu!Stages BY DEF Cu!Stages
  <2>3. CuStage' /\ CuCommand' /\ CuLocks' BY <2>1, <2>2
  <2>4. CuBits'
    <3>1. ASSUME v14[p] = "query" PROVE v9[v15[p]] \in Cu!MaybeToken
      BY <3>1 DEF Cu!CommandsKept, Cu!CommandFits, CuGroups, CuOurs
    <3>2. v4 \in Cu!MaybeToken BY DEF CuGroups, CuClient
    <3>3. CASE v16' = [v16 EXCEPT ![p] = v9[v15[p]]] /\ v14[p] = "query" /\ UNCHANGED <<v17, v18,
            v19>>
      BY <3>1, <3>3 DEF CuGroups, CuBits
    <3>4. CASE v17' = [v17 EXCEPT ![p] = v4] /\ UNCHANGED <<v16, v18, v19>>
      BY <3>2, <3>4 DEF CuGroups, CuBits
    <3> QED BY <2>1, <3>3, <3>4
  <2> QED BY <1>4, <2>3, <2>4 DEF Cu!ReadLive, CuGroups
<1>5. ASSUME NEW p \in Agents, Cu!StoreLive(p) PROVE CuGroups'
  <2>1. v17[p] \in Cu!Tokens /\ v17[p].of \in People BY <1>5, CuInHand, CuTokens DEF Cu!StoreLive
  <2>2. CuStage' /\ CuCommand' /\ CuLocks'
    <3>1. {"Target", "Mark"} \subseteq Cu!Stages BY DEF Cu!Stages
    <3>2. \/ Cu!Move(p, "Target") /\ UNCHANGED <<Cu!lockings, Cu!command>>
          \/ Cu!Move(p, "Mark") /\ UNCHANGED <<Cu!lockings, Cu!command>>
          \/ Cu!Over(p)
      BY <1>5 DEF Cu!StoreLive
    <3> QED BY <3>1, <3>2
  <2>3. CuBits'
    <3>1. CASE v17' = [v17 EXCEPT ![p] = NoToken] /\ UNCHANGED <<v16, v18, v19>>
      BY <3>1, CuTokens DEF CuGroups, CuBits
    <3> QED BY <1>5, <3>1 DEF Cu!StoreLive
  <2>4. CuOurs'
    <3>1. Cu!Kept(v9[v17[p].of], v17[p]) \in Cu!MaybeToken
      BY <2>1, CuTokens DEF Cu!Kept, CuGroups, CuOurs
    <3>2. v9' \in [People -> Cu!MaybeToken]
      BY <1>5, <2>1, <3>1, CuTokens DEF Cu!StoreLive, CuGroups, CuOurs
    <3> QED BY <1>5, <2>1, <3>2 DEF Cu!StoreLive, CuGroups, CuOurs
  <2>5. CuShared' BY <1>5, <2>1 DEF Cu!StoreLive, CuGroups, CuShared
  <2> QED BY <1>5, <2>2, <2>3, <2>4, <2>5 DEF Cu!StoreLive, CuGroups
<1>6. ASSUME NEW p \in Agents, Cu!TakeTarget(p) PROVE CuGroups'
  <2>1. v15[p] \in People BY <1>6, CuInHand DEF Cu!TakeTarget
  <2>2. CuStage'
    <3>1. {"Write", "Reopen"} \subseteq Cu!Stages BY DEF Cu!Stages
    <3> QED BY <1>6, <3>1 DEF Cu!TakeTarget
  <2>3. CuBits'
    <3>1. CASE /\ v16' = [v16 EXCEPT ![p] = v9[v15[p]]]
               /\ v18' = [v18 EXCEPT ![p] = [disk |-> v4, mark |-> v8, known |-> v7]]
      <4>1. [disk |-> v4, mark |-> v8, known |-> v7] \in
              [disk : Cu!MaybeToken, mark : People \cup {NoOne}, known : SUBSET People]
        BY DEF CuGroups, CuClient, CuOurs
      <4>2. v9[v15[p]] \in Cu!MaybeToken BY <2>1 DEF CuGroups, CuOurs
      <4>3. v18' \in [Agents -> [disk : Cu!MaybeToken, mark : People \cup {NoOne},
              known : SUBSET People]]
        BY <3>1, <4>1, Zenon DEF CuGroups, CuBits
      <4>4. v16' \in [Agents -> Cu!MaybeToken] BY <3>1, <4>2, Zenon DEF CuGroups, CuBits
      <4> QED BY <1>6, <4>3, <4>4 DEF Cu!TakeTarget, CuGroups, CuBits
    <3>2. CASE UNCHANGED <<v16, v18>> BY <1>6, <3>2 DEF Cu!TakeTarget, CuGroups, CuBits
    <3> QED BY <1>6, <3>1, <3>2 DEF Cu!TakeTarget
  <2>4. CuShared' BY <1>6, <2>1 DEF Cu!TakeTarget, CuGroups, CuShared
  <2> QED BY <1>6, <2>2, <2>3, <2>4 DEF Cu!TakeTarget, CuGroups
<1>7. ASSUME NEW p \in Agents, Cu!WriteToken(p) PROVE CuGroups'
  <2>1. "Mark" \in Cu!Stages BY DEF Cu!Stages
  <2>2. CuClient' BY <1>7 DEF Cu!WriteToken, CuGroups, CuClient, CuBits
  <2>3. CuShared'
    <3>1. Cu!Discarded(v4) \subseteq People
      BY CuTokens DEF Cu!Discarded, Cu!Live, CuGroups, CuClient
    <3> QED BY <1>7, <3>1 DEF Cu!WriteToken, CuGroups, CuShared
  <2> QED BY <1>7, <2>1, <2>2, <2>3 DEF Cu!WriteToken, CuGroups
<1>8. ASSUME NEW p \in Agents, Cu!MarkActive(p) PROVE CuGroups'
  <2>1. CuStage' /\ CuCommand' /\ CuBits' /\ CuLocks'
    <3>1. "Start" \in Cu!Stages BY DEF Cu!Stages
    <3> QED BY <1>8, <3>1 DEF Cu!MarkActive
  <2>2. CuOurs'
    <3>1. CASE v14[p] = "sync"
      <4>1. v17[p].of \in People BY <1>8, <3>1, CuInHand, CuTokens DEF Cu!MarkActive
      <4> QED BY <1>8, <3>1, <4>1 DEF Cu!MarkActive, CuGroups, CuOurs
    <3>2. CASE v14[p] # "sync"
      <4>1. v15[p] \in People BY <1>8, <3>2, CuInHand DEF Cu!MarkActive
      <4> QED BY <1>8, <3>2, <4>1 DEF Cu!MarkActive, CuGroups, CuOurs
    <3> QED BY <3>1, <3>2
  <2>3. CuLately' BY <1>8 DEF Cu!MarkActive
  <2> QED BY <1>8, <2>1, <2>2, <2>3 DEF Cu!MarkActive, CuGroups
<1>9. ASSUME NEW p \in Agents, Cu!StartClient(p) PROVE CuGroups'
  <2>1. CuStage' /\ CuCommand' /\ CuBits' /\ CuLocks' /\ CuFaults' /\ CuLately'
    <3>1. "UndoToken" \in Cu!Stages BY DEF Cu!Stages
    <3> QED BY <1>9, <3>1 DEF Cu!StartClient
  <2>2. CuClient' BY <1>9 DEF Cu!StartClient, CuGroups, CuClient
  <2> QED BY <1>9, <2>1, <2>2 DEF Cu!StartClient, CuGroups
<1>10. ASSUME NEW p \in Agents, Cu!Break(p) PROVE CuGroups'
  <2>1. "UndoToken" \in Cu!Stages BY DEF Cu!Stages
  <2> QED BY <1>10, <2>1 DEF Cu!Break, CuGroups
<1>11. ASSUME NEW p \in Agents, Cu!UndoToken(p) PROVE CuGroups'
  <2>1. "UndoMark" \in Cu!Stages BY DEF Cu!Stages
  <2>2. CuClient' BY <1>11 DEF Cu!UndoToken, CuGroups, CuClient, CuBits
  <2>3. CuShared'
    <3>1. Cu!Discarded(v4) \subseteq People
      BY CuTokens DEF Cu!Discarded, Cu!Live, CuGroups, CuClient
    <3> QED BY <1>11, <3>1 DEF Cu!UndoToken, CuGroups, CuShared
  <2> QED BY <1>11, <2>1, <2>2, <2>3 DEF Cu!UndoToken, CuGroups
<1>12. ASSUME NEW p \in Agents, Cu!UndoMark(p) PROVE CuGroups'
  <2>1. "Reopen" \in Cu!Stages BY DEF Cu!Stages
  <2>2. CuOurs' BY <1>12 DEF Cu!UndoMark, CuGroups, CuOurs, CuBits
  <2> QED BY <1>12, <2>1, <2>2 DEF Cu!UndoMark, CuGroups
<1>13. ASSUME NEW p \in Agents, Cu!Reopen(p) PROVE CuGroups'
  <2>1. CuClient' BY <1>13 DEF Cu!Reopen, CuGroups, CuClient
  <2>2. CuFaults' BY <1>13 DEF Cu!Reopen
  <2> QED BY <1>13, <2>1, <2>2 DEF Cu!Reopen, CuGroups
<1>14. ASSUME NEW p \in Agents, Cu!FetchUsage(p) PROVE CuGroups'
  <2>1. "RefreshLock" \in Cu!Stages BY DEF Cu!Stages
  <2> QED BY <1>14, <2>1 DEF Cu!FetchUsage, CuGroups
<1>15. ASSUME NEW p \in Agents, Cu!LockRefresh(p) PROVE CuGroups'
  <2>1. CuStage' /\ CuCommand' /\ CuBits'
    <3>1. "Post" \in Cu!Stages BY DEF Cu!Stages
    <3> QED BY <1>15, <3>1 DEF Cu!LockRefresh
  <2>2. CuLocks'
    <3>1. CASE v11' = [v11 EXCEPT ![v15[p]] = p] /\ UNCHANGED v10
      BY <3>1 DEF CuGroups, CuLocks
    <3> QED BY <1>15, <3>1 DEF Cu!LockRefresh
  <2> QED BY <1>15, <2>1, <2>2 DEF Cu!LockRefresh, CuGroups
<1>16. ASSUME NEW p \in Agents, Cu!Post(p) PROVE CuGroups'
  <2>1. v16[p] \in Cu!Tokens /\ v15[p] \in People BY <1>16, CuInHand DEF Cu!Post
  <2>2. CuStage' /\ CuCommand' /\ CuLocks' /\ CuFaults'
    <3>1. "Save" \in Cu!Stages BY DEF Cu!Stages
    <3> QED BY <1>16, <3>1 DEF Cu!Post
  <2>3. CuServer' BY <1>16, <2>1, CuRotates DEF Cu!Post, CuGroups
  <2>4. CuBits'
    <3>1. CASE /\ Cu!Rotate(v16[p]) /\ v16' = [v16 EXCEPT ![p] = Cu!Rotated(v16[p])]
               /\ UNCHANGED <<v17, v18, v19>>
      <4>1. Cu!Rotated(v16[p]) \in Cu!Tokens BY <2>1, <3>1, CuRotates DEF CuGroups
      <4> QED BY <3>1, <4>1, CuTokens DEF CuGroups, CuBits
    <3> QED BY <1>16, <3>1 DEF Cu!Post
  <2>5. CuDead' BY <1>16, <2>1, CuTokens DEF Cu!Post, CuGroups, CuDead
  <2>6. CuShared' BY <1>16, <2>1 DEF Cu!Post, CuGroups, CuShared
  <2> QED BY <1>16, <2>2, <2>3, <2>4, <2>5, <2>6 DEF Cu!Post, CuGroups
<1>17. ASSUME NEW p \in Agents, Cu!SaveRefreshed(p) PROVE CuGroups'
  <2>1. v16[p] \in Cu!Tokens /\ v15[p] \in People BY <1>17, CuInHand DEF Cu!SaveRefreshed
  <2>2. CuOurs' BY <1>17, <2>1, CuTokens DEF Cu!SaveRefreshed, CuGroups, CuOurs
  <2>3. CuDead' BY <1>17, <2>1, CuConstants DEF Cu!SaveRefreshed, CuGroups, CuDead, Cu!Gens
  <2> QED BY <1>17, <2>2, <2>3 DEF Cu!SaveRefreshed, CuGroups
<1>18. ASSUME NEW p \in Agents, Cu!SignOut(p) PROVE CuGroups'
  <2>1. v15[p] \in People BY <1>18, CuInHand DEF Cu!SignOut
  <2>2. CuOurs' BY <1>18, <2>1, CuTokens DEF Cu!SignOut, CuGroups, CuOurs
  <2>3. CuClient' BY <1>18, CuTokens DEF Cu!SignOut, CuGroups, CuClient
  <2>4. CuShared' BY <1>18, <2>1 DEF Cu!SignOut, CuGroups, CuShared
  <2> QED BY <1>18, <2>2, <2>3, <2>4 DEF Cu!SignOut, CuGroups
<1>19. ASSUME NEW p \in Agents, Cu!Die(p) PROVE CuGroups'
  <2>1. CuShared' BY <1>19, CuTokens DEF Cu!Die, CuGroups, CuShared, CuBits
  <2> QED BY <1>19, <2>1 DEF Cu!Die, CuGroups
\* What the user does.
<1>20. ASSUME Cu!UserStep, UNCHANGED Cu!theirs, CuServer', CuClient', CuShared',
   CuLately' PROVE CuGroups'
  <2>1. /\ UNCHANGED Cu!ours /\ UNCHANGED Cu!lockings /\ UNCHANGED v12 /\ UNCHANGED v13
        /\ UNCHANGED Cu!command /\ UNCHANGED Cu!token /\ UNCHANGED <<v1, v20>> /\ UNCHANGED v22
    BY <1>20 DEF Cu!theirs
  <2>2. CuOurs' /\ CuLocks' /\ CuDead' /\ CuStage' /\ CuCommand' /\ CuBits' /\ CuFaults' BY <2>1
  <2>3. CuCaps' BY <1>20, <2>1, CuConstants DEF Cu!UserStep, CuGroups, CuCaps
  <2> QED BY <1>20, <2>2, <2>3 DEF CuGroups
<1>21. Cu!Current \in Cu!MaybeToken BY DEF Cu!Current, CuGroups, CuClient
<1>22. ASSUME NEW t \in Cu!Tokens, Cu!SetCurrent(t), UNCHANGED v5 PROVE CuClient'
  BY <1>22, CuTokens DEF Cu!SetCurrent, CuGroups, CuClient
<1>23. ASSUME Cu!NativeRefresh PROVE CuGroups'
  <2>1. Cu!Current \in Cu!Tokens
    BY <1>21, <1>23, CuTokens DEF Cu!NativeRefresh, Cu!Renewable, Cu!Live
  <2>2. CuServer' /\ Cu!Rotated(Cu!Current) \in Cu!Tokens
    BY <1>23, <2>1, CuRotates DEF Cu!NativeRefresh, CuGroups
  <2>3. CuClient' BY <1>22, <1>23, <2>2 DEF Cu!NativeRefresh
  <2>4. CuShared' BY <1>23, <2>1, CuTokens DEF Cu!NativeRefresh, CuGroups, CuShared
  <2> QED BY <1>20, <1>23, <2>2, <2>3, <2>4 DEF Cu!NativeRefresh
<1>24. ASSUME Cu!NativeStrip PROVE CuGroups'
  <2>1. Cu!Current \in Cu!Tokens BY <1>21, <1>24, CuTokens DEF Cu!NativeStrip
  <2>2. [Cu!Current EXCEPT !.gen = 0] \in Cu!Tokens BY <2>1, CuConstants DEF Cu!Tokens, Cu!Gens
  <2>3. CuClient' BY <1>22, <1>24, <2>2 DEF Cu!NativeStrip
  <2>4. CuShared' BY <1>24, <2>1, CuTokens DEF Cu!NativeStrip, CuGroups, CuShared, Cu!Discarded
  <2> QED BY <1>20, <1>24, <2>3, <2>4 DEF Cu!NativeStrip
<1>25. ASSUME NEW a \in People, Cu!NativeLogin(a) PROVE CuGroups'
  <2>1. v3[a] + 1 \in Cu!Gens BY <1>25, CuConstants DEF Cu!NativeLogin, CuGroups, CuServer, Cu!Gens
  <2>2. [of |-> a, gen |-> v3[a] + 1] \in Cu!Tokens BY <2>1 DEF Cu!Tokens
  <2>3. CuClient' BY <1>22, <1>25, <2>2 DEF Cu!NativeLogin
  <2>4. CuShared'
    <3>1. Cu!Current # NoToken => Cu!Discarded(Cu!Current) \subseteq People
      BY <1>21, CuTokens DEF Cu!Discarded
    <3> QED BY <1>25, <3>1 DEF Cu!NativeLogin, CuGroups, CuShared, Cu!InHand
  <2>5. CuServer' BY <1>25, <2>1 DEF Cu!NativeLogin, CuGroups, CuServer
  <2>6. CuLately' BY <1>25, CuConstants DEF Cu!NativeLogin, Cu!SomethingElse, CuLately
  <2> QED BY <1>20, <1>25, <2>3, <2>4, <2>5, <2>6 DEF Cu!NativeLogin
<1>26. ASSUME Cu!UserOpens PROVE CuGroups'
  <2>1. CuClient' BY <1>26 DEF Cu!UserOpens, CuGroups, CuClient
  <2>2. CuShared' BY <1>26 DEF Cu!UserOpens, CuGroups, CuShared
  <2>3. CuLately' BY <1>26 DEF Cu!UserOpens, Cu!SomethingElse, CuLately
  <2> QED BY <1>20, <1>26, <2>1, <2>2, <2>3 DEF Cu!UserOpens
<1>27. ASSUME Cu!UserQuits PROVE CuGroups'
  <2>1. CuClient' BY <1>27, CuTokens DEF Cu!UserQuits, CuGroups, CuClient
  <2> QED BY <1>20, <1>27, <2>1 DEF Cu!UserQuits
<1>28. CASE UNCHANGED Cu!cursorVars
  <2>1. /\ UNCHANGED Cu!server /\ UNCHANGED Cu!client /\ UNCHANGED Cu!ours /\ UNCHANGED Cu!lockings
        /\ UNCHANGED v12 /\ UNCHANGED v13 /\ UNCHANGED Cu!command /\ UNCHANGED Cu!token
        /\ UNCHANGED Cu!caps /\ UNCHANGED Cu!past
    BY <1>28 DEF Cu!cursorVars, Cu!server, Cu!client, Cu!ours, Cu!lockings, Cu!command, Cu!caps,
       Cu!past, Cu!lately
  <2> QED BY <2>1 DEF CuGroups
<1>29. CASE Cu!Next
  <2>1. ASSUME NEW p \in Agents, Cu!Steps(p) PROVE CuGroups'
    <3>1. ASSUME NEW a \in v7,
                 Cu!Call(p, "switch", a, "SwitchLock") \/ Cu!Call(p, "query", a,
                    "Read") \/ Cu!Disconnect(p, a)
          PROVE  CuGroups'
      <4>1. a \in People BY DEF CuGroups, CuOurs
      <4>2. /\ {"switch", "query", "rm"} \subseteq Cu!Calls
            /\ {"SwitchLock", "Read", "RmWrite"} \subseteq Cu!Stages
        BY DEF Cu!Calls, Cu!Stages
      <4> QED BY <1>1, <3>1, <4>1, <4>2 DEF Cu!Disconnect
    <3>2. ASSUME Cu!Call(p, "sync", NoOne, "Read") PROVE CuGroups'
      <4>1. "sync" \in Cu!Calls /\ "Read" \in Cu!Stages BY DEF Cu!Calls, Cu!Stages
      <4> QED BY <1>1, <3>2, <4>1
    <3> QED
      BY <2>1, <3>1, <3>2, <1>2, <1>3, <1>4, <1>5, <1>6, <1>7, <1>8, <1>9, <1>10, <1>11, <1>12,
         <1>13, <1>14, <1>15, <1>16, <1>17, <1>18, <1>19 DEF Cu!Steps
  <2> QED BY <1>29, <2>1, <1>23, <1>24, <1>25, <1>26, <1>27 DEF Cu!Next
<1> QED BY <1>28, <1>29

LEMMA CuCommands == ASSUME Cu!CursorTypeOK, Cu!CommandsKept, [Cu!Next]_(Cu!cursorVars)
    PROVE Cu!CommandsKept'
<1>0. CuGroups BY CuTyped
<1>1. /\ v13 \in [Agents -> Cu!Stages] /\ v14 \in [Agents -> Cu!Calls \cup {"none"}]
      /\ v15 \in [Agents -> People \cup {NoOne}] /\ v9 \in [People -> Cu!MaybeToken]
      /\ v16 \in [Agents -> Cu!MaybeToken] /\ v17 \in [Agents -> Cu!MaybeToken]
      /\ v10 \in Agents \cup {NoOne} /\ v7 \subseteq People /\ v4 \in Cu!MaybeToken
  BY DEF Cu!CursorTypeOK
<1>2. Cu!StoredAsNamed /\ \A p \in Agents : Cu!CommandFits(p) BY DEF Cu!CommandsKept
<1> USE <1>1
\* One command goes on, and the others keep what they have.
<1>3. ASSUME NEW p \in Agents, Cu!StoredAsNamed', Cu!CommandFits(p)',
             \A q \in Agents \ {p} :
                /\ v13'[q] = v13[q] /\ v14'[q] = v14[q] /\ v15'[q] = v15[q]
                /\ v16'[q] = v16[q] /\ v17'[q] = v17[q]
                /\ v10 = q => v10' = q
      PROVE  Cu!CommandsKept'
  <2>1. ASSUME NEW q \in Agents \ {p} PROVE Cu!CommandFits(q)'
    BY <1>2, <1>3, <2>1 DEF Cu!CommandFits, Cu!InSwitch
  <2> QED BY <1>3, <2>1 DEF Cu!CommandsKept
<1>4. ASSUME NEW p \in Agents, Cu!Over(p), Cu!StoredAsNamed' PROVE Cu!CommandsKept'
  <2>1. Cu!CommandFits(p)' BY <1>4 DEF Cu!CommandFits, Cu!InSwitch, Cu!Over, Cu!Move
  <2> QED BY <1>3, <1>4, <2>1 DEF Cu!Over, Cu!Move
<1>5. ASSUME NEW p \in Agents, NEW s \in Cu!Stages, Cu!Move(p, s), UNCHANGED <<v9, v10,
   Cu!command, Cu!token>>,
             Cu!CommandFits(p)'
      PROVE  Cu!CommandsKept'
  BY <1>2, <1>3, <1>5 DEF Cu!Move, Cu!command, Cu!token, Cu!StoredAsNamed
<1>6. ASSUME UNCHANGED v9 PROVE Cu!StoredAsNamed' BY <1>2, <1>6 DEF Cu!StoredAsNamed
<1>7. ASSUME NEW p \in Agents, NEW k \in Cu!Calls, NEW a \in People \cup {NoOne},
        NEW s \in Cu!Stages,
             Cu!Call(p, k, a, s), k = "sync" \/ a \in People,
             \/ k \in {"switch", "rm"} /\ s = "SwitchLock"
             \/ k \in {"query", "sync"} /\ s = "Read"
             \/ k = "rm" /\ s = "RmWrite"
      PROVE  Cu!CommandsKept'
  <2>1. Cu!CommandFits(p)'
    <3>1. v13'[p] = s /\ v14'[p] = k /\ v15'[p] = a /\ v16'[p] = v16[p] /\ v13[p] = "Idle"
      BY <1>7 DEF Cu!Call, Cu!Move, Cu!token
    <3>2. v16[p] = NoToken BY <1>2, <3>1 DEF Cu!CommandFits
    <3> QED BY <1>7, <3>1, <3>2 DEF Cu!CommandFits, Cu!InSwitch, Cu!Calls
  <2>2. UNCHANGED <<v9, v10, v16, v17>> BY <1>7 DEF Cu!Call, Cu!ours, Cu!lockings, Cu!token
  <2> QED BY <1>3, <1>6, <1>7, <2>1, <2>2 DEF Cu!Call, Cu!Move
<1>8. ASSUME NEW p \in Agents, Cu!LockSwitch(p) PROVE Cu!CommandsKept'
  <2>1. Cu!StoredAsNamed' BY <1>6, <1>8 DEF Cu!LockSwitch, Cu!ours
  <2>2. CASE Cu!Over(p) BY <1>4, <2>1, <2>2
  <2>3. CASE /\ v10 = NoOne /\ v10' = p /\ UNCHANGED <<v11, Cu!command, Cu!token>>
             /\ \/ Cu!Move(p, "Stop")
                \/ v14[p] = "rm" /\ Cu!Move(p, "RmWrite")
                \/ v14[p] # "rm" /\ Cu!Move(p, "Read")
    <3>1. Cu!CommandFits(p)
      BY <1>2
    <3>2. Cu!CommandFits(p)'
      BY <1>8, <2>3, <3>1 DEF Cu!LockSwitch, Cu!CommandFits, Cu!InSwitch, Cu!Move, Cu!command,
         Cu!token
    <3> QED BY <1>3, <2>1, <2>3, <3>2, CuConstants DEF Cu!Move, Cu!command, Cu!token
  <2> QED BY <1>8, <2>2, <2>3 DEF Cu!LockSwitch
<1>9. ASSUME NEW p \in Agents, Cu!StopClient(p) PROVE Cu!CommandsKept'
  <2>1. Cu!StoredAsNamed' BY <1>6, <1>9 DEF Cu!StopClient, Cu!ours
  <2>2. CASE Cu!Over(p) BY <1>4, <2>1, <2>2
  <2>3. CASE /\ UNCHANGED <<Cu!lockings, Cu!command, v16, v17>>
             /\ \/ v14[p] = "rm" /\ Cu!Move(p, "RmWrite")
                \/ v14[p] # "rm" /\ Cu!Move(p, "Read")
    <3>1. Cu!CommandFits(p) BY <1>2
    <3>2. Cu!CommandFits(p)'
      BY <1>9, <2>3, <3>1 DEF Cu!StopClient, Cu!CommandFits, Cu!InSwitch, Cu!Move, Cu!command,
         Cu!lockings
    <3> QED BY <1>3, <2>1, <2>3, <3>2 DEF Cu!Move, Cu!command, Cu!lockings
  <2> QED BY <1>9, <2>2, <2>3 DEF Cu!StopClient, Cu!token
<1>10. ASSUME NEW p \in Agents, Cu!ReadLive(p) PROVE Cu!CommandsKept'
  <2>1. Cu!StoredAsNamed' BY <1>6, <1>10 DEF Cu!ReadLive, Cu!ours
  <2>2. Cu!CommandFits(p) /\ v13[p] = "Read" BY <1>2, <1>10 DEF Cu!ReadLive
  <2>3. \/ /\ v16' = [v16 EXCEPT ![p] = v9[v15[p]]] /\ Cu!Move(p, "Fetch")
           /\ UNCHANGED <<Cu!lockings, Cu!command, v17, v18, v19>> /\ v14[p] = "query"
        \/ /\ v17' = [v17 EXCEPT ![p] = v4] /\ Cu!Move(p, "Store") /\ v4 # NoToken
           /\ UNCHANGED <<Cu!lockings, Cu!command, v16, v18, v19>>
        \/ /\ v14[p] = "switch" /\ (Cu!Move(p, "Reopen") \/ Cu!Move(p, "Target"))
           /\ UNCHANGED <<Cu!lockings, Cu!command, Cu!token>>
        \/ Cu!Over(p)
    BY <1>10 DEF Cu!ReadLive
  <2>4. CASE Cu!Over(p) BY <1>4, <2>1, <2>4
  <2>5. CASE /\ v16' = [v16 EXCEPT ![p] = v9[v15[p]]] /\ Cu!Move(p, "Fetch")
             /\ UNCHANGED <<Cu!lockings, Cu!command, v17, v18, v19>> /\ v14[p] = "query"
    <3>1. v15[p] \in People BY <2>2, <2>5 DEF Cu!CommandFits
    <3>2. v16'[p] # NoToken => v16'[p].of = v15[p] BY <1>2, <2>5, <3>1 DEF Cu!StoredAsNamed
    <3>3. Cu!CommandFits(p)'
      BY <2>2, <2>5, <3>1, <3>2 DEF Cu!CommandFits, Cu!InSwitch, Cu!Move, Cu!command, Cu!lockings
    <3> QED BY <1>3, <2>1, <2>5, <3>3 DEF Cu!Move, Cu!command, Cu!lockings
  <2>6. CASE /\ v17' = [v17 EXCEPT ![p] = v4] /\ Cu!Move(p, "Store") /\ v4 # NoToken
             /\ UNCHANGED <<Cu!lockings, Cu!command, v16, v18, v19>>
    <3>1. Cu!CommandFits(p)'
      BY <2>2, <2>6 DEF Cu!CommandFits, Cu!InSwitch, Cu!Move, Cu!command, Cu!lockings
    <3> QED BY <1>3, <2>1, <2>6, <3>1 DEF Cu!Move, Cu!command, Cu!lockings
  <2>7. CASE /\ v14[p] = "switch" /\ (Cu!Move(p, "Reopen") \/ Cu!Move(p, "Target"))
             /\ UNCHANGED <<Cu!lockings, Cu!command, Cu!token>>
    <3>1. Cu!CommandFits(p)'
      BY <2>2, <2>7 DEF Cu!CommandFits, Cu!InSwitch, Cu!Move, Cu!command, Cu!token, Cu!lockings
    <3> QED BY <1>3, <2>1, <2>7, <3>1 DEF Cu!Move, Cu!command, Cu!token, Cu!lockings
  <2> QED BY <2>3, <2>4, <2>5, <2>6, <2>7
<1>11. ASSUME NEW p \in Agents, Cu!StoreLive(p) PROVE Cu!CommandsKept'
  <2>1. Cu!CommandFits(p) /\ v13[p] = "Store" BY <1>2, <1>11 DEF Cu!StoreLive
  <2>2. v17[p] \in Cu!Tokens /\ v17[p].of \in People
    BY <1>0, <1>11, CuInHand, CuTokens DEF Cu!StoreLive
  <2>3. Cu!StoredAsNamed'
    <3>1. Cu!Kept(v9[v17[p].of], v17[p]).of = v17[p].of BY <1>2, <2>2 DEF Cu!StoredAsNamed, Cu!Kept
    <3>2. \A a \in People : \/ v9'[a] = v9[a]
                            \/ a = v17[p].of /\ v9'[a] \in {v17[p], Cu!Kept(v9[a], v17[p])}
      BY <1>11 DEF Cu!StoreLive
    <3> QED BY <1>2, <3>1, <3>2 DEF Cu!StoredAsNamed
  <2>4. CASE Cu!Over(p) BY <1>4, <2>3, <2>4
  <2>5. CASE /\ v14[p] = "switch" /\ Cu!Move(p, "Target") /\ v17' = [v17 EXCEPT ![p] = NoToken]
             /\ UNCHANGED <<Cu!lockings, Cu!command, v16>>
    <3>1. Cu!CommandFits(p)'
      BY <2>1, <2>5 DEF Cu!CommandFits, Cu!InSwitch, Cu!Move, Cu!command, Cu!lockings
    <3> QED BY <1>3, <2>3, <2>5, <3>1 DEF Cu!Move, Cu!command, Cu!lockings
  <2>6. CASE v14[p] = "sync" /\ Cu!Move(p, "Mark") /\ UNCHANGED <<Cu!lockings, Cu!command,
          Cu!token>>
    <3>1. Cu!CommandFits(p)'
      BY <2>1, <2>6 DEF Cu!CommandFits, Cu!InSwitch, Cu!Move, Cu!command, Cu!token, Cu!lockings
    <3> QED BY <1>3, <2>3, <2>6, <3>1 DEF Cu!Move, Cu!command, Cu!token, Cu!lockings
  <2> QED BY <1>11, <2>4, <2>5, <2>6 DEF Cu!StoreLive
<1>12. ASSUME NEW p \in Agents, Cu!TakeTarget(p) PROVE Cu!CommandsKept'
  <2>1. Cu!StoredAsNamed' BY <1>6, <1>12 DEF Cu!TakeTarget, Cu!ours
  <2>2. Cu!CommandFits(p) /\ v13[p] = "Target" BY <1>2, <1>12 DEF Cu!TakeTarget
  <2>3. v15[p] \in People BY <1>0, <1>12, CuInHand DEF Cu!TakeTarget
  <2>4. CASE /\ v9[v15[p]] # NoToken /\ v16' = [v16 EXCEPT ![p] = v9[v15[p]]] /\ Cu!Move(p, "Write")
    <3>1. v16'[p] # NoToken /\ v16'[p].of = v15[p] BY <1>2, <2>3, <2>4 DEF Cu!StoredAsNamed
    <3>2. Cu!CommandFits(p)'
      BY <1>12, <2>2, <2>3, <2>4, <3>1 DEF Cu!TakeTarget, Cu!CommandFits, Cu!InSwitch, Cu!Move,
         Cu!command, Cu!lockings
    <3> QED BY <1>3, <1>12, <2>1, <2>4, <3>2 DEF Cu!TakeTarget, Cu!Move, Cu!command, Cu!lockings
  <2>5. CASE Cu!Move(p, "Reopen") /\ UNCHANGED <<v16, v18>>
    <3>1. Cu!CommandFits(p)'
      BY <1>12, <2>2, <2>5 DEF Cu!TakeTarget, Cu!CommandFits, Cu!InSwitch, Cu!Move, Cu!command,
         Cu!lockings
    <3> QED BY <1>3, <1>12, <2>1, <2>5, <3>1 DEF Cu!TakeTarget, Cu!Move, Cu!command, Cu!lockings
  <2> QED BY <1>12, <2>4, <2>5 DEF Cu!TakeTarget
<1>13. ASSUME NEW p \in Agents, Cu!WriteToken(p) PROVE Cu!CommandsKept'
  <2>1. Cu!CommandFits(p)'
    <3>1. Cu!CommandFits(p) BY <1>2
    <3> QED
      BY <1>13, <3>1 DEF Cu!WriteToken, Cu!CommandFits, Cu!InSwitch, Cu!Move, Cu!command,
         Cu!token, Cu!lockings
  <2>2. "Mark" \in Cu!Stages BY DEF Cu!Stages
  <2> QED BY <1>5, <1>13, <2>1, <2>2 DEF Cu!WriteToken, Cu!ours, Cu!lockings
<1>14. ASSUME NEW p \in Agents, Cu!MarkActive(p) PROVE Cu!CommandsKept'
  <2>1. Cu!StoredAsNamed' BY <1>6, <1>14 DEF Cu!MarkActive
  <2>2. CASE Cu!Over(p) BY <1>4, <2>1, <2>2
  <2>3. CASE v14[p] # "sync" /\ Cu!Move(p, "Start") /\ UNCHANGED <<Cu!lockings, Cu!command,
          Cu!token>>
    <3>1. Cu!CommandFits(p)'
      <4>1. Cu!CommandFits(p) BY <1>2
      <4> QED
        BY <1>14, <2>3, <4>1 DEF Cu!MarkActive, Cu!CommandFits, Cu!InSwitch, Cu!Move, Cu!command,
           Cu!token, Cu!lockings
    <3> QED BY <1>3, <2>1, <2>3, <3>1 DEF Cu!Move, Cu!command, Cu!token, Cu!lockings
  <2> QED BY <1>14, <2>2, <2>3 DEF Cu!MarkActive
<1>15. ASSUME NEW p \in Agents, Cu!StartClient(p) PROVE Cu!CommandsKept'
  <2>1. Cu!StoredAsNamed' BY <1>6, <1>15 DEF Cu!StartClient, Cu!ours
  <2>2. CASE Cu!Over(p) BY <1>4, <2>1, <2>2
  <2>3. CASE Cu!Move(p, "UndoToken") /\ UNCHANGED <<Cu!lockings, Cu!command, Cu!token>>
    <3>1. Cu!CommandFits(p)'
      <4>1. Cu!CommandFits(p) BY <1>2
      <4> QED
        BY <1>15, <2>3, <4>1 DEF Cu!StartClient, Cu!CommandFits, Cu!InSwitch, Cu!Move, Cu!command,
           Cu!token, Cu!lockings
    <3> QED BY <1>3, <2>1, <2>3, <3>1 DEF Cu!Move, Cu!command, Cu!token, Cu!lockings
  <2> QED BY <1>15, <2>2, <2>3 DEF Cu!StartClient
<1>16. ASSUME NEW p \in Agents, Cu!Break(p) \/ Cu!UndoToken(p) \/ Cu!UndoMark(p)
      PROVE Cu!CommandsKept'
  <2>1. Cu!CommandFits(p) BY <1>2
  <2>2. UNCHANGED <<v9, Cu!lockings, Cu!command, Cu!token>>
    BY <1>16 DEF Cu!Break, Cu!UndoToken, Cu!UndoMark, Cu!ours
  <2>3. /\ v13[p] \in {"Write", "Mark", "UndoToken", "UndoMark"} /\ v14[p] = "switch"
        /\ Cu!Move(p, "UndoToken") \/ Cu!Move(p, "UndoMark") \/ Cu!Move(p, "Reopen")
    BY <1>16, <2>1 DEF Cu!Break, Cu!UndoToken, Cu!UndoMark, Cu!CommandFits
  <2>4. Cu!CommandFits(p)'
    BY <2>1, <2>2, <2>3 DEF Cu!CommandFits, Cu!InSwitch, Cu!Move, Cu!command, Cu!token,
       Cu!lockings
  <2> QED BY <1>3, <1>6, <2>2, <2>3, <2>4 DEF Cu!Move, Cu!command, Cu!token, Cu!lockings
<1>17. ASSUME NEW p \in Agents, Cu!Reopen(p) \/ Cu!SignOut(p) \/ Cu!Die(p) \/ Cu!SaveRefreshed(p)
      PROVE Cu!CommandsKept'
  <2>1. Cu!Over(p) BY <1>17 DEF Cu!Reopen, Cu!SignOut, Cu!Die, Cu!SaveRefreshed
  <2>2. CASE Cu!Reopen(p) \/ Cu!Die(p) BY <1>4, <1>6, <2>1, <2>2 DEF Cu!Reopen, Cu!Die, Cu!ours
  <2>3. CASE Cu!SignOut(p)
    <3>1. Cu!StoredAsNamed' BY <1>2, <2>3 DEF Cu!SignOut, Cu!StoredAsNamed
    <3> QED BY <1>4, <2>1, <3>1
  <2>4. CASE Cu!SaveRefreshed(p)
    <3>1. v16[p] \in Cu!Tokens /\ v16[p].of = v15[p] BY <1>0, <2>4, CuInHand DEF Cu!SaveRefreshed
    <3>2. Cu!StoredAsNamed' BY <1>2, <2>4, <3>1 DEF Cu!SaveRefreshed, Cu!StoredAsNamed
    <3> QED BY <1>4, <2>1, <3>2
  <2> QED BY <1>17, <2>2, <2>3, <2>4
<1>18. ASSUME NEW p \in Agents, Cu!FetchUsage(p) \/ Cu!LockRefresh(p) PROVE Cu!CommandsKept'
  <2>1. Cu!CommandFits(p) BY <1>2
  <2>2. Cu!StoredAsNamed' BY <1>6, <1>18 DEF Cu!FetchUsage, Cu!LockRefresh, Cu!ours
  <2>3. CASE Cu!Over(p) BY <1>4, <2>2, <2>3
  <2>4. CASE /\ UNCHANGED <<v10, Cu!command, Cu!token>> /\ v13[p] \in {"Fetch", "RefreshLock"}
             /\ v16[p] # NoToken /\ (Cu!Move(p, "RefreshLock") \/ Cu!Move(p, "Post"))
    <3>1. Cu!CommandFits(p)'
      BY <2>1, <2>4 DEF Cu!CommandFits, Cu!InSwitch, Cu!Move, Cu!command, Cu!token
    <3> QED BY <1>3, <2>2, <2>4, <3>1 DEF Cu!Move, Cu!command, Cu!token
  <2>5. \/ Cu!Over(p)
        \/ /\ UNCHANGED <<v10, Cu!command, Cu!token>> /\ v13[p] \in {"Fetch", "RefreshLock"}
           /\ v16[p] # NoToken /\ (Cu!Move(p, "RefreshLock") \/ Cu!Move(p, "Post"))
    BY <1>18, <2>1 DEF Cu!FetchUsage, Cu!LockRefresh, Cu!CommandFits, Cu!lockings
  <2> QED BY <2>3, <2>4, <2>5
<1>19. ASSUME NEW p \in Agents, Cu!Post(p) PROVE Cu!CommandsKept'
  <2>1. Cu!CommandFits(p) BY <1>2
  <2>2. Cu!StoredAsNamed' BY <1>6, <1>19 DEF Cu!Post, Cu!ours
  <2>3. CASE Cu!Over(p) BY <1>4, <2>2, <2>3
  <2>4. CASE /\ Cu!Rotate(v16[p]) /\ v16' = [v16 EXCEPT ![p] = Cu!Rotated(v16[p])] /\ Cu!Move(p,
                 "Save")
             /\ UNCHANGED <<Cu!lockings, Cu!command, v17, v18, v19>>
    <3>1. v16[p] \in Cu!Tokens BY <1>0, <1>19, CuInHand DEF Cu!Post
    <3>2. Cu!Rotated(v16[p]) \in Cu!Tokens /\ Cu!Rotated(v16[p]).of = v16[p].of
      BY <1>0, <2>4, <3>1, CuRotates DEF CuGroups
    <3>3. v16'[p] # NoToken /\ v16'[p].of = v15[p]
      BY <1>0, <1>19, <2>4, <3>2, CuInHand, CuTokens DEF Cu!Post
    <3>4. Cu!CommandFits(p)'
      BY <1>19, <2>1, <2>4, <3>3 DEF Cu!Post, Cu!CommandFits, Cu!InSwitch, Cu!Move, Cu!command,
         Cu!lockings
    <3> QED BY <1>3, <2>2, <2>4, <3>4 DEF Cu!Move, Cu!command, Cu!lockings
  <2> QED BY <1>19, <2>3, <2>4 DEF Cu!Post
\* What the user does is not seen by a command at its step.
<1>20. ASSUME UNCHANGED <<v9, v13, v14, v15, v16, v17, v10>> PROVE Cu!CommandsKept'
  BY <1>2, <1>20 DEF Cu!CommandsKept, Cu!StoredAsNamed, Cu!CommandFits, Cu!InSwitch
<1>21. CASE Cu!NativeRefresh \/ Cu!NativeStrip \/ Cu!UserOpens \/ Cu!UserQuits
        \/ \E a \in People : Cu!NativeLogin(a)
  BY <1>20, <1>21 DEF Cu!NativeRefresh, Cu!NativeStrip, Cu!UserOpens, Cu!UserQuits,
     Cu!NativeLogin, Cu!theirs, Cu!ours, Cu!lockings, Cu!command, Cu!token
<1>22. CASE UNCHANGED Cu!cursorVars BY <1>20, <1>22 DEF Cu!cursorVars, Cu!token
<1>23. ASSUME NEW p \in Agents, Cu!Steps(p) PROVE Cu!CommandsKept'
  <2>1. ASSUME NEW a \in v7,
               Cu!Call(p, "switch", a, "SwitchLock") \/ Cu!Call(p, "query", a,
                  "Read") \/ Cu!Disconnect(p, a)
        PROVE  Cu!CommandsKept'
    <3>1. a \in People OBVIOUS
    <3>2. /\ {"switch", "query", "rm"} \subseteq Cu!Calls
          /\ {"SwitchLock", "Read", "RmWrite"} \subseteq Cu!Stages
      BY DEF Cu!Calls, Cu!Stages
    <3> QED BY <1>7, <2>1, <3>1, <3>2 DEF Cu!Disconnect
  <2>2. ASSUME Cu!Call(p, "sync", NoOne, "Read") PROVE Cu!CommandsKept'
    <3>1. "sync" \in Cu!Calls /\ "Read" \in Cu!Stages BY DEF Cu!Calls, Cu!Stages
    <3> QED BY <1>7, <2>2, <3>1
  <2> QED
    BY <1>23, <2>1, <2>2, <1>8, <1>9, <1>10, <1>11, <1>12, <1>13, <1>14, <1>15, <1>16, <1>17,
       <1>18, <1>19 DEF Cu!Steps
<1> QED BY <1>21, <1>22, <1>23 DEF Cu!Next

\* Whose token is live, and whose accounts.toml marks, as a switch sees them.
LEMMA CuChosen == ASSUME Cu!CursorTypeOK, Cu!CommandsKept, Cu!ChosenKept, [Cu!Next]_(Cu!cursorVars)
    PROVE Cu!ChosenKept'
<1>0. CuGroups BY CuTyped
<1>1. /\ v13 \in [Agents -> Cu!Stages] /\ v14 \in [Agents -> Cu!Calls \cup {"none"}]
      /\ v15 \in [Agents -> People \cup {NoOne}]
      /\ v16 \in [Agents -> Cu!MaybeToken] /\ v17 \in [Agents -> Cu!MaybeToken]
      /\ v18 \in [Agents -> [disk : Cu!MaybeToken, mark : People \cup {NoOne},
          known : SUBSET People]]
      /\ v10 \in Agents \cup {NoOne} /\ v4 \in Cu!MaybeToken /\ v6 \in Cu!MaybeToken
      /\ v24 \in Agents \cup {NoOne} /\ v25 \in People \cup {NoOne}
  BY DEF Cu!CursorTypeOK
<1>2. \A p \in Agents : Cu!CommandFits(p) BY DEF Cu!CommandsKept
<1>3. /\ v25 # NoOne /\ (\A p \in Agents : ~Cu!Unfinished(p)) => Cu!InEffect
      /\ \A p \in Agents : Cu!SwitchKept(p)
  BY DEF Cu!ChosenKept
<1> USE <1>1, CuConstants
\* Who holds the lock is the only switch that is past it.
<1>4. ASSUME NEW p \in Agents, v10 \in {p, NoOne}, NEW q \in Agents \ {p}
      PROVE  ~Cu!InSwitch(q)
  BY <1>2, <1>4 DEF Cu!CommandFits
\* Nothing is chosen from now on.
<1>5. ASSUME Cu!SomethingElse PROVE Cu!ChosenKept'
  BY <1>5 DEF Cu!SomethingElse, Cu!ChosenKept, Cu!SwitchKept
\* The one switch goes on.
<1>6. ASSUME NEW p \in Agents, \A q \in Agents \ {p} : ~Cu!InSwitch(q)',
             Cu!SwitchKept(p)', v25' # NoOne /\ ~Cu!Unfinished(p)' => Cu!InEffect'
      PROVE  Cu!ChosenKept'
  BY <1>6 DEF Cu!ChosenKept, Cu!SwitchKept, Cu!Unfinished
\* What is in effect stays so, and the switches are where they were.
<1>7. ASSUME NEW S \in SUBSET Agents, UNCHANGED <<v8, v24, v25>>,
             \A a \in People : Cu!IsFor(Cu!Current, a) => Cu!IsFor(Cu!Current', a),
             \A q \in Agents \ S :
                v13'[q] = v13[q] /\ v14'[q] = v14[q] /\ v15'[q] = v15[q] /\ v18'[q] = v18[q],
             \A q \in Agents \ S : Cu!InSwitch(q) /\ v24 = q /\ v13[q] # "Stop" /\ ~v5 =>
                ~v5' /\ \A a \in People : Cu!IsFor(v4, a) => Cu!IsFor(v4', a),
             \A q \in S : ~Cu!Unfinished(q) /\ ~Cu!InSwitch(q)'
      PROVE  Cu!ChosenKept'
  <2>1. ASSUME v25' # NoOne, \A q \in Agents : ~Cu!Unfinished(q)' PROVE Cu!InEffect'
    <3>1. \A q \in Agents : ~Cu!Unfinished(q) BY <1>7, <2>1 DEF Cu!Unfinished, Cu!InSwitch
    <3> QED BY <1>3, <1>7, <2>1, <3>1 DEF Cu!InEffect, Cu!IsFor
  <2>2. ASSUME NEW q \in Agents \ S PROVE Cu!SwitchKept(q)'
    <3>1. Cu!SwitchKept(q) /\ Cu!CommandFits(q) BY <1>2, <1>3
    <3>2. Cu!InSwitch(q)' <=> Cu!InSwitch(q) BY <1>7 DEF Cu!InSwitch
    <3>3. Cu!InSwitch(q) => v15[q] \in People BY <3>1 DEF Cu!CommandFits, Cu!InSwitch
    <3> QED BY <1>7, <3>1, <3>2, <3>3 DEF Cu!SwitchKept, Cu!IsFor
  <2>3. ASSUME NEW q \in S PROVE Cu!SwitchKept(q)' BY <1>7, <2>3 DEF Cu!SwitchKept
  <2> QED BY <2>1, <2>2, <2>3 DEF Cu!ChosenKept
\* A command that is no switch, or not yet, does not touch what is in effect.
<1>8. ASSUME NEW p \in Agents, UNCHANGED <<v8, v24, v25, v4, v5, v6>>,
             \A q \in Agents \ {p} :
                v13'[q] = v13[q] /\ v14'[q] = v14[q] /\ v15'[q] = v15[q] /\ v18'[q] = v18[q],
             ~Cu!Unfinished(p), ~Cu!InSwitch(p)'
      PROVE  Cu!ChosenKept'
  <2>1. \A a \in People : Cu!IsFor(Cu!Current, a) => Cu!IsFor(Cu!Current', a)
    BY <1>8 DEF Cu!Current, Cu!IsFor
  <2>2. \A a \in People : Cu!IsFor(v4, a) => Cu!IsFor(v4', a) BY <1>8 DEF Cu!IsFor
  <2>3. {p} \in SUBSET Agents /\ \A q \in {p} : ~Cu!Unfinished(q) /\ ~Cu!InSwitch(q)' BY <1>8
  <2>4. \A q \in Agents \ {p} : Cu!InSwitch(q) /\ v24 = q /\ v13[q] # "Stop" /\ ~v5 =>
           ~v5' /\ \A a \in People : Cu!IsFor(v4, a) => Cu!IsFor(v4', a)
    BY <1>8, <2>2
  <2>5. UNCHANGED <<v8, v24, v25>> BY <1>8
  <2> QED BY <1>7, <1>8, <2>1, <2>3, <2>4, <2>5
<1>9. ASSUME NEW p \in Agents, NEW k, NEW a, NEW s,
             Cu!Call(p, k, a, s), s \in {"SwitchLock", "Read", "RmWrite"}, k # "switch"
                     \/ s = "SwitchLock"
      PROVE  Cu!ChosenKept'
  <2>1. ~Cu!Unfinished(p) /\ ~Cu!InSwitch(p)'
    BY <1>9 DEF Cu!Call, Cu!Move, Cu!Unfinished, Cu!InSwitch
  <2> QED BY <1>8, <1>9, <2>1 DEF Cu!Call, Cu!Move, Cu!ours, Cu!client, Cu!token, Cu!past, Cu!lately
<1>10. ASSUME NEW p \in Agents, Cu!LockSwitch(p) PROVE Cu!ChosenKept'
  <2>1. ~Cu!Unfinished(p) /\ UNCHANGED <<v8, v25, v4, v5, v6>>
    BY <1>10 DEF Cu!LockSwitch, Cu!Unfinished, Cu!InSwitch, Cu!ours, Cu!client
  <2>2. CASE Cu!Over(p) /\ UNCHANGED v24
    <3>1. ~Cu!InSwitch(p)' BY <2>2 DEF Cu!Over, Cu!Move, Cu!InSwitch
    <3> QED BY <1>8, <2>1, <2>2, <3>1 DEF Cu!Over, Cu!Move
  <2>3. CASE /\ v10 = NoOne /\ v24' = IF v14[p] = "switch" THEN p ELSE v24
             /\ UNCHANGED <<Cu!command, Cu!token>>
             /\ \/ Cu!Move(p, "Stop")
                \/ ~v5 /\ (Cu!Move(p, "RmWrite") \/ Cu!Move(p, "Read"))
    <3>1. \A q \in Agents \ {p} : ~Cu!InSwitch(q)'
      BY <1>4, <2>3 DEF Cu!InSwitch, Cu!Move, Cu!command
    <3>2. Cu!SwitchKept(p)' BY <2>1, <2>3 DEF Cu!SwitchKept, Cu!InSwitch, Cu!Move, Cu!command
    <3>3. v25' # NoOne => Cu!InEffect'
      <4>1. \A q \in Agents : ~Cu!Unfinished(q) BY <1>4, <2>1, <2>3 DEF Cu!Unfinished
      <4> QED BY <1>3, <2>1, <4>1 DEF Cu!InEffect, Cu!Current
    <3> QED BY <1>6, <3>1, <3>2, <3>3
  <2> QED BY <1>10, <2>2, <2>3 DEF Cu!LockSwitch
<1>11. ASSUME NEW p \in Agents, Cu!StopClient(p) PROVE Cu!ChosenKept'
  <2>1. ~Cu!Unfinished(p) /\ UNCHANGED <<v8, v24, v25>> /\ v13[p] = "Stop"
    BY <1>11 DEF Cu!StopClient, Cu!Unfinished, Cu!InSwitch, Cu!ours, Cu!past, Cu!lately
  <2>2. \A a : Cu!IsFor(Cu!Current, a) => Cu!IsFor(Cu!Current', a)
    BY <1>11 DEF Cu!StopClient, Cu!Current, Cu!IsFor, Cu!client
  <2>3. \/ ~v5' \/ UNCHANGED <<v4, v5, v6>> BY <1>11 DEF Cu!StopClient, Cu!client
  <2>4. \A q \in Agents \ {p} :
           v13'[q] = v13[q] /\ v14'[q] = v14[q] /\ v15'[q] = v15[q] /\ v18'[q] = v18[q]
    BY <1>11 DEF Cu!StopClient, Cu!Over, Cu!Move, Cu!command, Cu!token
  <2>5. CASE ~Cu!InSwitch(p)'
    <3>1. ~v5 => UNCHANGED <<v4, v5, v6>> BY <1>11 DEF Cu!StopClient, Cu!client
    <3>2. \A q \in Agents \ {p} : Cu!InSwitch(q) /\ v24 = q /\ v13[q] # "Stop" /\ ~v5 =>
             ~v5' /\ \A a \in People : Cu!IsFor(v4, a) => Cu!IsFor(v4', a)
      BY <3>1 DEF Cu!IsFor
    <3>3. {p} \in SUBSET Agents /\ \A q \in {p} : ~Cu!Unfinished(q) /\ ~Cu!InSwitch(q)'
      BY <2>1, <2>5
    <3> QED BY <1>7, <2>1, <2>2, <2>4, <3>2, <3>3
  <2>6. CASE Cu!InSwitch(p)'
    <3>1. /\ v14[p] = "switch" /\ v14'[p] = "switch" /\ v13'[p] = "Read" /\ ~v5'
      BY <1>11, <2>6 DEF Cu!StopClient, Cu!InSwitch, Cu!Over, Cu!Move, Cu!client, Cu!command,
         Cu!Calls
    <3>2. Cu!InSwitch(p) /\ Cu!SwitchKept(p) BY <1>3, <2>1, <3>1 DEF Cu!InSwitch
    <3>3. v10 = p BY <1>2, <3>2 DEF Cu!CommandFits
    <3>4. \A q \in Agents \ {p} : ~Cu!InSwitch(q)' BY <1>4, <2>4, <3>3 DEF Cu!InSwitch
    <3>5. Cu!SwitchKept(p)' BY <2>1, <3>1, <3>2 DEF Cu!SwitchKept, Cu!InSwitch
    <3>6. v25' # NoOne => Cu!InEffect'
      <4>1. \A q \in Agents : ~Cu!Unfinished(q) BY <1>4, <2>1, <3>3 DEF Cu!Unfinished
      <4> QED BY <1>3, <2>1, <2>2, <4>1 DEF Cu!InEffect
    <3> QED BY <1>6, <3>4, <3>5, <3>6
  <2> QED BY <2>5, <2>6
\* A switch reads and stores before it writes.
<1>12. ASSUME NEW p \in Agents, v13[p] \in {"Read", "Store"},
              UNCHANGED <<v8, v24, v25, v4, v5, v6>>,
              \A q \in Agents \ {p} :
                 v13'[q] = v13[q] /\ v14'[q] = v14[q] /\ v15'[q] = v15[q] /\ v18'[q] = v18[q],
              ~Cu!InSwitch(p)' \/ (v13'[p] \in {"Store", "Target", "Reopen"} /\ v14'[p] = v14[p])
       PROVE  Cu!ChosenKept'
  <2>1. ~Cu!Unfinished(p) BY <1>12 DEF Cu!Unfinished
  <2>2. CASE ~Cu!InSwitch(p)' BY <1>8, <1>12, <2>1, <2>2
  <2>3. CASE Cu!InSwitch(p)'
    <3>1. Cu!InSwitch(p) /\ Cu!SwitchKept(p) /\ v13[p] # "Stop" BY <1>3, <1>12, <2>3 DEF Cu!InSwitch
    <3>2. v10 = p BY <1>2, <3>1 DEF Cu!CommandFits
    <3>3. \A q \in Agents \ {p} : ~Cu!InSwitch(q)' BY <1>4, <1>12, <3>2 DEF Cu!InSwitch
    <3>4. Cu!SwitchKept(p)' BY <1>12, <2>3, <3>1 DEF Cu!SwitchKept
    <3>5. v25' # NoOne => Cu!InEffect'
      <4>1. \A q \in Agents : ~Cu!Unfinished(q) BY <1>4, <2>1, <3>2 DEF Cu!Unfinished
      <4> QED BY <1>3, <1>12, <4>1 DEF Cu!InEffect, Cu!Current
    <3> QED BY <1>6, <3>3, <3>4, <3>5
  <2> QED BY <2>2, <2>3
<1>13. ASSUME NEW p \in Agents, Cu!ReadLive(p) PROVE Cu!ChosenKept'
  <2>1. v13[p] = "Read" /\ UNCHANGED <<v8, v24, v25, v4, v5, v6>>
    BY <1>13 DEF Cu!ReadLive, Cu!ours, Cu!past, Cu!lately, Cu!client
  <2>2. /\ \A q \in Agents \ {p} :
              v13'[q] = v13[q] /\ v14'[q] = v14[q] /\ v15'[q] = v15[q] /\ v18'[q] = v18[q]
        /\ ~Cu!InSwitch(p)' \/ (v13'[p] \in {"Store", "Target", "Reopen"} /\ v14'[p] = v14[p])
    <3>1. CASE Cu!Over(p) BY <3>1 DEF Cu!Over, Cu!Move, Cu!InSwitch
    <3>2. CASE Cu!Move(p, "Fetch") /\ v14[p] = "query" /\ UNCHANGED <<Cu!command, v18>>
      BY <3>2 DEF Cu!Move, Cu!InSwitch, Cu!command
    <3>3. CASE (Cu!Move(p, "Store") \/ Cu!Move(p, "Reopen") \/ Cu!Move(p, "Target"))
            /\ UNCHANGED <<Cu!command, v18>>
      BY <3>3 DEF Cu!Move, Cu!command
    <3> QED BY <1>13, <3>1, <3>2, <3>3 DEF Cu!ReadLive, Cu!token
  <2> QED BY <1>12, <2>1, <2>2
<1>14. ASSUME NEW p \in Agents, Cu!StoreLive(p) PROVE Cu!ChosenKept'
  <2>1. v13[p] = "Store" /\ UNCHANGED <<v8, v24, v25, v4, v5, v6>>
    BY <1>14 DEF Cu!StoreLive, Cu!lately, Cu!client
  <2>2. /\ \A q \in Agents \ {p} :
              v13'[q] = v13[q] /\ v14'[q] = v14[q] /\ v15'[q] = v15[q] /\ v18'[q] = v18[q]
        /\ ~Cu!InSwitch(p)' \/ (v13'[p] \in {"Store", "Target", "Reopen"} /\ v14'[p] = v14[p])
    <3>1. CASE Cu!Over(p) BY <3>1 DEF Cu!Over, Cu!Move, Cu!InSwitch
    <3>2. CASE Cu!Move(p, "Mark") /\ v14[p] = "sync" /\ UNCHANGED <<Cu!command, v18>>
      BY <3>2 DEF Cu!Move, Cu!InSwitch, Cu!command
    <3>3. CASE Cu!Move(p, "Target") /\ UNCHANGED <<Cu!command, v18>> BY <3>3 DEF Cu!Move, Cu!command
    <3> QED BY <1>14, <3>1, <3>2, <3>3 DEF Cu!StoreLive, Cu!token
  <2> QED BY <1>12, <2>1, <2>2
\* A switch from its target on.
<1>15. ASSUME NEW p \in Agents,
              v13[p] \in {"Target", "Write", "Start", "UndoToken", "UndoMark", "Reopen"}
                 \/ (v13[p] = "Mark" /\ v14[p] # "sync")
       PROVE  /\ Cu!InSwitch(p) /\ v14[p] = "switch" /\ v15[p] \in People /\ Cu!SwitchKept(p)
              /\ v25 # NoOne => v24 = p /\ ~v5
              /\ v24 = p => ~v5
              /\ \A q \in Agents \ {p} : ~Cu!InSwitch(q) /\ ~Cu!Unfinished(q)
              /\ v25 # NoOne /\ ~Cu!Unfinished(p) => Cu!InEffect
  <2>1. v14[p] = "switch" /\ v15[p] \in People /\ Cu!InSwitch(p) /\ Cu!SwitchKept(p)
    BY <1>2, <1>3, <1>15 DEF Cu!CommandFits, Cu!InSwitch
  <2>2. v10 = p BY <1>2, <2>1 DEF Cu!CommandFits
  <2>3. \A q \in Agents \ {p} : ~Cu!InSwitch(q) /\ ~Cu!Unfinished(q) BY <1>4, <2>2 DEF Cu!Unfinished
  <2>4. v13[p] # "Stop" BY <1>15
  <2> QED BY <1>3, <2>1, <2>3, <2>4 DEF Cu!SwitchKept
<1>16. ASSUME NEW p \in Agents, \A q \in Agents \ {p} : ~Cu!InSwitch(q),
              \A q \in Agents \ {p} : v13'[q] = v13[q] /\ v14'[q] = v14[q],
              ~Cu!InSwitch(p)', v25' # NoOne => Cu!InEffect'
       PROVE  Cu!ChosenKept'
  <2>1. \A q \in Agents \ {p} : ~Cu!InSwitch(q)' BY <1>16 DEF Cu!InSwitch
  <2>2. Cu!SwitchKept(p)' BY <1>16 DEF Cu!SwitchKept
  <2> QED BY <1>6, <1>16, <2>1, <2>2
<1>17. ASSUME NEW p \in Agents, Cu!TakeTarget(p) PROVE Cu!ChosenKept'
  <2>1. v13[p] = "Target" /\ UNCHANGED <<v8, v24, v25, v4, v5, v6, v14, v15>>
    BY <1>17 DEF Cu!TakeTarget, Cu!ours, Cu!lately, Cu!client, Cu!command
  <2>2. \A q \in Agents \ {p} : ~Cu!InSwitch(q)'
    BY <1>15, <1>17, <2>1 DEF Cu!TakeTarget, Cu!InSwitch, Cu!Move
  <2>3. v25 # NoOne => Cu!IsFor(v4, v25) /\ v8 = v25 /\ Cu!InEffect
    BY <1>15, <2>1 DEF Cu!InEffect, Cu!Unfinished, Cu!Current
  <2>4. v25' # NoOne => Cu!InEffect' BY <2>1, <2>3 DEF Cu!InEffect, Cu!Current
  <2>5. CASE v18' = [v18 EXCEPT ![p] = [disk |-> v4, mark |-> v8, known |-> v7]] /\ Cu!Move(p,
          "Write")
    <3>1. v13'[p] = "Write" /\ v18'[p].disk = v4 /\ v18'[p].mark = v8 BY <2>5 DEF Cu!Move
    <3>2. Cu!SwitchKept(p)' BY <1>15, <2>1, <2>3, <3>1 DEF Cu!SwitchKept, Cu!InSwitch, Cu!IsFor
    <3> QED BY <1>6, <2>2, <2>4, <3>2
  <2>6. CASE Cu!Move(p, "Reopen")
    <3>1. v13'[p] = "Reopen" BY <2>6 DEF Cu!Move
    <3>2. Cu!SwitchKept(p)' BY <1>15, <2>1, <3>1 DEF Cu!SwitchKept, Cu!InSwitch
    <3> QED BY <1>6, <2>2, <2>4, <3>2
  <2> QED BY <1>17, <2>5, <2>6 DEF Cu!TakeTarget
<1>18. ASSUME NEW p \in Agents, Cu!WriteToken(p) PROVE Cu!ChosenKept'
  <2>1. /\ v13[p] = "Write" /\ v4' = v16[p] /\ v13'[p] = "Mark"
        /\ UNCHANGED <<v8, v24, v25, v5, v6, v14, v15, v18>>
    BY <1>18 DEF Cu!WriteToken, Cu!Move, Cu!ours, Cu!lately, Cu!command, Cu!token
  <2>2. \A q \in Agents \ {p} : ~Cu!InSwitch(q)'
    BY <1>15, <1>18, <2>1 DEF Cu!WriteToken, Cu!InSwitch, Cu!Move
  <2>3. Cu!IsFor(v16[p], v15[p]) BY <1>2, <2>1 DEF Cu!CommandFits, Cu!IsFor
  <2>4. Cu!SwitchKept(p)' BY <1>15, <2>1, <2>3 DEF Cu!SwitchKept, Cu!InSwitch, Cu!IsFor
  <2>5. Cu!Unfinished(p)' BY <1>15, <2>1 DEF Cu!Unfinished, Cu!InSwitch
  <2> QED BY <1>6, <2>2, <2>4, <2>5
\* A switch that ends well leaves its target in effect.
<1>19. ASSUME NEW p \in Agents, Cu!Over(p), Cu!EndsWell(p), \A q \in Agents \ {p} : ~Cu!InSwitch(q),
              v24 = p => Cu!IsFor(Cu!Current', v15[p]) /\ v8' = v15[p]
       PROVE  Cu!ChosenKept'
  <2>1. ~Cu!InSwitch(p)' BY <1>19 DEF Cu!Over, Cu!Move, Cu!InSwitch
  <2>2. v25' # NoOne => Cu!InEffect' BY <1>19 DEF Cu!EndsWell, Cu!InEffect
  <2> QED BY <1>16, <1>19, <2>1, <2>2 DEF Cu!Over, Cu!Move
<1>20. ASSUME NEW p \in Agents, Cu!MarkActive(p) PROVE Cu!ChosenKept'
  <2>1. v13[p] = "Mark" /\ UNCHANGED <<v4, v5, v6>> BY <1>20 DEF Cu!MarkActive, Cu!client
  <2>2. CASE v14[p] = "sync"
    <3>1. CASE Cu!SomethingElse BY <1>5, <3>1
    <3>2. CASE v24 = NoOne /\ v17[p].of = v25 /\ UNCHANGED Cu!lately
      <4>1. v25' # NoOne => Cu!InEffect'
        <5>1. \A q \in Agents : v25 # NoOne => ~Cu!Unfinished(q)
          BY <1>3, <3>2 DEF Cu!Unfinished, Cu!SwitchKept
        <5>2. v25 # NoOne => Cu!InEffect BY <1>3, <5>1
        <5>3. v8' \in {v8, v25} BY <1>20, <2>2, <3>2 DEF Cu!MarkActive
        <5> QED BY <2>1, <3>2, <5>2, <5>3 DEF Cu!lately, Cu!InEffect, Cu!Current
      <4>2. \A q \in Agents : Cu!InSwitch(q)' => v25' = NoOne
        <5>1. ASSUME NEW q \in Agents, Cu!InSwitch(q)' PROVE v25 = NoOne
          <6>1. Cu!InSwitch(q) BY <1>20, <2>2, <5>1 DEF Cu!MarkActive, Cu!Over, Cu!Move, Cu!InSwitch
          <6> QED BY <1>3, <3>2, <6>1 DEF Cu!SwitchKept
        <5> QED BY <3>2, <5>1 DEF Cu!lately
      <4>3. \A q \in Agents : Cu!SwitchKept(q)' BY <3>2, <4>2 DEF Cu!SwitchKept, Cu!lately
      <4> QED BY <4>1, <4>3 DEF Cu!ChosenKept
    <3> QED BY <1>20, <2>2, <3>1, <3>2 DEF Cu!MarkActive
  <2>3. CASE v14[p] # "sync"
    <3>1. v8' = v15[p] BY <1>20, <2>3 DEF Cu!MarkActive
    <3>2. v24 = p => Cu!IsFor(v4, v15[p]) BY <1>15, <2>1, <2>3 DEF Cu!SwitchKept
    <3>3. CASE Cu!Over(p) /\ Cu!EndsWell(p)
      <4>1. v24 = p => Cu!IsFor(Cu!Current', v15[p])
        BY <1>15, <2>1, <2>3, <3>2 DEF Cu!Current, Cu!IsFor
      <4>2. \A q \in Agents \ {p} : ~Cu!InSwitch(q) BY <1>15, <2>1, <2>3
      <4> QED BY <1>19, <3>1, <3>3, <4>1, <4>2
    <3>4. CASE Cu!Move(p, "Start") /\ UNCHANGED <<Cu!command, Cu!token, Cu!lately>>
      <4>1. /\ v13'[p] = "Start" /\ UNCHANGED <<v24, v25, v14, v15, v18>>
        BY <3>4 DEF Cu!Move, Cu!command, Cu!token, Cu!lately
      <4>2. \A q \in Agents \ {p} : ~Cu!InSwitch(q)'
        BY <1>15, <2>1, <2>3, <3>4, <4>1 DEF Cu!InSwitch, Cu!Move
      <4>3. Cu!SwitchKept(p)'
        BY <1>15, <2>1, <2>3, <3>1, <3>2, <4>1 DEF Cu!SwitchKept, Cu!InSwitch, Cu!IsFor
      <4>4. Cu!Unfinished(p)' BY <1>15, <2>1, <2>3, <4>1 DEF Cu!Unfinished, Cu!InSwitch
      <4> QED BY <1>6, <4>2, <4>3, <4>4
    <3> QED BY <1>20, <2>3, <3>3, <3>4 DEF Cu!MarkActive
  <2> QED BY <2>2, <2>3
\* A switch that fails undoes what it has done.
<1>21. ASSUME NEW p \in Agents, v13[p] \in {"Write", "Start"} \/ (v13[p] = "Mark"
        /\ v14[p] # "sync"),
              Cu!Move(p, "UndoToken"), UNCHANGED <<v4, v5, v6, v24, v25, Cu!command, v18>>
       PROVE  Cu!ChosenKept'
  <2>1. v13'[p] = "UndoToken" /\ UNCHANGED <<v14, v15>> BY <1>21 DEF Cu!Move, Cu!command
  <2>2. \A q \in Agents \ {p} : ~Cu!InSwitch(q)' BY <1>15, <1>21, <2>1 DEF Cu!InSwitch, Cu!Move
  <2>3. Cu!SwitchKept(p)' BY <1>15, <1>21, <2>1 DEF Cu!SwitchKept, Cu!InSwitch, Cu!IsFor
  <2>4. Cu!Unfinished(p)' BY <1>15, <1>21, <2>1 DEF Cu!Unfinished, Cu!InSwitch
  <2> QED BY <1>6, <2>2, <2>3, <2>4
<1>22. ASSUME NEW p \in Agents, Cu!StartClient(p) PROVE Cu!ChosenKept'
  <2>1. v13[p] = "Start" /\ UNCHANGED <<v4, v8>> BY <1>22 DEF Cu!StartClient, Cu!ours
  <2>2. CASE v5' = TRUE /\ v6' = (IF v5 THEN v6 ELSE v4) /\ Cu!Over(p) /\ Cu!EndsWell(p)
    <3>1. v24 = p => Cu!IsFor(v4, v15[p]) /\ v8 = v15[p] /\ ~v5
      BY <1>15, <2>1 DEF Cu!SwitchKept
    <3>2. v24 = p => Cu!IsFor(Cu!Current', v15[p]) /\ v8' = v15[p]
      BY <2>1, <2>2, <3>1 DEF Cu!Current, Cu!IsFor
    <3>3. \A q \in Agents \ {p} : ~Cu!InSwitch(q) BY <1>15, <2>1
    <3> QED BY <1>19, <2>2, <3>2, <3>3
  <2>3. CASE Cu!Move(p, "UndoToken") /\ UNCHANGED <<v5, v6, Cu!lockings, Cu!command, Cu!token,
          Cu!lately>>
    BY <1>21, <2>1, <2>3 DEF Cu!lately, Cu!token
  <2> QED BY <1>22, <2>2, <2>3 DEF Cu!StartClient
<1>23. ASSUME NEW p \in Agents, Cu!Break(p) PROVE Cu!ChosenKept'
  <2>1. /\ v13[p] \in {"Write", "Start"} \/ (v13[p] = "Mark" /\ v14[p] # "sync")
        /\ Cu!Move(p, "UndoToken") /\ UNCHANGED <<v4, v5, v6, v24, v25, Cu!command, v18>>
    BY <1>23 DEF Cu!Break, Cu!client, Cu!past, Cu!lately, Cu!token
  <2> QED BY <1>21, <2>1
<1>24. ASSUME NEW p \in Agents, Cu!UndoToken(p) PROVE Cu!ChosenKept'
  <2>1. /\ v13[p] = "UndoToken" /\ v4' = v18[p].disk /\ v13'[p] = "UndoMark"
        /\ UNCHANGED <<v8, v24, v25, v5, v6, v14, v15, v18>>
    BY <1>24 DEF Cu!UndoToken, Cu!Move, Cu!ours, Cu!lately, Cu!command, Cu!token
  <2>2. \A q \in Agents \ {p} : ~Cu!InSwitch(q)'
    BY <1>15, <1>24, <2>1 DEF Cu!UndoToken, Cu!InSwitch, Cu!Move
  <2>3. Cu!SwitchKept(p)' BY <1>15, <2>1 DEF Cu!SwitchKept, Cu!InSwitch, Cu!IsFor
  <2>4. Cu!Unfinished(p)' BY <1>15, <2>1 DEF Cu!Unfinished, Cu!InSwitch
  <2> QED BY <1>6, <2>2, <2>3, <2>4
<1>25. ASSUME NEW p \in Agents, Cu!UndoMark(p) PROVE Cu!ChosenKept'
  <2>1. /\ v13[p] = "UndoMark" /\ v8' = v18[p].mark /\ v13'[p] = "Reopen"
        /\ UNCHANGED <<v4, v24, v25, v5, v6, v14, v15, v18>>
    BY <1>25 DEF Cu!UndoMark, Cu!Move, Cu!client, Cu!past, Cu!lately, Cu!command, Cu!token
  <2>2. \A q \in Agents \ {p} : ~Cu!InSwitch(q)'
    BY <1>15, <1>25, <2>1 DEF Cu!UndoMark, Cu!InSwitch, Cu!Move
  <2>3. Cu!SwitchKept(p)' BY <1>15, <2>1 DEF Cu!SwitchKept, Cu!InSwitch
  <2>4. v25' # NoOne => Cu!InEffect'
    BY <1>15, <2>1 DEF Cu!SwitchKept, Cu!InEffect, Cu!Current, Cu!IsFor
  <2> QED BY <1>6, <2>2, <2>3, <2>4
<1>26. ASSUME NEW p \in Agents, Cu!Reopen(p) PROVE Cu!ChosenKept'
  <2>1. /\ v13[p] = "Reopen" /\ UNCHANGED <<v8, v24, v25, v4>> /\ Cu!Over(p)
    BY <1>26 DEF Cu!Reopen, Cu!ours, Cu!past, Cu!lately
  <2>2. v25' # NoOne => Cu!InEffect'
    <3>1. v25 # NoOne => Cu!InEffect BY <1>15, <2>1 DEF Cu!Unfinished
    <3>2. Cu!Current' = Cu!Current BY <1>26 DEF Cu!Reopen, Cu!Current
    <3> QED BY <2>1, <3>1, <3>2 DEF Cu!InEffect, Cu!IsFor
  <2>3. ~Cu!InSwitch(p)' /\ \A q \in Agents \ {p} : ~Cu!InSwitch(q)
    BY <1>15, <2>1 DEF Cu!Over, Cu!Move, Cu!InSwitch
  <2> QED BY <1>16, <2>1, <2>2, <2>3 DEF Cu!Over, Cu!Move
<1>27. ASSUME NEW p \in Agents, Cu!FetchUsage(p) \/ Cu!LockRefresh(p) \/ Cu!Post(p)
        \/ Cu!SaveRefreshed(p)
       PROVE  Cu!ChosenKept'
  <2>1. v14[p] = "query"
    BY <1>2, <1>27 DEF Cu!FetchUsage, Cu!LockRefresh, Cu!Post, Cu!SaveRefreshed, Cu!CommandFits
  <2>2. UNCHANGED <<v8, v24, v25, v4, v5, v6>>
    BY <1>27 DEF Cu!FetchUsage, Cu!LockRefresh, Cu!Post, Cu!SaveRefreshed, Cu!ours, Cu!client,
       Cu!past, Cu!lately
  <2>3. ~Cu!Unfinished(p) BY <2>1 DEF Cu!Unfinished, Cu!InSwitch
  <2>4. /\ \A q \in Agents \ {p} :
              v13'[q] = v13[q] /\ v14'[q] = v14[q] /\ v15'[q] = v15[q] /\ v18'[q] = v18[q]
        /\ ~Cu!InSwitch(p)'
    <3>1. CASE Cu!Over(p) BY <3>1 DEF Cu!Over, Cu!Move, Cu!InSwitch
    <3>2. CASE /\ Cu!Move(p, "RefreshLock") \/ Cu!Move(p, "Post") \/ Cu!Move(p, "Save")
               /\ UNCHANGED <<Cu!command, v18>>
      BY <2>1, <3>2 DEF Cu!Move, Cu!InSwitch, Cu!command
    <3> QED
      BY <1>27, <3>1, <3>2 DEF Cu!FetchUsage, Cu!LockRefresh, Cu!Post, Cu!SaveRefreshed, Cu!token
  <2> QED BY <1>8, <2>2, <2>3, <2>4
<1>28. ASSUME NEW p \in Agents, Cu!SignOut(p) \/ Cu!Die(p) PROVE Cu!ChosenKept'
  BY <1>5, <1>28 DEF Cu!SignOut, Cu!Die
\* What the user does.
<1>29. ASSUME UNCHANGED <<v8, v24, v25, v13, v14, v15, v18>>,
              \A a \in People : Cu!IsFor(Cu!Current, a) => Cu!IsFor(Cu!Current', a),
              \A q \in Agents : Cu!InSwitch(q) /\ ~v5 =>
                 ~v5' /\ \A a \in People : Cu!IsFor(v4, a) => Cu!IsFor(v4', a)
       PROVE  Cu!ChosenKept'
  <2>1. {} \in SUBSET Agents /\ \A q \in {} : ~Cu!Unfinished(q) /\ ~Cu!InSwitch(q)' OBVIOUS
  <2>2. \A q \in Agents \ {} :
           v13'[q] = v13[q] /\ v14'[q] = v14[q] /\ v15'[q] = v15[q] /\ v18'[q] = v18[q]
    BY <1>29
  <2>3. \A q \in Agents \ {} : Cu!InSwitch(q) /\ v24 = q /\ v13[q] # "Stop" /\ ~v5 =>
           ~v5' /\ \A a \in People : Cu!IsFor(v4, a) => Cu!IsFor(v4', a)
    BY <1>29
  <2>4. UNCHANGED <<v8, v24, v25>> BY <1>29
  <2> QED BY <1>7, <1>29, <2>1, <2>2, <2>3, <2>4
<1>30. ASSUME NEW t \in Cu!Tokens, Cu!SetCurrent(t), UNCHANGED v5, t.of = Cu!Current.of,
   Cu!Current # NoToken
       PROVE  /\ \A a \in People : Cu!IsFor(Cu!Current, a) => Cu!IsFor(Cu!Current', a)
              /\ ~v5 => \A a \in People : Cu!IsFor(v4, a) => Cu!IsFor(v4', a)
  BY <1>30, CuTokens DEF Cu!SetCurrent, Cu!Current, Cu!IsFor
<1>31. Cu!Current \in Cu!MaybeToken BY DEF Cu!Current
<1>32. UNCHANGED Cu!theirs => UNCHANGED <<v8, v13, v14, v15, v18>>
  BY DEF Cu!theirs, Cu!ours, Cu!command, Cu!token
<1>33. ASSUME Cu!NativeRefresh PROVE Cu!ChosenKept'
  <2>1. Cu!Current \in Cu!Tokens
    BY <1>31, <1>33, CuTokens DEF Cu!NativeRefresh, Cu!Renewable, Cu!Live
  <2>2. Cu!Rotated(Cu!Current) \in Cu!Tokens /\ Cu!Rotated(Cu!Current).of = Cu!Current.of
    BY <1>0, <1>33, <2>1, CuRotates DEF Cu!NativeRefresh, CuGroups
  <2> QED BY <1>29, <1>30, <1>32, <1>33, <2>1, <2>2, CuTokens DEF Cu!NativeRefresh, Cu!lately
<1>34. ASSUME Cu!NativeStrip PROVE Cu!ChosenKept'
  <2>1. Cu!Current \in Cu!Tokens BY <1>31, <1>34, CuTokens DEF Cu!NativeStrip
  <2>2. [Cu!Current EXCEPT !.gen = 0] \in Cu!Tokens
          /\ [Cu!Current EXCEPT !.gen = 0].of = Cu!Current.of
    BY <2>1 DEF Cu!Tokens, Cu!Gens
  <2> QED BY <1>29, <1>30, <1>32, <1>34, <2>1, <2>2, CuTokens DEF Cu!NativeStrip, Cu!lately
<1>35. ASSUME Cu!UserOpens PROVE Cu!ChosenKept'
  <2>1. CASE v10 # NoOne BY <1>5, <1>35, <2>1 DEF Cu!UserOpens
  <2>2. CASE v10 = NoOne
    <3>1. \A q \in Agents : ~Cu!InSwitch(q) BY <1>2, <2>2 DEF Cu!CommandFits
    <3>2. \A a : Cu!IsFor(Cu!Current, a) => Cu!IsFor(Cu!Current', a)
      BY <1>35 DEF Cu!UserOpens, Cu!Current, Cu!IsFor
    <3> QED BY <1>29, <1>32, <1>35, <2>2, <3>1, <3>2 DEF Cu!UserOpens, Cu!lately
  <2> QED BY <2>1, <2>2
<1>36. ASSUME Cu!UserQuits PROVE Cu!ChosenKept'
  <2>1. \A a : Cu!IsFor(Cu!Current, a) => Cu!IsFor(Cu!Current', a)
    BY <1>36 DEF Cu!UserQuits, Cu!Current, Cu!IsFor
  <2> QED BY <1>29, <1>32, <1>36, <2>1 DEF Cu!UserQuits, Cu!past, Cu!lately
<1>37. ASSUME NEW a \in People, Cu!NativeLogin(a) PROVE Cu!ChosenKept'
  BY <1>5, <1>37 DEF Cu!NativeLogin
<1>38. CASE UNCHANGED Cu!cursorVars
  BY <1>29, <1>38 DEF Cu!cursorVars, Cu!token, Cu!IsFor, Cu!Current
<1>39. ASSUME NEW p \in Agents, Cu!Steps(p) PROVE Cu!ChosenKept'
  <2>1. ASSUME NEW a \in v7,
               Cu!Call(p, "switch", a, "SwitchLock") \/ Cu!Call(p, "query", a,
                  "Read") \/ Cu!Disconnect(p, a)
        PROVE  Cu!ChosenKept'
    BY <1>9, <2>1 DEF Cu!Disconnect
  <2>2. ASSUME Cu!Call(p, "sync", NoOne, "Read") PROVE Cu!ChosenKept' BY <1>9, <2>2
  <2> QED
    BY <1>39, <2>1, <2>2, <1>10, <1>11, <1>13, <1>14, <1>17, <1>18, <1>20, <1>22, <1>23, <1>24,
       <1>25, <1>26, <1>27, <1>28 DEF Cu!Steps
<1> QED BY <1>33, <1>34, <1>35, <1>36, <1>37, <1>38, <1>39 DEF Cu!Next

\* What a step does to tokens is told from the states around it.
CuNow ==
    /\ Cu!CursorTypeOK /\ Cu!CursorTypeOK' /\ Cu!CommandsKept /\ Cu!CommandsKept' /\ Cu!LiveKept
    /\ v23 \subseteq v23'
CuSoundNext(t) == t = NoToken \/ t.gen = 0 \/ t.of \in v23' \/ t.gen \in v2'[t.of]
CuStays(q) ==
    /\ v13'[q] = v13[q] /\ v14'[q] = v14[q] /\ v15'[q] = v15[q]
    /\ v16'[q] = v16[q] /\ v17'[q] = v17[q] /\ v18'[q] = v18[q]
CuStillSound(q) ==
    \A t \in {v16[q], v17[q], v18[q].disk} : Cu!Sound(t) => CuSoundNext(t)

\* Of a switch that does not move.
LEMMA CuSwitchStays ==
    ASSUME CuNow, NEW q \in Agents, CuStays(q), CuStillSound(q),
           Cu!InSwitch(q) /\ v13[q] # "Stop" /\ v5' => v5 \/ v23' = People,
           Cu!InSwitch(q) /\ (v13[q] = "Store" \/ Cu!Taken(q)) => v4' = v4 \/ Cu!Settled(v4)',
           Cu!InSwitch(q) /\ v13[q] = "Target" =>
              v4' = v4 \/ Cu!Settled(v4)' \/ Cu!HasLive(v4.of)',
           Cu!InSwitch(q) /\ (v13[q] = "Target" \/ Cu!Taken(q)) =>
              \A a \in People \ v23' : Cu!HasLive(a) => Cu!HasLive(a)'
    PROVE  Cu!TokensKept(q)'
<1>1. Cu!TokensKept(q) /\ Cu!CommandFits(q) BY DEF CuNow, Cu!LiveKept, Cu!CommandsKept
<1>2. Cu!InSwitch(q)' <=> Cu!InSwitch(q) BY DEF CuStays, Cu!InSwitch
<1>3. Cu!Taken(q)' <=> Cu!Taken(q) BY DEF CuStays, Cu!Taken
<1>4. v23 \subseteq v23' /\ v23' \subseteq People /\ v23 \subseteq People
  BY DEF CuNow, Cu!CursorTypeOK
<1> SUFFICES ASSUME Cu!InSwitch(q) PROVE Cu!TokensKept(q)' BY <1>2 DEF Cu!TokensKept
<1>5. v13'[q] # "Stop" /\ v5' => v23' = People
  BY <1>1, <1>4 DEF CuStays, Cu!TokensKept
<1>6. ASSUME v13[q] = "Store" PROVE Cu!Sound(v17[q])' /\ (v4' = v17'[q] \/ Cu!Settled(v4)')
  <2>1. Cu!Sound(v17[q]) /\ (v4 = v17[q] \/ Cu!Settled(v4)) BY <1>1, <1>6 DEF Cu!TokensKept
  <2>2. CuSoundNext(v17[q]) BY <2>1 DEF CuStillSound
  <2>3. Cu!Sound(v17[q])' BY <2>2 DEF CuSoundNext, Cu!Sound, CuStays
  <2>4. Cu!Settled(v4) /\ v4' = v4 => Cu!Settled(v4)' BY <1>4 DEF Cu!Settled
  <2> QED BY <1>6, <2>1, <2>3, <2>4 DEF CuStays
<1>7. ASSUME v13[q] = "Target" PROVE Cu!Settled(v4)' \/ Cu!HasLive(v4.of)'
  <2>1. CASE v4' = v4
    <3>1. CASE Cu!Settled(v4) BY <1>4, <2>1, <3>1 DEF Cu!Settled
    <3>2. CASE ~Cu!Settled(v4)
      <4>1. Cu!HasLive(v4.of) BY <1>1, <1>7, <3>2 DEF Cu!TokensKept
      <4>2. v4.of \in People BY <3>2, CuTokens DEF Cu!Settled, CuNow, Cu!CursorTypeOK
      <4>3. PICK a \in People : a = v4.of BY <4>2
      <4>4. CASE a \in v23' BY <2>1, <4>3, <4>4 DEF Cu!Settled
      <4>5. CASE a \notin v23'
        <5>1. Cu!HasLive(a) BY <4>1, <4>3
        <5>2. Cu!HasLive(a)' BY <1>7, <4>5, <5>1
        <5>3. Cu!HasLive(v4.of)' BY <2>1, <4>3, <5>2 DEF Cu!HasLive, Cu!Renews
        <5> QED BY <5>3
      <4> QED BY <4>4, <4>5
    <3> QED BY <3>1, <3>2
  <2> QED BY <1>7, <2>1
<1>8. ASSUME Cu!Taken(q)
      PROVE  /\ Cu!Sound(v16[q])' /\ Cu!Sound(v18[q].disk)'
             /\ v15'[q] \in v23' \/ Cu!HasLive(v15[q])'
             /\ v4' \in {v16'[q], v18'[q].disk} \/ Cu!Settled(v4)'
             /\ People \ v23' \subseteq v18'[q].known
  <2>1. /\ Cu!Sound(v16[q]) /\ Cu!Sound(v18[q].disk)
        /\ v15[q] \in v23 \/ Cu!HasLive(v15[q])
        /\ v4 \in {v16[q], v18[q].disk} \/ Cu!Settled(v4)
        /\ People \ v23 \subseteq v18[q].known
    BY <1>1, <1>8 DEF Cu!TokensKept
  <2>2. CuSoundNext(v16[q]) /\ CuSoundNext(v18[q].disk) BY <2>1 DEF CuStillSound
  <2>3. Cu!Sound(v16[q])' /\ Cu!Sound(v18[q].disk)' BY <2>2 DEF CuSoundNext, Cu!Sound, CuStays
  <2>4. v15'[q] \in v23' \/ Cu!HasLive(v15[q])'
    <3>1. v15[q] \in People BY <1>1 DEF Cu!CommandFits, Cu!InSwitch
    <3>2. PICK a \in People : a = v15[q] BY <3>1
    <3>3. CASE a \in v23' BY <3>2, <3>3 DEF CuStays
    <3>4. CASE a \notin v23'
      <4>1. Cu!HasLive(a) BY <1>4, <2>1, <3>2, <3>4
      <4>2. Cu!HasLive(a)' BY <1>8, <3>4, <4>1
      <4>3. Cu!HasLive(v15[q])' BY <3>2, <4>2 DEF CuStays, Cu!HasLive, Cu!Renews
      <4> QED BY <4>3
    <3> QED BY <3>3, <3>4
  <2>5. Cu!Settled(v4) /\ v4' = v4 => Cu!Settled(v4)' BY <1>4 DEF Cu!Settled
  <2>6. v4' \in {v16'[q], v18'[q].disk} \/ Cu!Settled(v4)' BY <1>8, <2>1, <2>5 DEF CuStays
  <2> QED BY <1>4, <2>1, <2>3, <2>4, <2>6 DEF CuStays
<1>9. ASSUME v13[q] = "UndoMark" PROVE People \ v23' \subseteq v18'[q].known
  BY <1>1, <1>4, <1>9 DEF Cu!TokensKept, CuStays
<1> QED BY <1>3, <1>5, <1>6, <1>7, <1>8, <1>9 DEF Cu!TokensKept, CuStays

\* What is to be shown of a step that moves the commands of S.
LEMMA CuAssemble ==
    ASSUME CuNow, NEW S \in SUBSET Agents,
           \A q \in Agents \ S :
              /\ CuStays(q) /\ CuStillSound(q)
              /\ v13[q] \in {"Post", "Save"} => v11'[v15[q]] = v11[v15[q]]
              /\ Cu!InSwitch(q) /\ v13[q] # "Stop" /\ v5' => v5 \/ v23' = People
              /\ Cu!InSwitch(q) /\ (v13[q] = "Store" \/ Cu!Taken(q)) => v4' = v4 \/ Cu!Settled(v4)'
              /\ Cu!InSwitch(q) /\ v13[q] = "Target" =>
                    v4' = v4 \/ Cu!Settled(v4)' \/ Cu!HasLive(v4.of)'
              /\ Cu!InSwitch(q) /\ (v13[q] = "Target" \/ Cu!Taken(q)) =>
                    \A a \in People \ v23' : Cu!HasLive(a) => Cu!HasLive(a)',
           \A q \in S : Cu!RefreshKept(q)' /\ Cu!TokensKept(q)',
           \A a \in People : 0 \notin v2'[a],
           People \ v23' \subseteq v7',
           Cu!Sound(Cu!Current)',
           \A a \in People \ v23' : Cu!HasLive(a)' \/ (Cu!IsFor(Cu!Current, a)'
                   /\ Cu!Current'.gen # 0)
    PROVE  Cu!LiveKept'
<1>1. ASSUME NEW q \in Agents \ S PROVE Cu!TokensKept(q)' BY CuSwitchStays
<1>2. ASSUME NEW q \in Agents \ S PROVE Cu!RefreshKept(q)'
  <2>1. Cu!RefreshKept(q) /\ CuStays(q) /\ CuStillSound(q) BY DEF CuNow, Cu!LiveKept
  <2>2. v13'[q] \in {"Post", "Save"} => v11'[v15'[q]] = q
    BY <2>1 DEF CuStays, Cu!RefreshKept
  <2>3. ASSUME v13[q] = "Save" PROVE Cu!Sound(v16[q])'
    <3>1. CuSoundNext(v16[q]) BY <2>1, <2>3 DEF Cu!RefreshKept, CuStillSound
    <3> QED BY <2>1, <3>1 DEF CuSoundNext, Cu!Sound, CuStays
  <2> QED BY <2>1, <2>2, <2>3 DEF CuStays, Cu!RefreshKept
<1> QED BY <1>1, <1>2 DEF Cu!LiveKept

\* Without the server, what was good stays good.
LEMMA CuSoundStays == ASSUME CuNow, v2' = v2, NEW t, Cu!Sound(t) PROVE CuSoundNext(t)
  BY DEF CuNow, Cu!Sound, CuSoundNext

\* A live token stays where it is, unless its copy is overwritten.
LEMMA CuLiveStays ==
    ASSUME CuNow, NEW S \in SUBSET Agents, v2' = v2, \A q \in Agents \ S : CuStays(q),
           NEW a \in People \ v23', Cu!HasLive(a),
           v9'[a] = v9[a] \/ ~Cu!Live(v9[a]) \/ Cu!Live(v9[a])',
           \A q \in S : Cu!Renews(q, a) => Cu!Live(v9[a])'
    PROVE  Cu!HasLive(a)'
<1>1. CASE Cu!Live(v9[a])
  <2>1. Cu!Live(v9[a])' BY <1>1 DEF Cu!Live
  <2> QED BY <2>1 DEF Cu!HasLive
<1>2. CASE \E q \in Agents : Cu!Renews(q, a)
  <2>1. PICK q \in Agents : Cu!Renews(q, a) BY <1>2
  <2>2. CASE q \in S BY <2>1, <2>2 DEF Cu!HasLive
  <2>3. CASE q \notin S
    <3>1. Cu!Renews(q, a)' BY <2>1, <2>3 DEF CuStays, Cu!Renews, Cu!Live
    <3> QED BY <3>1 DEF Cu!HasLive
  <2> QED BY <2>2, <2>3
<1> QED BY <1>1, <1>2 DEF Cu!HasLive

\* A step of p that leaves the tokens where they are.
LEMMA CuPlain ==
    ASSUME CuNow, NEW p \in Agents, UNCHANGED <<v2, v4, v5, v6, v9>>,
           \A q \in Agents \ {p} : CuStays(q),
           \A q \in Agents \ {p}, a \in People : v11[a] = q => v11'[a] = q,
           People \ v23' \subseteq v7',
           v13[p] = "Save" => v15[p] \in v23',
           Cu!RefreshKept(p)', Cu!TokensKept(p)'
    PROVE  Cu!LiveKept'
<1>1. /\ Cu!LiveKept /\ Cu!Current' = Cu!Current /\ v23 \subseteq v23'
      /\ \A q \in Agents : Cu!CommandFits(q)
  BY DEF CuNow, Cu!Current, Cu!CommandsKept
<1>2. \A q \in Agents \ {p} : CuStillSound(q) BY CuSoundStays DEF CuStillSound
<1>3. ASSUME NEW q \in Agents \ {p}, v13[q] \in {"Post", "Save"}
      PROVE  v11'[v15[q]] = v11[v15[q]]
  <2>1. v11[v15[q]] = q BY <1>1, <1>3 DEF Cu!LiveKept, Cu!RefreshKept
  <2>2. v15[q] \in People BY <1>1, <1>3 DEF Cu!CommandFits
  <2> QED BY <2>1, <2>2
<1>4. \A a \in People \ v23' : Cu!HasLive(a) => Cu!HasLive(a)'
  <2> TAKE a \in People \ v23'
  <2>1. ~Cu!Renews(p, a) BY DEF Cu!Renews
  <2>2. {p} \in SUBSET Agents /\ \A q \in {p} : Cu!Renews(q, a) => Cu!Live(v9[a])' BY <2>1
  <2>3. \A q \in Agents \ {p} : CuStays(q) OBVIOUS
  <2> QED BY <2>2, <2>3, CuLiveStays
<1>5. Cu!Sound(Cu!Current)'
  <2>1. CuSoundNext(Cu!Current) BY <1>1, CuSoundStays DEF Cu!LiveKept
  <2> QED BY <1>1, <2>1 DEF CuSoundNext, Cu!Sound
<1>6. \A a \in People \ v23' : Cu!HasLive(a)' \/ (Cu!IsFor(Cu!Current, a)' /\ Cu!Current'.gen # 0)
  BY <1>1, <1>4 DEF Cu!LiveKept, Cu!IsFor
<1>7. {p} \in SUBSET Agents /\ \A q \in {p} : Cu!RefreshKept(q)' /\ Cu!TokensKept(q)' OBVIOUS
<1>8. \A a \in People : 0 \notin v2'[a] BY <1>1 DEF Cu!LiveKept
<1> QED BY <1>2, <1>3, <1>4, <1>5, <1>6, <1>7, <1>8, CuAssemble

\* Where a command of a step goes, and what that leaves alone.
LEMMA CuOverStays ==
    ASSUME CuNow, NEW p \in Agents, Cu!Over(p)
    PROVE  /\ \A q \in Agents \ {p} : CuStays(q)
           /\ \A q \in Agents \ {p}, a \in People : v11[a] = q => v11'[a] = q
           /\ v13'[p] = "Idle" /\ Cu!RefreshKept(p)' /\ Cu!TokensKept(p)'
<1>1. /\ v13 \in [Agents -> Cu!Stages] /\ v14 \in [Agents -> Cu!Calls \cup {"none"}]
      /\ v15 \in [Agents -> People \cup {NoOne}]
      /\ v16 \in [Agents -> Cu!MaybeToken] /\ v17 \in [Agents -> Cu!MaybeToken]
      /\ v18 \in [Agents -> [disk : Cu!MaybeToken, mark : People \cup {NoOne},
          known : SUBSET People]]
  BY DEF CuNow, Cu!CursorTypeOK
<1>2. \A q \in Agents \ {p} : CuStays(q) BY <1>1 DEF Cu!Over, Cu!Move, CuStays
<1>3. \A q \in Agents \ {p}, a \in People : v11[a] = q => v11'[a] = q BY DEF Cu!Over
<1>4. v13'[p] = "Idle" BY <1>1 DEF Cu!Over, Cu!Move
<1> QED BY <1>2, <1>3, <1>4 DEF Cu!RefreshKept, Cu!TokensKept, Cu!InSwitch

\* A command that moves on leaves the others alone.
LEMMA CuMoveStays ==
    ASSUME CuNow, NEW p \in Agents, NEW s, Cu!Move(p, s)
    PROVE  /\ v13'[p] = s /\ \A q \in Agents \ {p} : v13'[q] = v13[q]
           /\ UNCHANGED <<Cu!command, Cu!token>> => \A q \in Agents \ {p} : CuStays(q)
<1>1. v13 \in [Agents -> Cu!Stages] BY DEF CuNow, Cu!CursorTypeOK
<1> QED BY <1>1 DEF Cu!Move, CuStays, Cu!command, Cu!token

\* A command ends.
LEMMA CuEnds ==
    ASSUME CuNow, NEW p \in Agents, Cu!Over(p), UNCHANGED <<v2, v4, v5, v6, v9, v7>>,
           v13[p] = "Save" => v15[p] \in v23'
    PROVE  Cu!LiveKept'
<1>1. People \ v23' \subseteq v7' BY DEF CuNow, Cu!LiveKept
<1> QED BY <1>1, CuOverStays, CuPlain

\* A command moves on, with what it had.
LEMMA CuGoes ==
    ASSUME CuNow, NEW p \in Agents, NEW s, Cu!Move(p, s), UNCHANGED <<Cu!command, Cu!token, v11>>,
           UNCHANGED <<v2, v4, v5, v6, v9, v7>>,
           v13[p] # "Save", s \notin {"Post", "Save"}, Cu!TokensKept(p)'
    PROVE  Cu!LiveKept'
<1>1. People \ v23' \subseteq v7' BY DEF CuNow, Cu!LiveKept
<1>2. v13'[p] = s /\ \A q \in Agents \ {p} : CuStays(q) BY CuMoveStays
<1>3. Cu!RefreshKept(p)' BY <1>2 DEF Cu!RefreshKept
<1> QED BY <1>1, <1>2, <1>3, CuPlain

\* Switches exclude each other.
LEMMA CuAlone ==
    ASSUME CuNow, NEW p \in Agents, Cu!InSwitch(p), NEW q \in Agents \ {p} PROVE ~Cu!InSwitch(q)
  BY DEF CuNow, Cu!CommandsKept, Cu!CommandFits

\* A step of a switch that is past the lock, or of another command, may write
\* the live token if what it overwrites is stored.
LEMMA CuWrites ==
    ASSUME CuNow, NEW p \in Agents, Cu!InSwitch(p), v2' = v2, v9' = v9, v7' = v7,
           \A q \in Agents \ {p} : CuStays(q),
           \A q \in Agents \ {p}, a \in People : v11[a] = q => v11'[a] = q,
           Cu!RefreshKept(p)', Cu!TokensKept(p)', v13[p] # "Save", Cu!Sound(Cu!Current)',
           \A a \in People \ v23' :
              Cu!IsFor(Cu!Current, a) /\ Cu!Current.gen # 0 =>
                 Cu!HasLive(a) \/ (Cu!IsFor(Cu!Current, a)' /\ Cu!Current'.gen # 0)
    PROVE  Cu!LiveKept'
<1>1. Cu!LiveKept /\ v23 \subseteq v23' /\ \A q \in Agents : Cu!CommandFits(q)
  BY DEF CuNow, Cu!CommandsKept
<1>2. \A q \in Agents \ {p} : CuStillSound(q) BY CuSoundStays DEF CuStillSound
<1>3. ASSUME NEW q \in Agents \ {p}, v13[q] \in {"Post", "Save"}
      PROVE  v11'[v15[q]] = v11[v15[q]]
  <2>1. v11[v15[q]] = q BY <1>1, <1>3 DEF Cu!LiveKept, Cu!RefreshKept
  <2>2. v15[q] \in People BY <1>1, <1>3 DEF Cu!CommandFits
  <2> QED BY <2>1, <2>2
<1>4. \A a \in People \ v23' : Cu!HasLive(a) => Cu!HasLive(a)'
  <2> TAKE a \in People \ v23'
  <2>1. ~Cu!Renews(p, a) BY DEF Cu!Renews
  <2>2. {p} \in SUBSET Agents /\ \A q \in {p} : Cu!Renews(q, a) => Cu!Live(v9[a])' BY <2>1
  <2>3. \A q \in Agents \ {p} : CuStays(q) OBVIOUS
  <2> QED BY <2>2, <2>3, CuLiveStays
<1>5. \A a \in People \ v23' : Cu!HasLive(a)' \/ (Cu!IsFor(Cu!Current, a)' /\ Cu!Current'.gen # 0)
  BY <1>1, <1>4 DEF Cu!LiveKept
<1>6. {p} \in SUBSET Agents /\ \A q \in {p} : Cu!RefreshKept(q)' /\ Cu!TokensKept(q)' OBVIOUS
<1>7. (\A a \in People : 0 \notin v2'[a]) /\ People \ v23' \subseteq v7'
  BY <1>1 DEF Cu!LiveKept
<1>8. \A q \in Agents \ {p} : ~Cu!InSwitch(q) BY CuAlone
<1> QED BY <1>2, <1>3, <1>4, <1>5, <1>6, <1>7, <1>8, CuAssemble

\* The steps that leave the tokens where they are: a command begins, waits for
\* its lock, asks for usage, or is killed.
LEMMA CuBegins ==
    ASSUME CuNow, NEW p \in Agents, NEW k, NEW a, NEW s, Cu!Call(p, k, a, s),
           s \in {"SwitchLock", "Read", "RmWrite"}, k = "switch" => s = "SwitchLock"
    PROVE  Cu!LiveKept'
<1>1. /\ v13 \in [Agents -> Cu!Stages] /\ v14 \in [Agents -> Cu!Calls \cup {"none"}]
      /\ v15 \in [Agents -> People \cup {NoOne}]
  BY DEF CuNow, Cu!CursorTypeOK
<1>2. /\ v13'[p] = s /\ v14'[p] = k /\ v13[p] = "Idle"
      /\ \A q \in Agents \ {p} : CuStays(q)
  BY <1>1 DEF Cu!Call, Cu!Move, CuStays, Cu!token
<1>3. UNCHANGED <<v2, v4, v5, v6, v9, v7, v11>>
  BY DEF Cu!Call, Cu!server, Cu!client, Cu!ours, Cu!lockings
<1>4. Cu!RefreshKept(p)' /\ Cu!TokensKept(p)' BY <1>2 DEF Cu!RefreshKept, Cu!TokensKept, Cu!InSwitch
<1>5. People \ v23' \subseteq v7' BY <1>3 DEF CuNow, Cu!LiveKept
<1> QED BY <1>2, <1>3, <1>4, <1>5, CuPlain

\* A switch or a removal takes its lock, or gives up.
LEMMA CuLocks1 == ASSUME CuNow, NEW p \in Agents, Cu!LockSwitch(p) PROVE Cu!LiveKept'
<1>1. UNCHANGED <<v2, v4, v5, v6, v9, v7>>
  BY DEF Cu!LockSwitch, Cu!server, Cu!client, Cu!ours
<1>2. CASE Cu!Over(p) BY <1>1, <1>2, CuEnds DEF Cu!LockSwitch
<1>3. CASE /\ Cu!Move(p, IF v5 THEN "Stop" ELSE IF v14[p] = "rm" THEN "RmWrite" ELSE "Read")
           /\ UNCHANGED <<v11, Cu!command, Cu!token>>
  <2>1. PICK s \in {"Stop", "RmWrite", "Read"} :
           Cu!Move(p, s) /\ (v5 => s = "Stop") BY <1>3
  <2>2. v13'[p] = s BY <2>1, CuMoveStays
  <2>3. Cu!TokensKept(p)' BY <1>1, <2>1, <2>2 DEF Cu!TokensKept, Cu!Taken
  <2> QED BY <1>1, <1>3, <2>1, <2>3, CuGoes DEF Cu!LockSwitch
<1> QED BY <1>2, <1>3 DEF Cu!LockSwitch

\* The usage of a parked account is asked for.
LEMMA CuFetches == ASSUME CuNow, NEW p \in Agents, Cu!FetchUsage(p) PROVE Cu!LiveKept'
<1>1. UNCHANGED <<v2, v4, v5, v6, v9, v7>> /\ v13[p] = "Fetch"
  BY DEF Cu!FetchUsage, Cu!server, Cu!client, Cu!ours
<1>2. CASE Cu!Over(p) BY <1>1, <1>2, CuEnds
<1>3. CASE Cu!Move(p, "RefreshLock") /\ UNCHANGED <<Cu!lockings, Cu!command, Cu!token>>
  <2>1. v14'[p] = "query" BY <1>1, <1>3 DEF CuNow, Cu!CommandsKept, Cu!CommandFits, Cu!command
  <2>2. Cu!TokensKept(p)' BY <2>1 DEF Cu!TokensKept, Cu!InSwitch
  <2> QED BY <1>1, <1>3, <2>2, CuGoes DEF Cu!lockings
<1> QED BY <1>2, <1>3 DEF Cu!FetchUsage

\* A refresh takes its lock, or gives up.
LEMMA CuLocksRefresh == ASSUME CuNow, NEW p \in Agents, Cu!LockRefresh(p) PROVE Cu!LiveKept'
<1>1. UNCHANGED <<v2, v4, v5, v6, v9, v7>> /\ v13[p] = "RefreshLock"
  BY DEF Cu!LockRefresh, Cu!server, Cu!client, Cu!ours
<1>2. CASE Cu!Over(p) BY <1>1, <1>2, CuEnds
<1>3. CASE /\ v11[v15[p]] = NoOne /\ v11' = [v11 EXCEPT ![v15[p]] = p]
           /\ Cu!Move(p, "Post") /\ UNCHANGED <<v10, Cu!command, Cu!token>>
  <2>1. v14[p] = "query" /\ v15[p] \in People BY <1>1 DEF CuNow, Cu!CommandsKept, Cu!CommandFits
  <2>2. Cu!TokensKept(p)' BY <1>3, <2>1 DEF Cu!TokensKept, Cu!InSwitch, Cu!command
  <2>3. v13'[p] = "Post" /\ \A q \in Agents \ {p} : CuStays(q) BY <1>3, CuMoveStays
  <2>4. v11 \in [People -> Agents \cup {NoOne}] BY DEF CuNow, Cu!CursorTypeOK
  <2>5. Cu!RefreshKept(p)' BY <1>3, <2>1, <2>3, <2>4 DEF Cu!RefreshKept, Cu!command
  <2>6. \A q \in Agents \ {p}, a \in People : v11[a] = q => v11'[a] = q
    BY <1>3, <2>4, CuConstants
  <2>7. People \ v23' \subseteq v7' BY <1>1 DEF CuNow, Cu!LiveKept
  <2> QED BY <1>1, <2>2, <2>3, <2>5, <2>6, <2>7, CuPlain
<1> QED BY <1>2, <1>3 DEF Cu!LockRefresh

\* A command is killed.
LEMMA CuDies == ASSUME CuNow, NEW p \in Agents, Cu!Die(p) PROVE Cu!LiveKept'
<1>1. UNCHANGED <<v2, v4, v5, v6, v9, v7>> BY DEF Cu!Die, Cu!server, Cu!client, Cu!ours
<1>2. v13[p] = "Save" => v15[p] \in v23'
  BY DEF Cu!Die, CuNow, Cu!CommandsKept, Cu!CommandFits
<1> QED BY <1>1, <1>2, CuEnds DEF Cu!Die

-----------------------------------------------------------------------------
(* A switch of Cursor and its tokens                                         *)

\* The client is stopped, and leaves its token behind.
LEMMA CuStops == ASSUME CuNow, NEW p \in Agents, Cu!StopClient(p) PROVE Cu!LiveKept'
<1>1. UNCHANGED <<v2, v9, v7, v23>> /\ v13[p] = "Stop"
  BY DEF Cu!StopClient, Cu!server, Cu!ours, Cu!past
<1>2. CASE UNCHANGED Cu!client /\ Cu!Over(p) BY <1>1, <1>2, CuEnds DEF Cu!client
<1>3. CASE /\ ~v5 /\ Cu!Move(p, IF v14[p] = "rm" THEN "RmWrite" ELSE "Read")
           /\ UNCHANGED <<Cu!client, Cu!lockings, Cu!command, Cu!token>>
  <2>1. PICK s \in {"RmWrite", "Read"} : Cu!Move(p, s) BY <1>3
  <2>2. v13'[p] = s BY <2>1, CuMoveStays
  <2>3. Cu!TokensKept(p)' BY <1>3, <2>1, <2>2 DEF Cu!TokensKept, Cu!Taken, Cu!client
  <2> QED BY <1>1, <1>3, <2>1, <2>3, CuGoes DEF Cu!lockings, Cu!client
<1>4. CASE /\ v5 /\ v4' = v6 /\ v5' = FALSE /\ v6' = NoToken
           /\ v19' = [v19 EXCEPT ![p] = v14[p] = "switch"]
           /\ Cu!Move(p, IF v14[p] = "rm" THEN "RmWrite" ELSE "Read")
           /\ UNCHANGED <<Cu!lockings, Cu!command, v16, v17, v18>>
  <2>1. PICK s \in {"RmWrite", "Read"} : Cu!Move(p, s) BY <1>4
  <2>2. v13'[p] = s /\ \A q \in Agents \ {p} : v13'[q] = v13[q] BY <2>1, CuMoveStays
  <2>3. \A q \in Agents \ {p} : CuStays(q) BY <1>4, <2>2 DEF CuStays, Cu!command
  <2>4. Cu!TokensKept(p)' /\ Cu!RefreshKept(p)'
    BY <1>4, <2>2 DEF Cu!TokensKept, Cu!Taken, Cu!RefreshKept
  <2>5. Cu!Current' = Cu!Current /\ Cu!LiveKept BY <1>4 DEF Cu!Current, CuNow
  <2>6. \A q \in Agents \ {p} : CuStillSound(q) BY <1>1, CuSoundStays DEF CuStillSound
  <2>7. \A a \in People \ v23' : Cu!HasLive(a) => Cu!HasLive(a)'
    <3> TAKE a \in People \ v23'
    <3>1. {p} \in SUBSET Agents /\ \A q \in {p} : Cu!Renews(q, a) => Cu!Live(v9[a])'
      BY <1>1 DEF Cu!Renews
    <3> QED BY <1>1, <2>3, <3>1, CuLiveStays
  <2>8. ASSUME NEW q \in Agents \ {p}, Cu!InSwitch(q), v13[q] # "Stop" PROVE Cu!Settled(v4)'
    <3>1. v23' = People BY <1>1, <1>4, <2>5, <2>8 DEF Cu!LiveKept, Cu!TokensKept
    <3>2. v6 \in Cu!MaybeToken BY DEF CuNow, Cu!CursorTypeOK
    <3> QED BY <1>4, <3>1, <3>2, CuTokens DEF Cu!Settled
  <2>9. Cu!Sound(Cu!Current)' BY <1>1, <2>5 DEF Cu!LiveKept, Cu!Sound
  <2>10. \A a \in People \ v23' : Cu!HasLive(a)' \/ (Cu!IsFor(Cu!Current, a)'
          /\ Cu!Current'.gen # 0)
    BY <1>1, <2>5, <2>7 DEF Cu!LiveKept, Cu!IsFor
  <2>11. {p} \in SUBSET Agents /\ \A q \in {p} : Cu!RefreshKept(q)' /\ Cu!TokensKept(q)' BY <2>4
  <2>12. (\A a \in People : 0 \notin v2'[a]) /\ People \ v23' \subseteq v7'
    BY <1>1, <2>5 DEF Cu!LiveKept
  <2>13. \A q \in Agents \ {p} : v13[q] = "Store" \/ Cu!Taken(q) \/ v13[q] = "Target" =>
            v13[q] # "Stop"
    BY DEF Cu!Taken
  <2>14. v11' = v11 BY <1>4 DEF Cu!lockings
  <2> QED BY <1>4, <2>3, <2>6, <2>7, <2>8, <2>9, <2>10, <2>11, <2>12, <2>13, <2>14, CuAssemble
<1> QED BY <1>2, <1>3, <1>4 DEF Cu!StopClient

\* A switch whose client is closed reads what is live.
LEMMA CuClosed ==
    ASSUME CuNow, NEW p \in Agents, Cu!InSwitch(p), v13[p] # "Stop"
    PROVE  Cu!Sound(v4) /\ (v5' = v5 => (v5' => v23' = People))
<1>1. Cu!LiveKept /\ Cu!TokensKept(p) /\ v4 \in Cu!MaybeToken /\ v23 \subseteq v23'
        /\ v23' \subseteq People
  BY DEF CuNow, Cu!LiveKept, Cu!CursorTypeOK
<1>2. v5 => v23 = People BY <1>1 DEF Cu!TokensKept
<1>3. CASE v5
  <2>1. v23 = People BY <1>2, <1>3
  <2>2. Cu!Sound(v4) BY <1>1, <2>1, CuTokens DEF Cu!Sound
  <2> QED BY <1>1, <2>1, <2>2
<1>4. CASE ~v5
  <2>1. Cu!Sound(v4) BY <1>1, <1>4 DEF Cu!LiveKept, Cu!Current
  <2> QED BY <1>4, <2>1
<1> QED BY <1>3, <1>4

\* The live token is read.
LEMMA CuReads == ASSUME CuNow, NEW p \in Agents, Cu!ReadLive(p) PROVE Cu!LiveKept'
<1>1. UNCHANGED <<v2, v4, v5, v6, v9, v7, v23>> /\ v13[p] = "Read"
  BY DEF Cu!ReadLive, Cu!server, Cu!client, Cu!ours, Cu!past
<1>2. People \ v23' \subseteq v7' BY <1>1 DEF CuNow, Cu!LiveKept
<1>3. CASE Cu!Over(p) BY <1>1, <1>3, CuEnds
<1>4. CASE /\ v14[p] = "query" /\ v16' = [v16 EXCEPT ![p] = v9[v15[p]]] /\ Cu!Move(p, "Fetch")
           /\ UNCHANGED <<Cu!lockings, Cu!command, v17, v18, v19>>
  <2>1. v13'[p] = "Fetch" /\ \A q \in Agents \ {p} : v13'[q] = v13[q] BY <1>4, CuMoveStays
  <2>2. \A q \in Agents \ {p} : CuStays(q)
    BY <1>4, <2>1 DEF CuStays, Cu!command, CuNow, Cu!CursorTypeOK
  <2>3. Cu!RefreshKept(p)' /\ Cu!TokensKept(p)'
    BY <1>4, <2>1 DEF Cu!RefreshKept, Cu!TokensKept, Cu!InSwitch, Cu!command
  <2> QED BY <1>1, <1>2, <1>4, <2>2, <2>3, CuPlain DEF Cu!lockings
<1>5. CASE /\ v17' = [v17 EXCEPT ![p] = v4] /\ Cu!Move(p, "Store")
           /\ UNCHANGED <<Cu!lockings, Cu!command, v16, v18, v19>>
  <2>1. v13'[p] = "Store" /\ \A q \in Agents \ {p} : v13'[q] = v13[q] BY <1>5, CuMoveStays
  <2>2. v17'[p] = v4 /\ \A q \in Agents \ {p} : CuStays(q)
    BY <1>5, <2>1 DEF CuStays, Cu!command, CuNow, Cu!CursorTypeOK
  <2>3. Cu!RefreshKept(p)' BY <2>1 DEF Cu!RefreshKept
  <2>4. ASSUME Cu!InSwitch(p)' PROVE Cu!TokensKept(p)'
    <3>1. Cu!InSwitch(p) BY <1>1, <1>5, <2>4 DEF Cu!InSwitch, Cu!command
    <3>2. Cu!Sound(v4) /\ (v5' => v23' = People) BY <1>1, <3>1, CuClosed
    <3>3. Cu!Sound(v17[p])' BY <1>1, <2>2, <3>2 DEF Cu!Sound
    <3> QED BY <1>1, <2>1, <2>2, <3>2, <3>3 DEF Cu!TokensKept, Cu!Taken
  <2>5. Cu!TokensKept(p)' BY <2>4 DEF Cu!TokensKept
  <2> QED BY <1>1, <1>2, <1>5, <2>2, <2>3, <2>5, CuPlain DEF Cu!lockings
<1>6. CASE /\ v4 = NoToken /\ v14[p] = "switch"
           /\ Cu!Move(p, IF v1 THEN "Reopen" ELSE "Target") /\ UNCHANGED <<Cu!lockings,
               Cu!command, Cu!token>>
  <2>1. PICK s \in {"Reopen", "Target"} : Cu!Move(p, s) BY <1>6
  <2>2. v13'[p] = s BY <2>1, CuMoveStays
  <2>3. Cu!InSwitch(p) BY <1>1, <1>6 DEF Cu!InSwitch
  <2>4. v5' => v23' = People BY <1>1, <2>3, CuClosed
  <2>5. Cu!TokensKept(p)' BY <1>1, <1>6, <2>2, <2>4 DEF Cu!TokensKept, Cu!Taken, Cu!Settled
  <2> QED BY <1>1, <1>6, <2>1, <2>5, CuGoes DEF Cu!lockings
<1> QED BY <1>3, <1>4, <1>5, <1>6 DEF Cu!ReadLive

\* The target is read, when what is live is stored.
LEMMA CuTakes == ASSUME CuNow, NEW p \in Agents, Cu!TakeTarget(p) PROVE Cu!LiveKept'
<1>1. /\ UNCHANGED <<v2, v4, v5, v6, v9, v7, v11>>
      /\ v13[p] = "Target" /\ UNCHANGED Cu!command /\ v17' = v17
      /\ v23' = IF v11[v15[p]] # NoOne THEN v23 \cup {v15[p]} ELSE v23
  BY DEF Cu!TakeTarget, Cu!server, Cu!client, Cu!ours, Cu!lockings
<1>2. People \ v23' \subseteq v7' /\ Cu!LiveKept BY <1>1 DEF CuNow, Cu!LiveKept
<1>3. Cu!InSwitch(p) /\ v15[p] \in People
  BY <1>1 DEF Cu!InSwitch, CuNow, Cu!CommandsKept, Cu!CommandFits
<1>4. Cu!Sound(v4) /\ (v5' => v23' = People) BY <1>1, <1>3, CuClosed
<1>5. CASE Cu!Move(p, "Reopen") /\ UNCHANGED <<v16, v18>>
  <2>1. v13'[p] = "Reopen" BY <1>5, CuMoveStays
  <2>2. Cu!TokensKept(p)' BY <1>4, <2>1 DEF Cu!TokensKept, Cu!Taken
  <2>3. UNCHANGED Cu!token BY <1>1, <1>5 DEF Cu!token, Cu!TakeTarget
  <2> QED BY <1>1, <1>5, <2>2, <2>3, CuGoes
<1>6. CASE /\ v16' = [v16 EXCEPT ![p] = v9[v15[p]]]
           /\ v18' = [v18 EXCEPT ![p] = [disk |-> v4, mark |-> v8, known |-> v7]]
           /\ Cu!Move(p, "Write")
  <2>1. v13'[p] = "Write" /\ \A q \in Agents \ {p} : v13'[q] = v13[q] BY <1>6, CuMoveStays
  <2>2. /\ v16'[p] = v9[v15[p]]
        /\ v18'[p] = [disk |-> v4, mark |-> v8, known |-> v7]
        /\ \A q \in Agents \ {p} : CuStays(q)
    BY <1>1, <1>6, <2>1 DEF CuStays, Cu!command, CuNow, Cu!CursorTypeOK
  <2>3. PICK a \in People : a = v15[p] BY <1>3
  <2>4. ASSUME a \notin v23' PROVE Cu!Live(v9[a])
    <3>1. v11[a] = NoOne BY <1>1, <2>3, <2>4
    <3>2. \A q \in Agents : ~Cu!Renews(q, a)
      BY <1>2, <3>1, CuConstants DEF Cu!LiveKept, Cu!RefreshKept, Cu!Renews
    <3>3. CASE Cu!HasLive(a) BY <3>2, <3>3 DEF Cu!HasLive
    <3>4. CASE Cu!IsFor(Cu!Current, a) /\ Cu!Current.gen # 0
      <4>1. a \notin v23 /\ v23 # People BY <1>1, <2>4
      <4>2. Cu!TokensKept(p) BY <1>2 DEF Cu!LiveKept
      <4>3. ~v5 BY <1>1, <1>3, <4>1, <4>2 DEF Cu!TokensKept
      <4>4. v4.of = a /\ ~Cu!Settled(v4) BY <3>4, <4>1, <4>3 DEF Cu!Current, Cu!IsFor, Cu!Settled
      <4>5. Cu!HasLive(a) BY <1>1, <1>3, <4>2, <4>4 DEF Cu!TokensKept
      <4> QED BY <3>2, <4>5 DEF Cu!HasLive
    <3>5. Cu!HasLive(a) \/ (Cu!IsFor(Cu!Current, a) /\ Cu!Current.gen # 0)
      BY <1>1, <1>2, <2>4 DEF Cu!LiveKept
    <3> QED BY <3>3, <3>4, <3>5
  <2>5. v9[a] # NoToken => v9[a].of = a BY DEF CuNow, Cu!CommandsKept, Cu!StoredAsNamed
  <2>6. Cu!Sound(v16[p])'
    <3>1. CASE a \in v23' BY <2>2, <2>3, <2>5, <3>1 DEF Cu!Sound
    <3>2. CASE a \notin v23' BY <1>1, <2>2, <2>3, <2>4, <3>2 DEF Cu!Sound, Cu!Live
    <3> QED BY <3>1, <3>2
  <2>7. v15'[p] \in v23' \/ Cu!HasLive(v15[p])'
    <3>1. v15'[p] = a BY <1>1, <2>3 DEF Cu!command
    <3>2. a \notin v23' => Cu!Live(v9[a])' BY <1>1, <2>4 DEF Cu!Live
    <3>3. a \notin v23' => Cu!HasLive(a)' BY <3>2 DEF Cu!HasLive
    <3>4. Cu!HasLive(a)' => Cu!HasLive(v15[p])' BY <3>1 DEF Cu!HasLive, Cu!Renews
    <3> QED BY <3>1, <3>3, <3>4
  <2>8. Cu!Sound(v18[p].disk)'
    <3>1. CuSoundNext(v4) BY <1>1, <1>4, CuSoundStays
    <3> QED BY <2>2, <3>1 DEF CuSoundNext, Cu!Sound
  <2>9. v4' = v18'[p].disk /\ People \ v23' \subseteq v18'[p].known
    BY <1>1, <1>2, <2>2
  <2>10. Cu!TokensKept(p)' BY <1>4, <2>1, <2>6, <2>7, <2>8, <2>9 DEF Cu!TokensKept
  <2>11. Cu!RefreshKept(p)' BY <2>1 DEF Cu!RefreshKept
  <2> QED BY <1>1, <1>2, <2>2, <2>10, <2>11, CuPlain
<1> QED BY <1>5, <1>6 DEF Cu!TakeTarget

\* What is stored instead of a live token is live, or its account is shared.
LEMMA CuKeeps ==
    ASSUME CuNow, NEW p \in Agents, Cu!StoreLive(p), NEW a \in People \ v23'
    PROVE  Cu!Live(v9[a]) => Cu!Live(v9[a])'
<1>1. v13[p] = "Store" /\ v2' = v2 /\ v9 \in [People -> Cu!MaybeToken]
  BY DEF Cu!StoreLive, Cu!server, CuNow, Cu!CursorTypeOK
<1>2. Cu!LiveKept /\ v23 \subseteq v23' /\ Cu!CommandFits(p) BY DEF CuNow, Cu!CommandsKept
<1>3. CASE a # v17[p].of
  <2>1. v9'[a] = v9[a] BY <1>1, <1>3 DEF Cu!StoreLive
  <2> QED BY <1>1, <2>1 DEF Cu!Live
<1>4. CASE a = v17[p].of
  <2>1. a \in v7 BY <1>2 DEF Cu!LiveKept
  <2>2. v9'[a] = Cu!Kept(v9[a], v17[p]) BY <1>1, <1>4, <2>1 DEF Cu!StoreLive
  <2>3. v17[p] # NoToken BY <1>1, <1>2 DEF Cu!CommandFits
  <2>4. CASE v9'[a] = v9[a] BY <1>1, <2>4 DEF Cu!Live
  <2>5. CASE v9'[a] = v17[p] /\ (v17[p].gen = 0 => v9[a] = NoToken \/ v9[a].gen = 0)
    <3>1. CASE v14[p] # "switch" BY <1>1, <1>4, <2>5, <3>1 DEF Cu!StoreLive, Cu!Live
    <3>2. CASE v14[p] = "switch"
      <4>1. Cu!InSwitch(p) BY <1>1, <3>2 DEF Cu!InSwitch
      <4>2. Cu!Sound(v17[p]) BY <1>1, <1>2, <4>1 DEF Cu!LiveKept, Cu!TokensKept
      <4>3. CASE v17[p].gen = 0
        <5>1. 0 \notin v2[a] BY <1>2 DEF Cu!LiveKept
        <5>2. v9[a] # NoToken => v9[a].of = a BY DEF CuNow, Cu!CommandsKept, Cu!StoredAsNamed
        <5> QED BY <2>5, <4>3, <5>1, <5>2 DEF Cu!Live
      <4>4. CASE v17[p].gen # 0
        <5>1. Cu!Live(v17[p]) BY <1>2, <1>4, <2>3, <4>2, <4>4 DEF Cu!Sound, Cu!Live
        <5> QED BY <1>1, <2>5, <5>1 DEF Cu!Live
      <4> QED BY <4>3, <4>4
    <3> QED BY <3>1, <3>2
  <2> QED BY <2>2, <2>4, <2>5 DEF Cu!Kept
<1> QED BY <1>3, <1>4

\* The live token is stored, or an older one of the account kept.
LEMMA CuStores == ASSUME CuNow, NEW p \in Agents, Cu!StoreLive(p) PROVE Cu!LiveKept'
<1>1. /\ UNCHANGED <<v2, v4, v5, v6>> /\ v13[p] = "Store"
      /\ v7 \subseteq v7'
  BY DEF Cu!StoreLive, Cu!server, Cu!client
<1>2. Cu!LiveKept /\ v23 \subseteq v23' /\ Cu!CommandFits(p) /\ Cu!Current' = Cu!Current
  BY <1>1 DEF CuNow, Cu!CommandsKept, Cu!Current
<1>3. People \ v23' \subseteq v7' BY <1>1, <1>2 DEF Cu!LiveKept
<1>4. \/ v14[p] = "switch" /\ Cu!Move(p, "Target") /\ v17' = [v17 EXCEPT ![p] = NoToken]
         /\ UNCHANGED <<Cu!lockings, Cu!command, v16, v18, v19>>
      \/ v14[p] = "sync" /\ Cu!Move(p, "Mark") /\ UNCHANGED <<Cu!lockings, Cu!command, Cu!token>>
      \/ Cu!Over(p)
  BY DEF Cu!StoreLive
<1>5. \A q \in Agents \ {p} : CuStays(q)
  <2>1. CASE Cu!Over(p) BY <2>1, CuOverStays
  <2>2. CASE Cu!Move(p, "Mark") /\ UNCHANGED <<Cu!lockings, Cu!command, Cu!token>>
    BY <2>2, CuMoveStays
  <2>3. CASE Cu!Move(p, "Target") /\ v17' = [v17 EXCEPT ![p] = NoToken]
             /\ UNCHANGED <<Cu!lockings, Cu!command, v16, v18, v19>>
    <3>1. \A q \in Agents \ {p} : v13'[q] = v13[q] BY <2>3, CuMoveStays
    <3>2. \A q \in Agents \ {p} : v17'[q] = v17[q] BY <2>3 DEF CuNow, Cu!CursorTypeOK
    <3> QED BY <2>3, <3>1, <3>2 DEF CuStays, Cu!command
  <2> QED BY <1>4, <2>1, <2>2, <2>3
<1>6. \A q \in Agents \ {p}, a \in People : v11[a] = q => v11'[a] = q
  <2>1. CASE Cu!Over(p) BY <2>1, CuOverStays
  <2> QED BY <1>4, <2>1 DEF Cu!lockings
<1>7. \A q \in Agents \ {p} : CuStillSound(q) BY <1>1, CuSoundStays DEF CuStillSound
<1>8. ASSUME NEW q \in Agents \ {p}, v13[q] \in {"Post", "Save"}
      PROVE  v11'[v15[q]] = v11[v15[q]]
  <2>1. v11[v15[q]] = q BY <1>2, <1>8 DEF Cu!LiveKept, Cu!RefreshKept
  <2>2. v15[q] \in People BY <1>8 DEF CuNow, Cu!CommandsKept, Cu!CommandFits
  <2> QED BY <1>6, <2>1, <2>2
<1>9. \A a \in People \ v23' : Cu!HasLive(a) => Cu!HasLive(a)'
  <2> TAKE a \in People \ v23'
  <2>1. ~Cu!Live(v9[a]) \/ Cu!Live(v9[a])' BY CuKeeps
  <2>2. {p} \in SUBSET Agents /\ \A q \in {p} : Cu!Renews(q, a) => Cu!Live(v9[a])'
    BY <1>1 DEF Cu!Renews
  <2> QED BY <1>1, <1>5, <2>1, <2>2, CuLiveStays
<1>10. Cu!Sound(Cu!Current)'
  <2>1. CuSoundNext(Cu!Current) BY <1>1, <1>2, CuSoundStays DEF Cu!LiveKept
  <2> QED BY <1>2, <2>1 DEF CuSoundNext, Cu!Sound
<1>11. \A a \in People \ v23' : Cu!HasLive(a)' \/ (Cu!IsFor(Cu!Current, a)' /\ Cu!Current'.gen # 0)
  BY <1>2, <1>9 DEF Cu!LiveKept, Cu!IsFor
<1>12. Cu!RefreshKept(p)' /\ Cu!TokensKept(p)'
  <2>1. CASE Cu!Over(p) BY <2>1, CuOverStays
  <2>2. CASE v14[p] = "sync" /\ Cu!Move(p, "Mark") /\ UNCHANGED <<Cu!lockings, Cu!command,
          Cu!token>>
    <3>1. v13'[p] = "Mark" /\ v14'[p] = "sync" BY <2>2, CuMoveStays DEF Cu!command
    <3> QED BY <3>1 DEF Cu!RefreshKept, Cu!TokensKept, Cu!InSwitch
  <2>3. CASE v14[p] = "switch" /\ Cu!Move(p, "Target") /\ UNCHANGED <<Cu!lockings, Cu!command>>
    <3>1. v13'[p] = "Target" BY <2>3, CuMoveStays
    <3>2. Cu!InSwitch(p) BY <1>1, <2>3 DEF Cu!InSwitch
    <3>3. v5' => v23' = People BY <1>1, <3>2, CuClosed
    <3>4. Cu!Sound(v17[p]) /\ (v4 = v17[p] \/ Cu!Settled(v4))
      BY <1>1, <1>2, <3>2 DEF Cu!LiveKept, Cu!TokensKept
    <3>5. ASSUME ~Cu!Settled(v4)' PROVE Cu!HasLive(v4.of)'
      <4>1. v4 # NoToken /\ v4.gen # 0 /\ v4.of \notin v23'
        BY <1>1, <3>5 DEF Cu!Settled
      <4>2. v4 = v17[p] BY <1>2, <3>4, <4>1 DEF Cu!Settled
      <4>3. v4.of \in People BY <4>1, CuTokens DEF CuNow, Cu!CursorTypeOK
      <4>4. PICK a \in People : a = v4.of BY <4>3
      <4>5. a \in v7 BY <1>2, <4>1, <4>4 DEF Cu!LiveKept
      <4>6. v9'[a] = v4
        BY <4>1, <4>2, <4>4, <4>5 DEF Cu!StoreLive, Cu!Kept, CuNow, Cu!CursorTypeOK
      <4>7. v4.gen \in v2[a] BY <1>2, <3>4, <4>1, <4>2, <4>4 DEF Cu!Sound
      <4>8. Cu!Live(v9[a])' BY <1>1, <4>1, <4>4, <4>6, <4>7 DEF Cu!Live
      <4>9. Cu!HasLive(a)' BY <4>8 DEF Cu!HasLive
      <4>10. v4'.of = a BY <1>1, <4>4
      <4> QED BY <4>9, <4>10 DEF Cu!HasLive, Cu!Renews
    <3> QED BY <3>1, <3>3, <3>5 DEF Cu!RefreshKept, Cu!TokensKept, Cu!Taken
  <2> QED BY <1>4, <2>1, <2>2, <2>3
<1>13. {p} \in SUBSET Agents /\ \A q \in {p} : Cu!RefreshKept(q)' /\ Cu!TokensKept(q)' BY <1>12
<1>14. \A a \in People : 0 \notin v2'[a] BY <1>1, <1>2 DEF Cu!LiveKept
<1> QED BY <1>1, <1>3, <1>5, <1>7, <1>8, <1>9, <1>10, <1>11, <1>13, <1>14, CuAssemble

\* The token of the target is written.
LEMMA CuWritesToken == ASSUME CuNow, NEW p \in Agents, Cu!WriteToken(p) PROVE Cu!LiveKept'
<1>1. /\ UNCHANGED <<v2, v5, v6, v9, v7, v11>>
      /\ v13[p] = "Write" /\ v4' = v16[p] /\ UNCHANGED <<Cu!command, Cu!token>> /\ Cu!Move(p,
          "Mark")
      /\ v23' = v23 \cup Cu!Discarded(v4)
  BY DEF Cu!WriteToken, Cu!server, Cu!ours, Cu!lockings
<1>2. Cu!InSwitch(p) BY <1>1 DEF Cu!InSwitch, CuNow, Cu!CommandsKept, Cu!CommandFits
<1>3. v13'[p] = "Mark" /\ \A q \in Agents \ {p} : CuStays(q) BY <1>1, CuMoveStays
<1>4. Cu!LiveKept /\ Cu!TokensKept(p) /\ Cu!Sound(v4) /\ (v5' => v23' = People)
  BY <1>1, <1>2, CuClosed DEF CuNow, Cu!LiveKept
<1>5. Cu!TokensKept(p)'
  <2>1. /\ Cu!Sound(v16[p]) /\ Cu!Sound(v18[p].disk)
        /\ v15[p] \in v23 \/ Cu!HasLive(v15[p])
        /\ People \ v23 \subseteq v18[p].known
    BY <1>1, <1>2, <1>4 DEF Cu!TokensKept, Cu!Taken
  <2>2. CuSoundNext(v16[p]) /\ CuSoundNext(v18[p].disk) BY <1>1, <2>1, CuSoundStays
  <2>3. Cu!Sound(v16[p])' /\ Cu!Sound(v18[p].disk)'
    BY <1>1, <2>2 DEF CuSoundNext, Cu!Sound, Cu!token
  <2>4. v15'[p] \in v23' \/ Cu!HasLive(v15[p])'
    <3>1. Cu!HasLive(v15[p]) => Cu!HasLive(v15[p])'
      <4>1. PICK a \in People : a = v15[p]
        BY <1>2 DEF Cu!InSwitch, CuNow, Cu!CommandsKept, Cu!CommandFits
      <4>2. Cu!HasLive(a) => Cu!HasLive(a)'
        BY <1>1, <1>3 DEF Cu!HasLive, Cu!Renews, Cu!Live, CuStays
      <4> QED BY <1>1, <4>1, <4>2 DEF Cu!HasLive, Cu!Renews, Cu!command
    <3> QED BY <1>1, <2>1, <3>1 DEF Cu!command
  <2>5. v4' = v16'[p] /\ People \ v23' \subseteq v18'[p].known BY <1>1, <2>1 DEF Cu!token
  <2> QED BY <1>3, <1>4, <2>3, <2>4, <2>5 DEF Cu!TokensKept
<1>6. Cu!RefreshKept(p)' BY <1>3 DEF Cu!RefreshKept
<1>7. Cu!Sound(Cu!Current)'
  <2>1. CASE v5
    <3>1. Cu!Current' = Cu!Current BY <1>1, <2>1 DEF Cu!Current
    <3>2. CuSoundNext(Cu!Current) BY <1>1, <1>4, CuSoundStays DEF Cu!LiveKept
    <3> QED BY <3>1, <3>2 DEF CuSoundNext, Cu!Sound
  <2>2. CASE ~v5
    <3>1. Cu!Current' = v16[p] BY <1>1, <2>2 DEF Cu!Current
    <3>2. Cu!Sound(v16[p]) BY <1>1, <1>2, <1>4 DEF Cu!TokensKept, Cu!Taken
    <3>3. CuSoundNext(v16[p]) BY <1>1, <3>2, CuSoundStays
    <3> QED BY <3>1, <3>3 DEF CuSoundNext, Cu!Sound
  <2> QED BY <2>1, <2>2
<1>8. ASSUME NEW a \in People \ v23', Cu!IsFor(Cu!Current, a), Cu!Current.gen # 0
      PROVE Cu!HasLive(a)
  <2>1. ~v5 BY <1>1, <1>4, <1>8
  <2>2. v4 # NoToken /\ v4.of = a /\ v4.gen # 0 BY <1>8, <2>1 DEF Cu!Current, Cu!IsFor
  <2>3. Cu!Live(v4) BY <1>1, <1>4, <1>8, <2>2 DEF Cu!Sound, Cu!Live
  <2>4. v9[a] = v4 BY <1>1, <1>8, <2>2, <2>3 DEF Cu!Discarded
  <2> QED BY <2>3, <2>4 DEF Cu!HasLive
<1> QED BY <1>1, <1>2, <1>3, <1>5, <1>6, <1>7, <1>8, CuWrites

\* The account is marked, or a write fails.
LEMMA CuMarks == ASSUME CuNow, NEW p \in Agents, Cu!MarkActive(p) \/ Cu!Break(p) PROVE Cu!LiveKept'
<1>1. UNCHANGED <<v2, v4, v5, v6, v9, v7, v23>> /\ v13[p] \in {"Write", "Mark"}
  BY DEF Cu!MarkActive, Cu!Break, Cu!server, Cu!client, Cu!ours, Cu!past
<1>2. CASE Cu!Over(p) BY <1>1, <1>2, CuEnds
<1>3. ASSUME v14[p] = "switch", NEW s \in {"Start", "UndoToken"}, Cu!Move(p, s),
             UNCHANGED <<Cu!lockings, Cu!command, Cu!token>>
      PROVE  Cu!LiveKept'
  <2>1. Cu!InSwitch(p) BY <1>1, <1>3 DEF Cu!InSwitch
  <2>2. v13'[p] = s /\ \A q \in Agents \ {p} : CuStays(q) BY <1>3, CuMoveStays
  <2>3. Cu!LiveKept /\ Cu!TokensKept(p) /\ (v5' => v23' = People)
    BY <1>1, <2>1, CuClosed DEF CuNow, Cu!LiveKept
  <2>4. Cu!Taken(p) BY <1>1 DEF Cu!Taken
  <2>5. Cu!Sound(v16[p])' /\ Cu!Sound(v18[p].disk)'
    BY <1>1, <1>3, <2>1, <2>3, <2>4 DEF Cu!TokensKept, Cu!Sound, Cu!token
  <2>6. v15'[p] \in v23' \/ Cu!HasLive(v15[p])'
    <3>1. PICK a \in People : a = v15[p]
      BY <2>1 DEF Cu!InSwitch, CuNow, Cu!CommandsKept, Cu!CommandFits
    <3>2. Cu!HasLive(a) => Cu!HasLive(a)' BY <1>1, <2>2 DEF Cu!HasLive, Cu!Renews, Cu!Live, CuStays
    <3>3. a \in v23 \/ Cu!HasLive(a) BY <2>1, <2>3, <2>4, <3>1 DEF Cu!TokensKept
    <3> QED BY <1>1, <1>3, <3>1, <3>2, <3>3 DEF Cu!HasLive, Cu!Renews, Cu!command
  <2>7. v4' \in {v16'[p], v18'[p].disk} \/ Cu!Settled(v4)'
    BY <1>1, <1>3, <2>1, <2>3, <2>4 DEF Cu!TokensKept, Cu!Settled, Cu!token
  <2>8. People \ v23' \subseteq v18'[p].known
    BY <1>1, <1>3, <2>1, <2>3, <2>4 DEF Cu!TokensKept, Cu!token
  <2>9. Cu!TokensKept(p)' BY <2>2, <2>3, <2>5, <2>6, <2>7, <2>8 DEF Cu!TokensKept
  <2> QED BY <1>1, <1>3, <2>9, CuGoes DEF Cu!lockings
<1>4. CASE Cu!Break(p)
  <2>1. Cu!Move(p, "UndoToken") /\ UNCHANGED <<Cu!lockings, Cu!command, Cu!token>>
          /\ v14[p] = "switch"
    BY <1>4 DEF Cu!Break
  <2> QED BY <1>3, <2>1
<1>5. CASE Cu!MarkActive(p) /\ ~Cu!Over(p)
  <2>1. Cu!Move(p, "Start") /\ UNCHANGED <<Cu!lockings, Cu!command, Cu!token>> /\ v14[p] # "sync"
    BY <1>5 DEF Cu!MarkActive
  <2>2. v14[p] = "switch" BY <1>5, <2>1 DEF Cu!MarkActive, CuNow, Cu!CommandsKept, Cu!CommandFits
  <2> QED BY <1>3, <2>1, <2>2
<1> QED BY <1>2, <1>4, <1>5

\* The client opens with what is live.
LEMMA CuOpens ==
    ASSUME CuNow, NEW p \in Agents, Cu!InSwitch(p), v13[p] # "Save", Cu!Over(p),
       Cu!Current' = Cu!Current,
           UNCHANGED <<v2, v9, v7, v23>>
    PROVE  Cu!LiveKept'
<1>1. CuSoundNext(Cu!Current) BY CuSoundStays DEF CuNow, Cu!LiveKept
<1>2. Cu!Sound(Cu!Current)' BY <1>1 DEF CuSoundNext, Cu!Sound
<1>3. \A a \in People \ v23' :
         Cu!IsFor(Cu!Current, a) /\ Cu!Current.gen # 0 =>
            Cu!HasLive(a) \/ (Cu!IsFor(Cu!Current, a)' /\ Cu!Current'.gen # 0)
  BY DEF Cu!IsFor
<1> QED BY <1>2, <1>3, CuOverStays, CuWrites

\* The client is started again, or that fails.
LEMMA CuRestarts == ASSUME CuNow, NEW p \in Agents, Cu!StartClient(p) PROVE Cu!LiveKept'
<1>1. UNCHANGED <<v2, v4, v9, v7, v23>> /\ v13[p] = "Start"
  BY DEF Cu!StartClient, Cu!server, Cu!ours
<1>2. Cu!InSwitch(p) BY <1>1 DEF Cu!InSwitch, CuNow, Cu!CommandsKept, Cu!CommandFits
<1>3. CASE v5' = TRUE /\ v6' = (IF v5 THEN v6 ELSE v4) /\ Cu!Over(p)
  <2>1. Cu!Current' = Cu!Current BY <1>1, <1>3 DEF Cu!Current
  <2> QED BY <1>1, <1>2, <1>3, <2>1, CuOpens
<1>4. CASE Cu!Move(p, "UndoToken") /\ UNCHANGED <<v5, v6, Cu!lockings, Cu!command, Cu!token>>
  <2>1. v13'[p] = "UndoToken" /\ \A q \in Agents \ {p} : CuStays(q) BY <1>4, CuMoveStays
  <2>2. Cu!LiveKept /\ Cu!TokensKept(p) /\ (v5' => v23' = People)
    BY <1>1, <1>2, <1>4, CuClosed DEF CuNow, Cu!LiveKept
  <2>3. Cu!Taken(p) BY <1>1 DEF Cu!Taken
  <2>4. Cu!Sound(v16[p])' /\ Cu!Sound(v18[p].disk)'
    BY <1>1, <1>2, <1>4, <2>2, <2>3 DEF Cu!TokensKept, Cu!Sound, Cu!token
  <2>5. v15'[p] \in v23' \/ Cu!HasLive(v15[p])'
    <3>1. PICK a \in People : a = v15[p]
      BY <1>2 DEF Cu!InSwitch, CuNow, Cu!CommandsKept, Cu!CommandFits
    <3>2. Cu!HasLive(a) => Cu!HasLive(a)' BY <1>1, <2>1 DEF Cu!HasLive, Cu!Renews, Cu!Live, CuStays
    <3>3. a \in v23 \/ Cu!HasLive(a) BY <1>2, <2>2, <2>3, <3>1 DEF Cu!TokensKept
    <3> QED BY <1>1, <1>4, <3>1, <3>2, <3>3 DEF Cu!HasLive, Cu!Renews, Cu!command
  <2>6. v4' \in {v16'[p], v18'[p].disk} \/ Cu!Settled(v4)'
    BY <1>1, <1>2, <1>4, <2>2, <2>3 DEF Cu!TokensKept, Cu!Settled, Cu!token
  <2>7. People \ v23' \subseteq v18'[p].known
    BY <1>1, <1>2, <1>4, <2>2, <2>3 DEF Cu!TokensKept, Cu!token
  <2>8. Cu!TokensKept(p)' BY <2>1, <2>2, <2>4, <2>5, <2>6, <2>7 DEF Cu!TokensKept
  <2> QED BY <1>1, <1>4, <2>8, CuGoes DEF Cu!lockings
<1> QED BY <1>3, <1>4 DEF Cu!StartClient

\* The session is opened again.
LEMMA CuReopens == ASSUME CuNow, NEW p \in Agents, Cu!Reopen(p) PROVE Cu!LiveKept'
<1>1. UNCHANGED <<v2, v4, v9, v7, v23>> /\ v13[p] = "Reopen" /\ Cu!Over(p)
  BY DEF Cu!Reopen, Cu!server, Cu!ours, Cu!past
<1>2. Cu!InSwitch(p) BY <1>1 DEF Cu!InSwitch, CuNow, Cu!CommandsKept, Cu!CommandFits
<1>3. Cu!Current' = Cu!Current BY <1>1 DEF Cu!Reopen, Cu!Current
<1> QED BY <1>1, <1>2, <1>3, CuOpens

\* The marked account is brought back.
LEMMA CuUndoesMark == ASSUME CuNow, NEW p \in Agents, Cu!UndoMark(p) PROVE Cu!LiveKept'
<1>1. /\ UNCHANGED <<v2, v4, v5, v6, v9, v23, v11>>
      /\ UNCHANGED <<Cu!command, Cu!token>> /\ v13[p] = "UndoMark" /\ Cu!Move(p, "Reopen")
      /\ v7' = v18[p].known
  BY DEF Cu!UndoMark, Cu!server, Cu!client, Cu!past, Cu!lockings
<1>2. Cu!InSwitch(p) BY <1>1 DEF Cu!InSwitch, CuNow, Cu!CommandsKept, Cu!CommandFits
<1>3. v13'[p] = "Reopen" /\ \A q \in Agents \ {p} : CuStays(q) BY <1>1, CuMoveStays
<1>4. Cu!TokensKept(p) /\ (v5' => v23' = People) BY <1>1, <1>2, CuClosed DEF CuNow, Cu!LiveKept
<1>5. People \ v23' \subseteq v7' BY <1>1, <1>2, <1>4 DEF Cu!TokensKept
<1>6. Cu!TokensKept(p)' BY <1>3, <1>4 DEF Cu!TokensKept, Cu!Taken
<1>7. Cu!RefreshKept(p)' BY <1>3 DEF Cu!RefreshKept
<1> QED
  BY <1>1, <1>3, <1>5, <1>6, <1>7, CuPlain

\* The token of before is brought back.
LEMMA CuUndoesToken == ASSUME CuNow, NEW p \in Agents, Cu!UndoToken(p) PROVE Cu!LiveKept'
<1>1. /\ UNCHANGED <<v2, v5, v6, v9, v7, v11>>
      /\ v13[p] = "UndoToken" /\ v4' = v18[p].disk /\ UNCHANGED <<Cu!command, Cu!token>>
      /\ Cu!Move(p, "UndoMark")
      /\ v23' = v23 \cup (IF v4 # v16[p] THEN Cu!Discarded(v4) ELSE {})
  BY DEF Cu!UndoToken, Cu!server, Cu!ours, Cu!lockings
<1>2. Cu!CommandFits(p) BY DEF CuNow, Cu!CommandsKept
<1>3. Cu!InSwitch(p) BY <1>1, <1>2 DEF Cu!InSwitch, Cu!CommandFits
<1>4. v13'[p] = "UndoMark" /\ \A q \in Agents \ {p} : CuStays(q) BY <1>1, CuMoveStays
<1>5. Cu!LiveKept /\ Cu!Sound(v4) /\ (v5' => v23' = People) BY <1>1, <1>3, CuClosed DEF CuNow
<1>6. /\ Cu!Sound(v18[p].disk) /\ People \ v23 \subseteq v18[p].known
      /\ v15[p] \in v23 \/ Cu!HasLive(v15[p])
  BY <1>1, <1>3, <1>5 DEF Cu!LiveKept, Cu!TokensKept, Cu!Taken
<1>7. Cu!TokensKept(p)'
  <2>1. People \ v23' \subseteq v18'[p].known BY <1>1, <1>6 DEF Cu!token
  <2> QED BY <1>4, <1>5, <2>1 DEF Cu!TokensKept, Cu!Taken
<1>8. Cu!RefreshKept(p)' BY <1>4 DEF Cu!RefreshKept
<1>9. Cu!Sound(Cu!Current)'
  <2>1. CASE v5
    <3>1. Cu!Current' = Cu!Current BY <1>1, <2>1 DEF Cu!Current
    <3>2. CuSoundNext(Cu!Current) BY <1>1, <1>5, CuSoundStays DEF Cu!LiveKept
    <3> QED BY <3>1, <3>2 DEF CuSoundNext, Cu!Sound
  <2>2. CASE ~v5
    <3>1. Cu!Current' = v18[p].disk BY <1>1, <2>2 DEF Cu!Current
    <3>2. CuSoundNext(v18[p].disk) BY <1>1, <1>6, CuSoundStays
    <3> QED BY <3>1, <3>2 DEF CuSoundNext, Cu!Sound
  <2> QED BY <2>1, <2>2
<1>10. ASSUME NEW a \in People \ v23', Cu!IsFor(Cu!Current, a), Cu!Current.gen # 0
      PROVE Cu!HasLive(a)
  <2>1. ~v5 BY <1>1, <1>5, <1>10
  <2>2. v4 # NoToken /\ v4.of = a /\ v4.gen # 0 BY <1>10, <2>1 DEF Cu!Current, Cu!IsFor
  <2>3. Cu!Live(v4) BY <1>1, <1>5, <1>10, <2>2 DEF Cu!Sound, Cu!Live
  <2>4. CASE v4 # v16[p]
    <3>1. v9[a] = v4 BY <1>1, <1>10, <2>2, <2>3, <2>4 DEF Cu!Discarded
    <3> QED BY <2>3, <3>1 DEF Cu!HasLive
  <2>5. CASE v4 = v16[p]
    <3>1. v15[p] = a BY <1>2, <2>2, <2>5 DEF Cu!CommandFits
    <3> QED BY <1>1, <1>6, <1>10, <3>1
  <2> QED BY <2>4, <2>5
<1> QED BY <1>1, <1>3, <1>4, <1>7, <1>8, <1>9, <1>10, CuWrites

\* The server makes one token bad, and no other.
LEMMA CuTurns ==
    ASSUME CuNow, NEW t \in Cu!Tokens, Cu!Renewable(t), Cu!Rotate(t)
    PROVE  /\ \A u \in Cu!MaybeToken : u # t /\ Cu!Sound(u) => CuSoundNext(u)
           /\ \A u \in Cu!MaybeToken : u # t /\ Cu!Live(u) => u.gen \in v2'[u.of]
           /\ \A a \in People : 0 \notin v2'[a]
           /\ Cu!Rotated(t) # NoToken /\ Cu!Rotated(t).of = t.of /\ Cu!Rotated(t).gen # 0
           /\ Cu!Rotated(t).gen \in v2'[t.of]
           /\ \A a \in People \ {t.of} : v2'[a] = v2[a]
<1>1. /\ v2 \in [People -> SUBSET Cu!Gens] /\ v3 \in [People -> Cu!Gens] /\ t.of \in People
      /\ Cu!LiveKept /\ v23 \subseteq v23'
  BY CuTokens DEF CuNow, Cu!CursorTypeOK
<1>2. v3[t.of] \in Nat /\ v3[t.of] + 1 # 0 /\ v3[t.of] + 1 \in Cu!Gens
  BY <1>1, CuConstants DEF Cu!Gens, Cu!Rotate
<1>3. /\ v2'[t.of] = (v2[t.of] \ {t.gen}) \cup {v3[t.of] + 1}
      /\ \A a \in People \ {t.of} : v2'[a] = v2[a]
  BY <1>1 DEF Cu!Rotate
<1>4. \A a \in People : 0 \notin v2'[a]
  <2>1. \A a \in People : 0 \notin v2[a] BY <1>1 DEF Cu!LiveKept
  <2> QED BY <1>2, <1>3, <2>1
<1>5. ASSUME NEW u \in Cu!MaybeToken, u # t, u # NoToken, u.gen \in v2[u.of]
      PROVE  u.gen \in v2'[u.of]
  <2>1. u \in Cu!Tokens BY <1>5, CuTokens
  <2>2. u.of = t.of => u.gen # t.gen BY <1>5, <2>1 DEF Cu!Tokens
  <2>3. u.of \in People BY <2>1, CuTokens
  <2> QED BY <1>3, <1>5, <2>2, <2>3
<1>6. Cu!Rotated(t) = [of |-> t.of, gen |-> v3[t.of] + 1]
  BY DEF Cu!Rotated, Cu!Tokens
<1>7. Cu!Rotated(t) \in Cu!Tokens BY <1>1, <1>2, <1>6 DEF Cu!Tokens
<1>8. Cu!Rotated(t) # NoToken BY <1>7, CuTokens
<1>9. Cu!Rotated(t).of = t.of /\ Cu!Rotated(t).gen = v3[t.of] + 1 BY <1>6
<1>10. \A u \in Cu!MaybeToken : u # t /\ Cu!Live(u) => u.gen \in v2'[u.of] BY <1>5 DEF Cu!Live
<1>11. \A u \in Cu!MaybeToken : u # t /\ Cu!Sound(u) => CuSoundNext(u)
  BY <1>1, <1>5 DEF Cu!Sound, CuSoundNext
<1> QED BY <1>2, <1>3, <1>4, <1>8, <1>9, <1>10, <1>11

\* Whoever else had the token is shared with.
LEMMA CuHolders ==
    ASSUME CuNow, NEW p, NEW t \in Cu!Tokens, Cu!Renewable(t), Cu!Rotate(t), NEW q \in Agents \ {p},
           Cu!Copied(t, p) => t.of \in v23'
    PROVE  CuStillSound(q)
<1>1. v16[q] \in Cu!MaybeToken /\ v17[q] \in Cu!MaybeToken /\ v18[q].disk \in Cu!MaybeToken
  BY DEF CuNow, Cu!CursorTypeOK
<1> SUFFICES ASSUME NEW u \in {v16[q], v17[q], v18[q].disk}, Cu!Sound(u) PROVE CuSoundNext(u)
  BY DEF CuStillSound
<1>2. CASE u = t
  <2>1. t.of \in v23' BY <1>2 DEF Cu!Copied
  <2> QED BY <1>2, <2>1 DEF CuSoundNext
<1>3. CASE u # t BY <1>1, <1>3, CuTurns
<1> QED BY <1>2, <1>3

\* A token is renewed, under its lock.
LEMMA CuPosts == ASSUME CuNow, NEW p \in Agents, Cu!Post(p) PROVE Cu!LiveKept'
<1>1. UNCHANGED <<v4, v5, v6, v9, v7>> /\ v13[p] = "Post" /\ Cu!Current' = Cu!Current
  BY DEF Cu!Post, Cu!client, Cu!ours, Cu!Current
<1>2. Cu!CommandFits(p) /\ Cu!LiveKept /\ v23 \subseteq v23' /\ \A q \in Agents : Cu!CommandFits(q)
  BY DEF CuNow, Cu!CommandsKept
<1>3. /\ v16[p] \in Cu!Tokens /\ v16[p].of = v15[p] /\ v15[p] \in People /\ v14[p] = "query"
  BY <1>1, <1>2, CuTokens DEF Cu!CommandFits, CuNow, Cu!CursorTypeOK
<1>4. CASE ~Cu!Renewable(v16[p]) /\ Cu!Over(p) /\ UNCHANGED <<Cu!server, v23>>
  BY <1>1, <1>4, CuEnds DEF Cu!server
<1>5. ASSUME Cu!Renewable(v16[p]), Cu!Rotate(v16[p]), \A q \in Agents \ {p} : CuStays(q),
             \A q \in Agents \ {p}, a \in People : v11[a] = q => v11'[a] = q,
             Cu!RefreshKept(p)', Cu!TokensKept(p)',
             Cu!Copied(v16[p], p) \/ Cu!Loaded(v16[p]) => v15[p] \in v23',
             \A a \in People \ v23' : a = v15[p] => Cu!Renews(p, a)'
      PROVE  Cu!LiveKept'
  <2>1. \A q \in Agents \ {p} : CuStillSound(q) BY <1>3, <1>5, CuHolders
  <2>2. \A a \in People \ v23' : Cu!HasLive(a) => Cu!HasLive(a)'
    <3> TAKE a \in People \ v23'
    <3>1. CASE a = v15[p]
      <4>1. Cu!Renews(p, a)' BY <1>5, <3>1
      <4> QED BY <4>1 DEF Cu!HasLive
    <3>2. CASE a # v15[p]
      <4>1. v2'[a] = v2[a] BY <1>3, <1>5, <3>2, CuTurns
      <4>2. ASSUME Cu!Live(v9[a]) PROVE Cu!Live(v9[a])'
        BY <1>1, <4>1, <4>2 DEF Cu!Live, CuNow, Cu!CommandsKept, Cu!StoredAsNamed
      <4>3. ASSUME NEW q \in Agents, Cu!Renews(q, a) PROVE Cu!Renews(q, a)'
        <5>1. q # p BY <1>1, <4>3 DEF Cu!Renews
        <5>2. v16[q].of = a BY <1>2, <4>3 DEF Cu!Renews, Cu!CommandFits, Cu!Live
        <5>3. CuStays(q) BY <1>5, <5>1
        <5> QED BY <4>1, <4>3, <5>2, <5>3 DEF Cu!Renews, CuStays, Cu!Live
      <4> QED BY <4>2, <4>3 DEF Cu!HasLive
    <3> QED BY <3>1, <3>2
  <2>3. Cu!Current \in Cu!MaybeToken BY DEF Cu!Current, CuNow, Cu!CursorTypeOK
  <2>4. CuSoundNext(Cu!Current)
    <3>1. CASE Cu!Current = v16[p]
      <4>1. v15[p] \in v23' BY <1>5, <3>1 DEF Cu!Loaded, Cu!Current
      <4> QED BY <1>3, <3>1, <4>1 DEF CuSoundNext
    <3>2. CASE Cu!Current # v16[p] BY <1>2, <1>3, <1>5, <2>3, <3>2, CuTurns DEF Cu!LiveKept
    <3> QED BY <3>1, <3>2
  <2>5. Cu!Sound(Cu!Current)' BY <1>1, <2>4 DEF CuSoundNext, Cu!Sound
  <2>6. \A a \in People \ v23' : Cu!HasLive(a)' \/ (Cu!IsFor(Cu!Current, a)' /\ Cu!Current'.gen # 0)
    BY <1>1, <1>2, <2>2 DEF Cu!LiveKept, Cu!IsFor
  <2>7. ASSUME NEW q \in Agents \ {p}, v13[q] \in {"Post", "Save"}
        PROVE  v11'[v15[q]] = v11[v15[q]]
    <3>1. v11[v15[q]] = q BY <1>2, <2>7 DEF Cu!LiveKept, Cu!RefreshKept
    <3>2. v15[q] \in People BY <1>2, <2>7 DEF Cu!CommandFits
    <3> QED BY <1>5, <3>1, <3>2
  <2>8. {p} \in SUBSET Agents /\ \A q \in {p} : Cu!RefreshKept(q)' /\ Cu!TokensKept(q)' BY <1>5
  <2>9. (\A a \in People : 0 \notin v2'[a]) /\ People \ v23' \subseteq v7'
    BY <1>1, <1>2, <1>3, <1>5, CuTurns DEF Cu!LiveKept
  <2> QED BY <1>1, <1>5, <2>1, <2>2, <2>5, <2>6, <2>7, <2>8, <2>9, CuAssemble
<1>6. CASE /\ Cu!Renewable(v16[p]) /\ Cu!Rotate(v16[p])
           /\ v23' = IF Cu!Copied(v16[p], p) \/ Cu!Loaded(v16[p]) THEN v23 \cup {v15[p]} ELSE v23
           /\ v16' = [v16 EXCEPT ![p] = Cu!Rotated(v16[p])] /\ Cu!Move(p, "Save")
           /\ UNCHANGED <<Cu!lockings, Cu!command, v17, v18, v19>>
  <2>1. v13'[p] = "Save" /\ \A q \in Agents \ {p} : v13'[q] = v13[q] BY <1>6, CuMoveStays
  <2>2. /\ v16'[p] = Cu!Rotated(v16[p]) /\ v15'[p] = v15[p] /\ v14'[p] = v14[p]
        /\ \A q \in Agents \ {p} : CuStays(q)
    BY <1>6, <2>1 DEF CuStays, Cu!command, CuNow, Cu!CursorTypeOK
  <2>3. v16'[p] # NoToken /\ v16'[p].of = v15[p] /\ v16'[p].gen # 0 /\ v16'[p].gen \in v2'[v15[p]]
    BY <1>3, <1>6, <2>2, CuTurns
  <2>4. \A a \in People \ v23' : a = v15[p] => Cu!Renews(p, a)'
    BY <2>1, <2>2, <2>3 DEF Cu!Renews, Cu!Live
  <2>5. Cu!RefreshKept(p)'
    <3>1. v11[v15[p]] = p BY <1>1, <1>2 DEF Cu!LiveKept, Cu!RefreshKept
    <3>2. Cu!Sound(v16[p])' BY <2>3 DEF Cu!Sound
    <3> QED BY <1>6, <2>2, <2>3, <3>1, <3>2 DEF Cu!RefreshKept, Cu!lockings
  <2>6. Cu!TokensKept(p)' BY <1>3, <2>2 DEF Cu!TokensKept, Cu!InSwitch
  <2> QED BY <1>5, <1>6, <2>2, <2>4, <2>5, <2>6 DEF Cu!lockings
<1>7. CASE Cu!Renewable(v16[p]) /\ Cu!Rotate(v16[p]) /\ v23' = v23 \cup {v15[p]} /\ Cu!Over(p)
  BY <1>5, <1>7, CuOverStays
<1> QED BY <1>4, <1>6, <1>7 DEF Cu!Post

\* What is stored or dropped for one account leaves the others alone.
LEMMA CuSaves == ASSUME CuNow, NEW p \in Agents, Cu!SaveRefreshed(p) \/ Cu!SignOut(p)
    PROVE Cu!LiveKept'
<1>1. /\ UNCHANGED <<v2, v5, v6>> /\ Cu!Over(p) /\ v13[p] \in {"Save", "RmWrite"}
      /\ \A b \in People \ {v15[p]} : v9'[b] = v9[b]
      /\ v4' = v4 \/ (v4' = NoToken /\ v4.of = v15[p])
      /\ v7' = v7 \/ v7' = v7 \ {v15[p]}
      /\ v13[p] = "Save" => v4' = v4 /\ v7' = v7
      /\ v13[p] = "RmWrite" => v15[p] \in v23'
  BY DEF Cu!SaveRefreshed, Cu!SignOut, Cu!server, Cu!client, CuNow, Cu!CursorTypeOK
<1>2. Cu!LiveKept /\ Cu!CommandFits(p) /\ v23 \subseteq v23' /\ \A q \in Agents : Cu!CommandFits(q)
  BY DEF CuNow, Cu!CommandsKept
<1>3. /\ \A q \in Agents \ {p} : CuStays(q)
      /\ \A q \in Agents \ {p}, a \in People : v11[a] = q => v11'[a] = q
      /\ Cu!RefreshKept(p)' /\ Cu!TokensKept(p)'
  BY <1>1, CuOverStays
<1>4. \A q \in Agents \ {p} : CuStillSound(q) BY <1>1, CuSoundStays DEF CuStillSound
<1>5. ASSUME v13[p] = "Save", NEW a \in People \ v23', a = v15[p] PROVE Cu!Live(v9[a])'
  <2>1. Cu!SaveRefreshed(p) BY <1>5 DEF Cu!SignOut
  <2>2. v9'[a] = v16[p] BY <1>5, <2>1 DEF Cu!SaveRefreshed, CuNow, Cu!CursorTypeOK
  <2>3. v16[p] # NoToken /\ v16[p].of = a BY <1>2, <1>5 DEF Cu!CommandFits
  <2>4. v16[p].gen \in v2[a]
    BY <1>2, <1>5, <2>3 DEF Cu!LiveKept, Cu!RefreshKept, Cu!Sound
  <2> QED BY <1>1, <2>2, <2>3, <2>4 DEF Cu!Live
<1>6. \A a \in People \ v23' : Cu!HasLive(a) => Cu!HasLive(a)'
  <2> TAKE a \in People \ v23'
  <2>1. CASE a # v15[p]
    <3>1. {p} \in SUBSET Agents /\ \A q \in {p} : Cu!Renews(q, a) => Cu!Live(v9[a])'
      BY <2>1 DEF Cu!Renews
    <3> QED BY <1>1, <1>3, <2>1, <3>1, CuLiveStays
  <2>2. CASE a = v15[p]
    <3>1. Cu!Live(v9[a])' BY <1>1, <1>5, <2>2
    <3> QED BY <3>1 DEF Cu!HasLive
  <2> QED BY <2>1, <2>2
<1>7. Cu!Sound(Cu!Current)'
  <2>1. Cu!Current' = Cu!Current \/ Cu!Current' = NoToken BY <1>1 DEF Cu!Current
  <2>2. CuSoundNext(Cu!Current) BY <1>1, <1>2, CuSoundStays DEF Cu!LiveKept
  <2> QED BY <2>1, <2>2 DEF CuSoundNext, Cu!Sound
<1>8. ASSUME NEW a \in People \ v23'
      PROVE  Cu!HasLive(a)' \/ (Cu!IsFor(Cu!Current, a)' /\ Cu!Current'.gen # 0)
  <2>1. CASE Cu!HasLive(a) BY <1>6, <2>1
  <2>2. CASE Cu!IsFor(Cu!Current, a) /\ Cu!Current.gen # 0
    <3>1. CASE Cu!Current' = Cu!Current BY <2>2, <3>1 DEF Cu!IsFor
    <3>2. CASE Cu!Current' # Cu!Current
      <4>1. a = v15[p] BY <1>1, <2>2, <3>2 DEF Cu!IsFor, Cu!Current
      <4>2. Cu!Live(v9[a])' BY <1>1, <1>5, <4>1
      <4> QED BY <4>2 DEF Cu!HasLive
    <3> QED BY <3>1, <3>2
  <2> QED BY <1>2, <2>1, <2>2 DEF Cu!LiveKept
<1>9. ASSUME NEW q \in Agents \ {p}, v13[q] \in {"Post", "Save"}
      PROVE  v11'[v15[q]] = v11[v15[q]]
  <2>1. v11[v15[q]] = q BY <1>2, <1>9 DEF Cu!LiveKept, Cu!RefreshKept
  <2>2. v15[q] \in People BY <1>2, <1>9 DEF Cu!CommandFits
  <2> QED BY <1>3, <2>1, <2>2
<1>10. {p} \in SUBSET Agents /\ \A q \in {p} : Cu!RefreshKept(q)' /\ Cu!TokensKept(q)' BY <1>3
<1>11. (\A a \in People : 0 \notin v2'[a]) /\ People \ v23' \subseteq v7'
  BY <1>1, <1>2 DEF Cu!LiveKept
<1>12. v4' = v4 \/ Cu!Settled(v4)' BY <1>1 DEF Cu!Settled
<1> QED BY <1>1, <1>3, <1>4, <1>6, <1>7, <1>8, <1>9, <1>10, <1>11, <1>12, CuAssemble

\* Cursor and the user leave what is stored, and every command, alone.
LEMMA CuNatively ==
    ASSUME CuNow, UNCHANGED Cu!theirs,
           \A q \in Agents : CuStillSound(q),
           \A q \in Agents : Cu!InSwitch(q) /\ v13[q] # "Stop" /\ v5' => v5 \/ v23' = People,
           \A q \in Agents : Cu!InSwitch(q) /\ (v13[q] = "Store" \/ Cu!Taken(q)) =>
              v4' = v4 \/ Cu!Settled(v4)',
           \A q \in Agents : Cu!InSwitch(q) /\ v13[q] = "Target" =>
              v4' = v4 \/ Cu!Settled(v4)' \/ Cu!HasLive(v4.of)',
           \A q \in Agents : Cu!InSwitch(q) /\ (v13[q] = "Target" \/ Cu!Taken(q)) =>
              \A a \in People \ v23' : Cu!HasLive(a) => Cu!HasLive(a)',
           \A a \in People : 0 \notin v2'[a],
           Cu!Sound(Cu!Current)',
           \A a \in People \ v23' : Cu!HasLive(a)' \/ (Cu!IsFor(Cu!Current, a)'
                   /\ Cu!Current'.gen # 0)
    PROVE  Cu!LiveKept'
<1>1. (\A q \in Agents : CuStays(q)) /\ UNCHANGED <<v11, v7>>
  BY DEF Cu!theirs, Cu!ours, Cu!lockings, Cu!command, Cu!token, CuStays
<1>2. People \ v23' \subseteq v7' BY <1>1 DEF CuNow, Cu!LiveKept
<1>3. {} \in SUBSET Agents OBVIOUS
<1> QED BY <1>1, <1>2, <1>3, CuAssemble

\* With the client closed, a live token that nobody has read is all of its account
\* that a renewal in the client replaces.
LEMMA CuRenewed ==
    ASSUME CuNow, UNCHANGED Cu!theirs, Cu!Renewable(Cu!Current), Cu!Current \in Cu!Tokens,
       Cu!Rotate(Cu!Current),
           Cu!Copied(Cu!Current, NoOne) => Cu!Current.of \in v23', NEW a \in People \ v23',
              Cu!HasLive(a),
           a # Cu!Current.of \/ v9[a] # Cu!Current
    PROVE  Cu!HasLive(a)'
<1>1. /\ UNCHANGED <<v9, v13, v15, v16>> /\ NoOne \notin Agents
      /\ Cu!StoredAsNamed /\ \A q \in Agents : Cu!CommandFits(q)
      /\ v9 \in [People -> Cu!MaybeToken] /\ v16 \in [Agents -> Cu!MaybeToken]
  BY CuConstants DEF Cu!theirs, Cu!ours, Cu!command, Cu!token, CuNow, Cu!CommandsKept,
     Cu!CursorTypeOK
<1>2. \A u \in Cu!MaybeToken : u # Cu!Current /\ Cu!Live(u) => u.gen \in v2'[u.of] BY CuTurns
<1>3. ASSUME Cu!Live(v9[a]) PROVE Cu!Live(v9[a])'
  <2>1. v9[a] # Cu!Current BY <1>1, <1>3 DEF Cu!Live, Cu!StoredAsNamed
  <2> QED BY <1>1, <1>2, <1>3, <2>1 DEF Cu!Live
<1>4. ASSUME NEW q \in Agents, Cu!Renews(q, a) PROVE Cu!Renews(q, a)'
  <2>1. v16[q].of = a BY <1>1, <1>4 DEF Cu!Renews, Cu!CommandFits, Cu!Live
  <2>2. v16[q] # Cu!Current BY <1>1, <2>1 DEF Cu!Copied
  <2> QED BY <1>1, <1>2, <1>4, <2>2 DEF Cu!Renews, Cu!Live
<1> QED BY <1>3, <1>4 DEF Cu!HasLive

\* The client, or whoever uses the files of cursor-agent, renews its token.
LEMMA CuNativeRefresh == ASSUME CuNow, Cu!NativeRefresh PROVE Cu!LiveKept'
<1> DEFINE t == Cu!Current
<1>1. /\ UNCHANGED Cu!theirs /\ v5' = v5 /\ Cu!Renewable(t) /\ Cu!Rotate(t)
          /\ Cu!SetCurrent(Cu!Rotated(t))
      /\ Cu!Copied(t, NoOne) => t.of \in v23'
  BY DEF Cu!NativeRefresh
<1>2. /\ Cu!LiveKept /\ v23 \subseteq v23' /\ v23' \subseteq People
      /\ NoOne \notin Agents
  BY CuConstants DEF CuNow, Cu!CursorTypeOK
<1>3. t \in Cu!Tokens /\ t.of \in People /\ t.gen # 0
  BY <1>1, CuTokens DEF Cu!Current, Cu!Renewable, Cu!Live, CuNow, Cu!CursorTypeOK
<1>4. /\ Cu!Rotated(t) # NoToken /\ Cu!Rotated(t).of = t.of /\ Cu!Rotated(t).gen # 0
      /\ Cu!Rotated(t).gen \in v2'[t.of] /\ \A a \in People : 0 \notin v2'[a]
  BY <1>1, <1>3, CuTurns
<1>5. Cu!Current' = Cu!Rotated(t) BY <1>1 DEF Cu!SetCurrent, Cu!Current
<1>6. Cu!Sound(Cu!Current)' BY <1>4, <1>5 DEF Cu!Sound
<1>7. \A q \in Agents : CuStillSound(q)
  <2> TAKE q \in Agents
  <2>1. q \in Agents \ {NoOne} BY <1>2
  <2> QED BY <1>1, <1>3, <2>1, CuHolders
<1>8. ASSUME NEW a \in People \ v23'
      PROVE Cu!HasLive(a)' \/ (Cu!IsFor(Cu!Current, a)' /\ Cu!Current'.gen # 0)
  <2>1. CASE a = t.of BY <1>4, <1>5, <2>1 DEF Cu!IsFor
  <2>2. CASE a # t.of
    <3>1. Cu!HasLive(a) BY <1>2, <1>8, <2>2 DEF Cu!LiveKept, Cu!IsFor
    <3> QED BY <1>1, <1>3, <1>8, <2>2, <3>1, CuRenewed
  <2> QED BY <2>1, <2>2
<1>9. ASSUME NEW q \in Agents, Cu!InSwitch(q), v13[q] # "Stop", v5 PROVE v23' = People
  BY <1>2, <1>9 DEF Cu!LiveKept, Cu!TokensKept
<1>10. v4' = v4 \/ v4' = Cu!Rotated(t) BY <1>1 DEF Cu!SetCurrent
<1>11. t.of \in v23' => v4' = v4 \/ Cu!Settled(v4)' BY <1>4, <1>10 DEF Cu!Settled
<1>12. ASSUME NEW q \in Agents, Cu!InSwitch(q), v13[q] = "Store" \/ Cu!Taken(q) PROVE t.of \in v23'
  <2>1. CASE v5
    <3>1. v13[q] # "Stop" BY <1>12 DEF Cu!Taken
    <3> QED BY <1>3, <1>9, <1>12, <2>1, <3>1
  <2>2. CASE ~v5
    <3>1. t = v4 BY <2>2 DEF Cu!Current
    <3>2. v4 \in {v16[q], v17[q], v18[q].disk} \/ Cu!Settled(v4)
      BY <1>2, <1>12 DEF Cu!LiveKept, Cu!TokensKept
    <3>3. Cu!Settled(v4) => t.of \in v23 BY <1>3, <3>1, CuTokens DEF Cu!Settled
    <3>4. t \in {v16[q], v17[q], v18[q].disk} => Cu!Copied(t, NoOne) BY <1>2 DEF Cu!Copied
    <3> QED BY <1>1, <1>2, <3>1, <3>2, <3>3, <3>4
  <2> QED BY <2>1, <2>2
<1>13. ASSUME NEW q \in Agents, Cu!InSwitch(q), v13[q] = "Target" \/ Cu!Taken(q),
              NEW a \in People \ v23', Cu!HasLive(a)
       PROVE  Cu!HasLive(a)'
  <2>1. CASE Cu!Taken(q)
    <3>1. a # t.of BY <1>12, <1>13, <2>1
    <3> QED BY <1>1, <1>3, <1>13, <3>1, CuRenewed
  <2>2. CASE v13[q] = "Target"
    <3>1. v9[t.of] = t => Cu!Copied(t, NoOne) BY <1>2, <2>2 DEF Cu!Copied
    <3>2. a # t.of \/ v9[a] # t BY <1>1, <1>13, <3>1
    <3> QED BY <1>1, <1>3, <1>13, <3>2, CuRenewed
  <2> QED BY <1>13, <2>1, <2>2
<1>14. ASSUME NEW q \in Agents, Cu!InSwitch(q), v13[q] = "Target"
       PROVE  v4' = v4 \/ Cu!Settled(v4)' \/ Cu!HasLive(v4.of)'
  <2>1. CASE t.of \in v23' BY <1>11, <2>1
  <2>2. CASE t.of \notin v23'
    <3>1. ~v5 BY <1>3, <1>9, <1>14, <2>2
    <3>2. t = v4 BY <3>1 DEF Cu!Current
    <3>3. ~Cu!Settled(v4) BY <1>2, <1>3, <2>2, <3>2, CuTokens DEF Cu!Settled
    <3>4. Cu!HasLive(v4.of) BY <1>2, <1>14, <3>3 DEF Cu!LiveKept, Cu!TokensKept
    <3>5. PICK a \in People : a = t.of BY <1>3
    <3>6. Cu!HasLive(a) BY <3>2, <3>4, <3>5
    <3>7. Cu!HasLive(a)' BY <1>13, <1>14, <2>2, <3>5, <3>6
    <3>8. v4' = Cu!Rotated(t) => v4'.of = a BY <1>4, <3>5
    <3>9. v4' = Cu!Rotated(t) => Cu!HasLive(v4.of)' BY <3>7, <3>8 DEF Cu!HasLive, Cu!Renews
    <3> QED BY <1>10, <3>9
  <2> QED BY <2>1, <2>2
<1> HIDE DEF t
<1> QED BY <1>1, <1>4, <1>6, <1>7, <1>8, <1>11, <1>12, <1>13, <1>14, CuNatively

\* What the client gives up is stored, or its account is shared.
LEMMA CuGivesUp ==
    ASSUME CuNow, NEW a \in People \ v23', Cu!IsFor(Cu!Current, a), Cu!Current.gen # 0,
           Cu!Discarded(Cu!Current) \subseteq v23'
    PROVE  Cu!HasLive(a)
<1>1. Cu!Current # NoToken /\ Cu!Current.of = a BY DEF Cu!IsFor
<1>2. Cu!Live(Cu!Current) BY <1>1 DEF CuNow, Cu!LiveKept, Cu!Sound, Cu!Live
<1>3. v9[a] = Cu!Current BY <1>1, <1>2 DEF Cu!Discarded
<1> QED BY <1>2, <1>3 DEF Cu!HasLive

\* It drops its refresh token.
LEMMA CuNativeStrip == ASSUME CuNow, Cu!NativeStrip PROVE Cu!LiveKept'
<1>1. /\ UNCHANGED Cu!theirs /\ UNCHANGED <<v2, v5>> /\ Cu!Current # NoToken
      /\ Cu!SetCurrent([Cu!Current EXCEPT !.gen = 0]) /\ Cu!Discarded(Cu!Current) \subseteq v23'
  BY DEF Cu!NativeStrip, Cu!server
<1>2. Cu!LiveKept /\ Cu!Current \in Cu!Tokens
  BY <1>1, CuTokens DEF CuNow, Cu!CursorTypeOK, Cu!Current
<1>3. PICK u : u = [Cu!Current EXCEPT !.gen = 0] OBVIOUS
<1>4. u.gen = 0 BY <1>2, <1>3 DEF Cu!Tokens
<1>5. Cu!Current' = u /\ (v4' = v4 \/ v4' = u) BY <1>1, <1>3 DEF Cu!SetCurrent, Cu!Current
<1>6. Cu!Sound(Cu!Current)' /\ (v4' = v4 \/ Cu!Settled(v4)') BY <1>4, <1>5 DEF Cu!Sound, Cu!Settled
<1>7. \A q \in Agents : CuStillSound(q) BY <1>1, CuSoundStays DEF CuStillSound
<1>8. (\A q \in Agents : CuStays(q)) /\ v9' = v9
  BY <1>1 DEF Cu!theirs, Cu!ours, Cu!command, Cu!token, CuStays
<1>9. \A a \in People \ v23' : Cu!HasLive(a) => Cu!HasLive(a)'
  BY <1>1, <1>8 DEF Cu!HasLive, Cu!Renews, Cu!Live, CuStays
<1>10. \A a \in People \ v23' : Cu!HasLive(a)' BY <1>1, <1>2, <1>9, CuGivesUp DEF CuNow, Cu!LiveKept
<1> QED BY <1>1, <1>2, <1>6, <1>7, <1>9, <1>10, CuNatively DEF Cu!LiveKept

\* The user signs in.
LEMMA CuNativeLogin == ASSUME CuNow, NEW b \in People, Cu!NativeLogin(b) PROVE Cu!LiveKept'
<1>1. PICK u : u = [of |-> b, gen |-> v3[b] + 1] OBVIOUS
<1>2. /\ UNCHANGED Cu!theirs /\ v5' = v5 /\ Cu!SetCurrent(u)
      /\ v2' = [v2 EXCEPT ![b] = @ \cup {v3[b] + 1}] /\ v3[b] < MaxTokens
      /\ Cu!Current # NoToken => Cu!Discarded(Cu!Current) \subseteq v23'
      /\ \A q \in Agents : v13[q] # "Idle" => b \in v23'
  BY <1>1 DEF Cu!NativeLogin, Cu!InHand
<1>3. /\ Cu!LiveKept /\ v23 \subseteq v23' /\ v23 \subseteq People
      /\ v2 \in [People -> SUBSET Cu!Gens] /\ v3 \in [People -> Cu!Gens]
  BY DEF CuNow, Cu!CursorTypeOK
<1>4. v3[b] + 1 # 0 /\ v3[b] + 1 \in Cu!Gens BY <1>2, <1>3, CuConstants DEF Cu!Gens
<1>5. u # NoToken /\ u.of = b /\ u.gen = v3[b] + 1
  <2>1. u \in Cu!Tokens BY <1>1, <1>4 DEF Cu!Tokens
  <2> QED BY <1>1, <2>1, CuTokens
<1>6. Cu!Current' = u /\ (v4' = v4 \/ v4' = u) BY <1>2 DEF Cu!SetCurrent, Cu!Current
<1>7. /\ \A a \in People : v2[a] \subseteq v2'[a]
      /\ u.gen \in v2'[b] /\ \A a \in People : 0 \notin v2'[a]
  BY <1>2, <1>3, <1>4, <1>5 DEF Cu!LiveKept
<1>8. \A w \in Cu!MaybeToken : Cu!Sound(w) => CuSoundNext(w)
  <2> TAKE w \in Cu!MaybeToken
  <2>1. w # NoToken => w.of \in People BY CuTokens
  <2> QED BY <1>3, <1>7, <2>1 DEF Cu!Sound, CuSoundNext
<1>9. Cu!Sound(Cu!Current)' BY <1>5, <1>6, <1>7 DEF Cu!Sound
<1>10. \A q \in Agents : CuStillSound(q)
  BY <1>8 DEF CuStillSound, CuNow, Cu!CursorTypeOK
<1>11. \A q \in Agents : Cu!InSwitch(q) => v4' = v4 \/ Cu!Settled(v4)'
  BY <1>2, <1>5, <1>6 DEF Cu!InSwitch, Cu!Settled
<1>12. UNCHANGED <<v9, v13, v15, v16>> /\ v9 \in [People -> Cu!MaybeToken]
       /\ v16 \in [Agents -> Cu!MaybeToken]
  BY <1>2 DEF Cu!theirs, Cu!ours, Cu!command, Cu!token, CuNow, Cu!CursorTypeOK
<1>13. \A w \in Cu!MaybeToken : Cu!Live(w) => Cu!Live(w)'
  <2> TAKE w \in Cu!MaybeToken
  <2>1. w # NoToken => w.of \in People BY CuTokens
  <2> QED BY <1>7, <2>1 DEF Cu!Live
<1>14. \A a \in People \ v23' : Cu!HasLive(a) => Cu!HasLive(a)'
  <2> TAKE a \in People \ v23'
  <2>1. Cu!Live(v9[a]) => Cu!Live(v9[a])' BY <1>12, <1>13 DEF Cu!Live
  <2>2. \A q \in Agents : Cu!Renews(q, a) => Cu!Renews(q, a)' BY <1>12, <1>13 DEF Cu!Live, Cu!Renews
  <2> QED BY <2>1, <2>2 DEF Cu!HasLive
<1>15. ASSUME NEW a \in People \ v23'
      PROVE Cu!HasLive(a)' \/ (Cu!IsFor(Cu!Current, a)' /\ Cu!Current'.gen # 0)
  <2>1. CASE a = b
    <3>1. v3[b] + 1 # 0 BY <1>4
    <3> QED BY <1>5, <1>6, <2>1, <3>1 DEF Cu!IsFor
  <2>2. CASE a # b
    <3>1. Cu!HasLive(a) \/ (Cu!IsFor(Cu!Current, a) /\ Cu!Current.gen # 0)
      BY <1>3, <1>15 DEF Cu!LiveKept
    <3>2. Cu!HasLive(a) BY <1>2, <1>15, <3>1, CuGivesUp DEF Cu!IsFor
    <3> QED BY <1>14, <1>15, <3>2
  <2> QED BY <2>1, <2>2
<1> QED BY <1>2, <1>7, <1>9, <1>10, <1>11, <1>14, <1>15, CuNatively DEF Cu!InSwitch

\* The client is opened, or closed, with what it had.
LEMMA CuNativeClient == ASSUME CuNow, Cu!UserOpens \/ Cu!UserQuits PROVE Cu!LiveKept'
<1>1. UNCHANGED Cu!theirs /\ UNCHANGED v2 /\ Cu!Current' = Cu!Current
  BY DEF Cu!UserOpens, Cu!UserQuits, Cu!server, Cu!Current
<1>2. Cu!LiveKept /\ \A q \in Agents : Cu!CommandFits(q) BY DEF CuNow, Cu!CommandsKept
<1>3. \A q \in Agents : CuStillSound(q) BY <1>1, CuSoundStays DEF CuStillSound
<1>4. (\A q \in Agents : CuStays(q)) /\ v9' = v9
  BY <1>1 DEF Cu!theirs, Cu!ours, Cu!command, Cu!token, CuStays
<1>5. \A a \in People \ v23' : Cu!HasLive(a) => Cu!HasLive(a)'
  BY <1>1, <1>4 DEF Cu!HasLive, Cu!Renews, Cu!Live, CuStays
<1>6. \A a \in People \ v23' : Cu!HasLive(a)' \/ (Cu!IsFor(Cu!Current, a)' /\ Cu!Current'.gen # 0)
  BY <1>1, <1>2, <1>5 DEF Cu!LiveKept, Cu!IsFor, CuNow
<1>7. Cu!Sound(Cu!Current)'
  <2>1. CuSoundNext(Cu!Current) BY <1>1, <1>2, CuSoundStays DEF Cu!LiveKept
  <2> QED BY <1>1, <2>1 DEF CuSoundNext, Cu!Sound
<1>8. \A a \in People : 0 \notin v2'[a] BY <1>1, <1>2 DEF Cu!LiveKept
<1>9. CASE Cu!UserOpens
  <2>1. ASSUME NEW q \in Agents, Cu!InSwitch(q) PROVE v23' = People
    BY <1>2, <1>9, <2>1, CuConstants DEF Cu!CommandFits, Cu!UserOpens
  <2>2. v4' = v4 BY <1>9 DEF Cu!UserOpens
  <2> QED BY <1>1, <1>3, <1>5, <1>6, <1>7, <1>8, <2>1, <2>2, CuNatively
<1>10. CASE Cu!UserQuits
  <2>1. ~v5' /\ v5 /\ v4' = v6 /\ v23' = v23
    BY <1>10 DEF Cu!UserQuits, Cu!past
  <2>2. ASSUME NEW q \in Agents, Cu!InSwitch(q), v13[q] # "Stop" PROVE Cu!Settled(v4)'
    <3>1. v23' = People BY <1>2, <2>1, <2>2 DEF Cu!LiveKept, Cu!TokensKept
    <3>2. v4' \in Cu!MaybeToken BY DEF CuNow, Cu!CursorTypeOK
    <3> QED BY <3>1, <3>2, CuTokens DEF Cu!Settled
  <2> QED BY <1>1, <1>3, <1>5, <1>6, <1>7, <1>8, <2>1, <2>2, CuNatively DEF Cu!Taken
<1> QED BY <1>9, <1>10

\* No step takes an account out of the exceptions.
LEMMA CuGrows == ASSUME [Cu!Next]_(Cu!cursorVars), Cu!CursorTypeOK, Cu!CursorTypeOK'
    PROVE v23 \subseteq v23'
<1>1. CASE UNCHANGED Cu!cursorVars BY <1>1 DEF Cu!cursorVars
<1>2. ASSUME NEW p \in Agents, Cu!Steps(p) PROVE v23 \subseteq v23'
  <2>1. CASE v23' = v23 BY <2>1
  <2>2. CASE Cu!StoreLive(p) BY <2>2 DEF Cu!StoreLive
  <2>3. CASE Cu!TakeTarget(p) BY <2>3 DEF Cu!TakeTarget
  <2>4. CASE Cu!WriteToken(p) BY <2>4 DEF Cu!WriteToken
  <2>5. CASE Cu!UndoToken(p) BY <2>5 DEF Cu!UndoToken
  <2>6. CASE Cu!Post(p) BY <2>6 DEF Cu!Post
  <2>7. CASE Cu!SignOut(p) BY <2>7 DEF Cu!SignOut
  <2>8. CASE Cu!Die(p) BY <2>8 DEF Cu!Die
  <2>9. ASSUME NEW k, NEW a, NEW s, Cu!Call(p, k, a, s) PROVE v23' = v23
    BY <2>9 DEF Cu!Call, Cu!past
  <2>10. CASE \/ \E a \in v7 :
                    Cu!Call(p, "switch", a, "SwitchLock") \/ Cu!Call(p, "query", a,
                       "Read") \/ Cu!Disconnect(p, a)
              \/ Cu!Call(p, "sync", NoOne, "Read")
    BY <2>1, <2>9, <2>10 DEF Cu!Disconnect
  <2>11. CASE Cu!LockSwitch(p) \/ Cu!StopClient(p) \/ Cu!ReadLive(p)
    BY <2>1, <2>11 DEF Cu!LockSwitch, Cu!StopClient, Cu!ReadLive, Cu!past
  <2>12. CASE Cu!MarkActive(p) \/ Cu!StartClient(p) \/ Cu!Break(p) \/ Cu!UndoMark(p) \/ Cu!Reopen(p)
    BY <2>1, <2>12 DEF Cu!MarkActive, Cu!StartClient, Cu!Break, Cu!UndoMark, Cu!Reopen, Cu!past
  <2>13. CASE Cu!FetchUsage(p) \/ Cu!LockRefresh(p) \/ Cu!SaveRefreshed(p)
    BY <2>1, <2>13 DEF Cu!FetchUsage, Cu!LockRefresh, Cu!SaveRefreshed, Cu!past
  <2> QED
    BY <1>2, <2>2, <2>3, <2>4, <2>5, <2>6, <2>7, <2>8, <2>10, <2>11, <2>12, <2>13 DEF Cu!Steps
<1>3. CASE Cu!NativeRefresh \/ Cu!NativeStrip BY <1>3 DEF Cu!NativeRefresh, Cu!NativeStrip
<1>4. CASE Cu!UserOpens
  <2>1. v23' = v23 \/ v23' = People BY <1>4 DEF Cu!UserOpens
  <2> QED BY <2>1 DEF Cu!CursorTypeOK
<1>5. CASE Cu!UserQuits BY <1>5 DEF Cu!UserQuits, Cu!past
<1>6. ASSUME NEW a \in People, Cu!NativeLogin(a) PROVE v23 \subseteq v23' BY <1>6 DEF Cu!NativeLogin
<1> QED BY <1>1, <1>2, <1>3, <1>4, <1>5, <1>6 DEF Cu!Next

\* Nothing is done.
LEMMA CuRests == ASSUME CuNow, UNCHANGED Cu!cursorVars PROVE Cu!LiveKept'
<1>1. /\ UNCHANGED <<v2, v4, v5, v6, v7, v9, v11, v13, v14, v15>>
      /\ UNCHANGED <<v16, v17, v18, v23>> /\ Cu!LiveKept
  BY DEF Cu!cursorVars, Cu!token, CuNow
<1>2. /\ \A t : Cu!Sound(t)' <=> CuSoundNext(t)
      /\ \A t : Cu!Sound(t) => CuSoundNext(t)
  BY <1>1 DEF Cu!Sound, CuSoundNext
<1>3. \A q \in Agents : CuStays(q) /\ CuStillSound(q) BY <1>1, <1>2 DEF CuStays, CuStillSound
<1>4. \A a \in People : Cu!HasLive(a) => Cu!HasLive(a)' BY <1>1 DEF Cu!HasLive, Cu!Renews, Cu!Live
<1>5. Cu!Current' = Cu!Current BY <1>1 DEF Cu!Current
<1>6. Cu!Sound(Cu!Current)' BY <1>1, <1>5 DEF Cu!LiveKept, Cu!Sound
<1>7. \A a \in People \ v23' : Cu!HasLive(a)' \/ (Cu!IsFor(Cu!Current, a)' /\ Cu!Current'.gen # 0)
  BY <1>1, <1>4, <1>5 DEF Cu!LiveKept, Cu!IsFor
<1>8. (\A a \in People : 0 \notin v2'[a]) /\ People \ v23' \subseteq v7' BY <1>1 DEF Cu!LiveKept
<1>9. {} \in SUBSET Agents OBVIOUS
<1> QED BY <1>1, <1>3, <1>4, <1>6, <1>7, <1>8, <1>9, CuAssemble

\* The accounts that are not shared keep a live token.
LEMMA CuTokensLive ==
    ASSUME Cu!CursorTypeOK, Cu!CommandsKept, Cu!LiveKept, [Cu!Next]_(Cu!cursorVars),
       Cu!CursorTypeOK', Cu!CommandsKept'
    PROVE  Cu!LiveKept'
<1>1. CuNow BY CuGrows DEF CuNow
<1>2. ASSUME NEW p \in Agents, Cu!Steps(p) PROVE Cu!LiveKept'
  <2>1. ASSUME NEW a \in v7,
               Cu!Call(p, "switch", a, "SwitchLock") \/ Cu!Call(p, "query", a,
                  "Read") \/ Cu!Disconnect(p, a)
        PROVE  Cu!LiveKept'
    <3>1. CASE Cu!Call(p, "switch", a, "SwitchLock") BY <1>1, <3>1, CuBegins
    <3>2. CASE Cu!Call(p, "query", a, "Read") BY <1>1, <3>2, CuBegins
    <3>3. CASE Cu!Disconnect(p, a)
      <4>1. PICK s \in {"SwitchLock", "RmWrite"} : Cu!Call(p, "rm", a, s) BY <3>3 DEF Cu!Disconnect
      <4> QED BY <1>1, <4>1, CuBegins
    <3> QED BY <2>1, <3>1, <3>2, <3>3
  <2>2. CASE Cu!Call(p, "sync", NoOne, "Read") BY <1>1, <2>2, CuBegins
  <2>3. CASE Cu!LockSwitch(p) BY <1>1, <2>3, CuLocks1
  <2>4. CASE Cu!StopClient(p) BY <1>1, <2>4, CuStops
  <2>5. CASE Cu!ReadLive(p) BY <1>1, <2>5, CuReads
  <2>6. CASE Cu!StoreLive(p) BY <1>1, <2>6, CuStores
  <2>7. CASE Cu!TakeTarget(p) BY <1>1, <2>7, CuTakes
  <2>8. CASE Cu!WriteToken(p) BY <1>1, <2>8, CuWritesToken
  <2>9. CASE Cu!MarkActive(p) \/ Cu!Break(p) BY <1>1, <2>9, CuMarks
  <2>10. CASE Cu!StartClient(p) BY <1>1, <2>10, CuRestarts
  <2>11. CASE Cu!UndoToken(p) BY <1>1, <2>11, CuUndoesToken
  <2>12. CASE Cu!UndoMark(p) BY <1>1, <2>12, CuUndoesMark
  <2>13. CASE Cu!Reopen(p) BY <1>1, <2>13, CuReopens
  <2>14. CASE Cu!FetchUsage(p) BY <1>1, <2>14, CuFetches
  <2>15. CASE Cu!LockRefresh(p) BY <1>1, <2>15, CuLocksRefresh
  <2>16. CASE Cu!Post(p) BY <1>1, <2>16, CuPosts
  <2>17. CASE Cu!SaveRefreshed(p) \/ Cu!SignOut(p) BY <1>1, <2>17, CuSaves
  <2>18. CASE Cu!Die(p) BY <1>1, <2>18, CuDies
  <2> QED
    BY <1>2, <2>1, <2>2, <2>3, <2>4, <2>5, <2>6, <2>7, <2>8, <2>9, <2>10, <2>11, <2>12, <2>13,
       <2>14, <2>15, <2>16, <2>17, <2>18 DEF Cu!Steps
<1>3. CASE Cu!NativeRefresh BY <1>1, <1>3, CuNativeRefresh
<1>4. CASE Cu!NativeStrip BY <1>1, <1>4, CuNativeStrip
<1>5. CASE Cu!UserOpens \/ Cu!UserQuits BY <1>1, <1>5, CuNativeClient
<1>6. ASSUME NEW a \in People, Cu!NativeLogin(a) PROVE Cu!LiveKept' BY <1>1, <1>6, CuNativeLogin
<1>7. CASE UNCHANGED Cu!cursorVars BY <1>1, <1>7, CuRests
<1> QED BY <1>2, <1>3, <1>4, <1>5, <1>6, <1>7 DEF Cu!Next

\* At first every account is signed in, and stored.
LEMMA CuLiveInit == Cu!Init => Cu!LiveKept
<1> SUFFICES ASSUME Cu!Init PROVE Cu!LiveKept OBVIOUS
<1>1. PICK a \in People : /\ v4 = [of |-> a, gen |-> 1]
                          /\ v6 = IF v5 THEN v4 ELSE NoToken
  BY DEF Cu!Init
<1>2. Cu!Current = [of |-> a, gen |-> 1] BY <1>1 DEF Cu!Current
<1>3. /\ v2 = [b \in People |-> {1}] /\ v7 = People /\ v23 = {}
      /\ v9 = [b \in People |-> [of |-> b, gen |-> 1]]
      /\ v13 = [p \in Agents |-> "Idle"]
  BY DEF Cu!Init
<1>4. Cu!Sound(Cu!Current) BY <1>2, <1>3 DEF Cu!Sound
<1>5. ASSUME NEW b \in People PROVE Cu!Live(v9[b])
  <2>1. v9[b] \in [of : People, gen : Nat] BY <1>3, <1>5
  <2>2. v9[b] # NoToken BY <2>1, CursorConstants DEF Cu!CursorSwitchAssumption
  <2> QED BY <1>3, <1>5, <2>2 DEF Cu!Live
<1>6. \A p \in Agents : Cu!RefreshKept(p) /\ Cu!TokensKept(p)
  BY <1>3 DEF Cu!RefreshKept, Cu!TokensKept, Cu!InSwitch
<1> QED BY <1>3, <1>4, <1>5, <1>6 DEF Cu!LiveKept, Cu!HasLive

\* Between commands it is stored, unless it is the client's.
LEMMA CuTokenKept == ASSUME Cu!CursorTypeOK, Cu!CommandsKept, Cu!LiveKept PROVE Cu!CursorTokenKept
<1> SUFFICES ASSUME \A p \in Agents : v13[p] = "Idle", NEW a \in v7 \ v23
             PROVE  Cu!Live(IF Cu!Current # NoToken /\ Cu!Current.of = a /\ Cu!Current.gen # 0
                         THEN Cu!Current ELSE v9[a])
  BY DEF Cu!CursorTokenKept, Cu!CommandsKept
<1>1. Cu!HasLive(a) \/ (Cu!IsFor(Cu!Current, a) /\ Cu!Current.gen # 0)
  BY DEF Cu!LiveKept, Cu!CursorTypeOK
<1>2. Cu!HasLive(a) => Cu!Live(v9[a]) BY DEF Cu!HasLive, Cu!Renews
<1>3. CASE Cu!Current # NoToken /\ Cu!Current.of = a /\ Cu!Current.gen # 0
  BY <1>3 DEF Cu!LiveKept, Cu!Sound, Cu!Live
<1>4. CASE ~(Cu!Current # NoToken /\ Cu!Current.of = a /\ Cu!Current.gen # 0)
  BY <1>1, <1>2, <1>4 DEF Cu!IsFor
<1> QED BY <1>3, <1>4

\* The four together; what they are for.
CursorInv == Cu!CursorTypeOK /\ Cu!CommandsKept /\ Cu!ChosenKept /\ Cu!LiveKept

LEMMA CuStarts == Cu!Init => CursorInv
<1> SUFFICES ASSUME Cu!Init PROVE CursorInv OBVIOUS
<1> USE CuConstants
<1>1. Cu!CursorTypeOK BY CuInit
<1>2. Cu!CommandsKept
  BY DEF Cu!Init, Cu!CommandsKept, Cu!StoredAsNamed, Cu!CommandFits, Cu!InSwitch, Cu!Stages
<1>3. Cu!ChosenKept BY DEF Cu!Init, Cu!ChosenKept, Cu!SwitchKept, Cu!InSwitch
<1> QED BY <1>1, <1>2, <1>3, CuLiveInit DEF CursorInv

LEMMA CuGood == CursorInv => Cu!SwitchTakesEffect
<1> SUFFICES ASSUME CursorInv, v25 # NoOne, ~Cu!Switching
             PROVE  Cu!Current # NoToken /\ Cu!Current.of = v25 /\ v8 = v25
  BY DEF Cu!SwitchTakesEffect
<1>1. \A p \in Agents : ~Cu!Unfinished(p) BY DEF Cu!Switching, Cu!Unfinished, Cu!InSwitch
<1> QED BY <1>1 DEF CursorInv, Cu!ChosenKept, Cu!InEffect, Cu!IsFor

LEMMA CuNext == ASSUME CursorInv, [Cu!Next]_(Cu!cursorVars) PROVE CursorInv'
<1>1. Cu!CursorTypeOK' /\ Cu!CommandsKept' /\ Cu!ChosenKept'
  BY CuTypes, CuCommands, CuChosen DEF CursorInv
<1> QED BY <1>1, CuTokensLive DEF CursorInv
=============================================================================
