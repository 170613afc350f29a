------------------------------ MODULE PartsProof -----------------------------
(* What TLAPS proves about the lock, the daemon's life, its quota schedule    *)
(* and the Pi extension, and about all the parts of MCParts together, for     *)
(* any number of accounts and processes.  The n-th variable of each part is   *)
(* v_n.                                                                       *)
EXTENDS MCParts, ClaudeProof, ClientsProof

-----------------------------------------------------------------------------
(* The directory lock                                                         *)

LockInv == Lk!LockTypeOK /\ Lk!LockKept

LEMMA LockInit == Lk!Init => LockInv
<1> SUFFICES ASSUME Lk!Init PROVE LockInv OBVIOUS
<1>1. Lk!LockTypeOK
  <2>1. v8 \in [Clients -> BOOLEAN] /\ v11 \in BOOLEAN BY DEF Lk!Init
  <2>2. v1 \in Lk!Directory \cup {NoDir} /\ v6 \in [Clients -> Lk!Times \cup {NoDir}]
    BY DEF Lk!Init
  <2>3. /\ v2 \in 0 .. MaxDirs /\ v3 \in Lk!Times /\ v10 \in 0 .. MaxStops
        /\ v4 \in [Clients -> Lk!LockSteps] /\ v5 \in [Clients -> Lk!Ids \cup {0}]
        /\ v7 \in [Clients -> Lk!Times] /\ v9 \subseteq Clients
    BY LockConstants DEF Lk!Init, Lk!LockAssumption, Lk!Times, Lk!LockSteps
  <2> QED BY <2>1, <2>2, <2>3 DEF Lk!LockTypeOK
<1>2. /\ v1 = NoDir /\ v2 = 0
      /\ \A c \in Clients : v5[c] = 0 /\ v4[c] = "Out"
  BY DEF Lk!Init
<1> QED BY <1>1, <1>2 DEF LockInv, Lk!LockKept, Lk!Owns

LEMMA LockTypes == ASSUME Lk!LockTypeOK, [Lk!Next]_(Lk!lockVars) PROVE Lk!LockTypeOK'
<1> USE LockConstants DEF Lk!LockTypeOK, Lk!LockAssumption, Lk!Ids, Lk!Times, Lk!LockSteps,
                          Lk!Directory, Lk!Holding, Lk!Rest, Lk!Goto, Lk!At, Lk!Saw, Lk!Retry
<1>1. CASE Lk!LockTick BY <1>1 DEF Lk!LockTick
<1>2. ASSUME NEW c \in Clients, Lk!Begin(c) PROVE Lk!LockTypeOK' BY <1>2 DEF Lk!Begin
<1>3. ASSUME NEW c \in Clients, Lk!Make(c) PROVE Lk!LockTypeOK' BY <1>3 DEF Lk!Make
<1>4. ASSUME NEW c \in Clients, Lk!Look(c) PROVE Lk!LockTypeOK' BY <1>4 DEF Lk!Look
<1>5. ASSUME NEW c \in Clients, Lk!Recheck(c) PROVE Lk!LockTypeOK' BY <1>5 DEF Lk!Recheck
<1>6. ASSUME NEW c \in Clients, Lk!Rename(c) PROVE Lk!LockTypeOK' BY <1>6 DEF Lk!Rename
<1>7. ASSUME NEW c \in Clients, Lk!Open(c) PROVE Lk!LockTypeOK' BY <1>7 DEF Lk!Open
<1>8. ASSUME NEW c \in Clients, Lk!Heartbeat(c) PROVE Lk!LockTypeOK'
  BY <1>8 DEF Lk!Heartbeat, Lk!Owns
<1>9. ASSUME NEW c \in Clients, Lk!Leave(c) PROVE Lk!LockTypeOK' BY <1>9 DEF Lk!Leave
<1>10. ASSUME NEW c \in Clients, Lk!Check(c) PROVE Lk!LockTypeOK' BY <1>10 DEF Lk!Check
<1>11. ASSUME NEW c \in Clients, Lk!Remove(c) PROVE Lk!LockTypeOK' BY <1>11 DEF Lk!Remove
<1>12. ASSUME NEW c \in Clients, Lk!Suspend(c) PROVE Lk!LockTypeOK' BY <1>12 DEF Lk!Suspend
<1>13. ASSUME NEW c \in Clients, Lk!Resume(c) PROVE Lk!LockTypeOK' BY <1>13 DEF Lk!Resume
<1>14. ASSUME NEW c \in Clients, Lk!Die(c) PROVE Lk!LockTypeOK' BY <1>14 DEF Lk!Die
<1>15. CASE UNCHANGED Lk!lockVars BY <1>15 DEF Lk!lockVars
<1> QED
  BY <1>1, <1>2, <1>3, <1>4, <1>5, <1>6, <1>7, <1>8, <1>9, <1>10, <1>11, <1>12, <1>13, <1>14,
     <1>15 DEF Lk!Next, Lk!Step

LEMMA LockStep == ASSUME LockInv, NEW c \in Clients, Lk!Step(c) PROVE Lk!LockKept'
<1> USE LockConstants DEF LockInv, Lk!LockTypeOK, Lk!LockAssumption, Lk!Ids, Lk!Times,
                          Lk!LockSteps, Lk!Directory, Lk!LockKept, Lk!Owns, Lk!Holding, Lk!Rest,
                          Lk!Goto, Lk!At, Lk!Saw, Lk!Retry
<1>1. CASE Lk!Begin(c) BY <1>1 DEF Lk!Begin
<1>2. CASE Lk!Make(c) BY <1>2 DEF Lk!Make
<1>3. CASE Lk!Look(c) BY <1>3 DEF Lk!Look
<1>4. CASE Lk!Recheck(c) BY <1>4 DEF Lk!Recheck
<1>5. CASE Lk!Rename(c) BY <1>5 DEF Lk!Rename, Lk!Stale, Lk!Age
\* What is opened is its own, unless somebody took that away.
<1>6. CASE Lk!Open(c)
  <2>1. CASE v1 = NoDir BY <1>6, <2>1 DEF Lk!Open
  <2>2. CASE v1 # NoDir
    <3>1. /\ v1' = v1 /\ v2' = v2 /\ v3' = v3 /\ v7' = v7 /\ v5' = [v5 EXCEPT ![c] = v1.id]
          /\ v4' = [v4 EXCEPT ![c] = "Held"] /\ v8' = [v8 EXCEPT ![c] = FALSE]
          /\ ~v11' => ~v11 /\ v1.id = v5[c]
      BY <1>6, <2>2 DEF Lk!Open
    <3>2. v1.id \in Nat /\ v1.id <= v2 BY <2>2
    <3>3. \A d \in Clients : v5'[d] <= v2' BY <3>1, <3>2
    <3>4. CASE v11' BY <3>1, <3>2, <3>3, <3>4
    <3>5. CASE ~v11'
      <4>1. v5' = v5 /\ ~v11 BY <3>1, <3>5
      <4> QED BY <2>2, <3>1, <3>2, <3>3, <4>1
    <3> QED BY <3>4, <3>5
  <2> QED BY <2>1, <2>2
<1>7. CASE Lk!Heartbeat(c)
  <2>1. /\ v2' = v2 /\ v3' = v3 /\ v4' = v4 /\ v5' = v5 /\ v11' = v11
        /\ v7' = [v7 EXCEPT ![c] = v3]
    BY <1>7 DEF Lk!Heartbeat
  <2>2. CASE Lk!Owns(c)
    <3>1. /\ v1' = [v1 EXCEPT !.mtime = v3] /\ v8' = v8
          /\ v1 # NoDir /\ v1 \in Lk!Directory /\ v1.id = v5[c]
      BY <1>7, <2>2 DEF Lk!Heartbeat
    <3>2. v1'.id = v1.id /\ v1'.mtime = v3 /\ v1.id # 0 /\ v1' # NoDir BY <3>1
    <3>3. \A d \in Clients : v1'.id = v5'[d] => Lk!Owns(d) BY <2>1, <3>1, <3>2
    <3>4. ASSUME ~v11, NEW d \in Clients, Lk!Owns(d) PROVE d = c
      BY <3>1, <3>2, <3>4
    <3>5. v1'.id <= v2' /\ \A d \in Clients : v5'[d] <= v2' BY <2>1, <3>1, <3>2
    <3>6. CASE v11' BY <3>5, <3>6
    <3>7. CASE ~v11'
      <4>1. ASSUME NEW d \in Clients PROVE Lk!Owns(d)' => v1'.mtime = v7'[d]
        BY <2>1, <3>2, <3>3, <3>4, <3>7
      <4>2. ASSUME NEW d \in Clients, v4'[d] = "Held"
            PROVE  Lk!Owns(d)' \/ v8'[d] \/ v3' - v7'[d] > StaleAfter
        <5>1. CASE d = c BY <2>1, <3>1, <3>2, <5>1
        <5>2. CASE d # c
          <6>1. v8[d] \/ v3 - v7[d] > StaleAfter BY <2>1, <3>4, <3>7, <4>2, <5>2
          <6> QED BY <2>1, <3>1, <5>2, <6>1
        <5> QED BY <5>1, <5>2
      <4> QED BY <2>1, <3>2, <3>5, <4>1, <4>2
    <3> QED BY <3>6, <3>7
  <2>3. CASE ~Lk!Owns(c)
    <3>1. v1' = v1 /\ v8' = [v8 EXCEPT ![c] = TRUE] BY <1>7, <2>3 DEF Lk!Heartbeat
    <3> QED BY <2>1, <2>3, <3>1
  <2> QED BY <2>2, <2>3
<1>8. CASE Lk!Leave(c) BY <1>8 DEF Lk!Leave
<1>9. CASE Lk!Check(c) BY <1>9 DEF Lk!Check
\* What is removed is its own, so that no other holder loses it.
<1>10. CASE Lk!Remove(c)
  <2>1. /\ v1' = NoDir /\ v2' = v2 /\ v3' = v3 /\ v7' = v7 /\ v8' = v8
        /\ v4' = [v4 EXCEPT ![c] = "Out"] /\ v5' = [v5 EXCEPT ![c] = 0]
        /\ ~v11' => ~v11 /\ (v1 = NoDir \/ Lk!Owns(c))
    BY <1>10 DEF Lk!Remove
  <2>2. ASSUME ~v11', NEW d \in Clients, v4'[d] = "Held"
        PROVE  v8[d] \/ v3 - v7[d] > StaleAfter
    <3>1. d # c /\ v4[d] = "Held" BY <2>1, <2>2
    <3>2. ~Lk!Owns(d) BY <2>1, <2>2, <3>1
    <3> QED BY <2>1, <2>2, <3>1, <3>2
  <2> QED BY <2>1, <2>2
<1>11. CASE Lk!Suspend(c) BY <1>11 DEF Lk!Suspend
<1>12. CASE Lk!Resume(c) BY <1>12 DEF Lk!Resume
<1>13. CASE Lk!Die(c) BY <1>13 DEF Lk!Die
<1> QED
  BY <1>1, <1>2, <1>3, <1>4, <1>5, <1>6, <1>7, <1>8, <1>9, <1>10, <1>11, <1>12, <1>13 DEF Lk!Step

LEMMA LockNext == LockInv /\ [Lk!Next]_(Lk!lockVars) => LockInv'
<1> SUFFICES ASSUME LockInv, [Lk!Next]_(Lk!lockVars) PROVE LockInv' OBVIOUS
<1>1. Lk!LockTypeOK' BY LockTypes DEF LockInv
<1>2. CASE Lk!LockTick
  BY <1>2, LockConstants DEF Lk!LockTick, LockInv, Lk!LockTypeOK, Lk!LockAssumption, Lk!Times,
     Lk!LockKept, Lk!Owns, Lk!Holding
<1>3. CASE UNCHANGED Lk!lockVars
  <2>1. UNCHANGED <<v1, v2, v3, v4, v5, v7, v8, v11>> BY <1>3 DEF Lk!lockVars
  <2> QED BY <1>1, <2>1 DEF LockInv, Lk!LockKept, Lk!Owns
<1> QED BY <1>1, <1>2, <1>3, LockStep DEF LockInv, Lk!Next

LEMMA LockExcludes == LockInv => Lk!HoldersExclude
<1> SUFFICES ASSUME LockInv, ~v11, NEW c \in Clients, NEW d \in Clients, c # d,
                    v4[c] = "Held", v4[d] = "Held"
             PROVE  \/ v3 - v7[c] > StaleAfter \/ v3 - v7[d] > StaleAfter
                    \/ v8[c] \/ v8[d]
  BY DEF Lk!HoldersExclude
<1>1. ~(Lk!Owns(c) /\ Lk!Owns(d))
  BY DEF Lk!Owns, LockInv, Lk!LockTypeOK, Lk!LockKept, Lk!Directory, Lk!Ids
<1> QED BY <1>1 DEF LockInv, Lk!LockKept

-----------------------------------------------------------------------------
(* The daemon's life                                                          *)

DaemonInv == Da!DaemonTypeOK /\ Da!LifeKept

LEMMA Files ==
    /\ Clients \cap Agents = {} /\ NoOne \notin Clients \cup Agents
    /\ Da!Inodes \subseteq Nat /\ Da!NoFile \notin Da!Inodes
    /\ MaxInvocations \in Nat /\ MaxEnds \in Nat
<1>1. \A S : Da!IsFiniteSet(S) <=> IsFiniteSet(S) BY DEF Da!IsFiniteSet, IsFiniteSet
<1>2. \A S : Da!Cardinality(S) = Cardinality(S) BY DEF Da!Cardinality, Cardinality
<1>3. Da!Cardinality(Clients) \in Nat /\ Da!Cardinality(Agents) \in Nat
  BY <1>1, <1>2, DaemonConstants, FS_CardinalityType DEF Da!DaemonAssumption
<1> QED BY <1>3, DaemonConstants DEF Da!DaemonAssumption, Da!Inodes, Da!NoFile

LEMMA DaemonInit == Da!Init => DaemonInv
<1> SUFFICES ASSUME Da!Init PROVE DaemonInv OBVIOUS
<1>1. v8 \in BOOLEAN /\ v9 \in BOOLEAN BY DEF Da!Init
<1>2. Da!DaemonTypeOK
  BY <1>1, Files DEF Da!Init, Da!DaemonTypeOK, Da!Processes, Da!LifeSteps, Da!Starting
<1>3. Da!LifeKept BY Files DEF Da!Init, Da!LifeKept, Da!Processes
<1> QED BY <1>2, <1>3 DEF DaemonInv

LEMMA DaemonTypes == ASSUME Da!DaemonTypeOK, [Da!Next]_(Da!daemonVars) PROVE Da!DaemonTypeOK'
<1> DEFINE Typed == /\ v1 \in Da!Inodes \cup {Da!NoFile}
                    /\ v2 \in [Da!Inodes -> Clients \cup {NoOne}]
                    /\ v3 \in [Da!Inodes -> Da!Processes \cup {NoOne}]
                    /\ v4 \in [Da!Processes -> Da!LifeSteps]
                    /\ v5 \in [Da!Processes -> Da!Inodes \cup {Da!NoFile}]
                    /\ v6 \in 0 .. MaxInvocations /\ v7 \in 0 .. MaxEnds
<1>1. v8' \in BOOLEAN /\ v9' \in BOOLEAN
  BY DEF Da!DaemonTypeOK, Da!daemonVars, Da!Next, Da!Run, Da!Look, Da!Probe, Da!Unlock, Da!Spawn,
         Da!Rest, Da!Open, Da!Lock, Da!WritePid, Da!Stop, Da!Unlink, Da!Exit, Da!Kill
<1>2. Typed BY DEF Da!DaemonTypeOK
<1> USE Files, <1>2 DEF Da!Processes, Da!LifeSteps, Da!Starting, Da!Goto, Da!Files, Da!Bounds,
                        Da!Closed, Da!Over
<1>3. ASSUME NEW p \in Agents, Da!Run(p) PROVE Typed'
  BY <1>3 DEF Da!Run
<1>4. ASSUME NEW p \in Agents, Da!Look(p) PROVE Typed'
  BY <1>4 DEF Da!Look
<1>5. ASSUME NEW p \in Agents, Da!Probe(p) PROVE Typed'
  BY <1>5 DEF Da!Probe
<1>6. ASSUME NEW p \in Agents, Da!Unlock(p) PROVE Typed'
  BY <1>6 DEF Da!Unlock
<1>7. ASSUME NEW p \in Agents, Da!Spawn(p) PROVE Typed'
  BY <1>7 DEF Da!Spawn
<1>8. ASSUME NEW p \in Agents, Da!Rest(p) PROVE Typed'
  BY <1>8 DEF Da!Rest
<1>9. ASSUME NEW p \in Clients, Da!Open(p) PROVE Typed'
  BY <1>9 DEF Da!Open, Da!NewFile
<1>10. ASSUME NEW p \in Clients, Da!Lock(p) PROVE Typed'
  BY <1>10 DEF Da!Lock
<1>11. ASSUME NEW p \in Clients, Da!WritePid(p) PROVE Typed'
  BY <1>11 DEF Da!WritePid, Da!NewFile
<1>12. ASSUME NEW p \in Clients, Da!Stop(p) PROVE Typed'
  BY <1>12 DEF Da!Stop
<1>13. ASSUME NEW p \in Clients, Da!Unlink(p) PROVE Typed'
  BY <1>13 DEF Da!Unlink
<1>14. ASSUME NEW p \in Clients, Da!Exit(p) PROVE Typed'
  BY <1>14 DEF Da!Exit
<1>15. ASSUME NEW p \in Da!Processes, Da!Kill(p) PROVE Typed'
  BY <1>15 DEF Da!Kill
<1>16. ASSUME UNCHANGED Da!daemonVars PROVE Typed'
  <2>1. /\ v1' = v1 /\ v2' = v2 /\ v3' = v3 /\ v4' = v4 /\ v5' = v5 /\ v6' = v6 /\ v7' = v7
    BY <1>16 DEF Da!daemonVars
  <2> QED BY <1>2, <2>1
<1>17. Typed'
  <2>1. CASE \E p \in Agents : Da!Run(p) \/ Da!Look(p) \/ Da!Probe(p) \/ Da!Unlock(p)
                               \/ Da!Spawn(p) \/ Da!Rest(p)
    BY <2>1, <1>3, <1>4, <1>5, <1>6, <1>7, <1>8
  <2>2. CASE \E p \in Clients : Da!Open(p) \/ Da!Lock(p) \/ Da!WritePid(p) \/ Da!Stop(p)
                                \/ Da!Unlink(p) \/ Da!Exit(p)
    BY <2>2, <1>9, <1>10, <1>11, <1>12, <1>13, <1>14
  <2>3. CASE \E p \in Da!Processes : Da!Kill(p) BY <2>3, <1>15
  <2> QED BY <2>1, <2>2, <2>3, <1>16 DEF Da!Next
<1> QED BY <1>1, <1>17 DEF Da!DaemonTypeOK

LEMMA DaemonNext == DaemonInv /\ [Da!Next]_(Da!daemonVars) => DaemonInv'
<1> SUFFICES ASSUME DaemonInv, [Da!Next]_(Da!daemonVars) PROVE Da!LifeKept'
  BY DaemonTypes DEF DaemonInv
<1> USE Files DEF DaemonInv, Da!DaemonTypeOK, Da!LifeKept, Da!Processes, Da!Goto, Da!Files,
                  Da!Bounds, Da!Closed, Da!Over
<1>1. ASSUME NEW p \in Agents, Da!Run(p) PROVE Da!LifeKept'
  BY <1>1 DEF Da!Run
<1>2. ASSUME NEW p \in Agents, Da!Look(p) PROVE Da!LifeKept'
  BY <1>2 DEF Da!Look
<1>3. ASSUME NEW p \in Agents, Da!Probe(p) PROVE Da!LifeKept'
  <2>1. p \notin Clients /\ v4[p] = "Probe" /\ v5[p] \in Da!Inodes BY <1>3 DEF Da!Probe
  <2>2. CASE v3[v5[p]] = NoOne
    <3>1. /\ v3' = [v3 EXCEPT ![v5[p]] = p] /\ v4' = [v4 EXCEPT ![p] = "Unlock"]
          /\ UNCHANGED <<v1, v2, v5, v8, v9>>
      BY <1>3, <2>2 DEF Da!Probe
    <3>2. \A d \in Clients : v4'[d] = v4[d] BY <2>1, <3>1
    <3>3. p \in Agents /\ v4'[p] = "Unlock" BY <3>1
    <3>4. \A i \in Da!Inodes : v3'[i] = IF i = v5[p] THEN p ELSE v3[i] BY <3>1
    <3>5. \A c \in Agents : c # p => v4'[c] = v4[c] BY <3>1
    <3> QED BY <2>1, <2>2, <3>1, <3>2, <3>3, <3>4, <3>5
  \* Whoever has locked it is there to see to a daemon, or is one.
  <2>3. CASE v3[v5[p]] # NoOne
    <3>1. /\ v4' = [v4 EXCEPT ![p] = "Rest"] /\ UNCHANGED <<v1, v2, v8>>
          /\ v5' = [v5 EXCEPT ![p] = Da!NoFile]
          /\ v3' = [i \in Da!Inodes |-> IF v3[i] = p THEN NoOne ELSE v3[i]]
      BY <1>3, <2>3 DEF Da!Probe
    <3>2. \A i \in Da!Inodes : v3[i] # p BY <2>1
    <3>3. v3' = v3 BY <3>1, <3>2
    <3>4. \/ \E d \in Clients : v4'[d] # "Off"
          \/ \E c \in Agents : v4'[c] \in {"Unlock", "Spawn"}
      BY <2>1, <2>3, <3>1, <3>2
    <3> QED BY <2>1, <3>1, <3>2, <3>3, <3>4
  <2> QED BY <2>2, <2>3
<1>4. ASSUME NEW p \in Agents, Da!Unlock(p) PROVE Da!LifeKept'
  BY <1>4 DEF Da!Unlock
<1>5. ASSUME NEW p \in Agents, Da!Spawn(p) PROVE Da!LifeKept'
  BY <1>5 DEF Da!Spawn
<1>6. ASSUME NEW p \in Agents, Da!Rest(p) PROVE Da!LifeKept'
  BY <1>6 DEF Da!Rest
<1>7. ASSUME NEW p \in Clients, Da!Open(p) PROVE Da!LifeKept'
  BY <1>7 DEF Da!Open, Da!NewFile
<1>8. ASSUME NEW p \in Clients, Da!Lock(p) PROVE Da!LifeKept'
  <2>1. p \notin Agents /\ v4[p] = "Lock" /\ v5[p] \in Da!Inodes BY <1>8 DEF Da!Lock
  <2>2. CASE v3[v5[p]] # NoOne
    <3>1. /\ v4' = [v4 EXCEPT ![p] = "Off"] /\ UNCHANGED <<v1, v2, v8, v9>>
          /\ v5' = [v5 EXCEPT ![p] = Da!NoFile]
          /\ v3' = [i \in Da!Inodes |-> IF v3[i] = p THEN NoOne ELSE v3[i]]
      BY <1>8, <2>2 DEF Da!Lock
    <3>2. \A i \in Da!Inodes : v3[i] # p BY <2>1
    <3>3. v3' = v3 BY <3>1, <3>2
    <3>4. \/ \E d \in Clients : v4'[d] # "Off"
          \/ \E c \in Agents : v4'[c] \in {"Unlock", "Spawn"}
      BY <2>1, <2>2, <3>1, <3>2
    <3> QED BY <2>1, <3>1, <3>2, <3>3, <3>4
  <2>3. CASE v3[v5[p]] = NoOne
    <3>1. /\ v3' = [v3 EXCEPT ![v5[p]] = p] /\ v4' = [v4 EXCEPT ![p] = "Write"]
          /\ v8' = (v8 \/ v5[p] # v1) /\ UNCHANGED <<v1, v2, v5, v9>>
      BY <1>8, <2>3 DEF Da!Lock
    <3>2. \A i \in Da!Inodes : v3'[i] = IF i = v5[p] THEN p ELSE v3[i] BY <3>1
    <3>3. \A c \in Agents : v4'[c] = v4[c] BY <2>1, <3>1
    <3>4. \A d \in Clients : v4'[d] = IF d = p THEN "Write" ELSE v4[d] BY <3>1
    <3>5. v4'[p] # "Off" BY <3>4
    <3>6. ~v8' => ~v8 /\ v5[p] = v1 BY <3>1
    <3> QED BY <2>1, <2>3, <3>1, <3>2, <3>3, <3>4, <3>5, <3>6
  <2> QED BY <2>2, <2>3
<1>9. ASSUME NEW p \in Clients, Da!WritePid(p) PROVE Da!LifeKept'
  BY <1>9 DEF Da!WritePid, Da!NewFile
<1>10. ASSUME NEW p \in Clients, Da!Stop(p) PROVE Da!LifeKept'
  BY <1>10 DEF Da!Stop
<1>11. ASSUME NEW p \in Clients, Da!Unlink(p) PROVE Da!LifeKept'
  BY <1>11 DEF Da!Unlink
<1>12. ASSUME NEW p \in Clients, Da!Exit(p) PROVE Da!LifeKept'
  BY <1>12 DEF Da!Exit
<1>13. ASSUME NEW p \in Da!Processes, Da!Kill(p) PROVE Da!LifeKept'
  BY <1>13 DEF Da!Kill
<1>14. CASE UNCHANGED Da!daemonVars BY <1>14 DEF Da!daemonVars
<1> QED
  BY <1>1, <1>2, <1>3, <1>4, <1>5, <1>6, <1>7, <1>8, <1>9, <1>10,
     <1>11, <1>12, <1>13, <1>14 DEF Da!Next

LEMMA DaemonGood == DaemonInv => Da!OneDaemon /\ Da!DaemonComesUp
<1> SUFFICES ASSUME DaemonInv PROVE Da!OneDaemon /\ Da!DaemonComesUp OBVIOUS
<1>1. Da!OneDaemon BY DEF DaemonInv, Da!LifeKept, Da!OneDaemon, Da!Looping
<1>2. Da!DaemonComesUp BY DEF DaemonInv, Da!LifeKept, Da!DaemonComesUp, Da!Looping
<1> QED BY <1>1, <1>2

-----------------------------------------------------------------------------
(* The account pool of the Pi extension                                       *)

PoolInv == Pi!PoolTypeOK /\ Pi!PoolKept

LEMMA PoolInit == Pi!Init => PoolInv
<1> SUFFICES ASSUME Pi!Init PROVE PoolInv OBVIOUS
<1>1. v6 \in BOOLEAN /\ v12 \in [Agents -> BOOLEAN] BY DEF Pi!Init
<1>2. /\ v1 \in 0 .. MaxPoolTime /\ v2 \in [PoolAccounts -> 0 .. MaxPoolTime + MaxCooldown]
      /\ v3 \in PoolAccounts \cup {NoAccount} /\ v7 \in -RenewalPause .. MaxPoolTime
      /\ v4 \in [PoolAccounts -> Nat] /\ v5 \in [PoolAccounts -> Nat]
  BY PoolConstants DEF Pi!Init, Pi!PoolAssumption
<1>3. /\ v8 \in [Agents -> Pi!PiSteps] /\ v9 \in [Agents -> SUBSET PoolAccounts]
      /\ v10 \in [Agents -> PoolAccounts \cup {NoAccount}] /\ v11 \in [Agents -> Nat]
      /\ v13 \in [Agents -> PoolAccounts \cup {NoAccount}]
      /\ v14 \in [Agents -> SUBSET PoolAccounts]
      /\ v15 \in [Agents -> {"not", "done", "refused", "broken"}]
  BY DEF Pi!Init, Pi!PiSteps
<1>4. Pi!PoolTypeOK BY <1>1, <1>2, <1>3 DEF Pi!PoolTypeOK
<1>5. \A r \in Agents : v8[r] = "Idle" /\ v14[r] = {} /\ v12[r] = FALSE /\ v15[r] = "not"
  BY DEF Pi!Init
<1> QED BY <1>4, <1>5 DEF PoolInv, Pi!PoolKept

LEMMA PoolTypes == ASSUME PoolInv, [Pi!Next]_(Pi!poolVars) PROVE Pi!PoolTypeOK'
<1> DEFINE Steps == /\ v8 \in [Agents -> Pi!PiSteps] /\ v9 \in [Agents -> SUBSET PoolAccounts]
                    /\ v10 \in [Agents -> PoolAccounts \cup {NoAccount}]
                    /\ v13 \in [Agents -> PoolAccounts \cup {NoAccount}]
                    /\ v14 \in [Agents -> SUBSET PoolAccounts]
                    /\ v15 \in [Agents -> {"not", "done", "refused", "broken"}]
           Times == /\ v1 \in 0 .. MaxPoolTime
                    /\ v2 \in [PoolAccounts -> 0 .. MaxPoolTime + MaxCooldown]
                    /\ v3 \in PoolAccounts \cup {NoAccount}
                    /\ v7 \in -RenewalPause .. MaxPoolTime
                    /\ v4 \in [PoolAccounts -> Nat] /\ v5 \in [PoolAccounts -> Nat]
                    /\ v11 \in [Agents -> Nat]
<1>1. v6' \in BOOLEAN
  BY DEF PoolInv, Pi!PoolTypeOK, Pi!poolVars, Pi!Next, Pi!Tick, Pi!RenewalEnds, Pi!RenewalFails,
         Pi!Begin, Pi!Choose, Pi!Project, Pi!Renew, Pi!Again, Pi!Output, Pi!Finish,
         Pi!AccountFails, Pi!Breaks, Pi!Secrets
<1>2. v12' \in [Agents -> BOOLEAN]
  BY DEF PoolInv, Pi!PoolTypeOK, Pi!poolVars, Pi!Next, Pi!Tick, Pi!RenewalEnds, Pi!RenewalFails,
         Pi!Begin, Pi!Choose, Pi!Project, Pi!Renew, Pi!Again, Pi!Output, Pi!Finish,
         Pi!AccountFails, Pi!Breaks, Pi!Shown
<1>3. Steps /\ Times BY DEF PoolInv, Pi!PoolTypeOK
<1>4. \A r \in Agents : v8[r] \in {"Project", "Renew", "Wait", "Again", "Call"} =>
          v10[r] \in PoolAccounts
  BY DEF PoolInv, Pi!PoolKept
<1> USE <1>3, <1>4, PoolConstants DEF Pi!PoolAssumption, Pi!PiSteps, Pi!Goto, Pi!Pool, Pi!Secrets,
        Pi!Attempt, Pi!Shown, Pi!Hung, Pi!End, Pi!Sees, Pi!NoSecretFor, Pi!Use, Pi!Waiting
<1>5. ASSUME Pi!Tick PROVE Steps' /\ Times' BY <1>5 DEF Pi!Tick
<1>6. ASSUME Pi!RenewalEnds PROVE Steps' /\ Times' BY <1>6 DEF Pi!RenewalEnds
<1>7. ASSUME Pi!RenewalFails PROVE Steps' /\ Times' BY <1>7 DEF Pi!RenewalFails
<1>8. ASSUME NEW r \in Agents, Pi!Begin(r) PROVE Steps' /\ Times'
  <2>1. Steps' BY <1>8 DEF Pi!Begin
  <2>2. Times' BY <1>8 DEF Pi!Begin
  <2> QED BY <2>1, <2>2
<1>9. ASSUME NEW r \in Agents, Pi!Choose(r) PROVE Steps' /\ Times'
  <2>1. Steps' BY <1>9 DEF Pi!Choose, Pi!Candidates
  <2>2. Times' BY <1>9 DEF Pi!Choose, Pi!Candidates
  <2> QED BY <2>1, <2>2
<1>10. ASSUME NEW r \in Agents, Pi!Project(r) PROVE Steps' /\ Times'
  <2>1. Steps' BY <1>10 DEF Pi!Project
  <2>2. Times' BY <1>10 DEF Pi!Project
  <2> QED BY <2>1, <2>2
<1>11. ASSUME NEW r \in Agents, Pi!Renew(r) PROVE Steps' /\ Times'
  <2>1. Steps' BY <1>11 DEF Pi!Renew
  <2>2. Times' BY <1>11 DEF Pi!Renew
  <2> QED BY <2>1, <2>2
<1>12. ASSUME NEW r \in Agents, Pi!Again(r) PROVE Steps' /\ Times'
  <2>1. Steps' BY <1>12 DEF Pi!Again, Pi!Usable
  <2>2. Times' BY <1>12 DEF Pi!Again, Pi!Usable
  <2> QED BY <2>1, <2>2
<1>13. ASSUME NEW r \in Agents, Pi!Output(r) PROVE Steps' /\ Times'
  <2>1. Steps' BY <1>13 DEF Pi!Output
  <2>2. Times' BY <1>13 DEF Pi!Output
  <2> QED BY <2>1, <2>2
<1>14. ASSUME NEW r \in Agents, Pi!Finish(r) PROVE Steps' /\ Times'
  <2>1. Steps' BY <1>14 DEF Pi!Finish
  <2>2. Times' BY <1>14 DEF Pi!Finish
  <2> QED BY <2>1, <2>2
<1>15. ASSUME NEW r \in Agents, Pi!AccountFails(r) PROVE Steps' /\ Times'
  <2>1. Steps' BY <1>15 DEF Pi!AccountFails, Pi!Rejectable, Pi!CooldownUntil
  <2>2. Times' BY <1>15 DEF Pi!AccountFails, Pi!Rejectable, Pi!CooldownUntil
  <2> QED BY <2>1, <2>2
<1>16. ASSUME NEW r \in Agents, Pi!Breaks(r) PROVE Steps' /\ Times'
  <2>1. Steps' BY <1>16 DEF Pi!Breaks
  <2>2. Times' BY <1>16 DEF Pi!Breaks
  <2> QED BY <2>1, <2>2
<1>17. ASSUME UNCHANGED Pi!poolVars PROVE Steps' /\ Times' BY <1>17 DEF Pi!poolVars
<1>18. Steps' /\ Times'
  BY <1>5, <1>6, <1>7, <1>8, <1>9, <1>10, <1>11, <1>12, <1>13, <1>14, <1>15, <1>16, <1>17
      DEF Pi!Next
<1> QED BY <1>1, <1>2, <1>18 DEF Pi!PoolTypeOK

LEMMA PoolNext == PoolInv /\ [Pi!Next]_(Pi!poolVars) => PoolInv'
<1> SUFFICES ASSUME PoolInv, [Pi!Next]_(Pi!poolVars) PROVE Pi!PoolKept'
  BY PoolTypes DEF PoolInv
<1> USE PoolConstants DEF PoolInv, Pi!PoolTypeOK, Pi!PoolKept, Pi!PoolAssumption, Pi!Goto, Pi!Pool,
        Pi!Secrets, Pi!Attempt, Pi!Shown, Pi!Hung, Pi!End, Pi!Sees, Pi!NoSecretFor, Pi!Use,
        Pi!Waiting
<1>1. CASE Pi!Tick BY <1>1 DEF Pi!Tick
<1>2. CASE Pi!RenewalEnds BY <1>2 DEF Pi!RenewalEnds
<1>3. CASE Pi!RenewalFails BY <1>3 DEF Pi!RenewalFails
<1>4. ASSUME NEW r \in Agents, Pi!Begin(r) PROVE Pi!PoolKept'
  BY <1>4 DEF Pi!Begin
<1>5. ASSUME NEW r \in Agents, Pi!Choose(r) PROVE Pi!PoolKept'
  <2>1. v8[r] = "Choose" /\ v12' = v12 /\ v14[r] = {} /\ ~v12[r] BY <1>5 DEF Pi!Choose
  <2>2. CASE Pi!Candidates(v9[r]) = {}
    <3>1. /\ v8' = [v8 EXCEPT ![r] = "End"] /\ v9' = v9 /\ v10' = v10
          /\ v15' = [v15 EXCEPT ![r] = "refused"]
          /\ \/ v14' = v14
             \/ v13[r] \in PoolAccounts /\ v14' = [v14 EXCEPT ![r] = {v13[r]}]
      BY <1>5, <2>1, <2>2 DEF Pi!Choose
    <3>2. v9[r] = PoolAccounts BY <2>2 DEF Pi!Candidates
    <3>3. \E a \in PoolAccounts : v14'[r] \subseteq {a} BY <2>1, <3>1
    <3>4. \A q \in Agents : q # r => v14'[q] = v14[q] /\ v8'[q] = v8[q] /\ v15'[q] = v15[q]
      BY <3>1
    <3> QED BY <2>1, <3>1, <3>2, <3>3, <3>4
  <2>3. CASE Pi!Candidates(v9[r]) # {}
    <3>1. PICK a \in PoolAccounts :
             /\ v9' = [v9 EXCEPT ![r] = @ \cup {a}] /\ v10' = [v10 EXCEPT ![r] = a]
             /\ v14' = v14 /\ v15' = v15
             /\ \E s \in {"Call", "Project"} : v8' = [v8 EXCEPT ![r] = s]
      BY <1>5, <2>3 DEF Pi!Choose, Pi!Candidates
    <3> QED BY <2>1, <3>1
  <2> QED BY <2>2, <2>3
<1>6. ASSUME NEW r \in Agents, Pi!Project(r) PROVE Pi!PoolKept'
  BY <1>6 DEF Pi!Project
<1>7. ASSUME NEW r \in Agents, Pi!Renew(r) PROVE Pi!PoolKept'
  BY <1>7 DEF Pi!Renew
<1>8. ASSUME NEW r \in Agents, Pi!Again(r) PROVE Pi!PoolKept'
  BY <1>8 DEF Pi!Again, Pi!Usable
<1>9. ASSUME NEW r \in Agents, Pi!Output(r) PROVE Pi!PoolKept'
  <2>1. /\ v8[r] = "Call" /\ v12' = [v12 EXCEPT ![r] = TRUE] /\ v8' = v8 /\ v15' = v15
        /\ v9' = v9 /\ v10' = v10 /\ v14' = [v14 EXCEPT ![r] = v14[r] \cup {v10[r]}]
    BY <1>9 DEF Pi!Output
  <2>2. v14'[r] = {v10'[r]} /\ v12'[r] /\ v15'[r] = "not" BY <2>1
  <2>3. \A q \in Agents : q # r => v14'[q] = v14[q] /\ v12'[q] = v12[q] BY <2>1
  <2> QED BY <2>1, <2>2, <2>3
<1>10. ASSUME NEW r \in Agents, Pi!Finish(r) PROVE Pi!PoolKept'
  BY <1>10 DEF Pi!Finish
<1>11. ASSUME NEW r \in Agents, Pi!AccountFails(r) PROVE Pi!PoolKept'
  <2>1. /\ v8[r] = "Call" /\ ~v12[r] /\ v12' = v12 /\ v9' = v9 /\ v10' = v10
        /\ v14[r] = {} /\ v10[r] \in PoolAccounts
    BY <1>11 DEF Pi!AccountFails, Pi!Rejectable
  <2>2. CASE PoolAccounts \ v9[r] # {}
    BY <1>11, <2>1, <2>2 DEF Pi!AccountFails
  <2>3. CASE PoolAccounts \ v9[r] = {}
    <3>1. /\ v8' = [v8 EXCEPT ![r] = "End"] /\ v15' = [v15 EXCEPT ![r] = "refused"]
          /\ v14' = [v14 EXCEPT ![r] = v14[r] \cup {v10[r]}]
      BY <1>11, <2>3 DEF Pi!AccountFails
    <3>2. v9[r] = PoolAccounts BY <2>3
    <3>3. v14'[r] = {v10[r]} BY <2>1, <3>1
    <3>4. \A q \in Agents : q # r => v14'[q] = v14[q] /\ v8'[q] = v8[q] /\ v15'[q] = v15[q]
      BY <3>1
    <3> QED BY <2>1, <3>1, <3>2, <3>3, <3>4
  <2> QED BY <2>2, <2>3
<1>12. ASSUME NEW r \in Agents, Pi!Breaks(r) PROVE Pi!PoolKept'
  BY <1>12 DEF Pi!Breaks
<1>13. CASE UNCHANGED Pi!poolVars BY <1>13 DEF Pi!poolVars
<1> QED
  BY <1>1, <1>2, <1>3, <1>4, <1>5, <1>6, <1>7, <1>8, <1>9, <1>10, <1>11, <1>12, <1>13 DEF Pi!Next

LEMMA PoolGood == PoolInv => Pi!PoolServes
<1> SUFFICES ASSUME PoolInv, NEW r \in Agents
             PROVE  /\ v15[r] = "refused" => v9[r] = PoolAccounts /\ ~v12[r]
                    /\ Pi!Cardinality(v14[r]) <= 1
  BY DEF Pi!PoolServes
<1>1. \A S : Pi!Cardinality(S) = Cardinality(S) BY DEF Pi!Cardinality, Cardinality
<1>2. PICK a : v14[r] \subseteq {a}
  <2>1. v8[r] = "Call" \/ v8[r] = "End" \/ v14[r] = {} BY DEF PoolInv, Pi!PoolKept
  <2>2. v8[r] = "Call" => v14[r] \subseteq {v10[r]} BY DEF PoolInv, Pi!PoolKept
  <2>3. v8[r] = "End" => \E a : v14[r] \subseteq {a} BY DEF PoolInv, Pi!PoolKept
  <2> QED BY <2>1, <2>2, <2>3
<1>3. Cardinality(v14[r]) <= 1
  <2>1. CASE v14[r] = {} BY <2>1, FS_EmptySet
  <2>2. CASE v14[r] = {a}
    <3>1. Cardinality({a}) = 1 BY FS_Singleton
    <3> QED BY <2>2, <3>1
  <2> QED BY <1>2, <2>1, <2>2
<1> QED BY <1>1, <1>3 DEF PoolInv, Pi!PoolKept

LEMMA PoolFresh == PoolInv /\ [Pi!Next]_(Pi!poolVars) => Pi!SecretFresh
<1> SUFFICES ASSUME PoolInv, [Pi!Next]_(Pi!poolVars), NEW q \in Agents,
                    v8[q] # "Call", v8'[q] = "Call"
             PROVE  v11'[q] > v1
  BY DEF Pi!SecretFresh
<1> USE PoolConstants DEF PoolInv, Pi!PoolTypeOK, Pi!PoolAssumption, Pi!Goto
<1>1. \A r \in Agents : v8[r] \in {"Project", "Again"} => v10[r] \in PoolAccounts
  BY DEF Pi!PoolKept
<1>2. CASE Pi!Tick BY <1>2 DEF Pi!Tick
<1>3. CASE Pi!RenewalEnds BY <1>3 DEF Pi!RenewalEnds
<1>4. CASE Pi!RenewalFails BY <1>4 DEF Pi!RenewalFails
<1>5. ASSUME NEW r \in Agents, Pi!Begin(r) PROVE v11'[q] > v1
  BY <1>1, <1>5 DEF Pi!Begin
<1>6. ASSUME NEW r \in Agents, Pi!Choose(r) PROVE v11'[q] > v1
  BY <1>1, <1>6 DEF Pi!Choose, Pi!Candidates, Pi!End
<1>7. ASSUME NEW r \in Agents, Pi!Project(r) PROVE v11'[q] > v1
  BY <1>1, <1>7 DEF Pi!Project, Pi!NoSecretFor, Pi!Use
<1>8. ASSUME NEW r \in Agents, Pi!Renew(r) PROVE v11'[q] > v1
  BY <1>1, <1>8 DEF Pi!Renew
<1>9. ASSUME NEW r \in Agents, Pi!Again(r) PROVE v11'[q] > v1
  BY <1>1, <1>9 DEF Pi!Again, Pi!NoSecretFor, Pi!Use, Pi!Usable
<1>10. ASSUME NEW r \in Agents, Pi!Output(r) PROVE v11'[q] > v1
  BY <1>1, <1>10 DEF Pi!Output
<1>11. ASSUME NEW r \in Agents, Pi!Finish(r) PROVE v11'[q] > v1
  BY <1>1, <1>11 DEF Pi!Finish, Pi!End
<1>12. ASSUME NEW r \in Agents, Pi!AccountFails(r) PROVE v11'[q] > v1
  BY <1>1, <1>12 DEF Pi!AccountFails, Pi!End
<1>13. ASSUME NEW r \in Agents, Pi!Breaks(r) PROVE v11'[q] > v1
  BY <1>1, <1>13 DEF Pi!Breaks, Pi!End
<1>14. CASE UNCHANGED Pi!poolVars BY <1>14 DEF Pi!poolVars
<1> QED
  BY <1>2, <1>3, <1>4, <1>5, <1>6, <1>7, <1>8, <1>9, <1>10, <1>11, <1>12, <1>13, <1>14 DEF Pi!Next

-----------------------------------------------------------------------------
(* The quota schedule                                                         *)

RecordsOf == [state : {"none", "success", "failure", "unreadable"}, at : Qs!Dates, next : Nat,
              quotas : SUBSET Qs!Quotes]
AnswersOf == [kind : {"none", "reading", "error"}, auth : BOOLEAN, quotas : SUBSET Qs!Quotes,
        at : Qs!Dates]
StatesOf == [quotas : SUBSET Qs!Quotes, at : Qs!Dates, state : {"Ready", "Stale", "Failed",
        "Loading"}]

ScheduleInv ==
    Qs!ScheduleTypeOK /\ Qs!ReadingsKept /\ Qs!KeysKept /\ Qs!JobsKept /\ Qs!PausesKept
            /\ Qs!OncePerReset

\* The resets of a reading, and of several.
LEMMA ResetsJoin ==
    /\ Qs!GatingResets({}) = {}
    /\ \A q1, q2 : Qs!GatingResets(q1 \cup q2) = Qs!GatingResets(q1) \cup Qs!GatingResets(q2)
    /\ \A q1, q2 : q1 \subseteq q2 => Qs!GatingResets(q1) \subseteq Qs!GatingResets(q2)
BY DEF Qs!GatingResets, Qs!Gating

LEMMA ResetsDated == \A q \in SUBSET Qs!Quotes : Qs!GatingResets(q) \subseteq Nat \ {0}
BY DEF Qs!GatingResets, Qs!Gating, Qs!Quotes, Qs!Never

\* What the server says is still to come.
LEMMA QuotasDated ==
    ASSUME NEW t \in Nat, NEW answer \in Windows
    PROVE  /\ Qs!Quotas(t, answer) \in SUBSET Qs!Quotes
           /\ \A r \in Qs!GatingResets(Qs!Quotas(t, answer)) : r > t
<1>1. \A w \in answer : w.left \in Nat BY ScheduleConstants DEF Qs!ScheduleAssumption
<1>2. ASSUME NEW q \in Qs!Quotas(t, answer)
      PROVE q \in Qs!Quotes /\ (q.reset = Qs!Never \/ q.reset > t)
  <2>1. PICK w \in answer :
           q = [window |-> w.window, level |-> w.level,
                reset |-> IF w.left = 0 THEN Qs!Never ELSE t + w.left]
    BY <1>2 DEF Qs!Quotas
  <2>2. w.window \in {ww.window : ww \in UNION Windows}
          /\ w.level \in {ww.level : ww \in UNION Windows}
    OBVIOUS
  <2>3. (IF w.left = 0 THEN Qs!Never ELSE t + w.left) \in Nat BY <1>1 DEF Qs!Never
  <2>4. q.reset = Qs!Never \/ q.reset > t BY <1>1, <2>1
  <2> QED BY <2>1, <2>2, <2>3, <2>4 DEF Qs!Quotes
<1> QED BY <1>2 DEF Qs!GatingResets, Qs!Gating

\* The cache leaves out what has been reset.
LEMMA ValidDated ==
    ASSUME NEW entry \in Qs!Readings, NEW t \in Nat
    PROVE  /\ Qs!Valid(entry, t) \in Qs!Readings /\ Qs!Valid(entry, t).quotas \subseteq entry.quotas
           /\ \A r \in Qs!GatingResets(Qs!Valid(entry, t).quotas) : r > t
<1> DEFINE open == {q \in entry.quotas : q.reset = Qs!Never \/ q.reset > t}
<1>1. Qs!Valid(entry, t) = IF open = {} THEN Qs!NoReading ELSE [quotas |-> open, at |-> entry.at]
  BY DEF Qs!Valid
<1>2. Qs!NoReading \in Qs!Readings /\ Qs!NoReading.quotas = {}
  BY ScheduleConstants DEF Qs!NoReading, Qs!Readings, Qs!Dates, Qs!Never, Qs!ScheduleAssumption
<1>3. [quotas |-> open, at |-> entry.at] \in Qs!Readings BY DEF Qs!Readings
<1>4. \A r \in Qs!GatingResets(open) : r > t BY DEF Qs!GatingResets, Qs!Gating
<1>5. Qs!GatingResets({}) = {} BY ResetsJoin
<1> HIDE DEF open
<1>6. CASE open = {} BY <1>1, <1>2, <1>5, <1>6
<1>7. CASE open # {}
  <2>1. Qs!Valid(entry, t) = [quotas |-> open, at |-> entry.at] BY <1>1, <1>7
  <2>2. Qs!Valid(entry, t).quotas = open BY <2>1
  <2>3. open \subseteq entry.quotas BY DEF open
  <2> QED BY <1>3, <1>4, <2>1, <2>2, <2>3
<1> QED BY <1>6, <1>7

LEMMA LaterDated == \A t, u \in Nat : Qs!Later(t, u) \in Nat /\ Qs!Later(t, u) >= t
        /\ Qs!Later(t, u) >= u
BY DEF Qs!Later

LEMMA EarliestDated ==
    ASSUME NEW S \in SUBSET Nat, S # {} PROVE Qs!Earliest(S) \in S
<1>1. \E t \in S : \A u \in S : t <= u BY Smallest
<1> QED BY <1>1 DEF Qs!Earliest

\* A request for an account: what it leaves behind, whoever made it.
Gathers(a) ==
    /\ Qs!Ask(a)
    /\ (\E quotas \in Qs!Answerable(a) : Qs!Succeed(a, quotas))
        \/ \E auth \in BOOLEAN : Qs!Fail(a, auth)

LEMMA ScheduleDates == Qs!ScheduleTypeOK => v1 \in Qs!Dates /\ v1 \in Nat /\ 0 \in Qs!Dates
BY ScheduleConstants DEF Qs!ScheduleTypeOK, Qs!Times, Qs!Dates, Qs!ScheduleAssumption

LEMMA AnswersDated ==
    ASSUME Qs!ScheduleTypeOK, NEW a \in Scheduled, NEW quotas \in Qs!Answerable(a)
    PROVE  /\ quotas \in SUBSET Qs!Quotes
           /\ \A r \in Qs!GatingResets(quotas) : r > v1 \/ r \in Qs!GatingResets(v4[a].quotas)
<1>1. v1 \in Nat BY ScheduleDates
<1>2. CASE quotas \in {Qs!Quotas(v1, answer) : answer \in Windows} BY <1>1, <1>2, QuotasDated
<1>3. CASE quotas = v4[a].quotas BY <1>3 DEF Qs!ScheduleTypeOK, Qs!Readings
<1> QED BY <1>2, <1>3 DEF Qs!Answerable

LEMMA GatheredTypes ==
    ASSUME Qs!ScheduleTypeOK, NEW a \in Scheduled, Gathers(a)
    PROVE  /\ v3' \in [Scheduled -> RecordsOf] /\ v4' \in [Scheduled -> Qs!Readings]
           /\ v5' \in [Scheduled -> [at : Qs!Dates, auth : BOOLEAN]]
           /\ v14' \in 0 .. MaxAsks /\ v16' \in [Scheduled -> Qs!Dates]
<1>0. v1 \in Qs!Dates /\ v1 \in Nat /\ 0 \in Qs!Dates BY ScheduleDates
<1>1. v14' \in 0 .. MaxAsks /\ v16' \in [Scheduled -> Qs!Dates]
  BY <1>0, ScheduleConstants DEF Gathers, Qs!Ask, Qs!ScheduleTypeOK, Qs!ScheduleAssumption
<1>2. v3 \in [Scheduled -> RecordsOf] /\ v4 \in [Scheduled -> Qs!Readings]
      /\ v5 \in [Scheduled -> [at : Qs!Dates, auth : BOOLEAN]]
  BY DEF Qs!ScheduleTypeOK, RecordsOf
<1>3. Qs!NoReading \in Qs!Readings /\ Qs!NoFailure \in [at : Qs!Dates, auth : BOOLEAN]
  BY <1>0 DEF Qs!NoReading, Qs!NoFailure, Qs!Readings, Qs!Never
<1>4. ASSUME NEW quotas \in Qs!Answerable(a), Qs!Succeed(a, quotas)
      PROVE  /\ v3' \in [Scheduled -> RecordsOf] /\ v4' \in [Scheduled -> Qs!Readings]
             /\ v5' \in [Scheduled -> [at : Qs!Dates, auth : BOOLEAN]]
  <2>1. quotas \in SUBSET Qs!Quotes BY AnswersDated
  <2>2. v1 + MinRefresh \in Nat BY <1>0, ScheduleConstants DEF Qs!ScheduleAssumption
  <2>3. [state |-> "success", at |-> v1, next |-> v1 + MinRefresh, quotas |-> quotas] \in RecordsOf
    BY <1>0, <2>1, <2>2 DEF RecordsOf
  <2>4. [quotas |-> quotas, at |-> v1] \in Qs!Readings BY <1>0, <2>1 DEF Qs!Readings
  <2> QED BY <1>2, <1>3, <1>4, <2>3, <2>4 DEF Qs!Succeed
<1>5. ASSUME NEW auth \in BOOLEAN, Qs!Fail(a, auth)
      PROVE  /\ v3' \in [Scheduled -> RecordsOf] /\ v4' \in [Scheduled -> Qs!Readings]
             /\ v5' \in [Scheduled -> [at : Qs!Dates, auth : BOOLEAN]]
  <2>1. v1 + AskBackoff \in Nat BY <1>0, ScheduleConstants DEF Qs!ScheduleAssumption
  <2>2. [state |-> "failure", at |-> Qs!Never, next |-> v1 + AskBackoff,
          quotas |-> {}] \in RecordsOf
    BY <1>0, <2>1 DEF RecordsOf, Qs!Never
  <2>3. [at |-> v1, auth |-> auth] \in [at : Qs!Dates, auth : BOOLEAN] BY <1>0
  <2> QED BY <1>2, <1>3, <1>5, <2>2, <2>3 DEF Qs!Fail
<1> QED BY <1>1, <1>4, <1>5 DEF Gathers

\* It is of one account, keeps the others out for a while, and is remembered.
LEMMA Gathered ==
    ASSUME Qs!ScheduleTypeOK, NEW a \in Scheduled, Gathers(a)
    PROVE  /\ \A b \in Scheduled \ {a} :
                v3'[b] = v3[b] /\ v4'[b] = v4[b] /\ v16'[b] = v16[b]
           /\ v16'[a] = v1
           /\ v3'[a].state # "unreadable" /\ v3'[a].next > v1
           /\ v3'[a].quotas # {} => v3'[a].quotas = v4'[a].quotas
           /\ \A r \in Qs!GatingResets(v4'[a].quotas) :
                r > v1 \/ r \in Qs!GatingResets(v4[a].quotas)
           /\ v18' \subseteq v18
<1>0. v1 \in Nat BY ScheduleDates
<1>1. v16' = [v16 EXCEPT ![a] = v1] BY DEF Gathers, Qs!Ask
<1>2. /\ \A b \in Scheduled \ {a} : v16'[b] = v16[b]
      /\ v16'[a] = v1
  BY <1>1 DEF Qs!ScheduleTypeOK
<1>3. ASSUME NEW quotas \in Qs!Answerable(a), Qs!Succeed(a, quotas)
      PROVE  /\ \A b \in Scheduled \ {a} : v3'[b] = v3[b] /\ v4'[b] = v4[b]
             /\ v3'[a].state # "unreadable" /\ v3'[a].next > v1
             /\ v3'[a].quotas # {} => v3'[a].quotas = v4'[a].quotas
             /\ \A r \in Qs!GatingResets(v4'[a].quotas) :
                  r > v1 \/ r \in Qs!GatingResets(v4[a].quotas)
             /\ v18' \subseteq v18
  <2>1. v1 + MinRefresh > v1 BY <1>0, ScheduleConstants DEF Qs!ScheduleAssumption
  <2>2. \A b \in Scheduled \ {a} : v3'[b] = v3[b] /\ v4'[b] = v4[b]
    BY <1>3 DEF Qs!Succeed, Qs!ScheduleTypeOK
  <2>3. /\ v3'[a] = [state |-> "success", at |-> v1, next |-> v1 + MinRefresh, quotas |-> quotas]
        /\ v4'[a] = [quotas |-> quotas, at |-> v1]
    BY <1>3 DEF Qs!Succeed, Qs!ScheduleTypeOK
  <2>4. v18' \subseteq v18 BY <1>3 DEF Qs!Succeed
  <2>5. \A r \in Qs!GatingResets(quotas) : r > v1 \/ r \in Qs!GatingResets(v4[a].quotas)
    BY AnswersDated
  <2> QED BY <2>1, <2>2, <2>3, <2>4, <2>5
<1>4. ASSUME NEW auth \in BOOLEAN, Qs!Fail(a, auth)
      PROVE  /\ \A b \in Scheduled \ {a} : v3'[b] = v3[b] /\ v4'[b] = v4[b]
             /\ v3'[a].state # "unreadable" /\ v3'[a].next > v1
             /\ v3'[a].quotas # {} => v3'[a].quotas = v4'[a].quotas
             /\ \A r \in Qs!GatingResets(v4'[a].quotas) :
                  r > v1 \/ r \in Qs!GatingResets(v4[a].quotas)
             /\ v18' \subseteq v18
  <2>1. v1 + AskBackoff > v1 BY <1>0, ScheduleConstants DEF Qs!ScheduleAssumption
  <2>2. \A b \in Scheduled \ {a} : v3'[b] = v3[b] /\ v4'[b] = v4[b]
    BY <1>4 DEF Qs!Fail, Qs!ScheduleTypeOK
  <2>3. v3'[a] = [state |-> "failure", at |-> Qs!Never, next |-> v1 + AskBackoff, quotas |-> {}]
    BY <1>4 DEF Qs!Fail, Qs!ScheduleTypeOK
  <2>4. v4'[a] = v4[a] \/ v4'[a].quotas = {}
    BY <1>4 DEF Qs!Fail, Qs!ScheduleTypeOK, Qs!NoReading
  <2>5. \A r \in Qs!GatingResets(v4'[a].quotas) : r > v1 \/ r \in Qs!GatingResets(v4[a].quotas)
    BY <2>4, ResetsJoin
  <2> QED BY <1>4, <2>1, <2>2, <2>3, <2>5 DEF Qs!Fail
<1>5. CASE \E quotas \in Qs!Answerable(a) : Qs!Succeed(a, quotas) BY <1>2, <1>3, <1>5
<1>6. CASE \E auth \in BOOLEAN : Qs!Fail(a, auth) BY <1>2, <1>4, <1>6
<1> QED BY <1>5, <1>6 DEF Gathers

\* A collection either asks, or leaves everything but its answer as it is.
LEMMA Collected ==
    ASSUME NEW a \in Scheduled, Qs!Collect(a)
    PROVE  /\ v6 = "Collect" /\ a \in v9 /\ v9' = v9 \ {a}
           /\ UNCHANGED <<v1, v2, v6, v7, v8, v11, v12, v13, v17,
                          v19, v15>>
           /\ \/ Gathers(a)
              \/ /\ v3[a].state = "unreadable" \/ v3[a].next > v1
                 /\ UNCHANGED <<v3, v4, v5, v14, v16, v18>>
BY DEF Qs!Collect, Gathers, Qs!quotaFiles, Qs!limits

\* The windows whose reset a cycle awaits as it begins.
Awaited(a) == Qs!ResetQuotas(a, Qs!SeenQuotas(a))

LEMMA AwaitedDated ==
    ASSUME Qs!ScheduleTypeOK, NEW a \in Scheduled
    PROVE  /\ Qs!SeenQuotas(a) \in SUBSET v7[a].quotas /\ Awaited(a) \in SUBSET Qs!Quotes
           /\ Qs!GatingResets(Awaited(a)) \subseteq Nat \ {0} /\ Qs!Deadline(a) \in Nat
<1>1. Qs!SeenQuotas(a) \in SUBSET v7[a].quotas
  BY ValidDated, ScheduleDates DEF Qs!ScheduleTypeOK, Qs!SeenQuotas
<1>2. Awaited(a) \in SUBSET Qs!Quotes
  BY <1>1 DEF Qs!ScheduleTypeOK, Awaited, Qs!ResetQuotas, Qs!Readings
<1>3. Qs!Deadline(a) \in Nat BY DEF Qs!ScheduleTypeOK, Qs!Deadline, Qs!Never
<1> QED BY <1>1, <1>2, <1>3, ResetsDated

\* What a cycle marks, and whom it collects: every account with a due reset that
\* is not marked yet and that may be asked.
Marks(all, due) ==
    /\ v8' = all /\ v9' \subseteq all
    /\ due \subseteq Scheduled \X Nat
    /\ v12' = v12 \cup due
    /\ v18' = {k \in v18 : k[1] \in all} \cup due
    /\ v19' = v19 \cup (due \cap v18)
    /\ v17' = [at |-> v1, since |-> all # Scheduled]
MarksDue(all, due) ==
    /\ \A k \in due :
          /\ k \notin v12 /\ k[1] \in all /\ k[2] \in Qs!GatingResets(Awaited(k[1]))
          /\ k[2] + ResetDelay <= v1 /\ Qs!Deadline(k[1]) <= v1
          /\ k[1] \in v9' \/ Qs!Unreadable(k[1])
    /\ \A a \in all : \A r \in Qs!GatingResets(Awaited(a)) :
          r + ResetDelay <= v1 /\ Qs!Deadline(a) <= v1 => <<a, r>> \in v12 \cup due
    /\ \A a \in v9' : ~Qs!Unreadable(a) /\ Qs!Deadline(a) <= v1

LEMMA Planned ==
    ASSUME Qs!ScheduleTypeOK, Qs!Plan
    PROVE  \E all \in SUBSET Scheduled : \E due : Marks(all, due) /\ MarksDue(all, due)
<1>0. v1 \in Nat BY ScheduleDates
<1>1. PICK all \in SUBSET Scheduled :
        LET candidates == UNION {Qs!ResetCandidates(a, Qs!ResetQuotas(a, Qs!SeenQuotas(a)),
                Qs!Deadline(a)) : a \in all}
            due == {c \in Qs!Pending(candidates) : Qs!WakeAt(c) <= v1}
            ready == {a \in all : v3[a].state # "unreadable" /\ Qs!Deadline(a) <= v1}
            wanted == {a \in all : v1 >= Qs!DueAt(a, Qs!SeenQuotas(a), Qs!SeenAt(a),
                    Qs!Deadline(a), v1)}
                      \cup {c.account : c \in due}
                      \cup Qs!CandidatesToRefresh(all, [a \in all |-> Qs!SeenQuotas(a)],
                                               [a \in all |-> Qs!SeenAt(a)], v1)
        IN /\ v8' = all /\ v12' = Qs!Marked(due) /\ v9' = wanted \cap ready
           /\ v17' = [at |-> v1, since |-> all # Scheduled]
           /\ v18' = {k \in v18 : k[1] \in all} \cup {Qs!ResetKey(c) : c \in due}
           /\ v19' = v19 \cup ({Qs!ResetKey(c) : c \in due} \cap v18)
  BY DEF Qs!Plan
<1> DEFINE candidates == UNION {Qs!ResetCandidates(a, Awaited(a), Qs!Deadline(a)) : a \in all}
           due == {c \in Qs!Pending(candidates) : Qs!WakeAt(c) <= v1}
           keys == {Qs!ResetKey(c) : c \in due}
           ready == {a \in all : v3[a].state # "unreadable" /\ Qs!Deadline(a) <= v1}
           wanted == {a \in all : v1 >= Qs!DueAt(a, Qs!SeenQuotas(a), Qs!SeenAt(a),
                   Qs!Deadline(a), v1)}
                      \cup {c.account : c \in due}
                      \cup Qs!CandidatesToRefresh(all, [a \in all |-> Qs!SeenQuotas(a)],
                                               [a \in all |-> Qs!SeenAt(a)], v1)
<1>2. /\ v8' = all /\ v12' = v12 \cup keys /\ v9' = wanted \cap ready
      /\ v17' = [at |-> v1, since |-> all # Scheduled]
      /\ v18' = {k \in v18 : k[1] \in all} \cup keys
      /\ v19' = v19 \cup (keys \cap v18)
  BY <1>1 DEF Qs!Marked, Awaited
<1>3. {c.account : c \in due} \subseteq wanted OBVIOUS
<1> HIDE DEF wanted
<1>4. ASSUME NEW a \in all
      PROVE Qs!GatingResets(Awaited(a)) \subseteq Nat \ {0} /\ Qs!Deadline(a) \in Nat
  BY AwaitedDated
<1>5. ASSUME NEW c \in candidates
      PROVE  /\ c.account \in all /\ c.reset \in Qs!GatingResets(Awaited(c.account))
             /\ c.reset \in Nat /\ c.notBefore = Qs!Deadline(c.account)
  BY <1>4, <1>5 DEF Qs!ResetCandidates
<1>6. ASSUME NEW c \in due
      PROVE  /\ Qs!ResetKey(c) = <<c.account, c.reset>> /\ Qs!ResetKey(c) \notin v12
             /\ c.account \in all /\ c.reset \in Qs!GatingResets(Awaited(c.account))
                 /\ c.reset \in Nat
             /\ c.reset + ResetDelay <= v1 /\ Qs!Deadline(c.account) <= v1
  <2>1. c \in candidates /\ Qs!ResetKey(c) \notin v12 /\ Qs!WakeAt(c) <= v1 BY <1>6 DEF Qs!Pending
  <2>2. c.reset \in Nat /\ c.notBefore = Qs!Deadline(c.account) /\ Qs!Deadline(c.account) \in Nat
    BY <1>4, <1>5, <2>1
  <2>3. c.reset + ResetDelay <= v1 /\ Qs!Deadline(c.account) <= v1
    BY <1>0, <2>1, <2>2, LaterDated, ScheduleConstants DEF Qs!WakeAt, Qs!ScheduleAssumption,
       Qs!Later
  <2> QED BY <1>5, <2>1, <2>3 DEF Qs!ResetKey
<1>7. ASSUME NEW a \in all, NEW r \in Qs!GatingResets(Awaited(a)), r + ResetDelay <= v1,
             Qs!Deadline(a) <= v1
      PROVE  <<a, r>> \in v12 \cup keys
  <2> DEFINE c == [account |-> a, reset |-> r, notBefore |-> Qs!Deadline(a)]
  <2>1. c \in candidates BY DEF Qs!ResetCandidates
  <2>2. Qs!ResetKey(c) = <<a, r>> BY DEF Qs!ResetKey
  <2>3. Qs!WakeAt(c) <= v1 BY <1>0, <1>4, <1>7 DEF Qs!WakeAt, Qs!Later
  <2> HIDE DEF c
  <2>4. CASE Qs!ResetKey(c) \in v12 BY <2>2, <2>4
  <2>5. CASE Qs!ResetKey(c) \notin v12
    <3>1. c \in due BY <2>1, <2>3, <2>5 DEF Qs!Pending
    <3> QED BY <2>2, <3>1
  <2> QED BY <2>4, <2>5
<1> HIDE DEF due, candidates
<1>8. \A a \in v9' : a \in all /\ ~Qs!Unreadable(a) /\ Qs!Deadline(a) <= v1
  BY <1>2 DEF Qs!Unreadable
<1>9. ASSUME NEW k \in keys
      PROVE  /\ k \in Scheduled \X Nat /\ k \notin v12 /\ k[1] \in all
             /\ k[2] \in Qs!GatingResets(Awaited(k[1]))
             /\ k[2] + ResetDelay <= v1 /\ Qs!Deadline(k[1]) <= v1
             /\ k[1] \in v9' \/ Qs!Unreadable(k[1])
  <2>1. PICK c \in due : k = Qs!ResetKey(c) OBVIOUS
  <2>2. k = <<c.account, c.reset>> /\ k[1] = c.account /\ k[2] = c.reset BY <1>6, <2>1
  <2>3. c.account \in wanted BY <1>3
  <2>4. k[1] \in v9' \/ Qs!Unreadable(k[1])
    BY <1>2, <1>6, <2>1, <2>2, <2>3 DEF Qs!Unreadable
  <2> QED BY <1>6, <2>1, <2>2, <2>4
<1> HIDE DEF keys
<1>10. Marks(all, keys) BY <1>2, <1>8, <1>9 DEF Marks
<1>11. MarksDue(all, keys) BY <1>7, <1>8, <1>9 DEF MarksDue
<1> QED BY <1>10, <1>11

LEMMA JitterDated ==
    ASSUME NEW a \in Scheduled, NEW n \in Nat PROVE Qs!Jittered(a, n) \in Nat
<1>1. JitterPct \in Nat /\ Hash[a] \in Nat BY ScheduleConstants DEF Qs!ScheduleAssumption
<1>2. n * JitterPct \in Nat BY <1>1
<1>3. \A m \in Nat : m \div 100 \in Nat OBVIOUS
<1>4. (n * JitterPct) \div 100 \in Nat BY <1>2, <1>3
<1>5. \A h \in Nat, m \in Nat \ {0} : h % m \in Nat OBVIOUS
<1> DEFINE most == (n * JitterPct) \div 100
<1>6. most = 0 \/ Hash[a] % most \in Nat BY <1>1, <1>4, <1>5
<1>7. Qs!Jittered(a, n) = IF most = 0 THEN n ELSE n + 1 + (Hash[a] % most) BY DEF Qs!Jittered
<1> HIDE DEF most
<1> QED BY <1>6, <1>7

LEMMA DueDated ==
    ASSUME NEW a \in Scheduled, NEW quotas, NEW at \in Nat, NEW deadline \in Nat, NEW t \in Nat
    PROVE  Qs!DueAt(a, quotas, at, deadline, t) \in Nat
<1>1. Qs!IntervalFor(Qs!RefreshClass(a, quotas)) \in Nat
  <2>1. Qs!RefreshClass(a, quotas) \in {"active", "parked", "exhausted"} BY DEF Qs!RefreshClass
  <2>2. Intervals[Qs!RefreshClass(a, quotas)] \in Nat /\ MinRefresh \in Nat
    BY <2>1, ScheduleConstants DEF Qs!ScheduleAssumption
  <2> QED BY <2>2, LaterDated DEF Qs!IntervalFor
<1>2. Qs!Jittered(a, Qs!IntervalFor(Qs!RefreshClass(a, quotas))) \in Nat BY <1>1, JitterDated
<1>3. (IF at = Qs!Never THEN t ELSE at + Qs!Jittered(a, Qs!IntervalFor(Qs!RefreshClass(a,
        quotas)))) \in Nat
  BY <1>2
<1> QED BY <1>3, LaterDated DEF Qs!DueAt

\* A sleep ends at some time, and not at once unless a reset is due.
LEMMA SleepDated ==
    ASSUME NEW t \in Nat, NEW userActive \in BOOLEAN, NEW due \in Nat, NEW reset \in Nat
    PROVE  /\ Qs!NextSleep(t, userActive, due, reset) \in Nat
           /\ reset = Qs!Never \/ reset > t => Qs!NextSleep(t, userActive, due, reset) > t
<1> DEFINE S == {t + (IF userActive THEN ActivePoll ELSE IdlePoll)}
             \cup (IF userActive
                     /\ due # Qs!Never THEN {IF due > t THEN due ELSE t + ActivePoll} ELSE {})
             \cup (IF reset # Qs!Never THEN {Qs!Later(reset, t)} ELSE {})
<1>1. ActivePoll \in Nat \ {0} /\ IdlePoll \in Nat \ {0}
  BY ScheduleConstants DEF Qs!ScheduleAssumption
<1>2. Qs!Later(reset, t) \in Nat BY LaterDated
<1>3. S \in SUBSET Nat /\ S # {} BY <1>1, <1>2
<1>4. reset = Qs!Never \/ reset > t => \A u \in S : u > t BY <1>1 DEF Qs!Later
<1>5. Qs!NextSleep(t, userActive, due, reset) = Qs!Earliest(S) BY DEF Qs!NextSleep
<1> HIDE DEF S
<1>6. Qs!Earliest(S) \in S BY <1>3, EarliestDated
<1> QED BY <1>3, <1>4, <1>5, <1>6

\* The sleep after a cycle: its resets are those of the candidates.
LEMMA Slept ==
    ASSUME Qs!ScheduleTypeOK, Qs!Schedule
    PROVE  /\ v13' \in Nat
           /\ v12' = v12 \cap {<<a, r>> : a \in v8, r \in Nat \ {0}}
                \cap {k \in v12 : k[2] \in Qs!GatingResets(Qs!ResetQuotas(k[1], v11[k[1]].quotas))}
           /\ (\A a \in v8 : \A r \in Qs!GatingResets(Qs!ResetQuotas(a, v11[a].quotas)) :
                 <<a, r>> \notin v12 => Qs!Later(r + ResetDelay, Qs!Deadline(a)) > v1)
              => v13' > v1
<1>0. v1 \in Nat BY ScheduleDates
<1> DEFINE candidates ==
      UNION {Qs!ResetCandidates(a, Qs!ResetQuotas(a, v11[a].quotas), Qs!Deadline(a)) : a \in v8}
           dues == {Qs!DueAt(a, v11[a].quotas, v11[a].at, Qs!Deadline(a), v1) : a \in v8}
           resets == {Qs!WakeAt(c) : c \in Qs!Pending(candidates)}
           first(ts) == IF ts = {} THEN Qs!Never ELSE Qs!Earliest(ts)
<1>1. /\ v12' = v12 \cap {Qs!ResetKey(c) : c \in candidates}
      /\ \E userActive \in BOOLEAN : v13' = Qs!NextSleep(v1, userActive, first(dues), first(resets))
  BY DEF Qs!Schedule
<1>2. ASSUME NEW a \in v8
      PROVE  /\ Qs!GatingResets(Qs!ResetQuotas(a, v11[a].quotas)) \subseteq Nat \ {0}
             /\ Qs!Deadline(a) \in Nat
             /\ Qs!DueAt(a, v11[a].quotas, v11[a].at, Qs!Deadline(a), v1) \in Nat
  <2>1. a \in Scheduled BY DEF Qs!ScheduleTypeOK
  <2>2. Qs!Deadline(a) \in Nat BY <2>1, AwaitedDated
  <2>3. Qs!ResetQuotas(a, v11[a].quotas) \in SUBSET Qs!Quotes
    BY <2>1 DEF Qs!ScheduleTypeOK, Qs!ResetQuotas, Qs!Readings
  <2>4. v11[a].at \in Nat BY <2>1 DEF Qs!ScheduleTypeOK, Qs!Dates
  <2> QED BY <1>0, <2>1, <2>2, <2>3, <2>4, ResetsDated, DueDated
<1>3. ASSUME NEW c \in candidates
      PROVE  /\ c.account \in v8 /\ c.notBefore = Qs!Deadline(c.account)
             /\ c.reset \in Qs!GatingResets(Qs!ResetQuotas(c.account, v11[c.account].quotas))
             /\ Qs!ResetKey(c) = <<c.account, c.reset>> /\ Qs!WakeAt(c) \in Nat
             /\ Qs!WakeAt(c) = Qs!Later(c.reset + ResetDelay, Qs!Deadline(c.account))
  <2>1. /\ c.account \in v8 /\ c.notBefore = Qs!Deadline(c.account)
        /\ c.reset \in Qs!GatingResets(Qs!ResetQuotas(c.account, v11[c.account].quotas))
    BY <1>3 DEF Qs!ResetCandidates
  <2>2. c.reset + ResetDelay \in Nat /\ Qs!Deadline(c.account) \in Nat
    BY <1>2, <2>1, ScheduleConstants DEF Qs!ScheduleAssumption
  <2> QED BY <2>1, <2>2, LaterDated DEF Qs!ResetKey, Qs!WakeAt
<1>4. ASSUME NEW a \in v8, NEW r \in Qs!GatingResets(Qs!ResetQuotas(a, v11[a].quotas))
      PROVE  <<a, r>> \in {Qs!ResetKey(c) : c \in candidates}
  <2> DEFINE c == [account |-> a, reset |-> r, notBefore |-> Qs!Deadline(a)]
  <2>1. c \in candidates BY DEF Qs!ResetCandidates
  <2>2. Qs!ResetKey(c) = <<a, r>> BY DEF Qs!ResetKey
  <2> HIDE DEF c, candidates
  <2> QED BY <2>1, <2>2
<1> HIDE DEF candidates
<1>5. dues \in SUBSET Nat /\ resets \in SUBSET Nat BY <1>2, <1>3 DEF Qs!Pending
<1> HIDE DEF dues
<1>6. first(dues) \in Nat BY <1>5, EarliestDated DEF Qs!Never
<1>7. first(resets) \in Nat /\ (first(resets) = Qs!Never \/ first(resets) \in resets)
  <2> HIDE DEF resets
  <2> QED BY <1>5, EarliestDated DEF Qs!Never
<1>8. ASSUME \A a \in v8 : \A r \in Qs!GatingResets(Qs!ResetQuotas(a, v11[a].quotas)) :
               <<a, r>> \notin v12 => Qs!Later(r + ResetDelay, Qs!Deadline(a)) > v1
      PROVE  \A u \in resets : u > v1
  BY <1>3, <1>8 DEF Qs!Pending
<1> HIDE DEF resets, first
<1>9. PICK userActive \in BOOLEAN : v13' = Qs!NextSleep(v1, userActive, first(dues), first(resets))
  BY <1>1
<1>10. /\ v13' \in Nat
       /\ first(resets) = Qs!Never \/ first(resets) > v1 => v13' > v1
  BY <1>0, <1>6, <1>7, <1>9, SleepDated
<1>11. ASSUME NEW k \in v12
       PROVE  k \in {Qs!ResetKey(c) : c \in candidates} <=>
                /\ k \in {<<a, r>> : a \in v8, r \in Nat \ {0}}
                /\ k[2] \in Qs!GatingResets(Qs!ResetQuotas(k[1], v11[k[1]].quotas))
  <2>1. ASSUME k \in {Qs!ResetKey(c) : c \in candidates}
        PROVE  /\ k \in {<<a, r>> : a \in v8, r \in Nat \ {0}}
               /\ k[2] \in Qs!GatingResets(Qs!ResetQuotas(k[1], v11[k[1]].quotas))
    <3>1. PICK c \in candidates : k = Qs!ResetKey(c) BY <2>1
    <3>2. k = <<c.account, c.reset>> /\ k[1] = c.account /\ k[2] = c.reset BY <1>3, <3>1
    <3> QED BY <1>2, <1>3, <3>2
  <2>2. ASSUME k \in {<<a, r>> : a \in v8, r \in Nat \ {0}},
               k[2] \in Qs!GatingResets(Qs!ResetQuotas(k[1], v11[k[1]].quotas))
        PROVE  k \in {Qs!ResetKey(c) : c \in candidates}
    <3>1. PICK a \in v8, r \in Nat \ {0} : k = <<a, r>> BY <2>2
    <3> QED BY <1>4, <2>2, <3>1
  <2> QED BY <2>1, <2>2
<1>12. v12' = v12 \cap {<<a, r>> : a \in v8, r \in Nat \ {0}}
         \cap {k \in v12 : k[2] \in Qs!GatingResets(Qs!ResetQuotas(k[1], v11[k[1]].quotas))}
  BY <1>1, <1>11
<1> QED BY <1>7, <1>8, <1>10, <1>12

\* What a cycle makes of an account.  Of what is only in the cache nothing has
\* been reset.
LEMMA ShownDated ==
    ASSUME Qs!ScheduleTypeOK, NEW a \in Scheduled, NEW entry \in Qs!Readings
    PROVE  /\ Qs!ByAge(entry) \in StatesOf /\ Qs!ByAge(entry).quotas = entry.quotas
           /\ Qs!AfterFailure(a, entry) \in StatesOf
           /\ Qs!Shown(entry.quotas, entry.at, "Stale") \in StatesOf
           /\ Qs!Shown({}, Qs!Never, "Failed") \in StatesOf /\ Qs!Shown({}, Qs!Never,
               "Loading") \in StatesOf
<1>1. 0 \in Qs!Dates BY ScheduleDates
<1>2. \A s \in {"Ready", "Stale", "Failed", "Loading"} :
        /\ Qs!Shown(entry.quotas, entry.at, s) \in StatesOf
        /\ Qs!Shown({}, entry.at, s) \in StatesOf /\ Qs!Shown({}, Qs!Never, s) \in StatesOf
  BY <1>1 DEF Qs!Shown, StatesOf, Qs!Readings, Qs!Never
<1>3. Qs!ByAge(entry) \in StatesOf BY <1>2 DEF Qs!ByAge
<1>4. Qs!ByAge(entry).quotas = entry.quotas BY DEF Qs!ByAge, Qs!Shown
<1> QED BY <1>2, <1>3, <1>4 DEF Qs!AfterFailure

LEMMA MergedDated ==
    ASSUME Qs!ScheduleTypeOK, NEW a \in Scheduled
    PROVE  /\ Qs!MergedState(a) \in StatesOf
           /\ v10[a].kind # "reading" =>
                \A r \in Qs!GatingResets(Qs!MergedState(a).quotas) : r > v1
<1> DEFINE answer == v10[a]
           entry == Qs!Valid(v4[a], v1)
           told == [quotas |-> answer.quotas, at |-> answer.at]
           failed == Qs!Shown({}, Qs!Never, "Failed")
           stale == Qs!Shown(entry.quotas, entry.at, "Stale")
           loading == Qs!Shown({}, Qs!Never, "Loading")
<1>1. entry \in Qs!Readings /\ \A r \in Qs!GatingResets(entry.quotas) : r > v1
  BY ValidDated, ScheduleDates DEF Qs!ScheduleTypeOK
<1>2. answer.kind \in {"none", "reading", "error"} /\ told \in Qs!Readings
  BY DEF Qs!ScheduleTypeOK, Qs!Readings
<1>3. /\ stale.quotas = entry.quotas /\ failed.quotas = {} /\ loading.quotas = {}
      /\ Qs!GatingResets({}) = {}
  BY ResetsJoin DEF Qs!Shown
<1>4. /\ Qs!MergedState(a) \in
           IF answer.kind = "reading" THEN {Qs!AfterFailure(a, told)} ELSE {failed, stale,
                   Qs!ByAge(entry), loading}
  BY <1>2 DEF Qs!MergedState
<1>5. /\ failed \in StatesOf /\ stale \in StatesOf /\ Qs!ByAge(entry) \in StatesOf
          /\ loading \in StatesOf
      /\ Qs!ByAge(entry).quotas = entry.quotas
  BY <1>1, ShownDated
<1>6. Qs!AfterFailure(a, told) \in StatesOf BY <1>2, ShownDated
<1> HIDE DEF answer, entry, told, failed, stale, loading
<1>7. Qs!MergedState(a) \in StatesOf BY <1>4, <1>5, <1>6
<1>8. ASSUME answer.kind # "reading"
      PROVE \A r \in Qs!GatingResets(Qs!MergedState(a).quotas) : r > v1
  <2>1. Qs!MergedState(a).quotas \in {{}, entry.quotas} BY <1>3, <1>4, <1>5, <1>8
  <2> QED BY <1>1, <1>3, <2>1
<1> QED BY <1>7, <1>8 DEF answer

LEMMA ScheduleTypes ==
    ASSUME Qs!ScheduleTypeOK, [Qs!Next]_(Qs!scheduleVars) PROVE Qs!ScheduleTypeOK'
<1>0. v1 \in Qs!Dates /\ v1 \in Nat /\ 0 \in Qs!Dates BY ScheduleDates
<1>1. Qs!NoReading \in Qs!Readings /\ Qs!NoAnswer \in AnswersOf /\ Qs!Shown({}, Qs!Never,
        "Loading") \in StatesOf
  BY <1>0 DEF Qs!NoReading, Qs!NoAnswer, Qs!Shown, Qs!Readings, AnswersOf, StatesOf, Qs!Never
<1>2. CASE Qs!ReadCache
  BY <1>2 DEF Qs!ReadCache, Qs!ScheduleTypeOK, Qs!quotaFiles, Qs!limits, Qs!Never
<1>3. CASE Qs!Plan
  <2>1. PICK all \in SUBSET Scheduled : \E due : Marks(all, due) BY <1>3, Planned
  <2>2. PICK due : Marks(all, due) BY <2>1
  <2>3. /\ v15' \in 0 .. MaxOutside /\ v6' = "Collect"
        /\ v10' = [a \in Scheduled |-> Qs!NoAnswer]
        /\ UNCHANGED <<v1, v2, v3, v4, v5, v7, v11, v13, v14, v16>>
    <3>1. v15' <= MaxOutside /\ (v15' = v15 \/ v15' = v15 + 1)
      BY <1>3 DEF Qs!Plan, Qs!ScheduleTypeOK
    <3>2. v15' \in 0 .. MaxOutside
      BY <3>1, ScheduleConstants DEF Qs!ScheduleTypeOK, Qs!ScheduleAssumption
    <3> QED BY <1>3, <3>2 DEF Qs!Plan, Qs!quotaFiles
  <2>4. v17' \in [at : Qs!Dates, since : BOOLEAN] BY <1>0, <2>2 DEF Marks
  <2>5. v10' \in [Scheduled -> AnswersOf] BY <1>1, <2>3
  <2>6. /\ v8' \subseteq Scheduled /\ v9' \subseteq v8'
        /\ (v12 \cup v18 \cup v19)' \subseteq Scheduled \X Nat
    BY <2>2 DEF Marks, Qs!ScheduleTypeOK
  <2> QED BY <2>3, <2>4, <2>5, <2>6 DEF Qs!ScheduleTypeOK, AnswersOf
<1>4. ASSUME NEW a \in Scheduled, Qs!Collect(a) PROVE Qs!ScheduleTypeOK'
  <2>1. v10' \in [Scheduled -> AnswersOf]
    <3>1. v10 \in [Scheduled -> AnswersOf] BY DEF Qs!ScheduleTypeOK, AnswersOf
    <3>2. \A auth \in BOOLEAN : Qs!Error(auth) \in AnswersOf
      BY <1>1 DEF Qs!Error, AnswersOf, Qs!NoAnswer
    <3>3. \A quotas \in SUBSET Qs!Quotes : \A at \in Qs!Dates : Qs!Reading(quotas, at) \in AnswersOf
      BY <1>1 DEF Qs!Reading, AnswersOf, Qs!NoAnswer
    <3>4. ASSUME NEW quotas \in Qs!Answerable(a) PROVE Qs!Reading(quotas, v1) \in AnswersOf
      BY <1>0, <3>3, AnswersDated
    <3>5. Qs!Reading(v3[a].quotas, v3[a].at) \in AnswersOf /\ Qs!Error(v5[a].auth) \in AnswersOf
      BY <3>2, <3>3 DEF Qs!ScheduleTypeOK
    <3>6. \E x \in AnswersOf : v10' = [v10 EXCEPT ![a] = x]
      <4>1. CASE \E quotas \in Qs!Answerable(a) : v10' = [v10 EXCEPT ![a] = Qs!Reading(quotas, v1)]
        BY <3>4, <4>1
      <4>2. CASE \E auth \in BOOLEAN : v10' = [v10 EXCEPT ![a] = Qs!Error(auth)]
        BY <3>2, <4>2
      <4>3. CASE v10' = [v10 EXCEPT ![a] = IF v3[a].state = "success"
                                                THEN Qs!Reading(v3[a].quotas, v3[a].at)
                                                ELSE Qs!Error(v5[a].auth)]
        BY <3>5, <4>3
      <4> QED BY <1>4, <4>1, <4>2, <4>3 DEF Qs!Collect
    <3> QED BY <3>1, <3>6
  <2>2. /\ v9' \subseteq v9
        /\ UNCHANGED <<v1, v2, v6, v7, v8, v11, v12, v13, v17,
                       v19, v15>>
    BY <1>4, Collected
  <2>3. /\ v3' \in [Scheduled -> RecordsOf] /\ v4' \in [Scheduled -> Qs!Readings]
        /\ v5' \in [Scheduled -> [at : Qs!Dates, auth : BOOLEAN]]
        /\ v14' \in 0 .. MaxAsks /\ v16' \in [Scheduled -> Qs!Dates] /\ v18' \subseteq v18
    <3>1. CASE Gathers(a) BY <3>1, GatheredTypes, Gathered
    <3>2. CASE UNCHANGED <<v3, v4, v5, v14, v16, v18>>
      BY <3>2 DEF Qs!ScheduleTypeOK, RecordsOf
    <3> QED BY <1>4, <3>1, <3>2, Collected
  <2> QED BY <2>1, <2>2, <2>3 DEF Qs!ScheduleTypeOK, RecordsOf, AnswersOf
<1>5. CASE Qs!Merge
  <2>1. v11' \in [Scheduled -> StatesOf]
    <3>1. \A a \in Scheduled :
            (IF a \in v8 THEN Qs!MergedState(a) ELSE Qs!Shown({}, Qs!Never, "Loading")) \in StatesOf
      BY <1>1, MergedDated
    <3> QED BY <1>5, <3>1 DEF Qs!Merge
  <2> QED BY <1>5, <2>1 DEF Qs!Merge, Qs!ScheduleTypeOK, StatesOf, Qs!quotaFiles, Qs!limits
<1>6. CASE Qs!Schedule
  <2>1. v13' \in Nat /\ v12' \subseteq v12 BY <1>6, Slept
  <2>2. /\ v7' \in [Scheduled -> Qs!Readings] /\ v10' \in [Scheduled -> AnswersOf]
        /\ v11' \in [Scheduled -> StatesOf] /\ v6' = "Asleep"
        /\ UNCHANGED <<v1, v2, v3, v4, v5, v8, v9, v14, v15, v16,
                       v17, v18, v19>>
    BY <1>1, <1>6 DEF Qs!Schedule, Qs!quotaFiles, Qs!limits
  <2> QED BY <2>1, <2>2 DEF Qs!ScheduleTypeOK, AnswersOf, StatesOf
<1>7. CASE Qs!Tick
  <2>1. v1' \in Qs!Times
    BY <1>7, <1>0, ScheduleConstants DEF Qs!Tick, Qs!Times, Qs!ScheduleTypeOK,
       Qs!ScheduleAssumption
  <2> QED BY <1>7, <2>1 DEF Qs!Tick, Qs!ScheduleTypeOK, Qs!quotaFiles, Qs!cycle, Qs!limits
<1>8. ASSUME Qs!Meanwhile
      PROVE v15' \in 0 .. MaxOutside /\ v17' \in [at : Qs!Dates, since : BOOLEAN]
  <2>1. v15 \in Nat /\ MaxOutside \in Nat /\ v15 < MaxOutside /\ v15' = v15 + 1
    BY <1>8, ScheduleConstants DEF Qs!Meanwhile, Qs!ScheduleTypeOK, Qs!ScheduleAssumption
  <2>2. v17' = [v17 EXCEPT !.since = TRUE] BY <1>8 DEF Qs!Meanwhile
  <2>3. v17' \in [at : Qs!Dates, since : BOOLEAN] BY <2>2 DEF Qs!ScheduleTypeOK
  <2> QED BY <2>1, <2>3
<1>9. ASSUME NEW a \in Scheduled, Qs!OtherAsks(a) PROVE Qs!ScheduleTypeOK'
  <2>1. Gathers(a) /\ Qs!Meanwhile BY <1>9 DEF Qs!OtherAsks, Gathers
  <2>2. /\ v3' \in [Scheduled -> RecordsOf] /\ v4' \in [Scheduled -> Qs!Readings]
        /\ v5' \in [Scheduled -> [at : Qs!Dates, auth : BOOLEAN]]
        /\ v14' \in 0 .. MaxAsks /\ v16' \in [Scheduled -> Qs!Dates] /\ v18' \subseteq v18
    BY <2>1, GatheredTypes, Gathered
  <2> QED BY <1>8, <1>9, <2>1, <2>2 DEF Qs!OtherAsks, Qs!ScheduleTypeOK, RecordsOf, Qs!cycle
<1>10. ASSUME NEW a \in Scheduled, Qs!Switch(a) PROVE Qs!ScheduleTypeOK'
  BY <1>8, <1>10 DEF Qs!Switch, Qs!ScheduleTypeOK, Qs!quotaFiles, Qs!cycle
<1>11. ASSUME NEW a \in Scheduled, Qs!Damage(a) PROVE Qs!ScheduleTypeOK'
  <2>1. [Qs!NoRecord EXCEPT !.state = "unreadable"] \in RecordsOf
    BY <1>0 DEF Qs!NoRecord, RecordsOf, Qs!Never
  <2>2. v3' \in [Scheduled -> RecordsOf] BY <1>11, <2>1 DEF Qs!Damage, Qs!ScheduleTypeOK, RecordsOf
  <2> QED BY <1>8, <1>11, <2>2 DEF Qs!Damage, Qs!ScheduleTypeOK, RecordsOf, Qs!cycle
<1>12. CASE UNCHANGED Qs!scheduleVars
  BY <1>12 DEF Qs!scheduleVars, Qs!quotaFiles, Qs!cycle, Qs!limits, Qs!ScheduleTypeOK
<1> QED BY <1>2, <1>3, <1>4, <1>5, <1>6, <1>7, <1>9, <1>10, <1>11, <1>12 DEF Qs!Next

LEMMA ScheduleReadings ==
    ASSUME Qs!ScheduleTypeOK, Qs!ReadingsKept, [Qs!Next]_(Qs!scheduleVars) PROVE Qs!ReadingsKept'
<1> USE DEF Qs!ReadingsKept
<1>0. v1 \in Nat /\ v17.at \in Nat BY ScheduleDates DEF Qs!ScheduleTypeOK, Qs!Dates
<1>1. ASSUME NEW a \in Scheduled, Gathers(a), UNCHANGED <<v1, v6, v7>>
      PROVE  \A b \in Scheduled :
                /\ v3'[b].quotas # {} => v3'[b].quotas = v4'[b].quotas
                /\ v3'[b].state = "unreadable" => v3'[b].quotas = {}
                /\ v6' = "Plan" =>
                      \A r \in Qs!GatingResets(v4'[b].quotas) :
                         r > v1' \/ r \in Qs!GatingResets(v7'[b].quotas)
  <2> TAKE b \in Scheduled
  <2>1. CASE b # a BY <1>1, <2>1, Gathered
  <2>2. CASE b = a BY <1>1, <2>2, Gathered
  <2> QED BY <2>1, <2>2
<1>2. CASE Qs!ReadCache BY <1>2 DEF Qs!ReadCache, Qs!quotaFiles, Qs!limits
<1>3. CASE Qs!Plan
  <2>1. v17'.at = v1 BY <1>3, Planned DEF Marks
  <2> QED BY <1>0, <1>3, <2>1 DEF Qs!Plan, Qs!quotaFiles
<1>4. ASSUME NEW a \in Scheduled, Qs!Collect(a) PROVE Qs!ReadingsKept'
  <2>1. v6 = "Collect" /\ UNCHANGED <<v1, v6, v7, v17>> BY <1>4, Collected
  <2>2. CASE Gathers(a) BY <1>1, <2>1, <2>2
  <2>3. CASE UNCHANGED <<v3, v4>> BY <2>1, <2>3
  <2> QED BY <1>4, <2>2, <2>3, Collected
<1>5. CASE Qs!Merge BY <1>5 DEF Qs!Merge, Qs!quotaFiles, Qs!limits
<1>6. CASE Qs!Schedule BY <1>6 DEF Qs!Schedule, Qs!quotaFiles, Qs!limits
<1>7. CASE Qs!Tick
  <2>1. UNCHANGED <<v17, v9, v6, v3, v4, v7>> /\ v1' = v1 + 1 /\ v6 # "Plan"
    BY <1>7 DEF Qs!Tick, Qs!quotaFiles, Qs!cycle, Qs!limits
  <2> QED BY <1>0, <2>1
<1>8. ASSUME Qs!Meanwhile PROVE v17'.at = v17.at BY <1>8 DEF Qs!Meanwhile, Qs!ScheduleTypeOK
<1>9. ASSUME NEW a \in Scheduled, Qs!OtherAsks(a) PROVE Qs!ReadingsKept'
  <2>1. Gathers(a) /\ Qs!Meanwhile /\ UNCHANGED <<v1, v6, v7, v9>>
    BY <1>9 DEF Qs!OtherAsks, Gathers, Qs!cycle
  <2> QED BY <1>1, <1>8, <2>1
<1>10. ASSUME NEW a \in Scheduled, Qs!Switch(a) PROVE Qs!ReadingsKept'
  BY <1>8, <1>10 DEF Qs!Switch, Qs!quotaFiles, Qs!cycle
<1>11. ASSUME NEW a \in Scheduled, Qs!Damage(a) PROVE Qs!ReadingsKept'
  <2>1. \A b \in Scheduled : v3'[b] = v3[b] \/ v3'[b].quotas = {}
    BY <1>11 DEF Qs!Damage, Qs!ScheduleTypeOK, Qs!NoRecord
  <2>2. UNCHANGED <<v1, v6, v7, v9, v4>> /\ v17'.at = v17.at
    BY <1>8, <1>11 DEF Qs!Damage, Qs!cycle
  <2> QED BY <2>1, <2>2
<1>12. CASE UNCHANGED Qs!scheduleVars
  BY <1>12 DEF Qs!scheduleVars, Qs!quotaFiles, Qs!cycle, Qs!limits
<1> QED BY <1>2, <1>3, <1>4, <1>5, <1>6, <1>7, <1>9, <1>10, <1>11, <1>12 DEF Qs!Next

LEMMA KnownResets ==
    ASSUME Qs!ScheduleTypeOK, Qs!ReadingsKept, NEW a \in Scheduled
    PROVE  /\ Qs!Resets(a) = Qs!GatingResets(v4[a].quotas) \cup Qs!GatingResets(v7[a].quotas)
           /\ Qs!Resets(a) \subseteq Nat \ {0}
<1>1. v3[a].quotas = {} \/ v3[a].quotas = v4[a].quotas BY DEF Qs!ReadingsKept
<1>2. v3[a].quotas \cup v4[a].quotas \cup v7[a].quotas
        = v4[a].quotas \cup v7[a].quotas
  BY <1>1
<1>3. Qs!Resets(a) = Qs!GatingResets(v4[a].quotas \cup v7[a].quotas) BY <1>2 DEF Qs!Resets
<1>4. v4[a].quotas \cup v7[a].quotas \in SUBSET Qs!Quotes BY DEF Qs!ScheduleTypeOK, Qs!Readings
<1> QED BY <1>3, <1>4, ResetsJoin, ResetsDated

LEMMA KnownStay ==
    ASSUME Qs!ScheduleTypeOK, Qs!ReadingsKept, NEW a \in Scheduled, NEW b \in Scheduled, Gathers(a),
           UNCHANGED v7, NEW r \in Qs!Resets(b)', r <= v1
    PROVE  /\ r \in Qs!Resets(b)
           /\ r \in Qs!GatingResets(v4'[b].quotas) => r \in Qs!GatingResets(v4[b].quotas)
<1>1. CASE b # a
  <2>1. v3'[b] = v3[b] /\ v4'[b] = v4[b] BY <1>1, Gathered
  <2>2. Qs!Resets(b)' = Qs!Resets(b) BY <2>1 DEF Qs!Resets
  <2> QED BY <2>1, <2>2
<1>2. CASE b = a
  <2>1. v3'[a].quotas = {} \/ v3'[a].quotas = v4'[a].quotas BY Gathered
  <2>2. v3'[a].quotas \cup v4'[a].quotas \cup v7'[a].quotas
          = v4'[a].quotas \cup v7[a].quotas
    BY <2>1
  <2>3. Qs!Resets(a)' = Qs!GatingResets(v4'[a].quotas) \cup Qs!GatingResets(v7[a].quotas)
    BY <2>2, ResetsJoin DEF Qs!Resets
  <2>4. r \in Qs!GatingResets(v4'[a].quotas) => r \in Qs!GatingResets(v4[a].quotas)
    <3>1. v1 \in Nat BY ScheduleDates
    <3>2. v4'[a].quotas \in SUBSET Qs!Quotes BY GatheredTypes DEF Qs!Readings
    <3>3. ASSUME r \in Qs!GatingResets(v4'[a].quotas) PROVE r \in Qs!GatingResets(v4[a].quotas)
      <4>1. r \in Nat BY <3>2, <3>3, ResetsDated
      <4> QED BY <3>1, <3>3, <4>1, Gathered
    <3> QED BY <3>3
  <2> QED BY <1>2, <2>3, <2>4, KnownResets
<1> QED BY <1>1, <1>2

LEMMA ScheduleKeys ==
    ASSUME Qs!ScheduleTypeOK, Qs!ReadingsKept, Qs!KeysKept, [Qs!Next]_(Qs!scheduleVars)
        PROVE Qs!KeysKept'
<1>0. v1 \in Nat /\ v17.at \in Nat /\ v17.at <= v1 /\ ResetDelay \in Nat
  BY ScheduleDates, ScheduleConstants DEF Qs!ScheduleTypeOK, Qs!Dates, Qs!ReadingsKept,
     Qs!ScheduleAssumption
<1>00. ASSUME NEW k \in v12 \cup v18
       PROVE k \in Scheduled \X Nat /\ k[1] \in Scheduled /\ k[2] \in Nat /\ k = <<k[1], k[2]>>
  BY DEF Qs!ScheduleTypeOK
<1>1. ASSUME NEW a \in Scheduled, Gathers(a),
             UNCHANGED <<v1, v6, v7, v8, v12>>, v17'.at = v17.at
      PROVE  Qs!KeysKept'
  <2>1. \A k \in v12' : k[2] <= v17'.at BY <1>1 DEF Qs!KeysKept
  <2>2. ASSUME NEW k \in v18'
        PROVE  /\ k[1] \in v8' /\ k[2] <= v17'.at
               /\ k[2] \in Qs!Resets(k[1])' => k \in v12'
               /\ v6' # "Asleep" /\ k[2] \in Qs!GatingResets(v4'[k[1]].quotas) =>
                     k[2] \in Qs!GatingResets(v7'[k[1]].quotas)
    <3>1. k \in v18 /\ k[1] \in Scheduled /\ k[2] \in Nat BY <1>00, <1>1, <2>2, Gathered
    <3>2. k[1] \in v8' /\ k[2] <= v17'.at BY <1>1, <3>1 DEF Qs!KeysKept
    <3>3. k[2] <= v1 BY <1>0, <1>1, <3>1, <3>2
    <3>4. k[2] \in Qs!Resets(k[1])' =>
            /\ k[2] \in Qs!Resets(k[1])
            /\ k[2] \in Qs!GatingResets(v4'[k[1]].quotas)
                => k[2] \in Qs!GatingResets(v4[k[1]].quotas)
      BY <1>1, <3>1, <3>3, KnownStay
    <3>5. k[2] \in Qs!GatingResets(v4'[k[1]].quotas) => k[2] \in Qs!Resets(k[1])'
      BY ResetsJoin DEF Qs!Resets
    <3> QED BY <1>1, <3>1, <3>2, <3>4, <3>5 DEF Qs!KeysKept
  <2> QED BY <2>1, <2>2 DEF Qs!KeysKept
<1>2. CASE Qs!ReadCache
  <2>1. UNCHANGED <<v3, v4, v8, v12, v17, v18>> /\ v7' = v4
        /\ v6' = "Plan"
    BY <1>2 DEF Qs!ReadCache, Qs!quotaFiles, Qs!limits
  <2>2. ASSUME NEW a \in Scheduled PROVE Qs!Resets(a)' \subseteq Qs!Resets(a)
    BY <2>1, ResetsJoin DEF Qs!Resets
  <2> QED BY <1>00, <2>1, <2>2 DEF Qs!KeysKept
<1>3. CASE Qs!Plan
  <2>1. PICK all \in SUBSET Scheduled : \E due : Marks(all, due) /\ MarksDue(all, due)
    BY <1>3, Planned
  <2>2. PICK due : Marks(all, due) /\ MarksDue(all, due) BY <2>1
  <2>3. v17'.at = v1 /\ v6 = "Plan" /\ UNCHANGED <<v3, v4, v7>>
    BY <1>3, <2>2 DEF Marks, Qs!Plan, Qs!quotaFiles
  <2>4. ASSUME NEW k \in due PROVE k[2] \in Nat /\ k[1] \in Scheduled /\ k[2] <= v1
    <3>1. k[2] \in Nat /\ k[1] \in Scheduled BY <2>2 DEF Marks
    <3>2. k[2] + ResetDelay <= v1 BY <2>2 DEF MarksDue
    <3> QED BY <1>0, <3>1, <3>2
  <2>5. \A k \in v12' : k[2] <= v17'.at
    BY <1>0, <1>00, <2>2, <2>3, <2>4 DEF Marks, Qs!KeysKept
  <2>6. ASSUME NEW k \in v18'
        PROVE  /\ k[1] \in v8' /\ k[2] <= v17'.at
               /\ k[2] \in Qs!Resets(k[1])' => k \in v12'
               /\ v6' # "Asleep" /\ k[2] \in Qs!GatingResets(v4'[k[1]].quotas) =>
                     k[2] \in Qs!GatingResets(v7'[k[1]].quotas)
    <3>1. CASE k \in due
      <4>1. k[1] \in v8' /\ k \in v12' BY <2>2, <3>1 DEF Marks, MarksDue
      <4>2. k[2] \in Qs!GatingResets(v4[k[1]].quotas) =>
              k[2] > v1 \/ k[2] \in Qs!GatingResets(v7[k[1]].quotas)
        BY <2>3, <2>4, <3>1 DEF Qs!ReadingsKept
      <4> QED BY <1>0, <2>3, <2>4, <3>1, <4>1, <4>2
    <3>2. CASE k \in v18 /\ k[1] \in all
      <4>1. k[1] \in v8' /\ v12 \subseteq v12' BY <2>2, <3>2 DEF Marks
      <4>2. k[2] <= v17'.at BY <1>0, <1>00, <2>3, <3>2 DEF Qs!KeysKept
      <4>3. Qs!Resets(k[1])' = Qs!Resets(k[1]) BY <2>3 DEF Qs!Resets
      <4> QED BY <2>3, <3>2, <4>1, <4>2, <4>3 DEF Qs!KeysKept
    <3> QED BY <2>2, <2>6, <3>1, <3>2 DEF Marks
  <2> QED BY <2>5, <2>6 DEF Qs!KeysKept
<1>4. ASSUME NEW a \in Scheduled, Qs!Collect(a) PROVE Qs!KeysKept'
  <2>1. UNCHANGED <<v1, v6, v7, v8, v12, v17>> BY <1>4, Collected
  <2>2. CASE Gathers(a) BY <1>1, <2>1, <2>2
  <2>3. CASE UNCHANGED <<v3, v4, v18>> BY <2>1, <2>3 DEF Qs!KeysKept, Qs!Resets
  <2> QED BY <1>4, <2>2, <2>3, Collected
<1>5. CASE Qs!Merge
  <2>1. UNCHANGED <<v3, v4, v7, v8, v12, v17, v18>> /\ v6 = "Collect"
    BY <1>5 DEF Qs!Merge, Qs!quotaFiles, Qs!limits
  <2> QED BY <2>1 DEF Qs!KeysKept, Qs!Resets
<1>6. CASE Qs!Schedule
  <2>1. UNCHANGED <<v3, v4, v8, v17, v18>> /\ v6 = "Schedule"
        /\ v6' = "Asleep" /\ v7' = [a \in Scheduled |-> Qs!NoReading]
    BY <1>6 DEF Qs!Schedule, Qs!quotaFiles, Qs!limits
  <2>2. v12' = v12 \cap {<<a, r>> : a \in v8, r \in Nat \ {0}}
          \cap {k \in v12 : k[2] \in Qs!GatingResets(Qs!ResetQuotas(k[1], v11[k[1]].quotas))}
    BY <1>6, Slept
  <2>3. ASSUME NEW k \in v18, k[2] \in Qs!Resets(k[1])' PROVE k \in v12'
    <3> DEFINE a == k[1]
    <3>1. a \in Scheduled /\ a \in v8 /\ k = <<a, k[2]>> BY <1>00 DEF Qs!KeysKept
    <3>2. v7'[a].quotas = {} BY <2>1, <3>1 DEF Qs!NoReading
    <3>3. k[2] \in Qs!GatingResets(v4[a].quotas)
      <4>1. v3[a].quotas = {} \/ v3[a].quotas = v4[a].quotas BY <3>1 DEF Qs!ReadingsKept
      <4>2. v3[a].quotas \cup v4[a].quotas \cup {} = v4[a].quotas BY <4>1
      <4>3. Qs!Resets(a)' = Qs!GatingResets(v3'[a].quotas \cup v4'[a].quotas \cup v7'[a].quotas)
        BY DEF Qs!Resets
      <4>4. Qs!Resets(a)' = Qs!GatingResets(v4[a].quotas) BY <2>1, <3>2, <4>2, <4>3
      <4> QED BY <2>3, <4>4
    <3>4. k[2] \in Qs!Resets(a) /\ k[2] \in Nat \ {0} BY <3>1, <3>3, KnownResets
    <3>5. k \in v12 BY <3>4 DEF Qs!KeysKept
    <3>6. k[2] \in Qs!GatingResets(v7[a].quotas) BY <2>1, <3>3 DEF Qs!KeysKept
    <3>7. v7[a].quotas # {} BY <3>6, ResetsJoin
    <3>8. k[2] \in Qs!GatingResets(Qs!ResetQuotas(a, v11[a].quotas))
      <4>1. CASE v3[a].state # "unreadable" /\ v3[a].quotas # {}
        <5>1. v3[a].quotas = v4[a].quotas BY <3>1, <4>1 DEF Qs!ReadingsKept
        <5> QED BY <3>3, <4>1, <5>1 DEF Qs!ResetQuotas
      <4>2. CASE ~(v3[a].state # "unreadable" /\ v3[a].quotas # {})
        <5>1. Qs!ResetQuotas(a, v11[a].quotas) = v7[a].quotas BY <3>7, <4>2 DEF Qs!ResetQuotas
        <5> QED BY <3>6, <5>1
      <4> QED BY <4>1, <4>2
    <3>9. k \in {<<b, r>> : b \in v8, r \in Nat \ {0}} BY <3>1, <3>4
    <3> QED BY <2>2, <3>5, <3>8, <3>9
  <2>4. \A k \in v12' : k[2] <= v17'.at BY <2>1, <2>2 DEF Qs!KeysKept
  <2>5. \A k \in v18' : k[1] \in v8' /\ k[2] <= v17'.at BY <2>1 DEF Qs!KeysKept
  <2> QED BY <2>1, <2>3, <2>4, <2>5 DEF Qs!KeysKept
<1>7. CASE Qs!Tick
  <2>1. UNCHANGED <<v17, v6, v3, v4, v7, v12, v18, v8>>
    BY <1>7 DEF Qs!Tick, Qs!quotaFiles, Qs!cycle, Qs!limits
  <2> QED BY <2>1 DEF Qs!KeysKept, Qs!Resets
<1>8. ASSUME Qs!Meanwhile PROVE v17'.at = v17.at BY <1>8 DEF Qs!Meanwhile, Qs!ScheduleTypeOK
<1>9. ASSUME NEW a \in Scheduled, Qs!OtherAsks(a) PROVE Qs!KeysKept'
  <2>1. Gathers(a) /\ Qs!Meanwhile /\ UNCHANGED <<v1, v6, v7, v8, v12>>
    BY <1>9 DEF Qs!OtherAsks, Gathers, Qs!cycle
  <2> QED BY <1>1, <1>8, <2>1
<1>10. ASSUME NEW a \in Scheduled, Qs!Switch(a) PROVE Qs!KeysKept'
  <2>1. UNCHANGED <<v6, v3, v4, v7, v12, v18, v8>> /\ v17'.at = v17.at
    BY <1>8, <1>10 DEF Qs!Switch, Qs!quotaFiles, Qs!cycle
  <2> QED BY <2>1 DEF Qs!KeysKept, Qs!Resets
<1>11. ASSUME NEW a \in Scheduled, Qs!Damage(a) PROVE Qs!KeysKept'
  <2>1. \A b \in Scheduled : v3'[b] = v3[b] \/ v3'[b].quotas = {}
    BY <1>11 DEF Qs!Damage, Qs!ScheduleTypeOK, Qs!NoRecord
  <2>2. UNCHANGED <<v6, v7, v4, v12, v18, v8>> /\ v17'.at = v17.at
    BY <1>8, <1>11 DEF Qs!Damage, Qs!cycle
  <2>3. ASSUME NEW b \in Scheduled PROVE Qs!Resets(b)' \subseteq Qs!Resets(b)
    <3>1. v3'[b].quotas \cup v4'[b].quotas \cup v7'[b].quotas
            \subseteq v3[b].quotas \cup v4[b].quotas \cup v7[b].quotas
      BY <2>1, <2>2
    <3> QED BY <3>1, ResetsJoin DEF Qs!Resets
  <2> QED BY <1>00, <2>2, <2>3 DEF Qs!KeysKept
<1>12. CASE UNCHANGED Qs!scheduleVars
  <2>1. UNCHANGED <<v17, v6, v3, v4, v7, v12, v18, v8>>
    BY <1>12 DEF Qs!scheduleVars, Qs!quotaFiles, Qs!cycle, Qs!limits
  <2> QED BY <2>1 DEF Qs!KeysKept, Qs!Resets
<1> QED BY <1>2, <1>3, <1>4, <1>5, <1>6, <1>7, <1>9, <1>10, <1>11, <1>12 DEF Qs!Next

\* No reset is marked twice while it is remembered.
LEMMA ScheduleOnce ==
    ASSUME Qs!ScheduleTypeOK, Qs!ReadingsKept, Qs!KeysKept, Qs!OncePerReset,
       [Qs!Next]_(Qs!scheduleVars)
    PROVE  Qs!OncePerReset'
<1>1. CASE Qs!Plan
  <2>1. PICK all \in SUBSET Scheduled : \E due : Marks(all, due) /\ MarksDue(all, due)
    BY <1>1, Planned
  <2>2. PICK due : Marks(all, due) /\ MarksDue(all, due) BY <2>1
  <2>3. ASSUME NEW k \in due PROVE k \notin v18
    <3>1. k \notin v12 /\ k[1] \in Scheduled /\ k[2] \in Qs!GatingResets(Awaited(k[1]))
      BY <2>2 DEF Marks, MarksDue
    <3> DEFINE a == k[1]
    <3>2. Qs!SeenQuotas(a) \in SUBSET v7[a].quotas BY <3>1, AwaitedDated
    <3>3. Awaited(a) \subseteq v3[a].quotas \cup v4[a].quotas \cup v7[a].quotas
      BY <3>2 DEF Awaited, Qs!ResetQuotas
    <3>4. k[2] \in Qs!Resets(a) BY <3>1, <3>3, ResetsJoin DEF Qs!Resets
    <3> QED BY <3>1, <3>4 DEF Qs!KeysKept
  <2> QED BY <2>2, <2>3 DEF Marks, Qs!OncePerReset
<1>2. ASSUME ~Qs!Plan PROVE UNCHANGED v19
  <2>1. ASSUME NEW a \in Scheduled, Qs!Collect(a) PROVE UNCHANGED v19 BY <2>1, Collected
  <2> QED
    BY <1>2, <2>1 DEF Qs!Next, Qs!ReadCache, Qs!Merge, Qs!Schedule, Qs!Tick, Qs!OtherAsks,
       Qs!Switch, Qs!Damage, Qs!scheduleVars
<1> QED BY <1>1, <1>2 DEF Qs!OncePerReset

LEMMA ScheduleJobs ==
    ASSUME Qs!ScheduleTypeOK, Qs!ReadingsKept, Qs!KeysKept, Qs!JobsKept,
       [Qs!Next]_(Qs!scheduleVars) PROVE Qs!JobsKept'
<1>0. v1 \in Nat /\ v17.at \in Nat /\ v17.at <= v1 /\ ResetDelay \in Nat
  BY ScheduleDates, ScheduleConstants DEF Qs!ScheduleTypeOK, Qs!Dates, Qs!ReadingsKept,
     Qs!ScheduleAssumption
<1>00. ASSUME NEW k \in v12
       PROVE  /\ k[1] \in Scheduled /\ k[2] \in Nat /\ v16[k[1]] \in Nat
              /\ k[2] <= v17.at
  BY DEF Qs!ScheduleTypeOK, Qs!Dates, Qs!KeysKept
<1>000. ASSUME NEW a \in Scheduled
        PROVE  /\ v16[a] \in Nat /\ v3[a].next \in Nat
               /\ Qs!GatingResets(v3[a].quotas \cup v4[a].quotas) \subseteq Nat
  <2>1. v3[a].quotas \cup v4[a].quotas \in SUBSET Qs!Quotes BY DEF Qs!ScheduleTypeOK, Qs!Readings
  <2>2. Qs!GatingResets(v3[a].quotas \cup v4[a].quotas) \subseteq Nat \ {0} BY <2>1, ResetsDated
  <2>3. v16[a] \in Nat BY DEF Qs!ScheduleTypeOK, Qs!Dates
  <2>4. v3[a].next \in Nat BY DEF Qs!ScheduleTypeOK
  <2> QED BY <2>2, <2>3, <2>4
<1>1. ASSUME NEW a \in Scheduled, Gathers(a), UNCHANGED <<v1, v8, v12>>,
             v17'.at = v17.at, v9' \subseteq v9, v9 \subseteq v9' \cup {a}
      PROVE  Qs!JobsKept'
  <2>1. \A b \in Scheduled \ {a} :
           v3'[b] = v3[b] /\ v4'[b] = v4[b] /\ v16'[b] = v16[b]
    BY <1>1, Gathered
  <2>2. v16'[a] = v1 BY <1>1, Gathered
  <2>3. ASSUME NEW b \in v9'
        PROVE  \/ v3'[b].next <= v17'.at \/ v16'[b] >= v17'.at \/ Qs!Unreadable(b)'
    <3>1. CASE b = a BY <1>0, <1>1, <2>2, <3>1
    <3>2. CASE b # a
      <4>1. b \in v9 /\ b \in Scheduled BY <1>1 DEF Qs!ScheduleTypeOK
      <4>2. v3'[b] = v3[b] /\ v16'[b] = v16[b] BY <2>1, <3>2, <4>1
      <4> QED BY <1>1, <4>1, <4>2 DEF Qs!JobsKept, Qs!Unreadable
    <3> QED BY <3>1, <3>2
  <2>4. ASSUME NEW k \in v12'
        PROVE  k[1] \in v9' \/ v16'[k[1]] >= k[2] \/ Qs!Unreadable(k[1])'
    <3>1. k \in v12 BY <1>1
    <3>2. CASE k[1] = a BY <1>0, <1>00, <2>2, <3>1, <3>2
    <3>3. CASE k[1] # a
      <4>1. v3'[k[1]] = v3[k[1]] /\ v16'[k[1]] = v16[k[1]] BY <1>00, <2>1, <3>1, <3>3
      <4>2. k[1] \in v9 => k[1] \in v9' BY <1>1, <3>3
      <4> QED BY <3>1, <4>1, <4>2 DEF Qs!JobsKept, Qs!Unreadable
    <3> QED BY <3>2, <3>3
  <2>5. ASSUME NEW b \in v8', ~Qs!Unreadable(b)', v3'[b].next <= v17'.at,
               NEW r \in Qs!GatingResets(v3'[b].quotas \cup v4'[b].quotas),
               r + ResetDelay <= v17'.at
        PROVE  b \in v9' \/ v16'[b] >= r
    <3>0. b \in Scheduled /\ b \in v8 BY <1>1 DEF Qs!ScheduleTypeOK
    <3>1. CASE b = a
      <4>1. v3'[a].quotas \cup v4'[a].quotas \in SUBSET Qs!Quotes
        BY <1>1, GatheredTypes DEF RecordsOf, Qs!Readings
      <4>2. r \in Nat BY <3>1, <4>1, ResetsDated
      <4> QED BY <1>0, <1>1, <2>2, <2>5, <3>1, <4>2
    <3>2. CASE b # a
      <4>1. v3'[b] = v3[b] /\ v4'[b] = v4[b] /\ v16'[b] = v16[b]
        BY <2>1, <3>0, <3>2
      <4>2. b \in v9 \/ v16[b] >= r BY <1>1, <2>5, <3>0, <4>1 DEF Qs!JobsKept, Qs!Unreadable
      <4> QED BY <1>1, <3>2, <4>1, <4>2
    <3> QED BY <3>1, <3>2
  <2> QED BY <2>3, <2>4, <2>5 DEF Qs!JobsKept
<1>2. CASE Qs!ReadCache
  <2>1. UNCHANGED <<v3, v4, v16, v8, v9, v12, v17>>
    BY <1>2 DEF Qs!ReadCache, Qs!quotaFiles, Qs!limits
  <2> QED BY <2>1 DEF Qs!JobsKept, Qs!Unreadable
<1>3. CASE Qs!Plan
  <2>1. PICK all \in SUBSET Scheduled : \E due : Marks(all, due) /\ MarksDue(all, due)
    BY <1>3, Planned
  <2>2. PICK due : Marks(all, due) /\ MarksDue(all, due) BY <2>1
  <2>3. v17'.at = v1 /\ v6 = "Plan" /\ v9 = {}
        /\ UNCHANGED <<v1, v3, v4, v7, v16>>
    BY <1>3, <2>2 DEF Marks, Qs!Plan, Qs!quotaFiles, Qs!ReadingsKept
  <2>4. \A a \in v9' : v3'[a].next <= v17'.at
    BY <2>2, <2>3 DEF MarksDue, Qs!Deadline, Qs!Unreadable
  <2>5. ASSUME NEW k \in v12'
        PROVE  k[1] \in v9' \/ v16'[k[1]] >= k[2] \/ Qs!Unreadable(k[1])'
    <3>1. CASE k \in due BY <2>2, <2>3, <3>1 DEF MarksDue, Qs!Unreadable
    <3>2. CASE k \in v12 BY <2>3, <3>2 DEF Qs!JobsKept, Qs!Unreadable
    <3> QED BY <2>2, <2>5, <3>1, <3>2 DEF Marks
  <2>6. ASSUME NEW a \in v8', ~Qs!Unreadable(a), v3[a].next <= v1,
               NEW r \in Qs!GatingResets(v3[a].quotas \cup v4[a].quotas),
               r + ResetDelay <= v1
        PROVE  a \in v9' \/ v16[a] >= r
    <3>0. a \in all /\ a \in Scheduled BY <2>2 DEF Marks
    <3>1. r \in Nat /\ r <= v1 BY <1>0, <1>000, <2>6, <3>0
    <3>2. r \in Qs!GatingResets(Awaited(a))
      <4>1. CASE v3[a].quotas # {}
        <5>1. v3[a].quotas = v4[a].quotas BY <3>0, <4>1 DEF Qs!ReadingsKept
        <5>2. Awaited(a) = v3[a].quotas \cup v4[a].quotas
          BY <2>6, <4>1, <5>1 DEF Awaited, Qs!ResetQuotas, Qs!Unreadable
        <5> QED BY <2>6, <5>2
      <4>2. CASE v3[a].quotas = {}
        <5>1. v3[a].quotas \cup v4[a].quotas = v4[a].quotas BY <4>2
        <5>2. r \in Qs!GatingResets(v4[a].quotas) BY <2>6, <5>1
        <5>3. r > v1 \/ r \in Qs!GatingResets(v7[a].quotas) BY <2>3, <3>0, <5>2 DEF Qs!ReadingsKept
        <5>4. r \in Qs!GatingResets(v7[a].quotas) BY <1>0, <3>1, <5>3
        <5>5. v7[a].quotas # {} BY <5>4, ResetsJoin
        <5>6. Awaited(a) = v7[a].quotas BY <4>2, <5>5 DEF Awaited, Qs!ResetQuotas
        <5> QED BY <5>4, <5>6
      <4> QED BY <4>1, <4>2
    <3>3. Qs!Deadline(a) <= v1 BY <2>6 DEF Qs!Deadline, Qs!Unreadable
    <3>4. <<a, r>> \in v12 \cup due BY <2>2, <2>6, <3>0, <3>2, <3>3 DEF MarksDue
    <3>5. CASE <<a, r>> \in due
      <4>1. <<a, r>>[1] \in v9' \/ Qs!Unreadable(<<a, r>>[1]) BY <2>2, <3>5 DEF MarksDue
      <4> QED BY <2>6, <4>1
    <3>6. CASE <<a, r>> \in v12
      <4>1. \/ <<a, r>>[1] \in v9 \/ v16[<<a, r>>[1]] >= <<a, r>>[2] \/ Qs!Unreadable(<<a, r>>[1])
        BY <3>6 DEF Qs!JobsKept
      <4> QED BY <2>3, <2>6, <4>1
    <3> QED BY <3>4, <3>5, <3>6
  <2>7. \A a \in v8' :
          ~Qs!Unreadable(a)' /\ v3'[a].next <= v17'.at =>
             \A r \in Qs!GatingResets(v3'[a].quotas \cup v4'[a].quotas) :
                r + ResetDelay <= v17'.at => a \in v9' \/ v16'[a] >= r
    BY <2>3, <2>6 DEF Qs!Unreadable
  <2> QED BY <2>4, <2>5, <2>7 DEF Qs!JobsKept
<1>4. ASSUME NEW a \in Scheduled, Qs!Collect(a) PROVE Qs!JobsKept'
  <2>1. UNCHANGED <<v1, v8, v12, v17>> /\ a \in v9 /\ v9' = v9 \ {a}
    BY <1>4, Collected
  <2>2. CASE Gathers(a) BY <1>1, <2>1, <2>2
  <2>3. CASE UNCHANGED <<v3, v4, v16>> /\ (v3[a].state = "unreadable" \/ v3[a].next > v1)
    <3>0. v3[a].next \in Nat /\ v16[a] \in Nat BY <1>000
    <3>1. Qs!Unreadable(a) \/ v3[a].next > v17.at BY <1>0, <2>3, <3>0 DEF Qs!Unreadable
    <3>2. Qs!Unreadable(a) \/ v16[a] >= v17.at
      <4>1. v3[a].next <= v17.at \/ v16[a] >= v17.at \/ Qs!Unreadable(a)
        BY <2>1 DEF Qs!JobsKept
      <4> QED BY <1>0, <3>0, <3>1, <4>1
    <3>3. ASSUME NEW k \in v12
          PROVE  k[1] \in v9' \/ v16[k[1]] >= k[2] \/ Qs!Unreadable(k[1])
      <4>1. CASE k[1] = a BY <1>0, <1>00, <3>2, <4>1
      <4>2. CASE k[1] # a BY <2>1, <4>2 DEF Qs!JobsKept
      <4> QED BY <4>1, <4>2
    <3>4. ASSUME NEW b \in v8, ~Qs!Unreadable(b), v3[b].next <= v17.at,
                 NEW r \in Qs!GatingResets(v3[b].quotas \cup v4[b].quotas),
                 r + ResetDelay <= v17.at
          PROVE  b \in v9' \/ v16[b] >= r
      <4>1. b # a BY <1>0, <1>000, <3>1, <3>4
      <4>2. b \in v9 \/ v16[b] >= r BY <3>4 DEF Qs!JobsKept
      <4> QED BY <2>1, <4>1, <4>2
    <3>5. \A b \in v9' : v3[b].next <= v17.at \/ v16[b] >= v17.at \/ Qs!Unreadable(b)
      BY <2>1 DEF Qs!JobsKept
    <3>6. \A b : Qs!Unreadable(b)' = Qs!Unreadable(b) BY <2>3 DEF Qs!Unreadable
    <3>7. UNCHANGED <<v3, v4, v16, v8, v12, v17>> BY <2>1, <2>3
    <3> QED BY <3>3, <3>4, <3>5, <3>6, <3>7 DEF Qs!JobsKept
  <2> QED BY <1>4, <2>2, <2>3, Collected
<1>5. CASE Qs!Merge
  <2>1. UNCHANGED <<v3, v4, v16, v8, v9, v12, v17>>
    BY <1>5 DEF Qs!Merge, Qs!quotaFiles, Qs!limits
  <2> QED BY <2>1 DEF Qs!JobsKept, Qs!Unreadable
<1>6. CASE Qs!Schedule
  <2>1. UNCHANGED <<v3, v4, v16, v8, v9, v17>> /\ v12' \subseteq v12
    BY <1>6, Slept DEF Qs!Schedule, Qs!quotaFiles, Qs!limits
  <2> QED BY <2>1 DEF Qs!JobsKept, Qs!Unreadable
<1>7. CASE Qs!Tick
  <2>1. UNCHANGED <<v3, v4, v16, v8, v9, v12, v17>>
    BY <1>7 DEF Qs!Tick, Qs!quotaFiles, Qs!cycle, Qs!limits
  <2> QED BY <2>1 DEF Qs!JobsKept, Qs!Unreadable
<1>8. ASSUME Qs!Meanwhile PROVE v17'.at = v17.at BY <1>8 DEF Qs!Meanwhile, Qs!ScheduleTypeOK
<1>9. ASSUME NEW a \in Scheduled, Qs!OtherAsks(a) PROVE Qs!JobsKept'
  <2>1. Gathers(a) /\ Qs!Meanwhile /\ UNCHANGED <<v1, v8, v12, v9>>
    BY <1>9 DEF Qs!OtherAsks, Gathers, Qs!cycle
  <2> QED BY <1>1, <1>8, <2>1
<1>10. ASSUME NEW a \in Scheduled, Qs!Switch(a) PROVE Qs!JobsKept'
  <2>1. UNCHANGED <<v3, v4, v16, v8, v9, v12>> /\ v17'.at = v17.at
    BY <1>8, <1>10 DEF Qs!Switch, Qs!quotaFiles, Qs!cycle
  <2> QED BY <2>1 DEF Qs!JobsKept, Qs!Unreadable
<1>11. ASSUME NEW a \in Scheduled, Qs!Damage(a) PROVE Qs!JobsKept'
  <2>1. Qs!Unreadable(a)' /\ \A b \in Scheduled \ {a} : v3'[b] = v3[b]
    BY <1>11 DEF Qs!Damage, Qs!ScheduleTypeOK, Qs!NoRecord, Qs!Unreadable
  <2>2. UNCHANGED <<v4, v16, v8, v9, v12>> /\ v17'.at = v17.at
    BY <1>8, <1>11 DEF Qs!Damage, Qs!cycle
  <2>3. v8 \subseteq Scheduled /\ v9 \subseteq Scheduled BY DEF Qs!ScheduleTypeOK
  <2>4. \A b \in v9' : v3'[b].next <= v17'.at \/ v16'[b] >= v17'.at \/ Qs!Unreadable(b)'
    BY <2>1, <2>2, <2>3 DEF Qs!JobsKept, Qs!Unreadable
  <2>5. \A k \in v12' : k[1] \in v9' \/ v16'[k[1]] >= k[2] \/ Qs!Unreadable(k[1])'
    BY <1>00, <2>1, <2>2 DEF Qs!JobsKept, Qs!Unreadable
  <2>6. \A b \in v8' :
          ~Qs!Unreadable(b)' /\ v3'[b].next <= v17'.at =>
             \A r \in Qs!GatingResets(v3'[b].quotas \cup v4'[b].quotas) :
                r + ResetDelay <= v17'.at => b \in v9' \/ v16'[b] >= r
    BY <2>1, <2>2, <2>3 DEF Qs!JobsKept, Qs!Unreadable
  <2> QED BY <2>4, <2>5, <2>6 DEF Qs!JobsKept
<1>12. CASE UNCHANGED Qs!scheduleVars
  <2>1. UNCHANGED <<v3, v4, v16, v8, v9, v12, v17>>
    BY <1>12 DEF Qs!scheduleVars, Qs!quotaFiles, Qs!cycle, Qs!limits
  <2> QED BY <2>1 DEF Qs!JobsKept, Qs!Unreadable
<1> QED BY <1>2, <1>3, <1>4, <1>5, <1>6, <1>7, <1>9, <1>10, <1>11, <1>12 DEF Qs!Next

\* An answer with a reading was given just now, or by one who asked before.
LEMMA AnswersWait ==
    ASSUME Qs!ScheduleTypeOK, NEW a \in Scheduled, Qs!Collect(a)
    PROVE  /\ \A b \in Scheduled \ {a} : v10'[b] = v10[b]
           /\ v10'[a].kind = "reading" => Qs!Waits(a)'
<1>0. v6 = "Collect" /\ UNCHANGED v1 BY Collected
<1>1. \A b \in Scheduled \ {a} : v10'[b] = v10[b] BY DEF Qs!Collect, Qs!ScheduleTypeOK
<1>2. CASE Gathers(a) BY <1>0, <1>1, <1>2, Gathered DEF Qs!Waits, Qs!Unreadable
<1>3. CASE v3[a].state # "unreadable" /\ v3[a].next > v1 /\ UNCHANGED Qs!quotaFiles
  BY <1>0, <1>1, <1>3 DEF Qs!Waits, Qs!Unreadable, Qs!quotaFiles
<1>4. CASE v3[a].state = "unreadable" /\ v10' = [v10 EXCEPT ![a] = Qs!Error(FALSE)]
  BY <1>1, <1>4 DEF Qs!ScheduleTypeOK, Qs!Error, Qs!NoAnswer
<1> QED BY <1>1, <1>2, <1>3, <1>4 DEF Qs!Collect, Gathers

LEMMA SchedulePauses ==
    ASSUME Qs!ScheduleTypeOK, Qs!ReadingsKept, Qs!PausesKept, [Qs!Next]_(Qs!scheduleVars)
        PROVE Qs!PausesKept'
<1>0. v1 \in Nat /\ v17.at \in Nat /\ v17.at <= v1 /\ ResetDelay \in Nat /\ v13 \in Nat
  BY ScheduleDates, ScheduleConstants DEF Qs!ScheduleTypeOK, Qs!Dates, Qs!ReadingsKept,
     Qs!ScheduleAssumption
<1>00. v8 \subseteq Scheduled BY DEF Qs!ScheduleTypeOK
<1>1. CASE Qs!ReadCache
  <2>1. UNCHANGED <<v1, v17>> /\ v6 = "Asleep" /\ v1 >= v13
    BY <1>1 DEF Qs!ReadCache
  <2>2. ~(v17.at = v1 /\ ~v17.since) BY <1>0, <2>1 DEF Qs!PausesKept
  <2> QED BY <2>1, <2>2 DEF Qs!PausesKept
<1>2. CASE Qs!Plan
  <2>1. PICK all \in SUBSET Scheduled : \E due : Marks(all, due) /\ MarksDue(all, due)
    BY <1>2, Planned
  <2>2. PICK due : Marks(all, due) /\ MarksDue(all, due) BY <2>1
  <2>3. UNCHANGED <<v1, v3, v7>> /\ v6' = "Collect"
        /\ v10' = [a \in Scheduled |-> Qs!NoAnswer]
    BY <1>2 DEF Qs!Plan, Qs!quotaFiles
  <2>4. ASSUME NEW a \in v8', ~Qs!Waits(a)', NEW r \in Qs!GatingResets(Qs!ResetQuotas(a, {})'),
               r + ResetDelay <= v1'
        PROVE  <<a, r>> \in v12'
    <3>0. a \in all /\ a \in Scheduled BY <2>2 DEF Marks
    <3>1. Qs!Deadline(a) <= v1
      <4>1. v3[a].state = "unreadable" \/ v3[a].next <= v1
        <5>1. v3[a].next \in Nat BY <3>0 DEF Qs!ScheduleTypeOK
        <5>2. v3[a].state = "unreadable" \/ ~(v3[a].next > v1)
          BY <2>3, <2>4 DEF Qs!Waits, Qs!Unreadable
        <5> QED BY <1>0, <5>1, <5>2
      <4> QED BY <1>0, <4>1 DEF Qs!Deadline, Qs!Never
    <3>2. r \in Qs!GatingResets(Qs!ResetQuotas(a, {})) BY <2>3, <2>4 DEF Qs!ResetQuotas
    <3>3. Qs!ResetQuotas(a, {}) # {} BY <3>2, ResetsJoin
    <3>4. Awaited(a) = Qs!ResetQuotas(a, {}) BY <3>3 DEF Awaited, Qs!ResetQuotas
    <3>5. r + ResetDelay <= v1 BY <2>3, <2>4
    <3>6. <<a, r>> \in v12 \cup due BY <2>2, <3>0, <3>1, <3>2, <3>4, <3>5 DEF MarksDue
    <3> QED BY <2>2, <3>6 DEF Marks
  <2>5. \A a \in v8' : v10'[a].kind # "reading"
    BY <2>2, <2>3 DEF Marks, Qs!NoAnswer
  <2> QED BY <2>3, <2>4, <2>5 DEF Qs!PausesKept
<1>3. ASSUME NEW a \in Scheduled, Qs!Collect(a) PROVE Qs!PausesKept'
  <2>1. UNCHANGED <<v1, v6, v7, v8, v12, v17>> /\ v6 = "Collect"
    BY <1>3, Collected
  <2>2. ASSUME NEW b \in Scheduled
        PROVE  \/ Qs!Waits(b)'
               \/ UNCHANGED <<v3[b], v10[b]>>
               \/ b = a /\ UNCHANGED v3[b] /\ v10'[b].kind # "reading"
    <3>1. CASE b = a
      <4>1. CASE Gathers(a) BY <2>1, <3>1, <4>1, Gathered DEF Qs!Waits, Qs!Unreadable
      <4>2. CASE UNCHANGED v3 BY <1>3, <3>1, <4>2, AnswersWait
      <4> QED BY <1>3, <4>1, <4>2, Collected
    <3>2. CASE b # a
      <4>1. v10'[b] = v10[b] BY <1>3, <3>2, AnswersWait
      <4>2. v3'[b] = v3[b]
        <5>1. CASE Gathers(a) BY <3>2, <5>1, Gathered
        <5> QED BY <1>3, <5>1, Collected
      <4> QED BY <4>1, <4>2
    <3> QED BY <3>1, <3>2
  <2>3. ASSUME NEW b \in v8, v17.at = v1, ~v17.since
        PROVE  /\ \/ Qs!Waits(b)'
                  \/ \A r \in Qs!GatingResets(Qs!ResetQuotas(b, {})') :
                        r + ResetDelay <= v1' => <<b, r>> \in v12'
               /\ v10'[b].kind = "reading" => Qs!Waits(b)'
    <3>1. b \in Scheduled BY <1>00
    <3>2. CASE Qs!Waits(b)' BY <3>2
    <3>3. CASE ~Qs!Waits(b)' /\ UNCHANGED v3[b]
      <4>1. ~Qs!Waits(b) BY <2>1, <3>3 DEF Qs!Waits, Qs!Unreadable
      <4>2. Qs!ResetQuotas(b, {})' = Qs!ResetQuotas(b, {}) BY <2>1, <3>3 DEF Qs!ResetQuotas
      <4>3. \A r \in Qs!GatingResets(Qs!ResetQuotas(b, {})) : r + ResetDelay <= v1 => <<b,
              r>> \in v12
        BY <2>1, <2>3, <4>1 DEF Qs!PausesKept
      <4>4. v10[b].kind # "reading" BY <2>1, <2>3, <4>1 DEF Qs!PausesKept
      <4>5. v10'[b].kind # "reading" BY <2>2, <3>1, <3>3, <4>4
      <4> QED BY <2>1, <4>2, <4>3, <4>5
    <3> QED BY <2>2, <3>1, <3>2, <3>3
  <2> QED BY <2>1, <2>3 DEF Qs!PausesKept
<1>4. CASE Qs!Merge
  <2>1. UNCHANGED <<v1, v3, v7, v8, v12, v17>> /\ v6 = "Collect"
        /\ v6' = "Schedule"
        /\ v11' = [a \in Scheduled |-> IF a \in v8 THEN Qs!MergedState(a)
                                           ELSE Qs!Shown({}, Qs!Never, "Loading")]
    BY <1>4 DEF Qs!Merge, Qs!quotaFiles, Qs!limits
  <2>2. ASSUME NEW a \in v8, v17.at = v1, ~v17.since
        PROVE  /\ \/ Qs!Waits(a)'
                  \/ \A r \in Qs!GatingResets(Qs!ResetQuotas(a, {})') :
                        r + ResetDelay <= v1' => <<a, r>> \in v12'
               /\ Qs!Waits(a)' \/ \A r \in Qs!GatingResets(v11'[a].quotas) : r > v1'
    <3>0. a \in Scheduled BY <1>00
    <3>1. v11'[a] = Qs!MergedState(a) BY <2>1, <3>0
    <3>2. Qs!Waits(a)' = Qs!Waits(a) /\ Qs!ResetQuotas(a, {})' = Qs!ResetQuotas(a, {})
      BY <2>1 DEF Qs!Waits, Qs!Unreadable, Qs!ResetQuotas
    <3>3. /\ Qs!Waits(a) \/ \A r \in Qs!GatingResets(Qs!ResetQuotas(a, {})) :
                            r + ResetDelay <= v1 => <<a, r>> \in v12
          /\ v10[a].kind = "reading" => Qs!Waits(a)
      BY <2>1, <2>2 DEF Qs!PausesKept
    <3>4. Qs!Waits(a) \/ \A r \in Qs!GatingResets(Qs!MergedState(a).quotas) : r > v1
      BY <3>0, <3>3, MergedDated
    <3> QED BY <2>1, <3>1, <3>2, <3>3, <3>4
  <2> QED BY <2>1, <2>2 DEF Qs!PausesKept
<1>5. CASE Qs!Schedule
  <2>1. UNCHANGED <<v1, v17>> /\ v6 = "Schedule" /\ v6' = "Asleep"
    BY <1>5 DEF Qs!Schedule
  <2>2. ASSUME v17.at = v1, ~v17.since, NEW a \in v8,
               NEW r \in Qs!GatingResets(Qs!ResetQuotas(a, v11[a].quotas)), <<a, r>> \notin v12
        PROVE  Qs!Later(r + ResetDelay, Qs!Deadline(a)) > v1
    <3>0. a \in Scheduled BY <1>00
    <3>1. Qs!Deadline(a) \in Nat BY <3>0, AwaitedDated
    <3>2. r \in Nat
      <4>1. Qs!ResetQuotas(a, v11[a].quotas) \in SUBSET Qs!Quotes
        BY <3>0 DEF Qs!ScheduleTypeOK, Qs!ResetQuotas, Qs!Readings
      <4> QED BY <2>2, <4>1, ResetsDated
    <3>3. /\ Qs!Waits(a) \/ \A s \in Qs!GatingResets(Qs!ResetQuotas(a, {})) :
                            s + ResetDelay <= v1 => <<a, s>> \in v12
          /\ Qs!Waits(a) \/ \A s \in Qs!GatingResets(v11[a].quotas) : s > v1
      BY <2>1, <2>2 DEF Qs!PausesKept
    <3>4. CASE Qs!Waits(a)
      <4>1. Qs!Deadline(a) > v1 BY <3>4 DEF Qs!Waits, Qs!Deadline, Qs!Unreadable
      <4> QED BY <1>0, <3>1, <3>2, <4>1 DEF Qs!Later
    <3>5. CASE ~Qs!Waits(a)
      <4>1. r + ResetDelay > v1
        <5>1. CASE Qs!ResetQuotas(a, v11[a].quotas) = Qs!ResetQuotas(a, {})
          <6>1. ~(r + ResetDelay <= v1) BY <2>2, <3>3, <3>5, <5>1
          <6> QED BY <1>0, <3>2, <6>1
        <5>2. CASE Qs!ResetQuotas(a, v11[a].quotas) = v11[a].quotas
          <6>1. r > v1 BY <2>2, <3>3, <3>5, <5>2
          <6> QED BY <1>0, <3>2, <6>1
        <5> QED BY <5>1, <5>2 DEF Qs!ResetQuotas
      <4> QED BY <1>0, <3>1, <3>2, <4>1 DEF Qs!Later
    <3> QED BY <3>4, <3>5
  <2>3. v17.at = v1 /\ ~v17.since => v13' > v1 BY <1>5, <2>2, Slept
  <2> QED BY <2>1, <2>3 DEF Qs!PausesKept
<1>6. CASE Qs!Tick
  <2>1. v17' = v17 /\ v1' = v1 + 1 BY <1>6 DEF Qs!Tick
  <2>2. v17'.at # v1' BY <1>0, <2>1
  <2> QED BY <2>2 DEF Qs!PausesKept
<1>7. ASSUME Qs!Meanwhile PROVE Qs!PausesKept'
  <2>1. v17'.since BY <1>7 DEF Qs!Meanwhile, Qs!ScheduleTypeOK
  <2> QED BY <2>1 DEF Qs!PausesKept
<1>8. CASE UNCHANGED Qs!scheduleVars
  <2>1. UNCHANGED <<v1, v17, v6, v13, v8, v3, v7, v12, v10, v11>>
    BY <1>8 DEF Qs!scheduleVars, Qs!quotaFiles, Qs!cycle, Qs!limits
  <2> QED BY <2>1 DEF Qs!PausesKept, Qs!Waits, Qs!Unreadable, Qs!ResetQuotas
<1> QED
  BY <1>1, <1>2, <1>3, <1>4, <1>5, <1>6, <1>7, <1>8 DEF Qs!Next, Qs!OtherAsks, Qs!Switch,
     Qs!Damage

\* A reading that is shown as current is young, and younger than any failure.
LEMMA ScheduleMerges == ASSUME Qs!ScheduleTypeOK, [Qs!Next]_(Qs!scheduleVars) PROVE Qs!MergesCurrent
<1> SUFFICES ASSUME v6 = "Collect", v6' = "Schedule", NEW a \in v8,
                    v11'[a].state = "Ready"
             PROVE  /\ Qs!FreshForDecision(v11'[a].at, v1)
                    /\ v5[a].at <= v11'[a].at
  BY DEF Qs!MergesCurrent
<1>1. ASSUME NEW b \in Scheduled, Qs!Collect(b) PROVE FALSE BY <1>1, Collected
<1>2. Qs!Merge
  BY <1>1 DEF Qs!Next, Qs!ReadCache, Qs!Plan, Qs!Schedule, Qs!Tick, Qs!OtherAsks, Qs!Switch,
     Qs!Damage, Qs!scheduleVars, Qs!cycle
<1>3. a \in Scheduled BY DEF Qs!ScheduleTypeOK
<1>4. v11'[a] = Qs!MergedState(a) BY <1>2, <1>3 DEF Qs!Merge
<1> DEFINE answer == v10[a]
           entry == Qs!Valid(v4[a], v1)
           told == [quotas |-> answer.quotas, at |-> answer.at]
<1>5. entry \in Qs!Readings BY <1>3, ValidDated, ScheduleDates DEF Qs!ScheduleTypeOK
<1>6. answer.kind \in {"none", "reading", "error"} BY <1>3 DEF Qs!ScheduleTypeOK
<1>7. \/ Qs!MergedState(a) = Qs!AfterFailure(a, told)
      \/ Qs!MergedState(a) = Qs!ByAge(entry) /\ v5[a] = Qs!NoFailure
      \/ Qs!MergedState(a).state # "Ready"
  BY <1>6 DEF Qs!MergedState, Qs!Shown
<1>8. CASE Qs!MergedState(a) = Qs!AfterFailure(a, told)
  <2>1. v5[a].at <= told.at /\ Qs!MergedState(a) = Qs!ByAge(told)
    BY <1>4, <1>8 DEF Qs!AfterFailure, Qs!Shown
  <2> QED BY <1>4, <2>1 DEF Qs!ByAge, Qs!Shown
<1>9. CASE Qs!MergedState(a) = Qs!ByAge(entry) /\ v5[a] = Qs!NoFailure
  <2>1. v5[a].at = 0 /\ entry.at \in Nat
    BY <1>5, <1>9 DEF Qs!NoFailure, Qs!Never, Qs!Readings, Qs!Dates
  <2>2. Qs!MergedState(a).at = entry.at BY <1>9 DEF Qs!ByAge, Qs!Shown
  <2>3. Qs!FreshForDecision(entry.at, v1) BY <1>4, <1>9 DEF Qs!ByAge, Qs!Shown
  <2> QED BY <1>4, <2>1, <2>2, <2>3
<1> QED BY <1>4, <1>7, <1>8, <1>9

LEMMA ScheduleInit == Qs!Init => ScheduleInv
<1> SUFFICES ASSUME Qs!Init PROVE ScheduleInv OBVIOUS
<1>1. 1 \in Qs!Times /\ 1 \in Qs!Dates /\ 0 \in Qs!Dates /\ 0 \in 0 .. MaxAsks
        /\ 0 \in 0 .. MaxOutside
  BY ScheduleConstants DEF Qs!Times, Qs!Dates, Qs!ScheduleAssumption
<1>2. \A answer \in Windows : [quotas |-> Qs!Quotas(1, answer), at |-> 1] \in Qs!Readings
  BY <1>1, QuotasDated DEF Qs!Readings
<1>3. Qs!NoReading \in Qs!Readings BY <1>1 DEF Qs!NoReading, Qs!Readings, Qs!Never
<1>4. v4 \in [Scheduled -> Qs!Readings] BY <1>2, <1>3 DEF Qs!Init
<1>5. Qs!ScheduleTypeOK
  BY <1>1, <1>3, <1>4 DEF Qs!Init, Qs!ScheduleTypeOK, Qs!NoRecord, Qs!NoFailure, Qs!NoAnswer,
     Qs!Shown, Qs!Never
<1>6. Qs!ReadingsKept BY DEF Qs!Init, Qs!ReadingsKept, Qs!NoRecord, Qs!Never
<1>7. Qs!KeysKept /\ Qs!JobsKept /\ Qs!OncePerReset
  BY DEF Qs!Init, Qs!KeysKept, Qs!JobsKept, Qs!OncePerReset
<1>8. Qs!PausesKept BY DEF Qs!Init, Qs!PausesKept, Qs!Never
<1> QED BY <1>5, <1>6, <1>7, <1>8 DEF ScheduleInv

LEMMA ScheduleGoesOn == ScheduleInv /\ [Qs!Next]_(Qs!scheduleVars) => ScheduleInv'
        /\ Qs!MergesCurrent
BY ScheduleTypes, ScheduleReadings, ScheduleKeys, ScheduleJobs, SchedulePauses, ScheduleOnce,
   ScheduleMerges DEF ScheduleInv

LEMMA ScheduleGood == ScheduleInv => Qs!ResetFollowed /\ Qs!OncePerReset /\ Qs!Pauses
<1> SUFFICES ASSUME ScheduleInv PROVE Qs!ResetFollowed /\ Qs!OncePerReset /\ Qs!Pauses OBVIOUS
<1>1. v6 = "Asleep" => v9 = {} BY DEF ScheduleInv, Qs!ReadingsKept
<1>2. Qs!ResetFollowed BY <1>1 DEF ScheduleInv, Qs!JobsKept, Qs!Unreadable, Qs!ResetFollowed
<1>3. Qs!Pauses
  <2>1. v1 \in Nat /\ v17.at \in Nat /\ v17.at <= v1
    BY ScheduleDates DEF ScheduleInv, Qs!ScheduleTypeOK, Qs!Dates, Qs!ReadingsKept
  <2>2. v6 = "Plan" => v17.at # v1 \/ v17.since BY DEF ScheduleInv, Qs!PausesKept
  <2> QED BY <2>1, <2>2 DEF Qs!Pauses
<1> QED BY <1>2, <1>3 DEF ScheduleInv

-----------------------------------------------------------------------------
(* The parts together                                                         *)

\* Each scene has its own invariant.
ServicesInv ==
    /\ scene = "lock" => LockInv
    /\ scene = "daemon" => DaemonInv
    /\ scene = "pool" => PoolInv
    /\ scene = "schedule" => ScheduleInv
    /\ scene = "metrics" => MetricsInv

ClaudeInv ==
    /\ scene = "swap" => SwapInv /\ Sw!TokensCount /\ Sw!LiveKept
    /\ scene = "usage" => PaceInv /\ UsageInv /\ PollBounds
    /\ scene = "api" => ApiInv

ClientsInv ==
    /\ scene = "opencode" => OpencodeInv
    /\ scene = "keys" => KeysInv
    /\ scene = "answer" => AnswerInv
    /\ scene = "google" => AntigravityInv
    /\ scene = "codex" => CodexInv
    /\ scene = "kimi" => KimiInv /\ KimiBounds
    /\ scene = "cursor" => CursorInv

PartsInv == ServicesInv /\ ClaudeInv /\ ClientsInv

\* A scene goes on with the steps of its part.
LEMMA Scenes ==
    ASSUME [Next]_allVars
    PROVE  /\ scene' = scene
           /\ scene = "lock" => [Lk!Next]_(Lk!lockVars)
           /\ scene = "daemon" => [Da!Next]_(Da!daemonVars)
           /\ scene = "pool" => [Pi!Next]_(Pi!poolVars)
           /\ scene = "schedule" => [Qs!Next]_(Qs!scheduleVars)
           /\ scene = "metrics" => [Rm!Next]_(Rm!metricVars)
           /\ scene = "swap" => [Sw!Next]_(Sw!swapVars)
           /\ scene = "usage" => [Us!Next]_(Us!pollVars)
           /\ scene = "api" => [Api!Next]_(Api!apiVars)
           /\ scene = "opencode" => [Oc!Next]_(Oc!opencodeVars)
           /\ scene = "keys" => [Ke!Next]_(Ke!keyVars)
           /\ scene = "answer" => [Aq!Next]_(Aq!quotaQueryVars)
           /\ scene = "google" => [Ag!Next]_(Ag!antigravityVars)
           /\ scene = "codex" => [Co!Next]_(Co!codexVars)
           /\ scene = "kimi" => [Ki!Next]_(Ki!kimiVars)
           /\ scene = "cursor" => [Cu!Next]_(Cu!cursorVars)
<1>1. CASE Next BY <1>1 DEF Next
<1>2. CASE UNCHANGED allVars
  <2>1. UNCHANGED <<scene, v1, v2, v3, v4, v5, v6, v7, v8, v9, v10, v11, v12, v13, v14, v15, v16,
                    v17, v18, v19, v20, v21, v22, v23, v24, v25>>
    BY <1>2 DEF allVars
  <2>2. UNCHANGED <<Lk!lockVars, Da!daemonVars, Pi!poolVars, Qs!scheduleVars, Rm!metricVars>>
    BY <2>1 DEF Lk!lockVars, Da!daemonVars, Pi!poolVars, Qs!scheduleVars, Qs!cycle,
       Qs!quotaFiles, Qs!limits, Rm!metricVars
  <2>3. UNCHANGED <<Sw!swapVars, Us!pollVars, Api!apiVars>>
    BY <2>1 DEF Sw!swapVars, Sw!locks, Sw!mine, Us!pollVars, Api!apiVars
  <2>4. UNCHANGED <<Oc!opencodeVars, Ke!keyVars, Aq!quotaQueryVars, Ag!antigravityVars,
                    Co!codexVars, Ki!kimiVars, Cu!cursorVars>>
    BY <2>1 DEF Oc!opencodeVars, Ke!keyVars, Aq!quotaQueryVars, Ag!antigravityVars,
       Co!codexVars, Ki!kimiVars, Cu!cursorVars, Cu!token
  <2> QED BY <2>1, <2>2, <2>3, <2>4
<1> QED BY <1>1, <1>2

LEMMA PartsStart == Init => PartsInv
<1> SUFFICES ASSUME Init PROVE PartsInv OBVIOUS
<1>1. /\ scene = "lock" => Lk!Init
      /\ scene = "daemon" => Da!Init
      /\ scene = "pool" => Pi!Init
      /\ scene = "schedule" => Qs!Init
      /\ scene = "metrics" => Rm!Init
      /\ scene = "swap" => Sw!Init
      /\ scene = "usage" => Us!Init
      /\ scene = "api" => Api!Init
      /\ scene = "opencode" => Oc!Init
      /\ scene = "keys" => Ke!Init
      /\ scene = "answer" => Aq!Init
      /\ scene = "google" => Ag!Init
      /\ scene = "codex" => Co!Init
      /\ scene = "kimi" => Ki!Init
      /\ scene = "cursor" => Cu!Init
  BY DEF Init
<1>2. ServicesInv
  BY <1>1, LockInit, DaemonInit, PoolInit, ScheduleInit, MetricsInit DEF ServicesInv
<1>3. ClaudeInv
  BY <1>1, SwapInit, SwapTokensInit, PaceInvInit, UsInit, PollStarts, ApiInit DEF ClaudeInv
<1>4. ClientsInv
  BY <1>1, OcInit, KeysInit, AqInit, AgInit, CoInit, KiInit, KiStarts, CuStarts DEF ClientsInv
<1> QED BY <1>2, <1>3, <1>4 DEF PartsInv

LEMMA ServicesGoOn == ServicesInv /\ [Next]_allVars => ServicesInv'
<1> SUFFICES ASSUME ServicesInv, [Next]_allVars PROVE ServicesInv' OBVIOUS
<1>1. scene' = scene BY Scenes
<1>2. ASSUME scene = "lock" PROVE LockInv' BY <1>2, Scenes, LockNext DEF ServicesInv
<1>3. ASSUME scene = "daemon" PROVE DaemonInv' BY <1>3, Scenes, DaemonNext DEF ServicesInv
<1>4. ASSUME scene = "pool" PROVE PoolInv' BY <1>4, Scenes, PoolNext DEF ServicesInv
<1>5. ASSUME scene = "schedule" PROVE ScheduleInv' BY <1>5, Scenes, ScheduleGoesOn DEF ServicesInv
<1>6. ASSUME scene = "metrics" PROVE MetricsInv' BY <1>6, Scenes, MetricsNext DEF ServicesInv
<1> QED BY <1>1, <1>2, <1>3, <1>4, <1>5, <1>6 DEF ServicesInv

LEMMA ClaudeGoOn == ClaudeInv /\ [Next]_allVars => ClaudeInv'
<1> SUFFICES ASSUME ClaudeInv, [Next]_allVars PROVE ClaudeInv' OBVIOUS
<1>1. scene' = scene BY Scenes
<1>2. ASSUME scene = "swap" PROVE SwapInv' /\ Sw!TokensCount' /\ Sw!LiveKept'
  <2>1. SwapInv /\ Sw!TokensCount /\ Sw!LiveKept /\ [Sw!Next]_(Sw!swapVars)
    BY <1>2, Scenes DEF ClaudeInv
  <2>2. SwapInv' BY <2>1, SwapTypes, SwapJobs, SwapOwners DEF SwapInv
  <2>3. Sw!TokensCount' BY <2>1, SwapCounts
  <2> QED BY <2>1, <2>2, <2>3, SwapTokens DEF SwapInv
<1>3. ASSUME scene = "usage" PROVE PaceInv' /\ UsageInv' /\ PollBounds'
  BY <1>3, Scenes, PaceInvStep, UsNext, PollBounded DEF ClaudeInv
<1>4. ASSUME scene = "api" PROVE ApiInv'
  BY <1>4, Scenes, ApiTypes, ApiTasks, ApiFiles DEF ClaudeInv, ApiInv
<1> QED BY <1>1, <1>2, <1>3, <1>4 DEF ClaudeInv

LEMMA ClientsGoOn == ClientsInv /\ [Next]_allVars => ClientsInv'
<1> SUFFICES ASSUME ClientsInv, [Next]_allVars PROVE ClientsInv' OBVIOUS
<1>1. scene' = scene BY Scenes
<1>2. ASSUME scene = "opencode" PROVE OpencodeInv' BY <1>2, Scenes, OcNext DEF ClientsInv
<1>3. ASSUME scene = "keys" PROVE KeysInv' BY <1>3, Scenes, KeysNext DEF ClientsInv
<1>4. ASSUME scene = "answer" PROVE AnswerInv' BY <1>4, Scenes, AqNext DEF ClientsInv
<1>5. ASSUME scene = "google" PROVE AntigravityInv'
  BY <1>5, Scenes, AgTypes, AgJobs, AgCopies, AgEffect DEF ClientsInv, AntigravityInv
<1>6. ASSUME scene = "codex" PROVE CodexInv' BY <1>6, Scenes, CoNext DEF ClientsInv
<1>7. ASSUME scene = "kimi" PROVE KimiInv' /\ KimiBounds'
  BY <1>7, Scenes, KiNext, KiBounded DEF ClientsInv
<1>8. ASSUME scene = "cursor" PROVE CursorInv' BY <1>8, Scenes, CuNext DEF ClientsInv
<1> QED BY <1>1, <1>2, <1>3, <1>4, <1>5, <1>6, <1>7, <1>8 DEF ClientsInv

\* The strengthened invariants hold of all the parts, whatever the number of
\* accounts, clients, processes, credentials and requests.
THEOREM PartsKept == Spec => []PartsInv
<1>1. PartsInv /\ [Next]_allVars => PartsInv'
  BY ServicesGoOn, ClaudeGoOn, ClientsGoOn DEF PartsInv
<1> QED BY <1>1, PartsStart, PTL DEF Spec

\* Every variable of every part keeps to its type, and every counter, queue and
\* record to its bound (TypesOK of each part).
THEOREM TypesStay == Spec => []TypesOK
<1>1. PartsInv => TypesOK
  <2> SUFFICES ASSUME PartsInv PROVE TypesOK OBVIOUS
  <2>1. /\ scene = "lock" => Lk!LockTypeOK
        /\ scene = "daemon" => Da!DaemonTypeOK
        /\ scene = "pool" => Pi!PoolTypeOK
        /\ scene = "schedule" => Qs!ScheduleTypeOK
        /\ scene = "metrics" => Rm!MetricsTypeOK
    BY DEF PartsInv, ServicesInv, LockInv, DaemonInv, PoolInv, ScheduleInv, MetricsInv
  <2>2. /\ scene = "swap" => Sw!SwapTypeOK
        /\ scene = "usage" => Us!PollTypeOK
        /\ scene = "api" => Api!ApiTypeOK
    BY PollTyped DEF PartsInv, ClaudeInv, SwapInv, ApiInv
  <2>3. /\ scene = "opencode" => Oc!OpencodeTypeOK
        /\ scene = "keys" => Ke!KeysTypeOK
        /\ scene = "answer" => Aq!QuotaQueryTypeOK
        /\ scene = "google" => Ag!AntigravityTypeOK
    BY DEF PartsInv, ClientsInv, OpencodeInv, KeysInv, KeyShape, Ke!KeysTypeOK, AnswerInv,
           AntigravityInv
  <2>4. /\ scene = "codex" => Co!CodexTypeOK
        /\ scene = "kimi" => Ki!KimiTypeOK
        /\ scene = "cursor" => Cu!CursorTypeOK
    BY KiTyped DEF PartsInv, ClientsInv, CodexInv, KimiInv, CursorInv
  <2> QED BY <2>1, <2>2, <2>3, <2>4 DEF TypesOK
<1> QED BY <1>1, PartsKept, PTL

\* The totals hold every request and every completion once, and so does every
\* account while none has been evicted, whichever processes count at the same
\* time and whichever of them die (request_metrics.rs: the lock around read, add
\* and rename).
THEOREM EventsAreSummed == Spec => [](scene = "metrics" => Rm!EventsSummed)
<1>1. PartsInv => (scene = "metrics" => Rm!EventsSummed)
  BY DEF PartsInv, ServicesInv, MetricsInv
<1> QED BY <1>1, PartsKept, PTL

\* Two clients hold the directory lock only after missed heartbeats
\* (proper_lock.rs), and two daemons work only after one locked a PID file that was
\* being removed (unix.rs: run, open_pid_lock).
THEOREM NoTwoHolders == Spec => []HoldersExclude
<1>1. PartsInv => HoldersExclude
  BY LockExcludes, DaemonGood DEF PartsInv, ServicesInv, HoldersExclude
<1> QED BY <1>1, PartsKept, PTL

\* Commands that look for a daemon at the same time, and turn a starting one away
\* while they look, leave one behind (daemon_spawn.rs: ensure_daemon_running).
THEOREM CommandsLeaveADaemon == Spec => []DaemonComesUp
<1>1. PartsInv => DaemonComesUp BY DaemonGood DEF PartsInv, ServicesInv, DaemonComesUp
<1> QED BY <1>1, PartsKept, PTL

\* A request of Pi that is refused has tried every account, and Pi sees the
\* events of one account only (pool.ts: orderedAccounts, the loop of the stream).
THEOREM PoolTriesEveryAccount == Spec => []PoolServes
<1>1. PartsInv => PoolServes BY PoolGood DEF PartsInv, ServicesInv, PoolServes
<1> QED BY <1>1, PartsKept, PTL

\* A call is begun with a secret that has not expired, wherever it comes from
\* (subswap.ts: requestSecret and its cache).
THEOREM PoolSecretsAreFresh == Spec => SecretFresh
<1>1. PartsInv /\ [Next]_allVars => [scene = "pool" => Pi!SecretFresh]_allVars
  BY Scenes, PoolFresh DEF PartsInv, ServicesInv
<1> QED BY <1>1, PartsKept, PTL DEF Spec, SecretFresh

\* Once a reset is over by the delay, the next cycle that finds it due asks for the
\* account again; it does so once; and no cycle that nobody disturbs follows another
\* without a pause (quota_schedule.rs: due_wake, next_sleep; unix.rs:
\* collect_snapshots).
THEOREM ResetsAreFollowed == Spec => []ResetHandled
<1>1. PartsInv => ResetHandled BY ScheduleGood DEF PartsInv, ServicesInv, ResetHandled
<1> QED BY <1>1, PartsKept, PTL

\* The switching policy takes a reading for current only if it is young and nothing
\* later of the account, of this process or another one, puts it in doubt (unix.rs:
\* collect_snapshots, merge_collected_state).
THEOREM PolicySeesTheCurrent == Spec => ReadyIsCurrent
<1>1. PartsInv /\ [Next]_allVars => [scene = "schedule" => Qs!MergesCurrent]_allVars
  BY Scenes, ScheduleGoesOn DEF PartsInv, ServicesInv
<1> QED BY <1>1, PartsKept, PTL DEF Spec, ReadyIsCurrent

\* Claude Code's secret is of the account it is said to be of, and every stored one
\* is its account's, unless two wrote at once (claude/src/lib.rs: activate,
\* capture_live_into_store; active_refresh.rs: renew_blocking).
THEOREM SecretsStayWithTheirAccount == Spec => []SecretIsOfItsAccount
<1>1. PartsInv => SecretIsOfItsAccount BY SwapGood DEF PartsInv, ClaudeInv, SecretIsOfItsAccount
<1> QED BY <1>1, PartsKept, PTL

\* What the user had in settings.json comes back after the API mode of Claude
\* Code, whatever keys were activated on top of each other, failed or left again
\* (claude/src/lib.rs: activate_api, activate, exit_api_mode_for_account;
\* claude_files.rs: capture_managed_env).
THEOREM UsersSettingsComeBack == Spec => []UserEnvComesBack
<1>1. PartsInv => UserEnvComesBack BY ApiGood DEF PartsInv, ClaudeInv, UserEnvComesBack
<1> QED BY <1>1, PartsKept, PTL

\* Nothing happens to the poll in the other scenes.
LEMMA PaceElsewhere == ASSUME scene # "usage", scene' = scene PROVE UNCHANGED Pace!paceVars
  BY DEF Pace!paceVars, Polled

\* Whatever processes start, stop or swap accounts, what they do together is a
\* behaviour of RequestPace: the record and its lock file keep the pace of
\* usage_poll.rs (reserved before the request, kept over kills).
THEOREM PollKeepsThePace == Spec => KeepsThePace
<1>1. Init => Pace!Init
  <2>1. CASE scene = "usage" BY <2>1, PaceInit DEF Init
  <2>2. CASE scene # "usage" BY <2>2 DEF Pace!Init, Polled
  <2> QED BY <2>1, <2>2
<1>2. PartsInv /\ [Next]_allVars => [Pace!Next]_(Pace!paceVars)
  <2> SUFFICES ASSUME PartsInv, [Next]_allVars PROVE [Pace!Next]_(Pace!paceVars) OBVIOUS
  <2>1. CASE scene = "usage" BY <2>1, Scenes, PaceStep DEF PartsInv, ClaudeInv
  <2>2. CASE scene # "usage" BY <2>2, Scenes, PaceElsewhere
  <2> QED BY <2>1, <2>2
<1> QED BY <1>1, <1>2, PartsKept, PTL DEF Spec, KeepsThePace, Pace!Spec

\* Antigravity's endpoints together give each quota that one of them gave, as the
\* first one said, and neither a throttled account nor one of OpenCode with an
\* accepted credential is reported as signed out (antigravity/src/quota.rs:
\* fetch_quota; opencode/src/lib.rs: query_console_quota).
THEOREM AnswersFit == Spec => []AnswerFits
<1>1. PartsInv => AnswerFits BY OcLiving DEF PartsInv, ClientsInv, AnswerInv, AnswerFits
<1> QED BY <1>1, PartsKept, PTL

\* The usage kept for a Claude account, and the one returned for a Codex account, were
\* asked for with a credential of that account, and so is the second query of a Kimi
\* account (claude/src/lib.rs: query_quota; codex/src/app_server.rs;
\* kimi/src/oauth.rs: recover_active_401_at).
THEOREM UsagesAreOurs == Spec => UsageIsOurs
<1>1. PartsInv => (scene = "kimi" => Ki!RetryIsOurs)
  BY DEF PartsInv, ClientsInv, KimiInv, Ki!RecoveriesKept, Ki!RecoveryFits, Ki!RetryIsOurs
<1>2. PartsInv => (scene = "codex" => Co!AnswerIsOurs)
  BY DEF PartsInv, ClientsInv, CodexInv, Co!AskersKept, Co!AskerFits, Co!AnswerIsOurs
<1>3. PartsInv => [scene = "usage" => Us!AnswerIsOurs]_allVars BY UsKeeps DEF PartsInv, ClaudeInv
<1> QED BY <1>1, <1>2, <1>3, PartsKept, PTL DEF UsageIsOurs

\* A credential of Cursor is stored under the account that it names, whatever
\* interleaves (cursor/src/lib.rs: capture_live_into_store, refresh_parked).
THEOREM TokensAreStoredAsNamed == Spec => [](scene = "cursor" => Cu!StoredAsNamed)
<1>1. PartsInv => (scene = "cursor" => Cu!StoredAsNamed)
  BY DEF PartsInv, ClientsInv, CursorInv, Cu!CommandsKept
<1> QED BY <1>1, PartsKept, PTL

\* A switch that ended well stays in effect: neither the end of Cursor's client nor a
\* later switch that fails brings another account back, and the account marked is the
\* one signed in; of Antigravity, until it is robbed of its sign-in; and what a command
\* for OpenCode says is so in its database (cursor/src/lib.rs: activate_desktop_blocking;
\* antigravity/src/lib.rs: activate; opencode/src/lib.rs: activate).
THEOREM SwitchesStay == Spec => []SwitchTakesEffect
<1>1. PartsInv => SwitchTakesEffect
  BY AgGood, CuGood DEF PartsInv, ClientsInv, OpencodeInv, SwitchTakesEffect
<1> QED BY <1>1, PartsKept, PTL

\* Whatever swaps, renewals and removals cross, an account keeps a refresh token
\* that the server accepts, stored or in the hands of who renewed it, unless two
\* wrote Claude Code's sign-in at once or two different tokens of it were in use
\* (claude/src/lib.rs: activate; active_refresh.rs: renew_blocking; refresh.rs).
THEOREM ClaudeTokenStays == Spec => [](scene = "swap" => Sw!TokenKept)
<1>1. PartsInv => (scene = "swap" => Sw!TokenKept) BY SwapTokenKept DEF PartsInv, ClaudeInv
<1> QED BY <1>1, PartsKept, PTL

\* The token of a Codex account that is used next is the one its server accepts,
\* but for the exceptions that CodexTokenKept names (codex/src/app_server.rs).
THEOREM CodexTokenStays == Spec => [](scene = "codex" => Co!CodexTokenKept)
<1>1. PartsInv => (scene = "codex" => Co!CodexTokenKept) BY DEF PartsInv, ClientsInv, CodexInv
<1> QED BY <1>1, PartsKept, PTL

\* A recovery of Kimi's live token loses none, beside native clients that recover it
\* too and swaps that know nothing of it, but for the exceptions that KimiTokenKept
\* names (kimi/src/oauth.rs: recover_active_401_at, write_credentials_and_release).
THEOREM KimiTokenStays == Spec => [](scene = "kimi" => Ki!KimiTokenKept)
<1>1. PartsInv => (scene = "kimi" => Ki!KimiTokenKept) BY DEF PartsInv, ClientsInv, KimiInv
<1> QED BY <1>1, PartsKept, PTL

\* The last sign-in of an account of Antigravity is agy's or copied, but for the
\* exceptions that SignInKept names (antigravity/src/lib.rs: activate,
\* capture_live_into_store, blob_for_account).
THEOREM NoSignInIsLost == Spec => [](scene = "google" => Ag!SignInKept)
<1>1. PartsInv => (scene = "google" => Ag!SignInKept) BY AgGood DEF PartsInv, ClientsInv
<1> QED BY <1>1, PartsKept, PTL

\* Wherever a start of subswap is killed while it moves the keys of OpenCode, and
\* whatever other starts move them too, each key is listed where its secret is
\* (opencode/src/lib.rs: migrate_legacy_api_keys).
THEOREM NoKeyIsLost == Spec => [](scene = "keys" => Ke!KeysKept)
<1>1. PartsInv => (scene = "keys" => Ke!KeysKept) BY DEF PartsInv, ClientsInv, KeysInv
<1> QED BY <1>1, PartsKept, PTL

\* The token of an account that is used next is the one its server accepts, whatever
\* switches, renewals, queries and removals cross beside clients that rotate tokens
\* themselves: of Claude Code, Cursor, Kimi and Codex, but for the exceptions that
\* each part names; Antigravity's last sign-in is agy's or copied, and OpenCode's
\* keys are listed where their secret is.
THEOREM TokensStay == Spec => []TokenKept
<1>1. PartsInv => TokenKept
  <2> SUFFICES ASSUME PartsInv PROVE TokenKept OBVIOUS
  <2>1. scene = "swap" => Sw!TokenKept BY SwapTokenKept DEF PartsInv, ClaudeInv
  <2>2. scene = "cursor" => Cu!CursorTokenKept BY CuTokenKept DEF PartsInv, ClientsInv, CursorInv
  <2>3. scene = "kimi" => Ki!KimiTokenKept BY DEF PartsInv, ClientsInv, KimiInv
  <2>4. scene = "codex" => Co!CodexTokenKept BY DEF PartsInv, ClientsInv, CodexInv
  <2>5. scene = "google" => Ag!SignInKept BY AgGood DEF PartsInv, ClientsInv
  <2>6. scene = "keys" => Ke!KeysKept BY DEF PartsInv, ClientsInv, KeysInv
  <2> QED BY <2>1, <2>2, <2>3, <2>4, <2>5, <2>6 DEF TokenKept
<1> QED BY <1>1, PartsKept, PTL
=============================================================================
