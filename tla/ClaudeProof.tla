----------------------------- MODULE ClaudeProof -----------------------------
(* What TLAPS proves about Claude Code's API mode, its sign-in and the poll   *)
(* of its usage, and about the counters of the requests, for any number of    *)
(* accounts and processes: invariants of each part, and what they imply.      *)
(* The n-th variable of each part is v_n here, as in ClaudeParts.             *)
EXTENDS ClaudeParts, Sequences, FiniteSetTheorems, WellFoundedInduction, TLAPS

-----------------------------------------------------------------------------
(* The API mode of Claude Code                                                *)

ApiInv == Api!ApiTypeOK /\ Api!TasksKept /\ Api!FilesKept

LEMMA ApiInit == Api!Init => ApiInv
<1> SUFFICES ASSUME Api!Init PROVE ApiInv OBVIOUS
<1> USE ApiConstants DEF Api!Init, Api!ClaudeApiAssumption, Api!NoTask, Api!NoBackup, Api!Unwritten
<1>1. v13 \in BOOLEAN OBVIOUS
<1>2. Api!ApiTypeOK
  BY <1>1 DEF Api!ApiTypeOK, Api!Env, Api!Sentinel, Api!Files, Api!Task, Api!ApiSteps
<1>3. Api!TasksKept BY DEF Api!TasksKept
<1>4. Api!FilesKept
  BY DEF Api!FilesKept, Api!WorkKept, Api!Tears, Api!WritesFiles, Api!ReadsFiles, Api!Restores,
      Api!Fits
<1> QED BY <1>2, <1>3, <1>4 DEF ApiInv

\* The records a command keeps.
LEMMA ApiRecords ==
    /\ Api!NoTask \in Api!Task /\ Api!Unwritten \in Api!Files /\ NoState \in Api!Sentinel
    /\ Api!NoBackup \in [env : Api!Env, sentinel : Api!Sentinel, mail : People \cup {NoOne}]
    /\ \A s \in Api!Sentinel : s # NoState =>
          s.account \in Api!Keys /\ s.email \in People \cup {NoOne} /\ s.restore \in Api!Env
    /\ \A a \in Api!Keys, m \in People \cup {NoOne}, e \in Api!Env :
          [account |-> a, email |-> m, restore |-> e] \in Api!Sentinel
    /\ \A s \in Api!Sentinel, a \in Api!Keys :
          s # NoState => [s EXCEPT !.account = a] \in Api!Sentinel
    /\ \A e \in Api!Env, s \in Api!Sentinel : [env |-> e, sentinel |-> s] \in Api!Files
    /\ \A x \in Api!Files, e \in Api!Env : [x EXCEPT !.env = e] \in Api!Files
    /\ \A x \in Api!Files, m \in People \cup {NoOne} : x.sentinel # NoState =>
          [x EXCEPT !.sentinel.email = m] \in Api!Files
    /\ \A e \in Api!Env, s \in Api!Sentinel, m \in People \cup {NoOne} :
          [env |-> e, sentinel |-> s, mail |-> m]
             \in [env : Api!Env, sentinel : Api!Sentinel, mail : People \cup {NoOne}]
    /\ \A x \in Api!Files : x.env \in Api!Env /\ x.sentinel \in Api!Sentinel
<1> USE ApiConstants DEF Api!ClaudeApiAssumption, Api!NoTask, Api!Task, Api!Unwritten, Api!Files,
        Api!Sentinel, Api!Env, Api!NoBackup
<1>1. /\ Api!NoTask \in Api!Task /\ Api!Unwritten \in Api!Files /\ NoState \in Api!Sentinel
      /\ Api!NoBackup \in [env : Api!Env, sentinel : Api!Sentinel, mail : People \cup {NoOne}]
  OBVIOUS
<1>2. \A s \in Api!Sentinel : s # NoState =>
          s.account \in Api!Keys /\ s.email \in People \cup {NoOne} /\ s.restore \in Api!Env
  OBVIOUS
<1>3. \A a \in Api!Keys, m \in People \cup {NoOne}, e \in Api!Env :
          [account |-> a, email |-> m, restore |-> e] \in Api!Sentinel
  OBVIOUS
<1>4. \A s \in Api!Sentinel, a \in Api!Keys :
          s # NoState => [s EXCEPT !.account = a] \in Api!Sentinel
  OBVIOUS
<1>5. \A e \in Api!Env, s \in Api!Sentinel : [env |-> e, sentinel |-> s] \in Api!Files
  OBVIOUS
<1>6. \A x \in Api!Files, e \in Api!Env : [x EXCEPT !.env = e] \in Api!Files
  OBVIOUS
<1>7. \A x \in Api!Files, m \in People \cup {NoOne} : x.sentinel # NoState =>
          [x EXCEPT !.sentinel.email = m] \in Api!Files
  OBVIOUS
<1>8. \A e \in Api!Env, s \in Api!Sentinel, m \in People \cup {NoOne} :
          [env |-> e, sentinel |-> s, mail |-> m]
             \in [env : Api!Env, sentinel : Api!Sentinel, mail : People \cup {NoOne}]
  OBVIOUS
<1>9. \A x \in Api!Files : x.env \in Api!Env /\ x.sentinel \in Api!Sentinel
  OBVIOUS
<1> QED BY <1>1, <1>2, <1>3, <1>4, <1>5, <1>6, <1>7, <1>8, <1>9

\* A sentinel that is written is one.
LEMMA ApiSentinels ==
    /\ \A a \in Api!Keys, m \in People \cup {NoOne}, e \in Api!Env :
          [account |-> a, email |-> m, restore |-> e] # NoState
    /\ \A s \in Api!Sentinel, a \in Api!Keys : s # NoState =>
          LET t == [s EXCEPT !.account = a]
          IN  t # NoState /\ t.account = a /\ t.restore = s.restore
    /\ \A x \in Api!Files, m \in People \cup {NoOne} : x.sentinel # NoState =>
          LET y == [x EXCEPT !.sentinel.email = m]
          IN  /\ y.env = x.env /\ y.sentinel # NoState
              /\ y.sentinel.account = x.sentinel.account /\ y.sentinel.restore = x.sentinel.restore
<1> USE ApiConstants DEF Api!ClaudeApiAssumption, Api!Files, Api!Sentinel, Api!Env
<1>1. \A a \in Api!Keys, m \in People \cup {NoOne}, e \in Api!Env :
          [account |-> a, email |-> m, restore |-> e] # NoState
  OBVIOUS
<1>2. ASSUME NEW s \in Api!Sentinel, NEW a \in Api!Keys, s # NoState
      PROVE  LET t == [s EXCEPT !.account = a]
             IN  t # NoState /\ t.account = a /\ t.restore = s.restore
  BY <1>2
<1>3. ASSUME NEW x \in Api!Files, NEW m \in People \cup {NoOne}, x.sentinel # NoState
      PROVE  LET y == [x EXCEPT !.sentinel.email = m]
             IN  /\ y.env = x.env /\ y.sentinel # NoState
                 /\ y.sentinel.account = x.sentinel.account
                 /\ y.sentinel.restore = x.sentinel.restore
  BY <1>3
<1> QED BY <1>1, <1>2, <1>3

LEMMA ApiTypes == ASSUME ApiInv, [Api!Next]_(Api!apiVars) PROVE Api!ApiTypeOK'
<1> DEFINE Live == /\ v1 \in Api!Env /\ v2 \in Api!Sentinel /\ v3 \in People \cup {NoOne}
                   /\ v4 \in Agents \cup {NoOne}
                   /\ v10 \in 0 .. MaxCommands /\ v11 \in 0 .. MaxSignIns /\ v12 \in 0 .. MaxFaults
           Mine == /\ v5 \in [Agents -> Api!ApiSteps] /\ v6 \in [Agents -> Api!Task]
                   /\ v7 \in [Agents -> Api!Sentinel] /\ v8 \in [Agents -> Api!Files]
                   /\ v9 \in [Agents -> [env : Api!Env, sentinel : Api!Sentinel,
                                         mail : People \cup {NoOne}]]
<1>1. v13' \in BOOLEAN
  BY DEF ApiInv, Api!ApiTypeOK, Api!apiVars, Api!Next, Api!Acts, Api!Command1, Api!Command, Api!To,
         Api!Done, Api!SignIn, Api!Killed, Api!ReadState, Api!ReadEnv, Api!ReadMail, Api!Locked,
         Api!SetIdent, Api!SetEnv, Api!SetSentinel, Api!Committed, Api!Fails, Api!UndoEnv,
         Api!UndoSentinel, Api!Compare, Api!FreeEnv, Api!FreeSentinel
<1>2. Live /\ Mine BY DEF ApiInv, Api!ApiTypeOK
<1>3. Api!TasksKept BY DEF ApiInv
<1> USE <1>2, <1>3, ApiConstants, ApiRecords DEF Api!ClaudeApiAssumption, Api!To, Api!Done,
        Api!local, Api!live, Api!limits, Api!ApiSteps
<1> HIDE DEF Live
<1>0. ASSUME NEW p \in Agents, Api!Done(p) PROVE Mine'
  <2>1. /\ v5' = [v5 EXCEPT ![p] = "Idle"] /\ v6' = [v6 EXCEPT ![p] = Api!NoTask]
        /\ v7' = [v7 EXCEPT ![p] = NoState] /\ v8' = [v8 EXCEPT ![p] = Api!Unwritten]
        /\ v9' = [v9 EXCEPT ![p] = Api!NoBackup]
    BY <1>0
  <2>2. v5' \in [Agents -> Api!ApiSteps] /\ v6' \in [Agents -> Api!Task] BY <2>1
  <2>3. v7' \in [Agents -> Api!Sentinel] /\ v8' \in [Agents -> Api!Files] BY <2>1
  <2>4. v9' \in [Agents -> [env : Api!Env, sentinel : Api!Sentinel, mail : People \cup {NoOne}]]
    BY <2>1
  <2> QED BY <2>2, <2>3, <2>4
<1> USE DEF Live
<1>4. ASSUME NEW p \in Agents, NEW k \in {"key", "oauth", "login", "rm"},
             NEW a \in Api!Keys \cup People \cup {NoOne}, Api!Command(p, k, a)
      PROVE  Live' /\ Mine'
  <2>1. [kind |-> k, account |-> a] \in Api!Task BY DEF Api!Task
  <2> QED BY <1>4, <2>1 DEF Api!Command
<1>5. ASSUME NEW p \in Agents, Api!ReadState(p) PROVE Live' /\ Mine'
  <2>1. Live' BY <1>5 DEF Api!ReadState, Api!Belongs
  <2>2. Mine'
    <3>1. v7' = [v7 EXCEPT ![p] = v2] \/ v7' = [v7 EXCEPT ![p] = NoState]
      BY <1>5 DEF Api!ReadState
    <3>2. \/ v6' = v6 /\ v9' = v9
          \/ v6' = [v6 EXCEPT ![p] = Api!NoTask] /\ v9' = [v9 EXCEPT ![p] = Api!NoBackup]
      BY <1>5 DEF Api!ReadState
    <3>3. \E s \in Api!ApiSteps : v5' = [v5 EXCEPT ![p] = s] BY <1>5 DEF Api!ReadState
    <3>4. v8' \in [Agents -> Api!Files]
      <4>1. CASE v8' = v8 \/ v8' = [v8 EXCEPT ![p] = Api!Unwritten] BY <4>1
      <4>2. CASE /\ v6[p].kind = "key" /\ v2 # NoState
                 /\ v8' = [v8 EXCEPT ![p] = [env |-> v6[p].account,
                                            sentinel |-> [v2 EXCEPT !.account = v6[p].account]]]
        <5>1. v6[p].account \in Api!Keys /\ v6[p].account \in Api!Env
          BY <4>2 DEF Api!TasksKept, Api!Env
        <5>2. [v2 EXCEPT !.account = v6[p].account] \in Api!Sentinel BY <4>2, <5>1
        <5> QED BY <4>2, <5>1, <5>2
      <4>3. CASE \E e \in Api!Env : v8' = [v8 EXCEPT ![p].env = e] BY <4>3
      <4>4. UserEnv \in Api!Env BY DEF Api!Env
      <4>5. \/ v8' = v8 \/ v8' = [v8 EXCEPT ![p] = Api!Unwritten]
            \/ /\ v6[p].kind = "key" /\ v2 # NoState
               /\ v8' = [v8 EXCEPT ![p] = [env |-> v6[p].account,
                                            sentinel |-> [v2 EXCEPT !.account = v6[p].account]]]
            \/ v8' = [v8 EXCEPT ![p].env = IF v2 = NoState THEN UserEnv ELSE v2.restore]
            \/ v2 # NoState /\ v8' = [v8 EXCEPT ![p].env = v2.restore]
        BY <1>5 DEF Api!ReadState
      <4> QED BY <4>1, <4>2, <4>3, <4>4, <4>5
    <3>5. v5' \in [Agents -> Api!ApiSteps] BY <3>3
    <3>6. v6' \in [Agents -> Api!Task]
      <4>1. CASE v6' = v6 BY <4>1
      <4>2. CASE v6' = [v6 EXCEPT ![p] = Api!NoTask] BY <4>2
      <4> QED BY <3>2, <4>1, <4>2
    <3>7. v9' \in [Agents -> [env : Api!Env, sentinel : Api!Sentinel, mail : People \cup {NoOne}]]
      BY <3>2
    <3>8. v7' \in [Agents -> Api!Sentinel] BY <3>1
    <3> QED BY <3>4, <3>5, <3>6, <3>7, <3>8
  <2> QED BY <2>1, <2>2
<1>6. ASSUME NEW p \in Agents, Api!ReadEnv(p) PROVE Live' /\ Mine'
  <2>1. Live' BY <1>6 DEF Api!ReadEnv
  <2>2. Mine'
    <3>1. v6[p].account \in Api!Keys /\ v6[p].account \in Api!Env
      BY <1>6 DEF Api!ReadEnv, Api!TasksKept, Api!Env
    <3>2. [account |-> v6[p].account, email |-> NoOne, restore |-> v1] \in Api!Sentinel BY <3>1
    <3> QED BY <1>6, <3>1, <3>2 DEF Api!ReadEnv
  <2> QED BY <2>1, <2>2
<1>7. ASSUME NEW p \in Agents, Api!ReadMail(p) PROVE Live' /\ Mine'
  <2>1. Live' BY <1>7 DEF Api!ReadMail
  <2>2. Mine' BY <1>7 DEF Api!ReadMail, Api!TasksKept
  <2> QED BY <2>1, <2>2
<1>8. ASSUME NEW p \in Agents, Api!Locked(p) PROVE Live' /\ Mine'
  <2>1. Live' BY <1>8 DEF Api!Locked
  <2>2. Mine' BY <1>8 DEF Api!Locked, Api!TasksKept
  <2> QED BY <2>1, <2>2
<1>9. ASSUME NEW p \in Agents, Api!SetIdent(p) PROVE Live' /\ Mine'
  <2>1. Live' BY <1>9 DEF Api!SetIdent, Api!TasksKept
  <2>2. Mine' BY <1>9 DEF Api!SetIdent, Api!TasksKept
  <2> QED BY <2>1, <2>2
<1>10. ASSUME NEW p \in Agents, Api!SetEnv(p) PROVE Live' /\ Mine'
  <2>1. Live' BY <1>10 DEF Api!SetEnv
  <2>2. Mine' BY <1>10 DEF Api!SetEnv, Api!TasksKept
  <2> QED BY <2>1, <2>2
<1>11. ASSUME NEW p \in Agents, Api!SetSentinel(p) PROVE Live' /\ Mine'
  <2>1. Live' BY <1>11 DEF Api!SetSentinel
  <2>2. Mine' BY <1>11 DEF Api!SetSentinel, Api!TasksKept
  <2> QED BY <2>1, <2>2
<1>12. ASSUME NEW p \in Agents, Api!Committed(p) PROVE Live' /\ Mine'
  <2>1. Live' BY <1>12 DEF Api!Committed
  <2>2. Mine' BY <1>12 DEF Api!Committed, Api!TasksKept
  <2> QED BY <2>1, <2>2
<1>13. ASSUME NEW p \in Agents, Api!Fails(p) PROVE Live' /\ Mine'
  <2>1. Live' BY <1>13 DEF Api!Fails
  <2>2. Mine'
    <3>1. CASE v6[p].kind = "oauth" /\ v7[p] = NoState
      <4>1. Api!Done(p) BY <1>13, <3>1 DEF Api!Fails
      <4> QED BY <1>0, <4>1
    <3>2. CASE ~(v6[p].kind = "oauth" /\ v7[p] = NoState)
      <4>1. v5' = [v5 EXCEPT ![p] = "UndoSettings"] /\ UNCHANGED <<v6, v7, v8, v9>>
        BY <1>13, <3>2 DEF Api!Fails
      <4> QED BY <4>1
    <3> QED BY <3>1, <3>2
  <2> QED BY <2>1, <2>2
<1>14. ASSUME NEW p \in Agents, Api!UndoEnv(p) PROVE Live' /\ Mine'
  <2>1. Live' BY <1>14 DEF Api!UndoEnv
  <2>2. Mine' BY <1>14 DEF Api!UndoEnv, Api!TasksKept
  <2> QED BY <2>1, <2>2
<1>15. ASSUME NEW p \in Agents, Api!UndoSentinel(p) PROVE Live' /\ Mine'
  <2>1. Live' BY <1>15 DEF Api!UndoSentinel
  <2>2. Mine' BY <1>15 DEF Api!UndoSentinel, Api!TasksKept
  <2> QED BY <2>1, <2>2
<1>16. ASSUME NEW p \in Agents, Api!Compare(p) PROVE Live' /\ Mine'
  <2>1. Live' BY <1>16 DEF Api!Compare
  <2>2. Mine'
    <3>1. CASE v3 \in {NoOne, v7[p].email}
      <4>1. Api!Done(p) BY <1>16, <3>1 DEF Api!Compare
      <4> QED BY <1>0, <4>1
    <3>2. CASE v3 \notin {NoOne, v7[p].email}
      <4>1. /\ v8' = [v8 EXCEPT ![p].env = v7[p].restore] /\ UNCHANGED <<v6, v7, v9>>
            /\ v5' = [v5 EXCEPT ![p] = "FreeSettings"]
        BY <1>16, <3>2 DEF Api!Compare
      <4>2. v7[p].restore \in Api!Env BY <1>16 DEF Api!Compare, Api!TasksKept
      <4> QED BY <4>1, <4>2
    <3> QED BY <3>1, <3>2
  <2> QED BY <2>1, <2>2
<1>17. ASSUME NEW p \in Agents, Api!FreeEnv(p) PROVE Live' /\ Mine'
  <2>1. Live' BY <1>17 DEF Api!FreeEnv
  <2>2. Mine' BY <1>17 DEF Api!FreeEnv, Api!TasksKept
  <2> QED BY <2>1, <2>2
<1>18. ASSUME NEW p \in Agents, Api!FreeSentinel(p) PROVE Live' /\ Mine'
  <2>1. Live' BY <1>18 DEF Api!FreeSentinel
  <2>2. Mine' BY <1>18 DEF Api!FreeSentinel, Api!TasksKept
  <2> QED BY <2>1, <2>2
<1>19. ASSUME NEW p \in Agents, Api!Killed(p) PROVE Live' /\ Mine'
  <2>1. Live' BY <1>19 DEF Api!Killed
  <2>2. Mine' BY <1>19 DEF Api!Killed, Api!TasksKept
  <2> QED BY <2>1, <2>2
<1>20. ASSUME NEW a \in People \cup {NoOne}, Api!SignIn(a) PROVE Live' /\ Mine'
  BY <1>20 DEF Api!SignIn
<1>21. ASSUME UNCHANGED Api!apiVars PROVE Live' /\ Mine' BY <1>21 DEF Api!apiVars
<1>22. Live' /\ Mine'
  BY <1>4, <1>5, <1>6, <1>7, <1>8, <1>9, <1>10, <1>11, <1>12, <1>13, <1>14, <1>15, <1>16, <1>17,
      <1>18, <1>19, <1>20, <1>21 DEF Api!Next, Api!Acts, Api!Command1
<1> QED BY <1>1, <1>22 DEF Api!ApiTypeOK

LEMMA ApiTasks == ASSUME ApiInv, [Api!Next]_(Api!apiVars) PROVE Api!TasksKept'
<1> USE ApiConstants DEF ApiInv, Api!ApiTypeOK, Api!TasksKept, Api!ClaudeApiAssumption, Api!To,
        Api!Done, Api!local, Api!live, Api!limits, Api!NoTask, Api!ApiSteps
<1>1. ASSUME NEW p \in Agents, NEW a \in Api!Keys, NEW k \in {"key", "rm"}, Api!Command(p, k, a)
      PROVE  Api!TasksKept'
  BY <1>1 DEF Api!Command
<1>2. ASSUME NEW p \in Agents, NEW a \in People, Api!Command(p, "oauth", a) PROVE Api!TasksKept'
  BY <1>2 DEF Api!Command
<1>3. ASSUME NEW p \in Agents, Api!Command(p, "login", NoOne) PROVE Api!TasksKept'
  BY <1>3 DEF Api!Command
<1>4. ASSUME NEW p \in Agents, Api!ReadState(p) PROVE Api!TasksKept'
  <2>1. \A q \in Agents : q # p =>
            v5'[q] = v5[q] /\ v6'[q] = v6[q] /\ v7'[q] = v7[q] /\ v8'[q] = v8[q]
    BY <1>4 DEF Api!ReadState
  <2>2. CASE Api!Done(p)
    <3>1. v5'[p] = "Idle" /\ v6'[p] = Api!NoTask /\ v8'[p] = Api!Unwritten BY <2>2
    <3> QED BY <2>1, <3>1
  <2>3. CASE ~Api!Done(p)
    <3>1. v6' = v6 /\ v7'[p] = v2 BY <1>4, <2>3 DEF Api!ReadState
    <3>2. CASE v6[p].kind = "key" /\ v2 = NoState BY <1>4, <2>1, <2>3, <3>1, <3>2 DEF Api!ReadState
    <3>3. CASE v6[p].kind = "key" /\ v2 # NoState
      <4>1. /\ v5'[p] = "Mail"
            /\ v8'[p] = [env |-> v6[p].account,
                        sentinel |-> [v2 EXCEPT !.account = v6[p].account]]
        BY <1>4, <2>3, <3>3 DEF Api!ReadState
      <4>2. v8'[p].sentinel # NoState BY <3>3, <4>1, ApiSentinels
      <4> QED BY <2>1, <3>1, <3>3, <4>1, <4>2
    <3>4. CASE v6[p].kind = "oauth" BY <1>4, <2>1, <2>3, <3>1, <3>4 DEF Api!ReadState
    <3>5. CASE v6[p].kind = "login"
      <4>1. v5'[p] = "Compare" /\ v8' = v8 /\ v2 # NoState
        BY <1>4, <2>3, <3>5 DEF Api!ReadState, Api!Belongs
      <4> QED BY <1>4, <2>1, <3>1, <3>5, <4>1 DEF Api!ReadState
    <3>6. CASE v6[p].kind = "rm"
      <4>1. v5'[p] \in {"Lock", "FreeSettings"} BY <1>4, <2>3, <3>6 DEF Api!ReadState
      <4> QED BY <2>1, <3>1, <3>6, <4>1
    <3> QED BY <3>2, <3>3, <3>4, <3>5, <3>6 DEF Api!Task
  <2> QED BY <2>2, <2>3
<1>5. ASSUME NEW p \in Agents, Api!ReadEnv(p) PROVE Api!TasksKept'
  <2>1. v8'[p].sentinel = [account |-> v6[p].account, email |-> NoOne, restore |-> v1]
    BY <1>5 DEF Api!ReadEnv
  <2>2. v8'[p].sentinel # NoState BY <1>5, <2>1, ApiSentinels DEF Api!ReadEnv
  <2> QED BY <1>5, <2>2 DEF Api!ReadEnv
<1>6. ASSUME NEW p \in Agents, Api!ReadMail(p) PROVE Api!TasksKept'
  BY <1>6 DEF Api!ReadMail
<1>7. ASSUME NEW p \in Agents, Api!Locked(p) PROVE Api!TasksKept'
  BY <1>7 DEF Api!Locked
<1>8. ASSUME NEW p \in Agents, Api!SetIdent(p) PROVE Api!TasksKept'
  BY <1>8 DEF Api!SetIdent
<1>9. ASSUME NEW p \in Agents, Api!SetEnv(p) PROVE Api!TasksKept'
  BY <1>9 DEF Api!SetEnv
<1>10. ASSUME NEW p \in Agents, Api!SetSentinel(p) PROVE Api!TasksKept'
  BY <1>10 DEF Api!SetSentinel
<1>11. ASSUME NEW p \in Agents, Api!Committed(p) PROVE Api!TasksKept'
  BY <1>11 DEF Api!Committed
<1>12. ASSUME NEW p \in Agents, Api!Fails(p) PROVE Api!TasksKept'
  BY <1>12 DEF Api!Fails
<1>13. ASSUME NEW p \in Agents, Api!UndoEnv(p) PROVE Api!TasksKept'
  BY <1>13 DEF Api!UndoEnv
<1>14. ASSUME NEW p \in Agents, Api!UndoSentinel(p) PROVE Api!TasksKept'
  BY <1>14 DEF Api!UndoSentinel
<1>15. ASSUME NEW p \in Agents, Api!Compare(p) PROVE Api!TasksKept'
  BY <1>15 DEF Api!Compare
<1>16. ASSUME NEW p \in Agents, Api!FreeEnv(p) PROVE Api!TasksKept'
  BY <1>16 DEF Api!FreeEnv
<1>17. ASSUME NEW p \in Agents, Api!FreeSentinel(p) PROVE Api!TasksKept'
  BY <1>17 DEF Api!FreeSentinel
<1>18. ASSUME NEW p \in Agents, Api!Killed(p) PROVE Api!TasksKept'
  BY <1>18 DEF Api!Killed
<1>19. ASSUME NEW a \in People \cup {NoOne}, Api!SignIn(a) PROVE Api!TasksKept'
    BY <1>19 DEF Api!SignIn
<1>20. CASE UNCHANGED Api!apiVars BY <1>20 DEF Api!apiVars
<1> QED
  BY <1>1, <1>2, <1>3, <1>4, <1>5, <1>6, <1>7, <1>8, <1>9, <1>10, <1>11, <1>12, <1>13, <1>14,
      <1>15, <1>16, <1>17, <1>18, <1>19, <1>20 DEF Api!Next, Api!Acts, Api!Command1

LEMMA ApiFiles == ASSUME ApiInv, [Api!Next]_(Api!apiVars) PROVE Api!FilesKept'
<1>1. v13' \/ (~v13 /\ ~Api!Tears')
  <2>1. CASE UNCHANGED <<v5, v13>>
    BY <2>1 DEF ApiInv, Api!FilesKept, Api!Tears, Api!WritesFiles, Api!ReadsFiles
  <2>2. ASSUME NEW p \in Agents, Api!Killed(p) PROVE v13' \/ (~v13 /\ ~Api!Tears')
    <3>1. \A q \in Agents : v5'[q] = v5[q] \/ v5'[q] = "Idle"
      BY <2>2 DEF Api!Killed, ApiInv, Api!ApiTypeOK
    <3>2. v13' \/ ~v13 BY <2>2 DEF Api!Killed
    <3> QED BY <3>1, <3>2 DEF ApiInv, Api!FilesKept, Api!Tears, Api!WritesFiles, Api!ReadsFiles
  <2>3. ASSUME NEW p \in Agents, NEW s, Api!To(p, s) PROVE v13' \/ (~v13 /\ ~Api!Tears')
    BY <2>3 DEF Api!To
  <2> QED
    BY <2>1, <2>2, <2>3 DEF Api!Next, Api!Acts, Api!Command1, Api!Command, Api!ReadState,
       Api!ReadEnv, Api!ReadMail, Api!Locked, Api!SetIdent, Api!SetEnv, Api!SetSentinel,
       Api!Committed, Api!Fails, Api!UndoEnv, Api!UndoSentinel, Api!Compare, Api!FreeEnv,
       Api!FreeSentinel, Api!SignIn, Api!Done, Api!apiVars
<1>2. SUFFICES ASSUME ~v13' PROVE Api!FilesKept'
  BY DEF Api!FilesKept
<1>3. /\ ~v13 /\ ~Api!Tears'
      /\ \A q, r \in Agents : q # r
             => ~(Api!WritesFiles(q)' /\ (Api!WritesFiles(r)' \/ Api!ReadsFiles(r)'))
  BY <1>1, <1>2 DEF Api!Tears
<1> USE <1>3, ApiConstants DEF ApiInv, Api!ApiTypeOK, Api!TasksKept, Api!FilesKept,
        Api!WorkKept, Api!ClaudeApiAssumption, Api!local, Api!live, Api!limits, Api!ApiSteps,
            Api!Fits,
        Api!Restores, Api!WritesFiles, Api!ReadsFiles, Api!Unwritten
<1>4. ASSUME NEW p \in Agents, NEW k, NEW a, Api!Command(p, k, a) PROVE Api!FilesKept'
  <2>1. v5[p] = "Idle" /\ v5' = [v5 EXCEPT ![p] = "State"] /\ UNCHANGED <<v1, v2, v7, v8, v9>>
    BY <1>4 DEF Api!Command, Api!To
  <2> QED BY <2>1
<1>5. ASSUME NEW p \in Agents, Api!ReadState(p) PROVE Api!FilesKept'
  <2>1. /\ v1' = v1 /\ v2' = v2 /\ v5[p] = "State" /\ v8[p] = Api!Unwritten
        /\ \A q \in Agents : q # p =>
              v5'[q] = v5[q] /\ v7'[q] = v7[q] /\ v8'[q] = v8[q] /\ v9'[q] = v9[q]
    BY <1>5 DEF Api!ReadState, Api!To, Api!Done
  <2>2. v7'[p] = v2 \/ v7'[p] = NoState BY <1>5 DEF Api!ReadState, Api!To, Api!Done
  <2>3. \A q \in Agents : q # p => Api!WorkKept(q)' BY <2>1
  <2>4. CASE v5'[p] = "Idle" BY <2>1, <2>2, <2>4
  <2>5. CASE v5'[p] = "Env"
    <3>1. v2 = NoState BY <1>5, <2>5 DEF Api!ReadState, Api!To, Api!Done
    <3>2. \A q \in Agents : ~Api!WritesFiles(q)' BY <1>3, <2>5
    <3>3. Api!Fits(v1, v2) BY <2>1, <2>5, <3>2
    <3> QED BY <2>1, <2>2, <2>5, <3>1, <3>3
  <2>6. CASE v5'[p] = "Mail"
    <3>1. /\ v2 # NoState /\ v6[p].account \in Api!Keys
          /\ v8'[p] = [env |-> v6[p].account, sentinel |-> [v2 EXCEPT !.account = v6[p].account]]
      BY <1>5, <2>6 DEF Api!ReadState, Api!To, Api!Done
    <3> DEFINE t == [v2 EXCEPT !.account = v6[p].account]
    <3>2. t # NoState /\ t.account = v6[p].account /\ t.restore = v2.restore
      BY <3>1, ApiSentinels
    <3>3. v8'[p].env = v6[p].account /\ v8'[p].sentinel = t BY <3>1
    <3> HIDE DEF t
    <3>4. Api!Fits(v8'[p].env, v8'[p].sentinel) BY <3>1, <3>2, <3>3
    <3>5. Api!WorkKept(p)' BY <2>1, <2>2, <2>6, <3>4
    <3> QED BY <2>1, <2>3, <3>5
  <2>7. CASE v5'[p] = "Lock" \/ v5'[p] = "FreeSettings"
    <3>1. v8'[p].env = UserEnv /\ v8'[p].sentinel = NoState
      BY <1>5, <2>1, <2>7 DEF Api!ReadState, Api!To, Api!Done
    <3>2. Api!WorkKept(p)' BY <2>1, <2>2, <2>7, <3>1
    <3> QED BY <2>1, <2>3, <3>2
  <2>8. CASE v5'[p] = "Compare" BY <2>1, <2>2, <2>8
  <2> QED
    BY <1>5, <2>4, <2>5, <2>6, <2>7, <2>8 DEF Api!ReadState, Api!To, Api!Done
<1>6. ASSUME NEW p \in Agents, Api!ReadEnv(p) PROVE Api!FilesKept'
  BY <1>6 DEF Api!ReadEnv, Api!To, Api!Done
<1>7. ASSUME NEW p \in Agents, Api!ReadMail(p) PROVE Api!FilesKept'
  <2>1. /\ v1' = v1 /\ v2' = v2 /\ v7' = v7 /\ v9' = v9 /\ v5[p] = "Mail"
        /\ v5' = [v5 EXCEPT ![p] = "Lock"] /\ v8[p].sentinel # NoState
        /\ \A q \in Agents : q # p => v8'[q] = v8[q]
    BY <1>7 DEF Api!ReadMail, Api!To
  <2>2. PICK m \in People \cup {NoOne} : v8'[p] = [v8[p] EXCEPT !.sentinel.email = m]
    <3>1. v8'[p] = [v8[p] EXCEPT !.sentinel.email = IF @ = NoOne THEN v3 ELSE @]
      BY <1>7 DEF Api!ReadMail
    <3>2. v8[p].sentinel.email \in People \cup {NoOne} BY <2>1, ApiRecords
    <3> QED BY <3>1, <3>2
  <2>3. Api!Fits(v8'[p].env, v8'[p].sentinel) BY <2>1, <2>2, ApiSentinels
  <2> QED BY <2>1, <2>3
<1>8. ASSUME NEW p \in Agents, Api!Locked(p) PROVE Api!FilesKept'
  BY <1>8 DEF Api!Locked, Api!To, Api!Done
<1>9. ASSUME NEW p \in Agents, Api!SetIdent(p) PROVE Api!FilesKept'
  BY <1>9 DEF Api!SetIdent, Api!To, Api!Done
<1>10. ASSUME NEW p \in Agents, Api!SetEnv(p) PROVE Api!FilesKept'
  BY <1>10 DEF Api!SetEnv, Api!To, Api!Done
<1>11. ASSUME NEW p \in Agents, Api!SetSentinel(p) PROVE Api!FilesKept'
  BY <1>11 DEF Api!SetSentinel, Api!To, Api!Done
<1>12. ASSUME NEW p \in Agents, Api!Committed(p) PROVE Api!FilesKept'
  BY <1>12 DEF Api!Committed, Api!To, Api!Done
<1>13. ASSUME NEW p \in Agents, Api!Fails(p) PROVE Api!FilesKept'
  BY <1>13 DEF Api!Fails, Api!To, Api!Done
<1>14. ASSUME NEW p \in Agents, Api!UndoEnv(p) PROVE Api!FilesKept'
  BY <1>14 DEF Api!UndoEnv, Api!To, Api!Done
<1>15. ASSUME NEW p \in Agents, Api!UndoSentinel(p) PROVE Api!FilesKept'
  <2>1. /\ v1' = v1 /\ v2' = v9[p].sentinel /\ v5[p] = "UndoSentinel" /\ v5'[p] = "Idle"
        /\ v7'[p] = NoState
        /\ \A q \in Agents : q # p =>
              v5'[q] = v5[q] /\ v7'[q] = v7[q] /\ v8'[q] = v8[q] /\ v9'[q] = v9[q]
    BY <1>15 DEF Api!UndoSentinel, Api!To, Api!Done
  <2>2. Api!Fits(v1', v2') BY <2>1
  <2>3. \A q \in Agents : q # p => ~Api!WritesFiles(q) /\ ~Api!ReadsFiles(q)
    BY <2>1 DEF Api!Tears
  <2> QED BY <2>1, <2>2, <2>3
<1>16. ASSUME NEW p \in Agents, Api!Compare(p) PROVE Api!FilesKept'
  BY <1>16 DEF Api!Compare, Api!To, Api!Done
<1>17. ASSUME NEW p \in Agents, Api!FreeEnv(p) PROVE Api!FilesKept'
  BY <1>17 DEF Api!FreeEnv, Api!To, Api!Done
<1>18. ASSUME NEW p \in Agents, Api!FreeSentinel(p) PROVE Api!FilesKept'
  BY <1>18 DEF Api!FreeSentinel, Api!To, Api!Done
<1>19. ASSUME NEW p \in Agents, Api!Killed(p) PROVE Api!FilesKept'
  BY <1>19 DEF Api!Killed, Api!To, Api!Done
<1>20. ASSUME NEW a \in People \cup {NoOne}, Api!SignIn(a) PROVE Api!FilesKept'
    BY <1>20 DEF Api!SignIn
<1>21. CASE UNCHANGED Api!apiVars BY <1>21 DEF Api!apiVars
<1> QED
  BY <1>4, <1>5, <1>6, <1>7, <1>8, <1>9, <1>10, <1>11, <1>12, <1>13, <1>14, <1>15, <1>16, <1>17,
      <1>18, <1>19, <1>20, <1>21 DEF Api!Next, Api!Acts, Api!Command1

LEMMA ApiGood == ApiInv => Api!UserEnvComesBack
  BY DEF ApiInv, Api!FilesKept, Api!UserEnvComesBack, Api!Fits, Api!Restores, Api!WritesFiles

-----------------------------------------------------------------------------
(* The sign-in of Claude Code                                                 *)

SwapInv == Sw!SwapTypeOK /\ Sw!JobsKept /\ Sw!SignInKept

\* Secrets, and what rotating them makes of them.
LEMMA SwapSecrets ==
    /\ NoSecret \notin Sw!Secret
    /\ NoSecret \in Sw!MaybeSecret
    /\ Sw!Secret \subseteq Sw!MaybeSecret
    /\ NoOne \notin People /\ NoOne \notin Agents /\ NoOne \in Sw!Somebody
    /\ People \subseteq Sw!Somebody
    /\ \A s \in Sw!MaybeSecret : s # NoSecret => s \in Sw!Secret
    /\ \A s \in Sw!Secret : s.of \in People /\ s.gen \in Sw!Generation
    /\ \A s \in Sw!Secret, g \in Sw!Generation :
          [s EXCEPT !.gen = g] \in Sw!Secret /\ [s EXCEPT !.gen = g].of = s.of
    /\ \A a \in People, g \in Sw!Generation :
          [of |-> a, gen |-> g] \in Sw!Secret /\ [of |-> a, gen |-> g].of = a
    /\ 0 \in Sw!Generation /\ \A g \in Sw!Generation : g < MaxGeneration => g + 1 \in Sw!Generation
<1> USE SwapConstants DEF Sw!ClaudeSwapAssumption, Sw!Secret, Sw!MaybeSecret, Sw!Somebody,
        Sw!Generation
<1>1. /\ NoSecret \notin Sw!Secret
      /\ NoSecret \in Sw!MaybeSecret
      /\ Sw!Secret \subseteq Sw!MaybeSecret
      /\ NoOne \notin People /\ NoOne \notin Agents /\ NoOne \in Sw!Somebody
      /\ People \subseteq Sw!Somebody
      /\ \A s \in Sw!MaybeSecret : s # NoSecret => s \in Sw!Secret
  OBVIOUS
<1>2. /\ \A s \in Sw!Secret : s.of \in People /\ s.gen \in Sw!Generation
      /\ \A s \in Sw!Secret, g \in Sw!Generation :
            [s EXCEPT !.gen = g] \in Sw!Secret /\ [s EXCEPT !.gen = g].of = s.of
  OBVIOUS
<1>3. \A a \in People, g \in Sw!Generation :
          [of |-> a, gen |-> g] \in Sw!Secret /\ [of |-> a, gen |-> g].of = a
  OBVIOUS
<1>4. 0 \in Sw!Generation /\ \A g \in Sw!Generation : g < MaxGeneration => g + 1 \in Sw!Generation
  OBVIOUS
<1> QED BY <1>1, <1>2, <1>3, <1>4

LEMMA SwapInit == Sw!Init => SwapInv
<1> SUFFICES ASSUME Sw!Init PROVE SwapInv OBVIOUS
<1>1. v1 \in BOOLEAN /\ v21 \in BOOLEAN /\ v22 \subseteq People
  BY SwapConstants DEF Sw!Init, Sw!ClaudeSwapAssumption
<1> DEFINE first(a) == [of |-> a, gen |-> 1]
<1>2. 1 \in Sw!Generation BY SwapConstants DEF Sw!ClaudeSwapAssumption, Sw!Generation
<1>3. \A a \in People : first(a) \in Sw!MaybeSecret /\ first(a) # NoSecret /\ first(a).of = a
  <2>1. \A a \in People, g \in Sw!Generation :
            [of |-> a, gen |-> g] \in Sw!Secret /\ [of |-> a, gen |-> g].of = a
    BY SwapSecrets
  <2>2. \A a \in People : first(a) \in Sw!Secret /\ first(a).of = a BY <1>2, <2>1
  <2> HIDE DEF first
  <2> QED BY <2>2, SwapSecrets
<1>4. PICK a \in People : v4 = first(a) /\ v5 = a BY DEF Sw!Init
<1>5. v6 = [b \in People |-> first(b)] BY DEF Sw!Init
<1> HIDE DEF first
<1> USE <1>1, <1>2, <1>3, <1>4, <1>5, SwapSecrets DEF Sw!Init
<1>6. Sw!SwapTypeOK
  BY SwapConstants DEF Sw!SwapTypeOK, Sw!SwapSteps, Sw!JobKinds, Sw!ClaudeSwapAssumption
<1>7. Sw!JobsKept BY DEF Sw!JobsKept
<1>8. Sw!SignInKept
  BY DEF Sw!SignInKept, Sw!Crossing, Sw!Writing, Sw!Reading, Sw!OwnersKept, Sw!HalfWritten, Sw!Of
<1> QED BY <1>6, <1>7, <1>8 DEF SwapInv

LEMMA SwapRenewed ==
    ASSUME Sw!SwapTypeOK, NEW s \in Sw!Secret, Sw!Rotate(s)
    PROVE  Sw!Renewed(s) \in Sw!Secret /\ Sw!Renewed(s).of = s.of
<1>1. s.of \in People /\ v3[s.of] + 1 \in Sw!Generation
  BY SwapSecrets DEF Sw!Rotate, Sw!SwapTypeOK
<1> QED BY <1>1, SwapSecrets DEF Sw!Renewed

LEMMA SwapTypes == ASSUME SwapInv, [Sw!Next]_(Sw!swapVars) PROVE Sw!SwapTypeOK'
<1> DEFINE Server == /\ v2 \in [People -> SUBSET Sw!Generation] /\ v3 \in [People -> Sw!Generation]
           Live == /\ v4 \in Sw!MaybeSecret /\ v5 \in Sw!Somebody /\ v17 \in Sw!Somebody
                   /\ v6 \in [People -> Sw!MaybeSecret]
           Locks == /\ v7 \in Agents \cup {NoOne} /\ v8 \in Agents \cup {NoOne}
                    /\ v9 \in [People -> Agents \cup {NoOne}]
           Steps == /\ v10 \in [Agents -> Sw!SwapSteps]
                    /\ v11 \in [Agents -> Sw!JobKinds \cup {"none"}]
                    /\ v12 \in [Agents -> Sw!Somebody]
           Hands == /\ v13 \in [Agents -> Sw!MaybeSecret] /\ v14 \in [Agents -> Sw!MaybeSecret]
                    /\ v15 \in [Agents -> Sw!MaybeSecret] /\ v16 \in [Agents -> Sw!Somebody]
           Flags == v1 \in BOOLEAN /\ v21 \in BOOLEAN /\ v22 \subseteq People
           Bounds == v18 \in 0 .. MaxJobs /\ v19 \in 0 .. MaxLogins /\ v20 \in 0 .. MaxBreaks
<1>2. Server /\ Live /\ Locks /\ Steps /\ Hands /\ Bounds /\ Flags
  BY DEF SwapInv, Sw!SwapTypeOK
<1>3. Sw!JobsKept BY DEF SwapInv
<1> USE <1>2, SwapSecrets DEF Sw!locks, Sw!mine, Sw!server, Sw!files, Sw!bounds, Sw!Goto
<1>4. ASSUME NEW p \in Agents, Sw!End(p) PROVE Locks' /\ Steps' /\ Hands'
  <2>1. Locks' BY <1>4 DEF Sw!End
  <2>2. Steps' BY <1>4 DEF Sw!End, Sw!SwapSteps
  <2>3. Hands' BY <1>4 DEF Sw!End
  <2> QED BY <2>1, <2>2, <2>3
<1>5. ASSUME NEW s \in Sw!Secret, Sw!Rotate(s)
      PROVE  Server' /\ Sw!Renewed(s) \in Sw!Secret /\ Sw!Renewed(s).of = s.of
  <2>1. s.of \in People /\ v3[s.of] + 1 \in Sw!Generation BY <1>5 DEF Sw!Rotate
  <2>2. Sw!Renewed(s) \in Sw!Secret /\ Sw!Renewed(s).of = s.of BY <1>5, SwapRenewed DEF SwapInv
  <2> QED BY <1>5, <2>1, <2>2 DEF Sw!Rotate
<1>6. ASSUME NEW S \in SUBSET People, Sw!Note(S) PROVE v21' \in BOOLEAN /\ v22' \subseteq People
  <2>1. v21' \in BOOLEAN BY <1>6 DEF Sw!Note
  <2> QED BY <1>6, <2>1 DEF Sw!Note
<1> DEFINE Typed == Server /\ Live /\ Locks /\ Steps /\ Hands /\ Bounds /\ Flags
<1>7. ASSUME NEW p \in Agents, NEW j \in Sw!JobKinds, NEW a \in Sw!Somebody, NEW s \in Sw!SwapSteps,
             NEW h \in Sw!MaybeSecret, Sw!Begin(p, j, a, s, h)
      PROVE  Typed'
  <2>1. Sw!Note({}) BY <1>7 DEF Sw!Begin
  <2>2. Flags' BY <1>6, <1>7, <2>1 DEF Sw!Begin
  <2>3. Server' /\ Live' /\ Locks' BY <1>7 DEF Sw!Begin
  <2>4. Steps' BY <1>7 DEF Sw!Begin
  <2>5. Hands' BY <1>7 DEF Sw!Begin
  <2>6. Bounds' BY <1>7, SwapConstants DEF Sw!Begin, Sw!ClaudeSwapAssumption
  <2> QED BY <2>2, <2>3, <2>4, <2>5, <2>6
<1>8. ASSUME NEW p \in Agents, Sw!PreRefresh(p) PROVE Typed'
  <2>1. Server' BY <1>5, <1>8 DEF Sw!PreRefresh, Sw!Accepted
  <2>2. Live' BY <1>8 DEF Sw!PreRefresh
  <2>3. Locks' BY <1>8 DEF Sw!PreRefresh
  <2>4. Steps' BY <1>8 DEF Sw!PreRefresh, Sw!SwapSteps
  <2>5. Hands' BY <1>5, <1>8 DEF Sw!PreRefresh, Sw!Accepted
  <2>6. Flags'
    <3>1. \E S \in SUBSET People : Sw!Note(S) BY <1>3, <1>8 DEF Sw!PreRefresh
    <3>2. v1' = v1 BY <1>8 DEF Sw!PreRefresh
    <3> QED BY <1>6, <3>1, <3>2
  <2>7. Bounds' BY <1>8 DEF Sw!PreRefresh
  <2> QED BY <2>1, <2>2, <2>3, <2>4, <2>5, <2>6, <2>7
<1>9. ASSUME NEW p \in Agents, Sw!SaveFresh(p) PROVE Typed'
  <2>1. Server' BY <1>9 DEF Sw!SaveFresh
  <2>2. Live' BY <1>9 DEF Sw!SaveFresh
  <2>3. Locks' BY <1>9 DEF Sw!SaveFresh
  <2>4. Steps' BY <1>9 DEF Sw!SaveFresh, Sw!SwapSteps
  <2>5. Hands' BY <1>9 DEF Sw!SaveFresh
  <2>6. Flags'
    <3>1. \E S \in SUBSET People : Sw!Note(S) BY <1>3, <1>9 DEF Sw!SaveFresh
    <3>2. v1' = v1 BY <1>9 DEF Sw!SaveFresh
    <3> QED BY <1>6, <3>1, <3>2
  <2>7. Bounds' BY <1>9 DEF Sw!SaveFresh
  <2> QED BY <2>1, <2>2, <2>3, <2>4, <2>5, <2>6, <2>7
<1>10. ASSUME NEW p \in Agents, Sw!CapRead(p) PROVE Typed'
  <2>1. Server' BY <1>10 DEF Sw!CapRead
  <2>2. Live' BY <1>10 DEF Sw!CapRead
  <2>3. Locks' BY <1>4, <1>10 DEF Sw!CapRead, Sw!AfterCapture, Sw!GoOn
  <2>4. Steps' BY <1>4, <1>10 DEF Sw!CapRead, Sw!AfterCapture, Sw!GoOn, Sw!SwapSteps
  <2>5. Hands' BY <1>4, <1>10 DEF Sw!CapRead, Sw!AfterCapture, Sw!GoOn
  <2>6. Flags'
    <3>1. \E S \in SUBSET People : Sw!Note(S)
        BY <1>3, <1>10 DEF Sw!CapRead, Sw!GoOn, Sw!AfterCapture
    <3>2. v1' = v1 BY <1>10 DEF Sw!CapRead
    <3> QED BY <1>6, <3>1, <3>2
  <2>7. Bounds' BY <1>10 DEF Sw!CapRead
  <2> QED BY <2>1, <2>2, <2>3, <2>4, <2>5, <2>6, <2>7
<1>11. ASSUME NEW p \in Agents, Sw!CapIdent(p) PROVE Typed'
  <2>1. Server' BY <1>11 DEF Sw!CapIdent
  <2>2. Live' BY <1>11 DEF Sw!CapIdent
  <2>3. Locks' BY <1>4, <1>11 DEF Sw!CapIdent, Sw!AfterCapture, Sw!GoOn
  <2>4. Steps' BY <1>4, <1>11 DEF Sw!CapIdent, Sw!AfterCapture, Sw!GoOn, Sw!SwapSteps
  <2>5. Hands' BY <1>4, <1>11 DEF Sw!CapIdent, Sw!AfterCapture, Sw!GoOn
  <2>6. Flags'
    <3>1. \E S \in SUBSET People : Sw!Note(S)
        BY <1>3, <1>11 DEF Sw!CapIdent, Sw!GoOn, Sw!AfterCapture
    <3>2. v1' = v1 BY <1>11 DEF Sw!CapIdent
    <3> QED BY <1>6, <3>1, <3>2
  <2>7. Bounds' BY <1>11 DEF Sw!CapIdent
  <2> QED BY <2>1, <2>2, <2>3, <2>4, <2>5, <2>6, <2>7
<1>12. ASSUME NEW p \in Agents, Sw!CapStore(p) PROVE Typed'
  <2>1. Server' BY <1>12 DEF Sw!CapStore
  <2>2. Live' BY <1>12 DEF Sw!CapStore, Sw!Captured
  <2>3. Locks' BY <1>4, <1>12 DEF Sw!CapStore, Sw!AfterCapture
  <2>4. Steps' BY <1>4, <1>12 DEF Sw!CapStore, Sw!AfterCapture, Sw!SwapSteps
  <2>5. Hands' BY <1>4, <1>12 DEF Sw!CapStore, Sw!AfterCapture
  <2>6. Flags'
    <3>1. \E S \in SUBSET People : Sw!Note(S)
        BY <1>3, <1>12 DEF Sw!CapStore, Sw!Captured, Sw!AfterCapture
    <3>2. v1' = v1 BY <1>12 DEF Sw!CapStore
    <3> QED BY <1>6, <3>1, <3>2
  <2>7. Bounds' BY <1>12 DEF Sw!CapStore
  <2> QED BY <2>1, <2>2, <2>3, <2>4, <2>5, <2>6, <2>7
<1>13. ASSUME NEW p \in Agents, Sw!KeyWrite(p) PROVE Typed'
  <2>1. Server' BY <1>13 DEF Sw!KeyWrite
  <2>2. Live' BY <1>13 DEF Sw!KeyWrite
  <2>3. Locks' BY <1>13 DEF Sw!KeyWrite
  <2>4. Steps' BY <1>13 DEF Sw!KeyWrite, Sw!SwapSteps
  <2>5. Hands' BY <1>13 DEF Sw!KeyWrite
  <2>6. Flags'
    <3>1. \E S \in SUBSET People : Sw!Note(S)
        BY <1>3, <1>13 DEF Sw!KeyWrite, Sw!Overwriting, Sw!Accepted
    <3>2. v1' = v1 BY <1>13 DEF Sw!KeyWrite
    <3> QED BY <1>6, <3>1, <3>2
  <2>7. Bounds' BY <1>13 DEF Sw!KeyWrite
  <2> QED BY <2>1, <2>2, <2>3, <2>4, <2>5, <2>6, <2>7
<1>14. ASSUME NEW p \in Agents, Sw!Lock(p) PROVE Typed'
  <2>1. Server' BY <1>14 DEF Sw!Lock
  <2>2. Live' BY <1>14 DEF Sw!Lock
  <2>3. Locks' BY <1>14 DEF Sw!Lock
  <2>4. Steps' BY <1>14 DEF Sw!Lock, Sw!SwapSteps
  <2>5. Hands' BY <1>14 DEF Sw!Lock
  <2>6. Flags'
    <3>1. \E S \in SUBSET People : Sw!Note(S) BY <1>3, <1>14 DEF Sw!Lock
    <3>2. v1' = v1 BY <1>14 DEF Sw!Lock
    <3> QED BY <1>6, <3>1, <3>2
  <2>7. Bounds' BY <1>14 DEF Sw!Lock
  <2> QED BY <2>1, <2>2, <2>3, <2>4, <2>5, <2>6, <2>7
<1>15. ASSUME NEW p \in Agents, Sw!WriteSecret(p) PROVE Typed'
  <2>1. Server' BY <1>15 DEF Sw!WriteSecret
  <2>2. Live' BY <1>15 DEF Sw!WriteSecret
  <2>3. Locks' BY <1>15 DEF Sw!WriteSecret
  <2>4. Steps' BY <1>15 DEF Sw!WriteSecret, Sw!SwapSteps
  <2>5. Hands' BY <1>15 DEF Sw!WriteSecret
  <2>6. Flags'
    <3>1. \E S \in SUBSET People : Sw!Note(S)
        BY <1>3, <1>15 DEF Sw!WriteSecret, Sw!Overwriting, Sw!Accepted
    <3>2. v1' = v1 BY <1>15 DEF Sw!WriteSecret
    <3> QED BY <1>6, <3>1, <3>2
  <2>7. Bounds' BY <1>15 DEF Sw!WriteSecret
  <2> QED BY <2>1, <2>2, <2>3, <2>4, <2>5, <2>6, <2>7
<1>16. ASSUME NEW p \in Agents, Sw!WriteIdent(p) PROVE Typed'
  <2>1. Server' BY <1>16 DEF Sw!WriteIdent
  <2>2. Live' BY <1>16 DEF Sw!WriteIdent
  <2>3. Locks' BY <1>16 DEF Sw!WriteIdent
  <2>4. Steps' BY <1>16 DEF Sw!WriteIdent, Sw!SwapSteps
  <2>5. Hands' BY <1>16 DEF Sw!WriteIdent
  <2>6. Flags'
    <3>1. \E S \in SUBSET People : Sw!Note(S) BY <1>3, <1>16 DEF Sw!WriteIdent
    <3>2. v1' = v1 BY <1>16 DEF Sw!WriteIdent
    <3> QED BY <1>6, <3>1, <3>2
  <2>7. Bounds' BY <1>16 DEF Sw!WriteIdent
  <2> QED BY <2>1, <2>2, <2>3, <2>4, <2>5, <2>6, <2>7
<1>17. ASSUME NEW p \in Agents, Sw!Commit(p) PROVE Typed'
  <2>1. Server' BY <1>17 DEF Sw!Commit
  <2>2. Live' BY <1>17 DEF Sw!Commit
  <2>3. Locks' BY <1>4, <1>17 DEF Sw!Commit
  <2>4. Steps' BY <1>4, <1>17 DEF Sw!Commit, Sw!SwapSteps
  <2>5. Hands' BY <1>4, <1>17 DEF Sw!Commit
  <2>6. Flags'
    <3>1. \E S \in SUBSET People : Sw!Note(S) BY <1>3, <1>17 DEF Sw!Commit
    <3>2. v1' = v1 BY <1>17 DEF Sw!Commit
    <3> QED BY <1>6, <3>1, <3>2
  <2>7. Bounds' BY <1>17 DEF Sw!Commit
  <2> QED BY <2>1, <2>2, <2>3, <2>4, <2>5, <2>6, <2>7
<1>18. ASSUME NEW p \in Agents, Sw!Fail(p) PROVE Typed'
  <2>1. Server' BY <1>18 DEF Sw!Fail
  <2>2. Live' BY <1>18 DEF Sw!Fail
  <2>3. Locks' BY <1>4, <1>18 DEF Sw!Fail
  <2>4. Steps' BY <1>4, <1>18 DEF Sw!Fail, Sw!SwapSteps
  <2>5. Hands' BY <1>4, <1>18 DEF Sw!Fail
  <2>6. Flags'
    <3>1. \E S \in SUBSET People : Sw!Note(S) BY <1>3, <1>18 DEF Sw!Fail
    <3>2. v1' = v1 BY <1>18 DEF Sw!Fail
    <3> QED BY <1>6, <3>1, <3>2
  <2>7. Bounds' BY <1>18, SwapConstants DEF Sw!Fail, Sw!ClaudeSwapAssumption
  <2> QED BY <2>1, <2>2, <2>3, <2>4, <2>5, <2>6, <2>7
<1>19. ASSUME NEW p \in Agents, Sw!KeyRestore(p) PROVE Typed'
  <2>1. Server' BY <1>19 DEF Sw!KeyRestore
  <2>2. Live' BY <1>19 DEF Sw!KeyRestore
  <2>3. Locks' BY <1>4, <1>19 DEF Sw!KeyRestore
  <2>4. Steps' BY <1>4, <1>19 DEF Sw!KeyRestore, Sw!SwapSteps
  <2>5. Hands' BY <1>4, <1>19 DEF Sw!KeyRestore
  <2>6. Flags'
    <3>1. \E S \in SUBSET People : Sw!Note(S) BY <1>3, <1>19 DEF Sw!KeyRestore
    <3>2. v1' = v1 BY <1>19 DEF Sw!KeyRestore
    <3> QED BY <1>6, <3>1, <3>2
  <2>7. Bounds' BY <1>19 DEF Sw!KeyRestore
  <2> QED BY <2>1, <2>2, <2>3, <2>4, <2>5, <2>6, <2>7
<1>20. ASSUME NEW p \in Agents, Sw!RenewLock(p) PROVE Typed'
  <2>1. Server' BY <1>20 DEF Sw!RenewLock
  <2>2. Live' BY <1>20 DEF Sw!RenewLock
  <2>3. Locks' BY <1>4, <1>20 DEF Sw!RenewLock
  <2>4. Steps' BY <1>4, <1>20 DEF Sw!RenewLock, Sw!SwapSteps
  <2>5. Hands' BY <1>4, <1>20 DEF Sw!RenewLock
  <2>6. Flags'
    <3>1. \E S \in SUBSET People : Sw!Note(S) BY <1>3, <1>20 DEF Sw!RenewLock
    <3>2. v1' = v1 BY <1>20 DEF Sw!RenewLock
    <3> QED BY <1>6, <3>1, <3>2
  <2>7. Bounds' BY <1>20 DEF Sw!RenewLock
  <2> QED BY <2>1, <2>2, <2>3, <2>4, <2>5, <2>6, <2>7
<1>21. ASSUME NEW p \in Agents, Sw!RenewRead(p) PROVE Typed'
  <2>1. Server' BY <1>21 DEF Sw!RenewRead
  <2>2. Live' BY <1>21 DEF Sw!RenewRead
  <2>3. Locks' BY <1>4, <1>21 DEF Sw!RenewRead
  <2>4. Steps' BY <1>4, <1>21 DEF Sw!RenewRead, Sw!SwapSteps
  <2>5. Hands' BY <1>4, <1>21 DEF Sw!RenewRead
  <2>6. Flags'
    <3>1. \E S \in SUBSET People : Sw!Note(S) BY <1>3, <1>21 DEF Sw!RenewRead
    <3>2. v1' = v1 BY <1>21 DEF Sw!RenewRead
    <3> QED BY <1>6, <3>1, <3>2
  <2>7. Bounds' BY <1>21 DEF Sw!RenewRead
  <2> QED BY <2>1, <2>2, <2>3, <2>4, <2>5, <2>6, <2>7
<1>22. ASSUME NEW p \in Agents, Sw!RenewPost(p) PROVE Typed'
  <2>1. Server' BY <1>5, <1>22 DEF Sw!RenewPost, Sw!Accepted
  <2>2. Live' BY <1>22 DEF Sw!RenewPost
  <2>3. Locks' BY <1>4, <1>22 DEF Sw!RenewPost
  <2>4. Steps' BY <1>4, <1>22 DEF Sw!RenewPost, Sw!SwapSteps
  <2>5. Hands'
    <3>1. CASE /\ Sw!Accepted(v13[p]) /\ Sw!Rotate(v13[p]) /\ v14' = v14 /\ v16' = v16
               /\ v15' = [v15 EXCEPT ![p] = v13[p]] /\ v13' = [v13 EXCEPT ![p] = Sw!Renewed(v13[p])]
      <4>1. v13[p] \in Sw!Secret BY <3>1 DEF Sw!Accepted
      <4>2. Sw!Renewed(v13[p]) \in Sw!MaybeSecret BY <1>5, <3>1, <4>1
      <4> QED BY <3>1, <4>2
    <3>2. CASE Sw!End(p) BY <1>4, <3>2
    <3> QED BY <1>22, <3>1, <3>2 DEF Sw!RenewPost
  <2>6. Flags'
    <3>1. \E S \in SUBSET People : Sw!Note(S) BY <1>3, <1>22 DEF Sw!RenewPost
    <3>2. v1' = v1 BY <1>22 DEF Sw!RenewPost
    <3> QED BY <1>6, <3>1, <3>2
  <2>7. Bounds' BY <1>22 DEF Sw!RenewPost
  <2> QED BY <2>1, <2>2, <2>3, <2>4, <2>5, <2>6, <2>7
<1>23. ASSUME NEW p \in Agents, Sw!RenewCompare(p) PROVE Typed'
  <2>1. Server' BY <1>23 DEF Sw!RenewCompare
  <2>2. Live' BY <1>23 DEF Sw!RenewCompare
  <2>3. Locks' BY <1>4, <1>23 DEF Sw!RenewCompare
  <2>4. Steps' BY <1>4, <1>23 DEF Sw!RenewCompare, Sw!SwapSteps
  <2>5. Hands' BY <1>4, <1>23 DEF Sw!RenewCompare
  <2>6. Flags'
    <3>1. \E S \in SUBSET People : Sw!Note(S) BY <1>3, <1>23 DEF Sw!RenewCompare, Sw!JobsKept
    <3>2. v1' = v1 BY <1>23 DEF Sw!RenewCompare
    <3> QED BY <1>6, <3>1, <3>2
  <2>7. Bounds' BY <1>23 DEF Sw!RenewCompare
  <2> QED BY <2>1, <2>2, <2>3, <2>4, <2>5, <2>6, <2>7
<1>24. ASSUME NEW p \in Agents, Sw!RenewWrite(p) PROVE Typed'
  <2>1. Server' BY <1>24 DEF Sw!RenewWrite
  <2>2. Live' BY <1>24 DEF Sw!RenewWrite
  <2>3. Locks' BY <1>4, <1>24 DEF Sw!RenewWrite
  <2>4. Steps' BY <1>4, <1>24 DEF Sw!RenewWrite, Sw!SwapSteps
  <2>5. Hands' BY <1>4, <1>24 DEF Sw!RenewWrite
  <2>6. Flags'
    <3>1. \E S \in SUBSET People : Sw!Note(S) BY <1>3, <1>24 DEF Sw!RenewWrite
    <3>2. v1' = v1 BY <1>24 DEF Sw!RenewWrite
    <3> QED BY <1>6, <3>1, <3>2
  <2>7. Bounds' BY <1>24 DEF Sw!RenewWrite
  <2> QED BY <2>1, <2>2, <2>3, <2>4, <2>5, <2>6, <2>7
<1>25. ASSUME NEW p \in Agents, Sw!ParkLock(p) PROVE Typed'
  <2>1. Server' BY <1>25 DEF Sw!ParkLock
  <2>2. Live' BY <1>25 DEF Sw!ParkLock
  <2>3. Locks' BY <1>3, <1>4, <1>25 DEF Sw!ParkLock, Sw!JobsKept
  <2>4. Steps' BY <1>4, <1>25 DEF Sw!ParkLock, Sw!SwapSteps
  <2>5. Hands'
    <3>1. CASE v13' = [v13 EXCEPT ![p] = v6[v12[p]]] /\ UNCHANGED <<v14, v15, v16>>
      <4>1. v6[v12[p]] \in Sw!MaybeSecret BY <1>3, <1>25 DEF Sw!JobsKept, Sw!ParkLock
      <4> QED BY <3>1, <4>1
    <3>2. CASE Sw!End(p) BY <1>4, <3>2
    <3> QED BY <1>25, <3>1, <3>2 DEF Sw!ParkLock
  <2>6. Flags'
    <3>1. \E S \in SUBSET People : Sw!Note(S) BY <1>3, <1>25 DEF Sw!ParkLock, Sw!JobsKept
    <3>2. v1' = v1 BY <1>25 DEF Sw!ParkLock
    <3> QED BY <1>6, <3>1, <3>2
  <2>7. Bounds' BY <1>25 DEF Sw!ParkLock
  <2> QED BY <2>1, <2>2, <2>3, <2>4, <2>5, <2>6, <2>7
<1>26. ASSUME NEW p \in Agents, Sw!ParkPost(p) PROVE Typed'
  <2>1. Server' BY <1>5, <1>26 DEF Sw!ParkPost, Sw!Accepted
  <2>2. Live' BY <1>26 DEF Sw!ParkPost
  <2>3. Locks' BY <1>4, <1>26 DEF Sw!ParkPost
  <2>4. Steps' BY <1>4, <1>26 DEF Sw!ParkPost, Sw!SwapSteps
  <2>5. Hands' BY <1>4, <1>5, <1>26 DEF Sw!ParkPost, Sw!Accepted
  <2>6. Flags'
    <3>1. \E S \in SUBSET People : Sw!Note(S) BY <1>3, <1>26 DEF Sw!ParkPost
    <3>2. v1' = v1 BY <1>26 DEF Sw!ParkPost
    <3> QED BY <1>6, <3>1, <3>2
  <2>7. Bounds' BY <1>26 DEF Sw!ParkPost
  <2> QED BY <2>1, <2>2, <2>3, <2>4, <2>5, <2>6, <2>7
<1>27. ASSUME NEW p \in Agents, Sw!ParkSave(p) PROVE Typed'
  <2>1. Server' BY <1>27 DEF Sw!ParkSave
  <2>2. Live' BY <1>27 DEF Sw!ParkSave
  <2>3. Locks' BY <1>4, <1>27 DEF Sw!ParkSave
  <2>4. Steps' BY <1>4, <1>27 DEF Sw!ParkSave, Sw!SwapSteps
  <2>5. Hands' BY <1>4, <1>27 DEF Sw!ParkSave
  <2>6. Flags'
    <3>1. \E S \in SUBSET People : Sw!Note(S) BY <1>3, <1>27 DEF Sw!ParkSave
    <3>2. v1' = v1 BY <1>27 DEF Sw!ParkSave
    <3> QED BY <1>6, <3>1, <3>2
  <2>7. Bounds' BY <1>27 DEF Sw!ParkSave
  <2> QED BY <2>1, <2>2, <2>3, <2>4, <2>5, <2>6, <2>7
<1>28. ASSUME NEW p \in Agents, Sw!RmLock(p) PROVE Typed'
  <2>1. Server' BY <1>28 DEF Sw!RmLock
  <2>2. Live' BY <1>28 DEF Sw!RmLock
  <2>3. Locks' BY <1>4, <1>28 DEF Sw!RmLock
  <2>4. Steps' BY <1>4, <1>28 DEF Sw!RmLock, Sw!SwapSteps
  <2>5. Hands' BY <1>4, <1>28 DEF Sw!RmLock
  <2>6. Flags'
    <3>1. \E S \in SUBSET People : Sw!Note(S) BY <1>3, <1>28 DEF Sw!RmLock, Sw!JobsKept
    <3>2. v1' = v1 BY <1>28 DEF Sw!RmLock
    <3> QED BY <1>6, <3>1, <3>2
  <2>7. Bounds' BY <1>28 DEF Sw!RmLock
  <2> QED BY <2>1, <2>2, <2>3, <2>4, <2>5, <2>6, <2>7
<1>29. ASSUME NEW p \in Agents, Sw!RmIdent(p) PROVE Typed'
  <2>1. Server' BY <1>29 DEF Sw!RmIdent
  <2>2. Live' BY <1>29 DEF Sw!RmIdent
  <2>3. Locks' BY <1>4, <1>29 DEF Sw!RmIdent
  <2>4. Steps' BY <1>4, <1>29 DEF Sw!RmIdent, Sw!SwapSteps
  <2>5. Hands' BY <1>4, <1>29 DEF Sw!RmIdent
  <2>6. Flags'
    <3>1. \E S \in SUBSET People : Sw!Note(S) BY <1>3, <1>29 DEF Sw!RmIdent
    <3>2. v1' = v1 BY <1>29 DEF Sw!RmIdent
    <3> QED BY <1>6, <3>1, <3>2
  <2>7. Bounds' BY <1>29 DEF Sw!RmIdent
  <2> QED BY <2>1, <2>2, <2>3, <2>4, <2>5, <2>6, <2>7
<1>30. ASSUME NEW p \in Agents, Sw!Kill(p) PROVE Typed'
  <2>1. Server' BY <1>30 DEF Sw!Kill
  <2>2. Live' BY <1>30 DEF Sw!Kill
  <2>3. Locks' BY <1>4, <1>30 DEF Sw!Kill
  <2>4. Steps' BY <1>4, <1>30 DEF Sw!Kill, Sw!SwapSteps
  <2>5. Hands' BY <1>4, <1>30 DEF Sw!Kill
  <2>6. Flags' BY <1>30 DEF Sw!Kill
  <2>7. Bounds' BY <1>30, SwapConstants DEF Sw!Kill, Sw!ClaudeSwapAssumption
  <2> QED BY <2>1, <2>2, <2>3, <2>4, <2>5, <2>6, <2>7
<1>31. ASSUME Sw!NativeRefresh PROVE Typed'
  <2>1. Server' /\ Live' BY <1>5, <1>31 DEF Sw!NativeRefresh, Sw!Accepted
  <2>2. Locks' /\ Steps' /\ Hands' BY <1>31 DEF Sw!NativeRefresh
  <2>3. Bounds' BY <1>31, SwapConstants DEF Sw!NativeRefresh, Sw!UserStep, Sw!ClaudeSwapAssumption
  <2>4. Flags'
    <3>1. \E S \in SUBSET People : Sw!Note(S) BY <1>31 DEF Sw!NativeRefresh, Sw!Accepted
    <3>2. v1' = v1 BY <1>31 DEF Sw!NativeRefresh
    <3> QED BY <1>6, <3>1, <3>2
  <2> QED BY <1>6, <2>1, <2>2, <2>3, <2>4
<1>32. ASSUME Sw!NativeStrip PROVE Typed'
  <2>1. Server' /\ Live' BY <1>5, <1>32 DEF Sw!NativeStrip, Sw!Accepted
  <2>2. Locks' /\ Steps' /\ Hands' BY <1>32 DEF Sw!NativeStrip
  <2>3. Bounds' BY <1>32, SwapConstants DEF Sw!NativeStrip, Sw!UserStep, Sw!ClaudeSwapAssumption
  <2>4. Flags'
    <3>1. \E S \in SUBSET People : Sw!Note(S) BY <1>32 DEF Sw!NativeStrip, Sw!Accepted
    <3>2. v1' = v1 BY <1>32 DEF Sw!NativeStrip
    <3> QED BY <1>6, <3>1, <3>2
  <2> QED BY <1>6, <2>1, <2>2, <2>3, <2>4
<1>33. ASSUME Sw!NativeLoginEnds PROVE Typed'
  <2>1. Server' /\ Live' BY <1>5, <1>33 DEF Sw!NativeLoginEnds, Sw!Accepted
  <2>2. Locks' /\ Steps' /\ Hands' BY <1>33 DEF Sw!NativeLoginEnds
  <2>3. Bounds' BY <1>33, SwapConstants DEF Sw!NativeLoginEnds, Sw!UserStep, Sw!ClaudeSwapAssumption
  <2>4. Flags'
    <3>1. \E S \in SUBSET People : Sw!Note(S) BY <1>33 DEF Sw!NativeLoginEnds, Sw!Accepted
    <3>2. v1' = v1 BY <1>33 DEF Sw!NativeLoginEnds
    <3> QED BY <1>6, <3>1, <3>2
  <2> QED BY <1>6, <2>1, <2>2, <2>3, <2>4
<1>34. ASSUME NEW a \in People, Sw!NativeLogin(a) PROVE Typed'
  <2>1. Server' /\ Live' BY <1>5, <1>34 DEF Sw!NativeLogin, Sw!Accepted
  <2>2. Locks' /\ Steps' /\ Hands' BY <1>34 DEF Sw!NativeLogin
  <2>3. Bounds' BY <1>34, SwapConstants DEF Sw!NativeLogin, Sw!UserStep, Sw!ClaudeSwapAssumption
  <2>4. Flags'
    <3>1. \E S \in SUBSET People : Sw!Note(S) BY <1>34 DEF Sw!NativeLogin, Sw!Accepted
    <3>2. v1' = v1 BY <1>34 DEF Sw!NativeLogin
    <3> QED BY <1>6, <3>1, <3>2
  <2> QED BY <1>6, <2>1, <2>2, <2>3, <2>4
<1>35. ASSUME NEW p \in Agents,
             \/ \E a \in People : \/ Sw!Activate(p, a) \/ Sw!ParkBegin(p, a)
                                 \/ Sw!Begin(p, "rm", a, "RmLock", NoSecret)
             \/ Sw!Begin(p, "capture", NoOne, "CapRead", NoSecret) \/ Sw!RenewBegin(p)
      PROVE  Typed'
  <2>1. \E j \in Sw!JobKinds, b \in Sw!Somebody, s \in Sw!SwapSteps, h \in Sw!MaybeSecret :
            Sw!Begin(p, j, b, s, h)
    BY <1>35 DEF Sw!Activate, Sw!ParkBegin, Sw!RenewBegin, Sw!JobKinds, Sw!SwapSteps
  <2> QED BY <1>7, <2>1
<1>36. ASSUME UNCHANGED Sw!swapVars PROVE Typed' BY <1>36 DEF Sw!swapVars
<1>37. Typed'
  <2>1. ASSUME NEW p \in Agents, Sw!Step(p) PROVE Typed'
    BY <2>1, <1>35, <1>7, <1>8, <1>9, <1>10, <1>11, <1>12, <1>13, <1>14, <1>15, <1>16, <1>17,
        <1>18, <1>19, <1>20, <1>21, <1>22, <1>23, <1>24, <1>25, <1>26, <1>27, <1>28, <1>29, <1>30
        DEF Sw!Step
  <2> QED
    BY <2>1, <1>31, <1>32, <1>33, <1>34, <1>36 DEF Sw!Next
<1> QED BY <1>37 DEF Sw!SwapTypeOK

LEMMA SwapJobs == ASSUME SwapInv, [Sw!Next]_(Sw!swapVars) PROVE Sw!JobsKept'
<1> USE SwapSecrets DEF SwapInv, Sw!SwapTypeOK, Sw!JobsKept, Sw!locks, Sw!mine, Sw!bounds, Sw!Goto,
        Sw!End, Sw!JobKinds
<1>1. ASSUME NEW p \in Agents, NEW a \in People, Sw!Activate(p, a) PROVE Sw!JobsKept'
  BY <1>1 DEF Sw!Activate, Sw!Begin
<1>2. ASSUME NEW p \in Agents, NEW a \in People, Sw!ParkBegin(p, a) PROVE Sw!JobsKept'
  BY <1>2 DEF Sw!ParkBegin, Sw!Begin
<1>3. ASSUME NEW p \in Agents, NEW a \in People, Sw!Begin(p, "rm", a, "RmLock", NoSecret)
      PROVE  Sw!JobsKept'
  BY <1>3 DEF Sw!Begin
<1>4. ASSUME NEW p \in Agents, Sw!Begin(p, "capture", NoOne, "CapRead", NoSecret)
      PROVE  Sw!JobsKept'
  BY <1>4 DEF Sw!Begin
<1>5. ASSUME NEW p \in Agents, Sw!RenewBegin(p) PROVE Sw!JobsKept'
  BY <1>5 DEF Sw!RenewBegin, Sw!Begin, Sw!Somebody
<1>6. ASSUME NEW p \in Agents, Sw!PreRefresh(p) PROVE Sw!JobsKept'
    BY <1>6 DEF Sw!PreRefresh, Sw!Renewed, Sw!Accepted, Sw!Rotate
<1>7. ASSUME NEW p \in Agents, Sw!SaveFresh(p) PROVE Sw!JobsKept' BY <1>7 DEF Sw!SaveFresh
<1>8. ASSUME NEW p \in Agents, Sw!CapRead(p) PROVE Sw!JobsKept'
    BY <1>8 DEF Sw!CapRead, Sw!GoOn, Sw!AfterCapture
<1>9. ASSUME NEW p \in Agents, Sw!CapIdent(p) PROVE Sw!JobsKept'
    BY <1>9 DEF Sw!CapIdent, Sw!GoOn, Sw!AfterCapture, Sw!Somebody
<1>10. ASSUME NEW p \in Agents, Sw!CapStore(p) PROVE Sw!JobsKept'
    BY <1>10 DEF Sw!CapStore, Sw!Captured, Sw!AfterCapture
<1>11. ASSUME NEW p \in Agents, Sw!KeyWrite(p) PROVE Sw!JobsKept' BY <1>11 DEF Sw!KeyWrite
<1>12. ASSUME NEW p \in Agents, Sw!Lock(p) PROVE Sw!JobsKept' BY <1>12 DEF Sw!Lock
<1>13. ASSUME NEW p \in Agents, Sw!WriteSecret(p) PROVE Sw!JobsKept' BY <1>13 DEF Sw!WriteSecret
<1>14. ASSUME NEW p \in Agents, Sw!WriteIdent(p) PROVE Sw!JobsKept' BY <1>14 DEF Sw!WriteIdent
<1>15. ASSUME NEW p \in Agents, Sw!Commit(p) PROVE Sw!JobsKept' BY <1>15 DEF Sw!Commit
<1>16. ASSUME NEW p \in Agents, Sw!Fail(p) PROVE Sw!JobsKept' BY <1>16 DEF Sw!Fail
<1>17. ASSUME NEW p \in Agents, Sw!KeyRestore(p) PROVE Sw!JobsKept' BY <1>17 DEF Sw!KeyRestore
<1>18. ASSUME NEW p \in Agents, Sw!RenewLock(p) PROVE Sw!JobsKept' BY <1>18 DEF Sw!RenewLock
<1>19. ASSUME NEW p \in Agents, Sw!RenewRead(p) PROVE Sw!JobsKept' BY <1>19 DEF Sw!RenewRead
<1>20. ASSUME NEW p \in Agents, Sw!RenewPost(p) PROVE Sw!JobsKept'
    BY <1>20 DEF Sw!RenewPost, Sw!Renewed, Sw!Accepted, Sw!Rotate
<1>21. ASSUME NEW p \in Agents, Sw!RenewCompare(p) PROVE Sw!JobsKept' BY <1>21 DEF Sw!RenewCompare
<1>22. ASSUME NEW p \in Agents, Sw!RenewWrite(p) PROVE Sw!JobsKept' BY <1>22 DEF Sw!RenewWrite
<1>23. ASSUME NEW p \in Agents, Sw!ParkLock(p) PROVE Sw!JobsKept' BY <1>23 DEF Sw!ParkLock
<1>24. ASSUME NEW p \in Agents, Sw!ParkPost(p) PROVE Sw!JobsKept'
    BY <1>24 DEF Sw!ParkPost, Sw!Renewed, Sw!Accepted, Sw!Rotate
<1>25. ASSUME NEW p \in Agents, Sw!ParkSave(p) PROVE Sw!JobsKept' BY <1>25 DEF Sw!ParkSave
<1>26. ASSUME NEW p \in Agents, Sw!RmLock(p) PROVE Sw!JobsKept' BY <1>26 DEF Sw!RmLock
<1>27. ASSUME NEW p \in Agents, Sw!RmIdent(p) PROVE Sw!JobsKept' BY <1>27 DEF Sw!RmIdent
<1>28. ASSUME NEW p \in Agents, Sw!Kill(p) PROVE Sw!JobsKept' BY <1>28 DEF Sw!Kill
<1>29. ASSUME UNCHANGED <<v1, v10, Sw!mine>> PROVE Sw!JobsKept' BY <1>29
<1> QED
  BY <1>1, <1>2, <1>3, <1>4, <1>5, <1>6, <1>7, <1>8, <1>9, <1>10, <1>11, <1>12, <1>13, <1>14,
      <1>15, <1>16, <1>17, <1>18, <1>19, <1>20, <1>21, <1>22, <1>23, <1>24, <1>25, <1>26, <1>27,
      <1>28, <1>29
     DEF Sw!Next, Sw!Step, Sw!swapVars, Sw!NativeRefresh, Sw!NativeStrip, Sw!NativeLogin,
         Sw!NativeLoginEnds

LEMMA SwapOwners == ASSUME SwapInv, [Sw!Next]_(Sw!swapVars) PROVE Sw!SignInKept'
<1>1. v21' \/ (~v21 /\ ~Sw!Crossing')
  <2>1. CASE UNCHANGED <<v1, v10, v17, v21>>
    BY <2>1 DEF SwapInv, Sw!SignInKept, Sw!Crossing, Sw!Writing, Sw!Reading
  <2>2. ASSUME NEW p \in Agents, Sw!Kill(p) PROVE v21' \/ (~v21 /\ ~Sw!Crossing')
    <3>1. /\ v1' = v1 /\ v17' = v17 /\ (v21' \/ ~v21)
          /\ \A q \in Agents : v10'[q] = v10[q] \/ v10'[q] = "Idle"
      BY <2>2 DEF Sw!Kill, Sw!End, Sw!Goto, SwapInv, Sw!SwapTypeOK
    <3> QED BY <3>1 DEF SwapInv, Sw!SignInKept, Sw!Crossing, Sw!Writing, Sw!Reading
  <2>3. ASSUME NEW S, Sw!Note(S) PROVE v21' \/ (~v21 /\ ~Sw!Crossing')
    BY <2>3 DEF Sw!Note
  <2>4. ASSUME NEW p \in Agents,
               \/ \E a \in People : \/ Sw!Activate(p, a) \/ Sw!ParkBegin(p, a)
                                   \/ Sw!Begin(p, "rm", a, "RmLock", NoSecret)
               \/ Sw!Begin(p, "capture", NoOne, "CapRead", NoSecret) \/ Sw!RenewBegin(p)
        PROVE  \E S : Sw!Note(S)
    BY <2>4 DEF Sw!Activate, Sw!ParkBegin, Sw!RenewBegin, Sw!Begin
  <2>5. ASSUME NEW p \in Agents,
               Sw!PreRefresh(p) \/ Sw!SaveFresh(p) \/ Sw!CapRead(p) \/ Sw!CapIdent(p) \/
               Sw!CapStore(p) \/ Sw!KeyWrite(p) \/ Sw!Lock(p) \/ Sw!WriteSecret(p)
        PROVE  \E S : Sw!Note(S)
    BY <2>5
    DEF Sw!PreRefresh, Sw!SaveFresh, Sw!CapRead, Sw!CapIdent, Sw!CapStore, Sw!KeyWrite, Sw!Lock,
        Sw!WriteSecret
  <2>6. ASSUME NEW p \in Agents,
               Sw!WriteIdent(p) \/ Sw!Commit(p) \/ Sw!Fail(p) \/ Sw!KeyRestore(p) \/
               Sw!RenewLock(p) \/ Sw!RenewRead(p) \/ Sw!RenewPost(p) \/ Sw!RenewCompare(p)
        PROVE  \E S : Sw!Note(S)
    BY <2>6
    DEF Sw!WriteIdent, Sw!Commit, Sw!Fail, Sw!KeyRestore, Sw!RenewLock, Sw!RenewRead,
        Sw!RenewPost, Sw!RenewCompare
  <2>7. ASSUME NEW p \in Agents,
               Sw!RenewWrite(p) \/ Sw!ParkLock(p) \/ Sw!ParkPost(p) \/ Sw!ParkSave(p) \/
               Sw!RmLock(p) \/ Sw!RmIdent(p)
        PROVE  \E S : Sw!Note(S)
    BY <2>7
    DEF Sw!RenewWrite, Sw!ParkLock, Sw!ParkPost, Sw!ParkSave, Sw!RmLock, Sw!RmIdent
  <2>8. ASSUME \/ Sw!NativeRefresh \/ Sw!NativeStrip \/ Sw!NativeLoginEnds
               \/ \E a \in People : Sw!NativeLogin(a)
        PROVE  \E S : Sw!Note(S)
    BY <2>8 DEF Sw!NativeRefresh, Sw!NativeStrip, Sw!NativeLoginEnds, Sw!NativeLogin
  <2>9. CASE UNCHANGED Sw!swapVars BY <2>1, <2>9 DEF Sw!swapVars
  <2> QED BY <2>2, <2>3, <2>4, <2>5, <2>6, <2>7, <2>8, <2>9 DEF Sw!Next, Sw!Step
<1>2. SUFFICES ASSUME ~v21' PROVE Sw!SignInKept'
  BY DEF Sw!SignInKept
<1>3. /\ ~v21 /\ ~Sw!Crossing' /\ ~Sw!Crossing
      /\ \A a \in People : Sw!Of(v6[a], a)
      /\ \A p \in Agents : Sw!OwnersKept(p)
      /\ v17 # NoOne => v4 # NoSecret /\ v4.of = v17
      /\ v17 = NoOne /\ (\A p \in Agents : ~Sw!HalfWritten(p)) => Sw!Of(v4, v5)
  BY <1>1, <1>2 DEF SwapInv, Sw!SignInKept
<1>4. /\ \A q, r \in Agents : q # r => ~(Sw!Writing(q) /\ (Sw!Writing(r) \/ Sw!Reading(r)))
      /\ v17 # NoOne => \A q \in Agents : ~Sw!Writing(q) /\ ~Sw!Reading(q)
  BY <1>3 DEF Sw!Crossing
<1>5. /\ \A q, r \in Agents : q # r => ~(Sw!Writing(q)' /\ (Sw!Writing(r)' \/ Sw!Reading(r)'))
      /\ v17' # NoOne => \A q \in Agents : ~Sw!Writing(q)' /\ ~Sw!Reading(q)'
  BY <1>3 DEF Sw!Crossing
<1> USE <1>3, <1>4, <1>5, SwapSecrets DEF SwapInv, Sw!SwapTypeOK, Sw!JobsKept, Sw!locks, Sw!mine,
        Sw!files, Sw!bounds, Sw!Goto, Sw!End, Sw!SignInKept, Sw!OwnersKept, Sw!HalfWritten, Sw!Of,
        Sw!Writing, Sw!Reading
<1>6. ASSUME NEW p \in Agents, Sw!PreRefresh(p) PROVE Sw!SignInKept'
  <2>1. /\ v10[p] = "PreRefresh"
        /\ (v10' = [v10 EXCEPT ![p] = "CapRead"] \/ v10' = [v10 EXCEPT ![p] = "SaveFresh"])
        /\ UNCHANGED <<v1, v4, v5, v6, v11, v12, v14, v15, v16, v17>>
        /\ \A q \in Agents : q # p => v13'[q] = v13[q]
    BY <1>6 DEF Sw!PreRefresh
  <2>2. v13'[p] # NoSecret /\ v13'[p].of = v13[p].of
    <3>1. CASE v13' = v13 BY <2>1, <3>1
    <3>2. CASE v13' = [v13 EXCEPT ![p] = Sw!Renewed(v13[p])] /\ Sw!Rotate(v13[p])
      <4>1. v13[p] \in Sw!Secret BY <2>1
      <4> QED BY <3>2, <4>1, SwapRenewed
    <3> QED BY <1>6, <3>1, <3>2 DEF Sw!PreRefresh
  <2> QED BY <2>1, <2>2
<1>7. ASSUME NEW p \in Agents, Sw!SaveFresh(p) PROVE Sw!SignInKept' BY <1>7 DEF Sw!SaveFresh
<1>8. ASSUME NEW p \in Agents, Sw!CapRead(p) PROVE Sw!SignInKept'
    BY <1>8 DEF Sw!CapRead, Sw!GoOn, Sw!AfterCapture
<1>9. ASSUME NEW p \in Agents, Sw!CapIdent(p) PROVE Sw!SignInKept'
    BY <1>9 DEF Sw!CapIdent, Sw!GoOn, Sw!AfterCapture
<1>10. ASSUME NEW p \in Agents, Sw!CapStore(p) PROVE Sw!SignInKept'
    BY <1>10 DEF Sw!CapStore, Sw!Captured, Sw!AfterCapture
<1>11. ASSUME NEW p \in Agents, Sw!KeyWrite(p) PROVE Sw!SignInKept'
  <2>1. /\ v10[p] = "KeyWrite" /\ v10' = [v10 EXCEPT ![p] = "Lock"]
        /\ v15' = [v15 EXCEPT ![p] = v4] /\ v4' = v13[p]
        /\ UNCHANGED <<v1, v5, v6, v11, v12, v13, v14, v16, v17>>
    BY <1>11 DEF Sw!KeyWrite
  <2> QED BY <2>1
<1>12. ASSUME NEW p \in Agents, Sw!Lock(p) PROVE Sw!SignInKept' BY <1>12 DEF Sw!Lock
<1>13. ASSUME NEW p \in Agents, Sw!WriteSecret(p) PROVE Sw!SignInKept' BY <1>13 DEF Sw!WriteSecret
<1>14. ASSUME NEW p \in Agents, Sw!WriteIdent(p) PROVE Sw!SignInKept' BY <1>14 DEF Sw!WriteIdent
<1>15. ASSUME NEW p \in Agents, Sw!Commit(p) PROVE Sw!SignInKept' BY <1>15 DEF Sw!Commit
<1>16. ASSUME NEW p \in Agents, Sw!Fail(p) PROVE Sw!SignInKept' BY <1>16 DEF Sw!Fail
<1>17. ASSUME NEW p \in Agents, Sw!KeyRestore(p) PROVE Sw!SignInKept' BY <1>17 DEF Sw!KeyRestore
<1>18. ASSUME NEW p \in Agents, Sw!RenewLock(p) PROVE Sw!SignInKept' BY <1>18 DEF Sw!RenewLock
<1>19. ASSUME NEW p \in Agents, Sw!RenewRead(p) PROVE Sw!SignInKept' BY <1>19 DEF Sw!RenewRead
<1>20. ASSUME NEW p \in Agents, Sw!RenewPost(p) PROVE Sw!SignInKept'
  <2>1. CASE Sw!End(p)
    <3>1. ~Sw!Writing(p) /\ UNCHANGED <<v1, v4, v5, v6, v17>> BY <1>20 DEF Sw!RenewPost
    <3> QED BY <2>1, <3>1
  <2>2. CASE Sw!Accepted(v13[p]) /\ Sw!Rotate(v13[p]) /\ ~Sw!End(p)
    <3>1. /\ v10[p] = "RenewPost" /\ v10' = [v10 EXCEPT ![p] = "RenewCompare"]
          /\ UNCHANGED <<v1, v4, v5, v6, v11, v12, v14, v16, v17>>
          /\ v15' = [v15 EXCEPT ![p] = v13[p]] /\ v13' = [v13 EXCEPT ![p] = Sw!Renewed(v13[p])]
      BY <1>20, <2>2 DEF Sw!RenewPost
    <3>2. v13[p] \in Sw!Secret BY <3>1
    <3>3. v13'[p].of = v13[p].of /\ v15'[p] = v13[p] BY <2>2, <3>1, <3>2, SwapRenewed
    <3>4. v11[p] # "swap" \/ v13'[p].of = v12[p] BY <3>3
    <3>5. \A q \in Agents : q # p => v13'[q] = v13[q] /\ v15'[q] = v15[q] /\ v10'[q] = v10[q]
      BY <3>1
    <3>6. v10'[p] = "RenewCompare" BY <3>1
    <3> HIDE <1>4, <1>5
    <3> QED BY <2>2, <3>1, <3>3, <3>4, <3>5, <3>6
  <2> QED BY <1>20, <2>1, <2>2 DEF Sw!RenewPost
<1>21. ASSUME NEW p \in Agents, Sw!RenewCompare(p) PROVE Sw!SignInKept' BY <1>21 DEF Sw!RenewCompare
<1>22. ASSUME NEW p \in Agents, Sw!RenewWrite(p) PROVE Sw!SignInKept' BY <1>22 DEF Sw!RenewWrite
<1>23. ASSUME NEW p \in Agents, Sw!ParkLock(p) PROVE Sw!SignInKept' BY <1>23 DEF Sw!ParkLock
<1>24. ASSUME NEW p \in Agents, Sw!ParkPost(p) PROVE Sw!SignInKept'
  <2>1. CASE Sw!End(p)
    <3>1. ~Sw!Writing(p) /\ UNCHANGED <<v1, v4, v5, v6, v17>> BY <1>24 DEF Sw!ParkPost
    <3> QED BY <2>1, <3>1
  <2>2. CASE Sw!Accepted(v13[p]) /\ Sw!Rotate(v13[p]) /\ ~Sw!End(p)
    <3>1. /\ v10[p] = "ParkPost" /\ v10' = [v10 EXCEPT ![p] = "ParkSave"]
          /\ UNCHANGED <<v1, v4, v5, v6, v11, v12, v14, v15, v16, v17>>
          /\ v13' = [v13 EXCEPT ![p] = Sw!Renewed(v13[p])]
      BY <1>24, <2>2 DEF Sw!ParkPost
    <3>2. v13[p] \in Sw!Secret BY <3>1
    <3>3. v13'[p].of = v12[p] BY <2>2, <3>1, <3>2, SwapRenewed
    <3>4. \A q \in Agents : q # p => v13'[q] = v13[q] /\ v10'[q] = v10[q] BY <3>1
    <3> HIDE <1>4, <1>5
    <3> QED BY <2>2, <3>1, <3>3, <3>4
  <2> QED BY <1>24, <2>1, <2>2 DEF Sw!ParkPost
<1>25. ASSUME NEW p \in Agents, Sw!ParkSave(p) PROVE Sw!SignInKept' BY <1>25 DEF Sw!ParkSave
<1>26. ASSUME NEW p \in Agents, Sw!RmLock(p) PROVE Sw!SignInKept' BY <1>26 DEF Sw!RmLock
<1>27. ASSUME NEW p \in Agents, Sw!RmIdent(p) PROVE Sw!SignInKept' BY <1>27 DEF Sw!RmIdent
<1>28. ASSUME NEW p \in Agents, Sw!Kill(p) PROVE Sw!SignInKept'
  <2>1. ~Sw!Writing(p) /\ Sw!End(p) /\ UNCHANGED <<v1, v4, v5, v6, v17>>
    BY <1>2, <1>28 DEF Sw!Kill
  <2> QED BY <2>1
<1>29. CASE Sw!NativeRefresh BY <1>29 DEF Sw!NativeRefresh, Sw!Renewed, Sw!Accepted, Sw!Rotate
<1>30. CASE Sw!NativeStrip BY <1>30 DEF Sw!NativeStrip
<1>31. CASE Sw!NativeLoginEnds BY <1>31 DEF Sw!NativeLoginEnds
<1>32. ASSUME NEW a \in People, Sw!NativeLogin(a) PROVE Sw!SignInKept' BY <1>32 DEF Sw!NativeLogin
<1>33. ASSUME NEW p \in Agents, NEW a \in People, Sw!Activate(p, a) PROVE Sw!SignInKept'
  BY <1>33 DEF Sw!Activate, Sw!Begin
<1>34. ASSUME NEW p \in Agents, NEW a \in People, Sw!ParkBegin(p, a) PROVE Sw!SignInKept'
  BY <1>34 DEF Sw!ParkBegin, Sw!Begin
<1>35. ASSUME NEW p \in Agents, NEW a \in People, Sw!Begin(p, "rm", a, "RmLock", NoSecret)
      PROVE  Sw!SignInKept'
  BY <1>35 DEF Sw!Begin
<1>36. ASSUME NEW p \in Agents, Sw!Begin(p, "capture", NoOne, "CapRead", NoSecret)
      PROVE  Sw!SignInKept'
  BY <1>36 DEF Sw!Begin
<1>37. ASSUME NEW p \in Agents, Sw!RenewBegin(p) PROVE Sw!SignInKept'
  BY <1>37 DEF Sw!RenewBegin, Sw!Begin
<1>38. CASE UNCHANGED Sw!swapVars BY <1>38 DEF Sw!swapVars
<1> QED
  BY <1>6, <1>7, <1>8, <1>9, <1>10, <1>11, <1>12, <1>13, <1>14, <1>15, <1>16, <1>17, <1>18, <1>19,
      <1>20, <1>21, <1>22, <1>23, <1>24, <1>25, <1>26, <1>27, <1>28, <1>29, <1>30, <1>31, <1>32,
      <1>33, <1>34, <1>35, <1>36, <1>37, <1>38 DEF Sw!Next, Sw!Step

\* What the server accepts after it has renewed a token.
LEMMA SwapServer ==
    ASSUME Sw!SwapTypeOK, Sw!TokensCount, NEW s \in Sw!Secret, Sw!Accepted(s), Sw!Rotate(s)
    PROVE  /\ Sw!Renewed(s) \in Sw!Secret /\ Sw!Renewed(s).of = s.of /\ Sw!Renewed(s).gen # 0
           /\ Sw!Renewed(s).gen \in v2'[s.of]
           /\ \A a \in People : v3[a] <= v3'[a]
           /\ \A a \in People : \A g \in v2'[a] : g # 0 /\ g <= v3'[a]
           /\ \A t \in Sw!Secret : t.gen \in v2[t.of] /\ t # s => t.gen \in v2'[t.of]
           /\ \A t \in Sw!Secret : t.gen <= v3[t.of] /\ t.gen \notin v2[t.of] =>
                 t.gen \notin v2'[t.of]
           /\ s.gen \notin v2'[s.of] /\ s.gen <= v3'[s.of]
<1> DEFINE n == v3[s.of] + 1
<1>1. /\ s.of \in People /\ s.gen \in Nat /\ s.gen \in v2[s.of]
      /\ v3 \in [People -> Nat] /\ v2 \in [People -> SUBSET Nat]
  BY SwapSecrets, SwapConstants DEF Sw!SwapTypeOK, Sw!Accepted, Sw!Generation,
     Sw!ClaudeSwapAssumption
<1>2. Sw!Renewed(s) \in Sw!Secret /\ Sw!Renewed(s).of = s.of BY SwapRenewed
<1>3. Sw!Renewed(s).gen = n BY SwapSecrets DEF Sw!Renewed, Sw!Secret
<1>4. /\ v3' = [v3 EXCEPT ![s.of] = n]
      /\ v2' = [v2 EXCEPT ![s.of] = (@ \ {s.gen}) \cup {n}]
  BY <1>1 DEF Sw!Rotate
<1>5. n \in Nat /\ n # 0 /\ v3[s.of] < n BY <1>1
<1>6. \A a \in People : \A g \in v2[a] : g \in Nat /\ g # 0 /\ g <= v3[a]
  BY <1>1 DEF Sw!TokensCount
<1>7. s.gen < n BY <1>1, <1>5, <1>6
<1> HIDE DEF n
<1>8. \A a \in People : v3[a] <= v3'[a] BY <1>1, <1>4, <1>5
<1>9. \A a \in People : \A g \in v2'[a] : g # 0 /\ g <= v3'[a]
  <2> SUFFICES ASSUME NEW a \in People, NEW g \in v2'[a] PROVE g # 0 /\ g <= v3'[a]
    OBVIOUS
  <2>1. CASE a = s.of BY <1>1, <1>4, <1>5, <1>6, <2>1
  <2>2. CASE a # s.of BY <1>1, <1>4, <1>6, <2>2
  <2> QED BY <2>1, <2>2
<1>10. \A t \in Sw!Secret : t.of \in People /\ t.gen \in Nat
       /\ (t.of = s.of /\ t.gen = s.gen => t = s)
  BY SwapConstants DEF Sw!Secret, Sw!Generation, Sw!ClaudeSwapAssumption
<1>11. \A t \in Sw!Secret : t.gen \in v2[t.of] /\ t # s => t.gen \in v2'[t.of]
  BY <1>1, <1>4, <1>10
<1>12. \A t \in Sw!Secret : t.gen <= v3[t.of] /\ t.gen \notin v2[t.of] => t.gen \notin v2'[t.of]
  <2> SUFFICES ASSUME NEW t \in Sw!Secret, t.gen <= v3[t.of], t.gen \notin v2[t.of]
               PROVE  t.gen \notin v2'[t.of]
    OBVIOUS
  <2>1. CASE t.of = s.of
    <3>1. t.gen # n BY <1>1, <1>5, <1>10, <2>1
    <3> QED BY <1>1, <1>4, <1>10, <2>1, <3>1
  <2>2. CASE t.of # s.of BY <1>1, <1>4, <1>10, <2>2
  <2> QED BY <2>1, <2>2
<1>13. s.gen \notin v2'[s.of] /\ s.gen <= v3'[s.of]
  <2>1. s.gen # n BY <1>1, <1>5, <1>7
  <2>2. s.gen <= v3[s.of] BY <1>1, <1>6
  <2>3. v3'[s.of] = n BY <1>1, <1>4
  <2>4. s.gen \notin v2'[s.of] BY <1>1, <1>4, <2>1
  <2>5. s.gen <= n BY <1>1, <1>5, <1>7
  <2> QED BY <2>3, <2>4, <2>5
<1>14. Sw!Renewed(s).gen \in v2'[s.of] BY <1>1, <1>3, <1>4
<1>15. Sw!Renewed(s).gen # 0 BY <1>3, <1>5
<1> QED BY <1>2, <1>8, <1>9, <1>11, <1>12, <1>13, <1>14, <1>15

\* The counts of tokens are kept by every step.
LEMMA SwapCounts == ASSUME SwapInv, Sw!TokensCount, [Sw!Next]_(Sw!swapVars) PROVE Sw!TokensCount'
<1>0. /\ Sw!SwapTypeOK /\ Sw!JobsKept
      /\ v13 \in [Agents -> Sw!MaybeSecret] /\ v15 \in [Agents -> Sw!MaybeSecret]
      /\ v14 \in [Agents -> Sw!MaybeSecret] /\ v10 \in [Agents -> Sw!SwapSteps]
      /\ v4 \in Sw!MaybeSecret
  BY DEF SwapInv, Sw!SwapTypeOK
<1> DEFINE Apart(p) == \A q \in Agents \ {p} : v10'[q] = v10[q] /\ v13'[q] = v13[q]
        /\ v15'[q] = v15[q]
<1>1. ASSUME NEW p \in Agents, UNCHANGED Sw!server, Apart(p),
             Sw!Fresh(p)' => Sw!Fresh(p) /\ v13'[p] = v13[p],
             Sw!Spent(p)' => Sw!Spent(p) /\ v15'[p] = v15[p]
      PROVE  Sw!TokensCount'
  <2>1. v2' = v2 /\ v3' = v3 BY <1>1 DEF Sw!server
  <2>2. \A q \in Agents : Sw!Fresh(q)' => Sw!Fresh(q) /\ v13'[q] = v13[q] BY <1>1 DEF Sw!Fresh
  <2>3. \A q \in Agents : Sw!Spent(q)' => Sw!Spent(q) /\ v15'[q] = v15[q] BY <1>1 DEF Sw!Spent
  <2> QED BY <2>1, <2>2, <2>3 DEF Sw!TokensCount, Sw!Accepted
<1>2. ASSUME NEW p \in Agents, Sw!End(p) PROVE Apart(p) /\ ~Sw!Fresh(p)' /\ ~Sw!Spent(p)'
  BY <1>0, <1>2 DEF Sw!End, Sw!Goto, Sw!Fresh, Sw!Spent
<1>3. ASSUME NEW p \in Agents, NEW s, Sw!Goto(p, s)
      PROVE  v10'[p] = s /\ \A q \in Agents \ {p} : v10'[q] = v10[q]
  BY <1>0, <1>3 DEF Sw!Goto
\* What the server does makes no token that was spent good again.
<1> DEFINE Onward == /\ \A a \in People : v3[a] <= v3'[a]
                     /\ v3 \in [People -> Nat] /\ v3' \in [People -> Nat]
                     /\ \A t \in Sw!Secret : t.gen <= v3[t.of] /\ t.gen \notin v2[t.of] =>
                           t.gen \notin v2'[t.of]
<1>22. ASSUME Onward, NEW q \in Agents, Sw!Spent(q), v15'[q] = v15[q]
       PROVE  v15'[q] # NoSecret /\ v15'[q].gen <= v3'[v15'[q].of] /\ ~Sw!Accepted(v15[q])'
  <2>1. /\ v15[q] # NoSecret /\ v15[q].gen <= v3[v15[q].of]
        /\ v15[q].gen \notin v2[v15[q].of]
    BY <1>22 DEF Sw!TokensCount, Sw!Accepted
  <2>2. v15[q] \in Sw!Secret /\ v15[q].of \in People /\ v15[q].gen \in Nat
    BY <1>0, <2>1, SwapSecrets, SwapConstants DEF Sw!Generation, Sw!ClaudeSwapAssumption
  <2>3. v15[q].gen \notin v2'[v15[q].of] BY <1>22, <2>1, <2>2
  <2>4. v15[q].gen <= v3'[v15[q].of]
    <3>1. v3[v15[q].of] \in Nat /\ v3'[v15[q].of] \in Nat
          /\ v3[v15[q].of] <= v3'[v15[q].of]
      BY <1>22, <2>2
    <3> HIDE DEF Onward
    <3> QED BY <2>1, <2>2, <3>1
  <2> QED BY <1>22, <2>1, <2>3, <2>4 DEF Sw!Accepted
<1>23. ASSUME Onward, \A a \in People : \A g \in v2'[a] : g # 0 /\ g <= v3'[a],
              UNCHANGED <<v10, v13, v15>>
       PROVE  Sw!TokensCount'
  <2>1. \A q \in Agents : Sw!Fresh(q)' => v13'[q] # NoSecret /\ v13'[q].gen # 0
    BY <1>23 DEF Sw!Fresh, Sw!TokensCount
  <2>2. \A q \in Agents : Sw!Spent(q)' => Sw!Spent(q) /\ v15'[q] = v15[q] BY <1>23 DEF Sw!Spent
  <2>3. \A q \in Agents : Sw!Spent(q)' =>
          v15'[q] # NoSecret /\ v15'[q].gen <= v3'[v15'[q].of] /\ ~Sw!Accepted(v15[q])'
    <3> HIDE DEF Onward
    <3> QED BY <1>22, <1>23, <2>2
  <2> QED BY <1>23, <2>1, <2>3 DEF Sw!TokensCount
<1>24. ASSUME NEW s \in Sw!Secret, Sw!Accepted(s), Sw!Rotate(s)
       PROVE  Onward /\ \A a \in People : \A g \in v2'[a] : g # 0 /\ g <= v3'[a]
  <2>1. v3 \in [People -> Nat]
    BY <1>0, SwapConstants DEF Sw!SwapTypeOK, Sw!Generation, Sw!ClaudeSwapAssumption
  <2>2. v3' \in [People -> Nat]
    <3>1. v3' = [v3 EXCEPT ![s.of] = v3[s.of] + 1] BY <1>24 DEF Sw!Rotate
    <3>2. s.of \in People /\ v3[s.of] + 1 \in Nat BY <2>1, SwapSecrets
    <3> QED BY <2>1, <3>1, <3>2
  <2> QED BY <1>0, <1>24, <2>1, <2>2, SwapServer
\* A token is renewed, and is in nobody else's hands afterwards.
<1>4. ASSUME NEW p \in Agents, Sw!Accepted(v13[p]), Sw!Rotate(v13[p]), ~Sw!Spent(p),
             v13' = [v13 EXCEPT ![p] = Sw!Renewed(v13[p])],
             \A q \in Agents \ {p} : v10'[q] = v10[q] /\ v15'[q] = v15[q],
             ~Sw!Spent(p)' \/ v15'[p] = v13[p]
      PROVE  Sw!TokensCount'
  <2>1. v13[p] \in Sw!Secret BY <1>0, <1>4, SwapSecrets DEF Sw!Accepted
  <2> DEFINE s == v13[p]
  <2>2. /\ Sw!Renewed(s) \in Sw!Secret /\ Sw!Renewed(s).gen # 0
        /\ s.gen \notin v2'[s.of] /\ s.gen <= v3'[s.of]
    BY <1>0, <1>4, <2>1, SwapServer
  <2>3. \A q \in Agents : Sw!Fresh(q)' => v13'[q] # NoSecret /\ v13'[q].gen # 0
    <3>1. v13'[p] = Sw!Renewed(s) /\ Sw!Renewed(s) # NoSecret BY <1>0, <1>4, <2>2, SwapSecrets
    <3>2. ASSUME NEW q \in Agents \ {p}, Sw!Fresh(q)' PROVE v13'[q] # NoSecret /\ v13'[q].gen # 0
      <4>1. Sw!Fresh(q) /\ v13'[q] = v13[q] BY <1>0, <1>4, <3>2 DEF Sw!Fresh
      <4> QED BY <4>1 DEF Sw!TokensCount
    <3> QED BY <2>2, <3>1, <3>2
  <2>4. ASSUME NEW q \in Agents, Sw!Spent(q)'
        PROVE  v15'[q] # NoSecret /\ v15'[q].gen <= v3'[v15'[q].of] /\ ~Sw!Accepted(v15[q])'
    <3>1. CASE q = p
      <4>1. v15'[q] = s BY <1>4, <2>4, <3>1
      <4>2. s # NoSecret BY <1>4 DEF Sw!Accepted
      <4> QED BY <2>2, <4>1, <4>2 DEF Sw!Accepted
    <3>2. CASE q # p
      <4>1. Sw!Spent(q) /\ v15'[q] = v15[q] BY <1>4, <2>4, <3>2 DEF Sw!Spent
      <4>2. Onward BY <1>4, <1>24, <2>1
      <4> HIDE DEF Onward
      <4> QED BY <1>22, <4>1, <4>2
    <3> QED BY <3>1, <3>2
  <2>5. \A a \in People : \A g \in v2'[a] : g # 0 /\ g <= v3'[a] BY <1>4, <1>24, <2>1
  <2> QED BY <2>3, <2>4, <2>5 DEF Sw!TokensCount
<1> USE DEF Sw!server
<1>5. ASSUME NEW p \in Agents, NEW j, NEW a, NEW s, NEW h, Sw!Begin(p, j, a, s, h),
             s \in {"CapRead", "PreRefresh", "RmLock", "RenewLock", "ParkLock"}
      PROVE  Sw!TokensCount'
  <2>1. ~Sw!Fresh(p)' /\ ~Sw!Spent(p)' BY <1>0, <1>5 DEF Sw!Begin, Sw!Goto, Sw!Fresh, Sw!Spent
  <2>2. Apart(p) BY <1>0, <1>5 DEF Sw!Begin, Sw!Goto
  <2> QED BY <1>1, <1>5, <2>1, <2>2 DEF Sw!Begin
<1>6. ASSUME NEW p \in Agents,
             \/ \E a \in People : \/ Sw!Activate(p, a) \/ Sw!ParkBegin(p, a)
                                    \/ Sw!Begin(p, "rm", a, "RmLock", NoSecret)
             \/ Sw!Begin(p, "capture", NoOne, "CapRead", NoSecret) \/ Sw!RenewBegin(p)
      PROVE  Sw!TokensCount'
  BY <1>5, <1>6 DEF Sw!Activate, Sw!ParkBegin, Sw!RenewBegin
<1>7. ASSUME NEW p \in Agents, Sw!PreRefresh(p) PROVE Sw!TokensCount'
  <2>1. CASE Sw!Goto(p, "CapRead") /\ UNCHANGED <<Sw!server, v13>>
    <3>1. ~Sw!Fresh(p)' /\ ~Sw!Spent(p)' /\ Apart(p)
      BY <1>0, <1>7, <2>1 DEF Sw!PreRefresh, Sw!Goto, Sw!Fresh, Sw!Spent
    <3> QED BY <1>1, <2>1, <3>1
  <2>2. CASE /\ Sw!Accepted(v13[p]) /\ Sw!Rotate(v13[p])
             /\ v13' = [v13 EXCEPT ![p] = Sw!Renewed(v13[p])] /\ Sw!Goto(p, "SaveFresh")
    <3>1. ~Sw!Spent(p) /\ ~Sw!Spent(p)' BY <1>0, <1>7, <2>2 DEF Sw!PreRefresh, Sw!Goto, Sw!Spent
    <3>2. \A q \in Agents \ {p} : v10'[q] = v10[q] /\ v15'[q] = v15[q]
      BY <1>3, <1>7, <2>2 DEF Sw!PreRefresh
    <3> QED BY <1>4, <2>2, <3>1, <3>2
  <2> QED BY <1>7, <2>1, <2>2 DEF Sw!PreRefresh
<1>8. ASSUME NEW p \in Agents, Sw!RenewPost(p) PROVE Sw!TokensCount'
  <2>1. CASE Sw!End(p) /\ UNCHANGED Sw!server BY <1>1, <1>2, <2>1
  <2>2. CASE /\ Sw!Accepted(v13[p]) /\ Sw!Rotate(v13[p]) /\ v15' = [v15 EXCEPT ![p] = v13[p]]
             /\ v13' = [v13 EXCEPT ![p] = Sw!Renewed(v13[p])] /\ Sw!Goto(p, "RenewCompare")
    <3>1. ~Sw!Spent(p) /\ v15'[p] = v13[p] BY <1>0, <1>8, <2>2 DEF Sw!RenewPost, Sw!Spent
    <3>2. \A q \in Agents \ {p} : v10'[q] = v10[q] /\ v15'[q] = v15[q] BY <1>0, <1>3, <2>2
    <3> QED BY <1>4, <2>2, <3>1, <3>2
  <2> QED BY <1>8, <2>1, <2>2 DEF Sw!RenewPost
<1>9. ASSUME NEW p \in Agents, Sw!ParkPost(p) PROVE Sw!TokensCount'
  <2>1. CASE Sw!End(p) /\ UNCHANGED Sw!server BY <1>1, <1>2, <2>1
  <2>2. CASE /\ Sw!Accepted(v13[p]) /\ Sw!Rotate(v13[p])
             /\ v13' = [v13 EXCEPT ![p] = Sw!Renewed(v13[p])] /\ Sw!Goto(p, "ParkSave")
             /\ v15' = v15
    <3>1. ~Sw!Spent(p) /\ ~Sw!Spent(p)' BY <1>0, <1>9, <2>2 DEF Sw!ParkPost, Sw!Goto, Sw!Spent
    <3>2. \A q \in Agents \ {p} : v10'[q] = v10[q] /\ v15'[q] = v15[q] BY <1>3, <2>2
    <3> QED BY <1>4, <2>2, <3>1, <3>2
  <2> QED BY <1>9, <2>1, <2>2 DEF Sw!ParkPost
\* Commands that read, store or write tell the server nothing.
<1>10. ASSUME NEW p \in Agents, NEW s \in Sw!SwapSteps, Sw!Goto(p, s), UNCHANGED <<Sw!server, v13>>,
              v15' = v15 \/ \E x : v15' = [v15 EXCEPT ![p] = x],
              s \notin {"SaveFresh", "RenewCompare", "ParkSave"},
              s = "RenewWrite" => v10[p] = "RenewCompare" /\ v15' = v15
       PROVE  Sw!TokensCount'
  <2>1. Apart(p) BY <1>0, <1>10 DEF Sw!Goto
  <2>2. Sw!Fresh(p)' => Sw!Fresh(p) BY <1>0, <1>10 DEF Sw!Goto, Sw!Fresh
  <2>3. Sw!Spent(p)' => Sw!Spent(p) /\ v15'[p] = v15[p] BY <1>0, <1>10 DEF Sw!Goto, Sw!Spent
  <2> QED BY <1>1, <1>10, <2>1, <2>2, <2>3
<1>11. ASSUME NEW p \in Agents, Sw!End(p), UNCHANGED Sw!server PROVE Sw!TokensCount'
  BY <1>1, <1>2, <1>11
<1> USE DEF Sw!mine, Sw!SwapSteps
<1>12. ASSUME NEW p \in Agents, Sw!CapRead(p) PROVE Sw!TokensCount'
  BY <1>10, <1>11, <1>12 DEF Sw!CapRead, Sw!GoOn, Sw!AfterCapture
<1>13. ASSUME NEW p \in Agents, Sw!CapIdent(p) PROVE Sw!TokensCount'
  BY <1>10, <1>11, <1>13 DEF Sw!CapIdent, Sw!GoOn, Sw!AfterCapture
<1>14. ASSUME NEW p \in Agents, Sw!CapStore(p) PROVE Sw!TokensCount'
  BY <1>10, <1>11, <1>14 DEF Sw!CapStore, Sw!AfterCapture
<1>15. ASSUME NEW p \in Agents, Sw!SaveFresh(p) \/ Sw!KeyWrite(p) \/ Sw!Lock(p)
        \/ Sw!WriteSecret(p) \/ Sw!WriteIdent(p)
       PROVE  Sw!TokensCount'
  BY <1>10, <1>15 DEF Sw!SaveFresh, Sw!KeyWrite, Sw!Lock, Sw!WriteSecret, Sw!WriteIdent
<1>16. ASSUME NEW p \in Agents, Sw!Commit(p) \/ Sw!Fail(p) \/ Sw!KeyRestore(p) \/ Sw!RenewWrite(p)
       PROVE  Sw!TokensCount'
  BY <1>10, <1>11, <1>16 DEF Sw!Commit, Sw!Fail, Sw!KeyRestore, Sw!RenewWrite
<1>17. ASSUME NEW p \in Agents, Sw!RenewLock(p) \/ Sw!RenewRead(p) \/ Sw!RenewCompare(p)
      PROVE Sw!TokensCount'
  BY <1>10, <1>11, <1>17 DEF Sw!RenewLock, Sw!RenewRead, Sw!RenewCompare
<1>18. ASSUME NEW p \in Agents, Sw!ParkLock(p) PROVE Sw!TokensCount'
  <2>1. CASE Sw!End(p) BY <1>11, <1>18, <2>1 DEF Sw!ParkLock
  <2>2. CASE /\ v13' = [v13 EXCEPT ![p] = v6[v12[p]]] /\ Sw!Goto(p, "ParkPost")
             /\ v15' = v15 /\ UNCHANGED Sw!server
    <3>1. Apart(p) /\ ~Sw!Fresh(p)' /\ ~Sw!Spent(p)'
      BY <1>0, <1>18, <2>2 DEF Sw!Goto, Sw!Fresh, Sw!Spent
    <3> QED BY <1>1, <2>2, <3>1
  <2> QED BY <1>18, <2>1, <2>2 DEF Sw!ParkLock
<1>19. ASSUME NEW p \in Agents, Sw!ParkSave(p) \/ Sw!RmLock(p) \/ Sw!RmIdent(p) \/ Sw!Kill(p)
      PROVE Sw!TokensCount'
  BY <1>10, <1>11, <1>19 DEF Sw!ParkSave, Sw!RmLock, Sw!RmIdent, Sw!Kill
<1>20. ASSUME UNCHANGED <<Sw!server, v10, v13, v15>> PROVE Sw!TokensCount'
  BY <1>20 DEF Sw!TokensCount, Sw!Fresh, Sw!Spent, Sw!Accepted
<1>21. ASSUME Sw!NativeRefresh PROVE Sw!TokensCount'
  <2>1. Sw!Accepted(v4) /\ Sw!Rotate(v4) /\ UNCHANGED <<v10, v13, v15>>
    BY <1>21 DEF Sw!NativeRefresh
  <2>2. v4 \in Sw!Secret BY <1>0, <2>1, SwapSecrets DEF Sw!Accepted
  <2> QED BY <1>23, <1>24, <2>1, <2>2
<1>25. ASSUME NEW a \in People, Sw!NativeLogin(a) PROVE Sw!TokensCount'
  <2>1. /\ v3' = [v3 EXCEPT ![a] = v3[a] + 1]
        /\ v2' = [v2 EXCEPT ![a] = v2[a] \cup {v3[a] + 1}]
        /\ UNCHANGED <<v10, v13, v15>>
    BY <1>25 DEF Sw!NativeLogin
  <2>2. v3 \in [People -> Nat] /\ v2 \in [People -> SUBSET Nat]
    BY <1>0, SwapConstants DEF Sw!SwapTypeOK, Sw!Generation, Sw!ClaudeSwapAssumption
  <2>3. v3[a] \in Nat BY <2>2
  <2>4. \A b \in People : \A g \in v2[b] : g \in Nat /\ g # 0 /\ g <= v3[b]
    BY <2>2 DEF Sw!TokensCount
  <2>5. \A b \in People : \A g \in v2'[b] : g # 0 /\ g <= v3'[b]
    <3> SUFFICES ASSUME NEW b \in People, NEW g \in v2'[b] PROVE g # 0 /\ g <= v3'[b]
      OBVIOUS
    <3>1. CASE a = b BY <2>1, <2>2, <2>3, <2>4, <3>1
    <3>2. CASE a # b BY <2>1, <2>2, <2>4, <3>2
    <3> QED BY <3>1, <3>2
  <2>6. \A b \in People : v3[b] <= v3'[b] BY <2>1, <2>2, <2>3
  <2>7. v3' \in [People -> Nat] BY <2>1, <2>2, <2>3
  <2>8. ASSUME NEW t \in Sw!Secret, t.gen <= v3[t.of], t.gen \notin v2[t.of]
        PROVE  t.gen \notin v2'[t.of]
    <3>1. t.of \in People /\ t.gen \in Nat
      BY SwapConstants DEF Sw!Secret, Sw!Generation, Sw!ClaudeSwapAssumption
    <3>2. CASE t.of = a
      <4>1. t.gen # v3[a] + 1 BY <2>3, <2>8, <3>1, <3>2
      <4> QED BY <2>1, <2>2, <2>8, <3>1, <3>2, <4>1
    <3>3. CASE t.of # a BY <2>1, <2>2, <2>8, <3>1, <3>3
    <3> QED BY <3>2, <3>3
  <2> QED BY <1>23, <2>1, <2>2, <2>5, <2>6, <2>7, <2>8
<1>26. ASSUME NEW p \in Agents, Sw!Step(p) PROVE Sw!TokensCount'
  BY <1>6, <1>7, <1>8, <1>9, <1>12, <1>13, <1>14, <1>15, <1>16, <1>17, <1>18, <1>19, <1>26
     DEF Sw!Step
<1>27. CASE UNCHANGED Sw!swapVars BY <1>20, <1>27 DEF Sw!swapVars
<1>28. CASE Sw!NativeStrip \/ Sw!NativeLoginEnds
  BY <1>20, <1>28 DEF Sw!NativeStrip, Sw!NativeLoginEnds
<1> QED BY <1>21, <1>25, <1>26, <1>27, <1>28 DEF Sw!Next

\* Every step but a kill notes of which accounts two different tokens are in use.
LEMMA SwapUndivided ==
    ASSUME SwapInv, Sw!TokensCount, Sw!LiveKept, [Sw!Next]_(Sw!swapVars), ~v21'
    PROVE  /\ ~v21 /\ v22 \subseteq v22'
           /\ \A a \in People \ v22' : ~Sw!Divided(a)'
<1> DEFINE Shown == /\ ~v21 /\ v22 \subseteq v22'
                    /\ \A a \in People \ v22' : ~Sw!Divided(a)'
<1>1. ASSUME NEW S, Sw!Note(S) PROVE Shown
  BY <1>1 DEF Sw!Note
<1>2. ASSUME NEW p \in Agents, Sw!Kill(p) PROVE Shown
  <2>1. ~v21 /\ ~Sw!Writing(p) /\ v22 \subseteq v22' BY <1>2 DEF Sw!Kill
  <2>2. /\ v4' = v4 /\ v2' = v2
        /\ v13' = [v13 EXCEPT ![p] = NoSecret] /\ v14' = [v14 EXCEPT ![p] = NoSecret]
        /\ v15' = [v15 EXCEPT ![p] = NoSecret] /\ v10' = [v10 EXCEPT ![p] = "Idle"]
    BY <1>2 DEF Sw!Kill, Sw!End, Sw!Goto, Sw!files, Sw!server
  <2>3. /\ v13 \in [Agents -> Sw!MaybeSecret] /\ v14 \in [Agents -> Sw!MaybeSecret]
        /\ v15 \in [Agents -> Sw!MaybeSecret] /\ v10 \in [Agents -> Sw!SwapSteps]
    BY DEF SwapInv, Sw!SwapTypeOK
  <2>4. \A q \in Agents \ {p} :
          v13'[q] = v13[q] /\ v14'[q] = v14[q] /\ v15'[q] = v15[q] /\ v10'[q] = v10[q]
    BY <2>2, <2>3
  <2>5. v13'[p] = NoSecret /\ v14'[p] = NoSecret /\ v15'[p] = NoSecret BY <2>2, <2>3
  <2>6. ASSUME NEW a \in People \ v22' PROVE Sw!InUse(a)' \subseteq Sw!InUse(a)
    <3>1. v13[p] # NoSecret => v13[p].of # a BY <1>2, <2>6 DEF Sw!Kill
    <3>2. ASSUME Sw!Spent(p), v4 = v15[p] PROVE v4.of # a
      <4>1. v10[p] = "RenewCompare" BY <2>1, <3>2 DEF Sw!Spent, Sw!Writing
      <4>2. v13[p] # NoSecret /\ v13[p].of = v15[p].of
        BY <2>1, <4>1 DEF SwapInv, Sw!JobsKept, Sw!SignInKept, Sw!OwnersKept
      <4> QED BY <3>1, <3>2, <4>2
    <3>3. SUFFICES ASSUME NEW s \in Sw!InUse(a)' PROVE s \in Sw!InUse(a) OBVIOUS
    <3>4. s # NoSecret /\ s.of = a BY <3>3 DEF Sw!InUse
    <3>5. \/ s = v4' /\ \A q \in Agents : Sw!Spent(q)' => v15'[q] # s
          \/ \E q \in Agents : s = v13'[q] \/ s = v14'[q] \/ (s = v15'[q] /\ ~Sw!Spent(q)')
      BY <3>3 DEF Sw!InUse
    <3>6. \A q \in Agents \ {p} : Sw!Spent(q)' <=> Sw!Spent(q) BY <2>4 DEF Sw!Spent
    <3>7. CASE s = v4' /\ \A q \in Agents : Sw!Spent(q)' => v15'[q] # s
      <4>1. s = v4 /\ \A q \in Agents : Sw!Spent(q) => v15[q] # s
        BY <2>2, <2>4, <3>2, <3>4, <3>6, <3>7
      <4> QED BY <3>4, <4>1 DEF Sw!InUse
    <3>8. CASE \E q \in Agents : s = v13'[q] \/ s = v14'[q] \/ (s = v15'[q] /\ ~Sw!Spent(q)')
      <4>1. PICK q \in Agents : s = v13'[q] \/ s = v14'[q] \/ (s = v15'[q] /\ ~Sw!Spent(q)')
        BY <3>8
      <4>2. q # p BY <2>5, <3>4, <4>1
      <4>3. s = v13[q] \/ s = v14[q] \/ (s = v15[q] /\ ~Sw!Spent(q)) BY <2>4, <3>6, <4>1, <4>2
      <4> QED BY <3>4, <4>3 DEF Sw!InUse
    <3> QED BY <3>5, <3>7, <3>8
  <2>7. ASSUME NEW a \in People \ v22' PROVE ~Sw!Divided(a)'
    <3>1. ~Sw!Divided(a) BY <2>1, <2>7 DEF Sw!LiveKept
    <3>2. Sw!InUse(a)' \subseteq Sw!InUse(a) BY <2>6, <2>7
    <3> QED BY <2>2, <3>1, <3>2 DEF Sw!Divided, Sw!Accepted
  <2> QED BY <2>1, <2>7
<1>3. ASSUME NEW p \in Agents,
             \/ \E a \in People : \/ Sw!Activate(p, a) \/ Sw!ParkBegin(p, a)
                                    \/ Sw!Begin(p, "rm", a, "RmLock", NoSecret)
             \/ Sw!Begin(p, "capture", NoOne, "CapRead", NoSecret) \/ Sw!RenewBegin(p)
      PROVE  \E S : Sw!Note(S)
  BY <1>3 DEF Sw!Activate, Sw!ParkBegin, Sw!RenewBegin, Sw!Begin
<1>4. ASSUME NEW p \in Agents,
             \/ Sw!PreRefresh(p) \/ Sw!SaveFresh(p) \/ Sw!CapRead(p) \/ Sw!CapIdent(p)
             \/ Sw!CapStore(p) \/ Sw!KeyWrite(p) \/ Sw!Lock(p) \/ Sw!WriteSecret(p)
      PROVE  \E S : Sw!Note(S)
  BY <1>4 DEF Sw!PreRefresh, Sw!SaveFresh, Sw!CapRead, Sw!CapIdent, Sw!CapStore, Sw!KeyWrite,
     Sw!Lock, Sw!WriteSecret
<1>5. ASSUME NEW p \in Agents,
             \/ Sw!WriteIdent(p) \/ Sw!Commit(p) \/ Sw!Fail(p) \/ Sw!KeyRestore(p)
             \/ Sw!RenewLock(p) \/ Sw!RenewRead(p) \/ Sw!RenewPost(p) \/ Sw!RenewCompare(p)
      PROVE  \E S : Sw!Note(S)
  BY <1>5 DEF Sw!WriteIdent, Sw!Commit, Sw!Fail, Sw!KeyRestore, Sw!RenewLock, Sw!RenewRead,
     Sw!RenewPost, Sw!RenewCompare
<1>6. ASSUME NEW p \in Agents,
             Sw!RenewWrite(p) \/ Sw!ParkLock(p) \/ Sw!ParkPost(p) \/ Sw!ParkSave(p)
                     \/ Sw!RmLock(p) \/ Sw!RmIdent(p)
      PROVE  \E S : Sw!Note(S)
  BY <1>6 DEF Sw!RenewWrite, Sw!ParkLock, Sw!ParkPost, Sw!ParkSave, Sw!RmLock, Sw!RmIdent
<1>7. ASSUME Sw!NativeRefresh \/ Sw!NativeStrip \/ Sw!NativeLoginEnds
        \/ \E a \in People : Sw!NativeLogin(a)
      PROVE  \E S : Sw!Note(S)
  BY <1>7 DEF Sw!NativeRefresh, Sw!NativeStrip, Sw!NativeLoginEnds, Sw!NativeLogin
<1>8. ASSUME UNCHANGED Sw!swapVars PROVE Shown
  <2>1. UNCHANGED <<v2, v4, v10, v13, v14, v15, v21, v22>>
    BY <1>8 DEF Sw!swapVars, Sw!mine
  <2> QED BY <2>1 DEF Sw!LiveKept, Sw!Divided, Sw!InUse, Sw!Accepted, Sw!Spent
<1> HIDE DEF Shown
<1>9. ASSUME NEW p \in Agents, Sw!Step(p) PROVE Sw!Kill(p) \/ \E S : Sw!Note(S)
  BY <1>3, <1>4, <1>5, <1>6, <1>9 DEF Sw!Step
<1>10. Shown
  <2>1. CASE \E p \in Agents : Sw!Step(p) BY <1>1, <1>2, <1>9, <2>1
  <2>2. CASE Sw!NativeRefresh \/ Sw!NativeStrip \/ Sw!NativeLoginEnds
          \/ \E a \in People : Sw!NativeLogin(a)
    BY <1>1, <1>7, <2>2
  <2> QED BY <1>8, <2>1, <2>2 DEF Sw!Next
<1> QED BY <1>10 DEF Shown

\* A step of p leaves what the others hold alone.
SwapApart(p) ==
    \A q \in Agents \ {p} :
        /\ v10'[q] = v10[q] /\ v12'[q] = v12[q]
        /\ v13'[q] = v13[q] /\ v14'[q] = v14[q] /\ v15'[q] = v15[q]

\* What Sound means for a secret before a step and after it.
SwapOk(t) == t = NoSecret \/ t.gen = 0 \/ t.of \in v22 \/ t.gen \in v2[t.of]
SwapOkNext(t) == t = NoSecret \/ t.gen = 0 \/ t.of \in v22' \/ t.gen \in v2'[t.of]

SwapMono == \A a \in People \ v22' : Sw!Stored(a) => Sw!Stored(a)'
SwapHandsNext ==
    \A q \in Agents :
        SwapOkNext(v13'[q]) /\ SwapOkNext(v14'[q]) /\ (Sw!Spent(q)' \/ SwapOkNext(v15'[q]))
SwapLiveNext == SwapOkNext(v4') \/ \E q \in Agents : Sw!Spent(q)' /\ v15'[q] = v4'
SwapThereNext ==
    \A a \in People \ v22' : Sw!Stored(a)' \/ (Sw!Accepted(v4)' /\ v4'.of = a)

SwapBefore ==
    /\ Sw!SwapTypeOK /\ Sw!JobsKept /\ Sw!SignInKept /\ Sw!SignInKept' /\ Sw!TokensCount
        /\ Sw!TokensCount'
    /\ ~v21 /\ ~v21' /\ v22 \subseteq v22'
    /\ \A a \in People \ v22' : ~Sw!Divided(a)'
    /\ \A p \in Agents : SwapOk(v13[p]) /\ SwapOk(v14[p]) /\ (Sw!Spent(p) \/ SwapOk(v15[p]))
    /\ SwapOk(v4) \/ \E p \in Agents : Sw!Spent(p) /\ v15[p] = v4
    /\ \A a \in People \ v22 : Sw!Stored(a) \/ (Sw!Accepted(v4) /\ v4.of = a)
    /\ \A p \in Agents : Sw!RestoreLosesNothing(p)

\* The invariant, its parts named for the lemmas about single kinds of steps.
LEMMA SwapGather ==
    ASSUME SwapInv, Sw!SignInKept', Sw!TokensCount, Sw!TokensCount', Sw!LiveKept, ~v21, ~v21',
           v22 \subseteq v22', \A a \in People \ v22' : ~Sw!Divided(a)'
    PROVE  SwapBefore
BY DEF SwapBefore, SwapInv, Sw!LiveKept, Sw!Sound, Sw!Accepted, SwapOk

\* What is to be shown of a step.
LEMMA SwapAssemble ==
    ASSUME SwapBefore, SwapHandsNext, SwapLiveNext, SwapThereNext,
           \A q \in Agents : Sw!RestoreLosesNothing(q)'
    PROVE  Sw!LiveKept'
<1>1. \A q \in Agents : Sw!Sound(v13[q])' /\ Sw!Sound(v14[q])' /\ (Sw!Spent(q)'
        \/ Sw!Sound(v15[q])')
  BY DEF SwapHandsNext, Sw!Sound, Sw!Accepted, SwapOkNext
<1>2. Sw!Sound(v4)' \/ \E q \in Agents : Sw!Spent(q)' /\ v15'[q] = v4'
  BY DEF SwapLiveNext, Sw!Sound, Sw!Accepted, SwapOkNext
<1> QED BY <1>1, <1>2 DEF SwapBefore, SwapThereNext, Sw!LiveKept

\* The copies in use after a step, one kind at a time.
LEMMA SwapCopies ==
    ASSUME NEW q \in Agents
    PROVE  /\ v13'[q] # NoSecret => v13'[q] \in Sw!InUse(v13[q].of)'
           /\ v14'[q] # NoSecret => v14'[q] \in Sw!InUse(v14[q].of)'
           /\ v15'[q] # NoSecret /\ ~Sw!Spent(q)' => v15'[q] \in Sw!InUse(v15[q].of)'
           /\ v4' # NoSecret /\ (\A k \in Agents : Sw!Spent(k)' => v15'[k] # v4') =>
                 v4' \in Sw!InUse(v4.of)'
<1>1. v13'[q] # NoSecret => v13'[q] \in Sw!InUse(v13[q].of)' BY DEF Sw!InUse
<1>2. v14'[q] # NoSecret => v14'[q] \in Sw!InUse(v14[q].of)' BY DEF Sw!InUse
<1>3. v15'[q] # NoSecret /\ ~Sw!Spent(q)' => v15'[q] \in Sw!InUse(v15[q].of)' BY DEF Sw!InUse
<1>4. ASSUME v4' # NoSecret, \A k \in Agents : Sw!Spent(k)' => v15'[k] # v4'
      PROVE  v4' \in Sw!InUse(v4.of)'
  <2>1. v4' \notin {v15'[k] : k \in {j \in Agents : Sw!Spent(j)'}} BY <1>4
  <2> QED BY <1>4, <2>1 DEF Sw!InUse
<1> QED BY <1>1, <1>2, <1>3, <1>4

\* Of an account that is not blamed, all copies are good as soon as one is.
LEMMA SwapAllGood ==
    ASSUME SwapBefore, NEW r, NEW t, NEW a \in People,
           r \in Sw!InUse(a)', t \in Sw!InUse(a)', r.gen \in v2'[a]
    PROVE  SwapOkNext(t)
<1>1. r # NoSecret /\ r.of = a /\ t # NoSecret /\ t.of = a BY DEF Sw!InUse
<1>2. CASE a \in v22' BY <1>1, <1>2 DEF SwapOkNext
<1>3. CASE a \notin v22'
  <2>1. ~Sw!Divided(a)' BY <1>3 DEF SwapBefore
  <2>2. t.gen \in v2'[a] BY <1>1, <2>1 DEF Sw!Divided, Sw!Accepted
  <2> QED BY <1>1, <2>2 DEF SwapOkNext
<1> QED BY <1>2, <1>3

\* A secret that the server accepts is no spent one.
LEMMA SwapLiveInUse ==
    ASSUME SwapBefore, v4' # NoSecret, v4'.gen \in v2'[v4'.of]
    PROVE  v4' \in Sw!InUse(v4.of)'
<1>1. \A k \in Agents : Sw!Spent(k)' => v15'[k] # v4' BY DEF SwapBefore, Sw!TokensCount, Sw!Accepted
<1>2. v4' \notin {v15'[k] : k \in {j \in Agents : Sw!Spent(j)'}} BY <1>1
<1> QED BY <1>2 DEF Sw!InUse

\* Without the server, what was good stays good.
LEMMA SwapOkStays ==
    ASSUME SwapBefore, v2' = v2, NEW t, SwapOk(t) PROVE SwapOkNext(t)
BY DEF SwapBefore, SwapOk, SwapOkNext

\* A step without the server leaves sound secrets with the agents that it does not move.
LEMMA SwapHands ==
    ASSUME SwapBefore, NEW p \in Agents, v2' = v2, SwapApart(p),
           SwapOkNext(v13'[p]), SwapOkNext(v14'[p]), Sw!Spent(p)' \/ SwapOkNext(v15'[p])
    PROVE  SwapHandsNext
<1> SUFFICES ASSUME NEW q \in Agents \ {p}
             PROVE  SwapOkNext(v13'[q]) /\ SwapOkNext(v14'[q]) /\ (Sw!Spent(q)'
                     \/ SwapOkNext(v15'[q]))
  BY DEF SwapHandsNext
<1>1. SwapOk(v13[q]) /\ SwapOk(v14[q]) /\ (Sw!Spent(q) \/ SwapOk(v15[q])) BY DEF SwapBefore
<1>2. SwapOkNext(v13[q]) /\ SwapOkNext(v14[q]) /\ (Sw!Spent(q) \/ SwapOkNext(v15[q]))
  BY <1>1, SwapOkStays
<1>3. Sw!Spent(q)' <=> Sw!Spent(q) BY DEF SwapApart, Sw!Spent
<1> QED BY <1>2, <1>3 DEF SwapApart

\* The live secret stays sound, or spent by who is about to replace it.
LEMMA SwapLive ==
    ASSUME SwapBefore, NEW p \in Agents, v2' = v2, v4' = v4, SwapApart(p),
           ~Sw!Spent(p) \/ (Sw!Spent(p)' /\ v15'[p] = v15[p]) \/ v4 # v15[p] \/ v15[p].of \in v22'
    PROVE  SwapLiveNext
<1>1. CASE SwapOk(v4) BY <1>1, SwapOkStays DEF SwapLiveNext
<1>2. CASE \E q \in Agents : Sw!Spent(q) /\ v15[q] = v4
  <2>1. PICK q \in Agents : Sw!Spent(q) /\ v15[q] = v4 BY <1>2
  <2>2. CASE q = p
    <3>1. CASE Sw!Spent(p)' /\ v15'[p] = v15[p] BY <2>1, <2>2, <3>1 DEF SwapLiveNext
    <3>2. CASE v15[p].of \in v22'
      <4>1. SwapOkNext(v4') BY <2>1, <2>2, <3>2 DEF SwapOkNext
      <4> QED BY <4>1 DEF SwapLiveNext
    <3> QED BY <2>1, <2>2, <3>1, <3>2
  <2>3. CASE q # p
    <3>1. Sw!Spent(q)' /\ v15'[q] = v4' BY <2>1, <2>3 DEF SwapApart, Sw!Spent
    <3> QED BY <3>1 DEF SwapLiveNext
  <2> QED BY <2>2, <2>3
<1> QED BY <1>1, <1>2 DEF SwapBefore

\* A stored token stays stored unless its copy is overwritten or dropped.
LEMMA SwapStays ==
    ASSUME SwapBefore, NEW p \in Agents, v2' = v2, SwapApart(p),
           \A a \in People \ v22' : v6'[a] = v6[a] \/ Sw!Accepted(v6[a])' \/ ~Sw!Accepted(v6[a]),
           \A a \in People \ v22' : Sw!HasFresh(p, a) => Sw!HasFresh(p, a)' \/ Sw!Accepted(v6[a])'
    PROVE  SwapMono
<1> SUFFICES ASSUME NEW a \in People \ v22', Sw!Stored(a) PROVE Sw!Stored(a)' BY DEF SwapMono
<1>1. CASE Sw!Accepted(v6[a])
  <2>1. Sw!Accepted(v6[a])' BY <1>1 DEF Sw!Accepted
  <2> QED BY <2>1 DEF Sw!Stored
<1>2. CASE \E q \in Agents : Sw!HasFresh(q, a)
  <2>1. PICK q \in Agents : Sw!HasFresh(q, a) BY <1>2
  <2>2. CASE q = p BY <2>1, <2>2 DEF Sw!Stored
  <2>3. CASE q # p
    <3>1. Sw!HasFresh(q, a)' BY <2>1, <2>3 DEF Sw!HasFresh, Sw!Fresh, Sw!Accepted, SwapApart
    <3> QED BY <3>1 DEF Sw!Stored
  <2> QED BY <2>2, <2>3
<1> QED BY <1>1, <1>2 DEF Sw!Stored

\* An account keeps its token in the store or as the live secret.
LEMMA SwapThere ==
    ASSUME SwapBefore, v2' = v2, SwapMono,
           \A a \in People \ v22' :
              Sw!Accepted(v4) /\ v4.of = a => v4' = v4 \/ Sw!Stored(a) \/ Sw!Stored(a)'
    PROVE  SwapThereNext
<1> SUFFICES ASSUME NEW a \in People \ v22' PROVE Sw!Stored(a)' \/ (Sw!Accepted(v4)' /\ v4'.of = a)
  BY DEF SwapThereNext
<1>1. Sw!Stored(a) \/ (Sw!Accepted(v4) /\ v4.of = a) BY DEF SwapBefore
<1>2. CASE Sw!Stored(a) BY <1>2 DEF SwapMono
<1>3. CASE Sw!Accepted(v4) /\ v4.of = a
  <2>1. CASE v4' = v4 BY <1>3, <2>1 DEF Sw!Accepted
  <2> QED BY <1>2, <1>3, <2>1
<1> QED BY <1>1, <1>2, <1>3

\* A rollback is safe as long as its step writes no secret, or is the only one to.
LEMMA SwapRestores ==
    ASSUME SwapBefore, NEW p \in Agents, UNCHANGED <<v1, v4>>, SwapApart(p), SwapMono,
           Sw!RestoreLosesNothing(p)'
    PROVE  \A q \in Agents : Sw!RestoreLosesNothing(q)'
<1> SUFFICES ASSUME NEW q \in Agents \ {p} PROVE Sw!RestoreLosesNothing(q)' OBVIOUS
<1>1. Sw!RestoreLosesNothing(q) /\ v22 \subseteq v22' BY DEF SwapBefore
<1>2. /\ v10'[q] = v10[q] /\ v12'[q] = v12[q] /\ v13'[q] = v13[q] /\ v15'[q] = v15[q]
  BY DEF SwapApart
<1>3. Sw!Replaced(q)' <=> Sw!Replaced(q) BY <1>2 DEF Sw!Replaced
<1>4. ~v1' /\ v10'[q] = "Secret" => Sw!StillThere(v15[q])' \/ v4'.of \in v22'
  BY <1>1, <1>2 DEF Sw!RestoreLosesNothing, Sw!StillThere
<1>5. ASSUME Sw!Replaced(q)'
      PROVE  /\ Sw!Of(v4, v12[q])'
             /\ v12'[q] \in v22' \/ (Sw!StillThere(v13[q])' /\ Sw!Stored(v12[q])')
  <2>1. /\ Sw!Of(v4, v12[q])
        /\ v12[q] \in v22 \/ (Sw!StillThere(v13[q]) /\ Sw!Stored(v12[q]))
    BY <1>1, <1>3, <1>5 DEF Sw!RestoreLosesNothing
  <2>2. Sw!Of(v4, v12[q])' BY <1>2, <2>1 DEF Sw!Of
  <2>3. CASE v12[q] \in v22' BY <1>2, <2>2, <2>3
  <2>4. CASE v12[q] \notin v22'
    <3>1. v12[q] \in People
      BY <1>3, <1>5 DEF SwapBefore, Sw!JobsKept, Sw!SignInKept, Sw!Replaced
    <3>2. PICK a \in People : a = v12[q] BY <3>1
    <3>3. Sw!Stored(a) /\ a \notin v22' BY <1>1, <2>1, <2>4, <3>2
    <3>4. Sw!Stored(a)' /\ v12'[q] = a BY <1>2, <3>2, <3>3 DEF SwapMono
    <3>5. Sw!Stored(v12[q])' BY <3>4 DEF Sw!Stored, Sw!HasFresh
    <3>6. Sw!StillThere(v13[q])' BY <1>1, <1>2, <2>1, <2>4 DEF Sw!StillThere
    <3> QED BY <2>2, <3>5, <3>6
  <2> QED BY <2>3, <2>4
<1> QED BY <1>4, <1>5 DEF Sw!RestoreLosesNothing

\* A step that writes Claude Code's sign-in is the only one that could make a rollback unsafe.
LEMMA SwapRestoresAlone ==
    ASSUME SwapBefore, NEW p \in Agents, v1' = v1, SwapApart(p), Sw!Writing(p) \/ Sw!Writing(p)',
           Sw!RestoreLosesNothing(p)'
    PROVE  \A q \in Agents : Sw!RestoreLosesNothing(q)'
<1> SUFFICES ASSUME NEW q \in Agents \ {p} PROVE Sw!RestoreLosesNothing(q)' OBVIOUS
<1>1. Sw!Writing(q)' <=> Sw!Writing(q) BY DEF SwapApart, Sw!Writing
<1>2. ~Sw!Crossing /\ ~Sw!Crossing' BY DEF SwapBefore, Sw!SignInKept
<1>3. ~Sw!Writing(q)' BY <1>1, <1>2 DEF Sw!Crossing
<1> QED BY <1>3 DEF Sw!Writing, Sw!RestoreLosesNothing, Sw!Replaced

\* A step that writes neither the live secret nor the store.
LEMMA SwapQuiet ==
    ASSUME SwapBefore, NEW p \in Agents, UNCHANGED <<v2, v1, v4, v6>>, SwapApart(p),
           SwapOkNext(v13'[p]), SwapOkNext(v14'[p]), Sw!Spent(p)' \/ SwapOkNext(v15'[p]),
           ~Sw!Spent(p) \/ (Sw!Spent(p)' /\ v15'[p] = v15[p]) \/ v4 # v15[p] \/ v15[p].of \in v22',
           ~Sw!Fresh(p) \/ (Sw!Fresh(p)' /\ v13'[p] = v13[p]) \/ v13[p].of \in v22',
           SwapMono => Sw!RestoreLosesNothing(p)'
    PROVE  Sw!LiveKept'
<1>1. SwapHandsNext BY SwapHands
<1>2. SwapLiveNext BY SwapLive
<1>3. \A a \in People \ v22' : Sw!HasFresh(p, a) => Sw!HasFresh(p, a)'
  BY DEF Sw!HasFresh, Sw!Accepted
<1>4. SwapMono BY <1>3, SwapStays
<1>5. SwapThereNext BY <1>4, SwapThere
<1>6. \A q \in Agents : Sw!RestoreLosesNothing(q)' BY <1>4, SwapRestores
<1> QED BY <1>1, <1>2, <1>5, <1>6, SwapAssemble

\* A command that is over, and one that goes on.
LEMMA SwapEnded ==
    ASSUME SwapBefore, NEW p \in Agents, Sw!End(p)
    PROVE  /\ SwapApart(p) /\ ~Sw!Spent(p)' /\ ~Sw!Fresh(p)' /\ Sw!RestoreLosesNothing(p)'
           /\ SwapOkNext(v13'[p]) /\ SwapOkNext(v14'[p]) /\ SwapOkNext(v15'[p])
<1>1. /\ v13 \in [Agents -> Sw!MaybeSecret] /\ v14 \in [Agents -> Sw!MaybeSecret]
      /\ v15 \in [Agents -> Sw!MaybeSecret] /\ v10 \in [Agents -> Sw!SwapSteps]
      /\ v12 \in [Agents -> Sw!Somebody]
  BY DEF SwapBefore, Sw!SwapTypeOK
<1>2. v13'[p] = NoSecret /\ v14'[p] = NoSecret /\ v15'[p] = NoSecret /\ v10'[p] = "Idle"
  BY <1>1 DEF Sw!End, Sw!Goto
<1>3. SwapApart(p) BY <1>1 DEF SwapApart, Sw!End, Sw!Goto
<1> QED BY <1>2, <1>3 DEF Sw!Spent, Sw!Fresh, Sw!RestoreLosesNothing, Sw!Replaced, SwapOkNext

\* The end of a command that holds no fresh token of an account not blamed.
LEMMA SwapEnds ==
    ASSUME SwapBefore, NEW p \in Agents, Sw!End(p), UNCHANGED <<v2, v1, v4, v6>>,
           ~Sw!Spent(p) \/ v4 # v15[p] \/ v15[p].of \in v22',
           ~Sw!Fresh(p) \/ v13[p].of \in v22'
    PROVE  Sw!LiveKept'
BY SwapEnded, SwapQuiet

\* What a step that only moves on leaves as it was.
LEMMA SwapGone ==
    ASSUME SwapBefore, NEW p \in Agents, NEW s, Sw!Goto(p, s), UNCHANGED <<v2, Sw!mine>>
    PROVE  /\ SwapApart(p) /\ v10'[p] = s
           /\ SwapOkNext(v13'[p]) /\ SwapOkNext(v14'[p]) /\ (Sw!Spent(p) \/ SwapOkNext(v15'[p]))
<1>1. v10 \in [Agents -> Sw!SwapSteps] BY DEF SwapBefore, Sw!SwapTypeOK
<1>2. v10'[p] = s /\ SwapApart(p) BY <1>1 DEF SwapApart, Sw!Goto, Sw!mine
<1>3. SwapOk(v13[p]) /\ SwapOk(v14[p]) /\ (Sw!Spent(p) \/ SwapOk(v15[p])) BY DEF SwapBefore
<1>4. SwapOkNext(v13[p]) /\ SwapOkNext(v14[p]) /\ (Sw!Spent(p) \/ SwapOkNext(v15[p]))
  BY <1>3, SwapOkStays
<1> QED BY <1>2, <1>4 DEF Sw!mine

\* A step that only moves its command on is safe if no fresh token is dropped.
LEMMA SwapGoes ==
    ASSUME SwapBefore, NEW p \in Agents, NEW s, Sw!Goto(p, s),
           UNCHANGED <<v2, v1, v4, v6, Sw!mine>>,
           Sw!Spent(p) => s = "RenewWrite", Sw!Fresh(p) => s = "RenewWrite",
           SwapMono => Sw!RestoreLosesNothing(p)'
    PROVE  Sw!LiveKept'
<1>1. /\ SwapApart(p) /\ v10'[p] = s
      /\ SwapOkNext(v13'[p]) /\ SwapOkNext(v14'[p]) /\ (Sw!Spent(p) \/ SwapOkNext(v15'[p]))
  BY SwapGone
<1>2. (Sw!Spent(p) => Sw!Spent(p)') /\ (Sw!Fresh(p) => Sw!Fresh(p)') BY <1>1 DEF Sw!Spent, Sw!Fresh
<1> QED BY <1>1, <1>2, SwapQuiet DEF Sw!mine

\* Away from a rollback there is nothing to lose by one.
LEMMA SwapNoRollback ==
    ASSUME NEW p, v10'[p] \notin {"Lock", "Secret", "Ident", "Commit", "KeyRestore"}
    PROVE  Sw!RestoreLosesNothing(p)'
BY DEF Sw!RestoreLosesNothing, Sw!Replaced

\* A stored secret that a command takes up is good, or its account's are divided.
LEMMA SwapFromVault ==
    ASSUME SwapBefore, NEW p \in Agents, v2' = v2, v4' = v4, SwapApart(p), ~Sw!Fresh(p),
           NEW a \in People, v13'[p] = v6[a]
    PROVE  SwapOkNext(v6[a])
<1> SUFFICES ASSUME v6[a] # NoSecret, a \notin v22' PROVE SwapOkNext(v6[a])
  BY DEF SwapOkNext, SwapBefore, Sw!SignInKept, Sw!Of
<1>1. v6[a].of = a /\ a \notin v22 BY DEF SwapBefore, Sw!SignInKept, Sw!Of
<1>2. v6[a] \in Sw!InUse(a)'
  <2>1. v13'[p] \in Sw!InUse(v13[p].of)' BY SwapCopies
  <2> QED BY <1>1, <2>1 DEF Sw!InUse
<1>3. CASE Sw!Accepted(v6[a]) BY <1>1, <1>3 DEF SwapOkNext, Sw!Accepted
<1>4. CASE \E q \in Agents : Sw!HasFresh(q, a)
  <2>1. PICK q \in Agents : Sw!HasFresh(q, a) BY <1>4
  <2>2. v13'[q] = v13[q] BY <2>1 DEF Sw!HasFresh, SwapApart
  <2>3. v13'[q] # NoSecret /\ v13'[q].of = a /\ v13'[q].gen \in v2'[a]
    BY <2>1, <2>2 DEF Sw!HasFresh, Sw!Accepted
  <2>4. v13'[q] \in Sw!InUse(a)' BY <2>3 DEF Sw!InUse
  <2> QED BY <1>2, <2>3, <2>4, SwapAllGood
<1>5. CASE Sw!Accepted(v4) /\ v4.of = a
  <2>1. v4' # NoSecret /\ v4'.of = a /\ v4'.gen \in v2'[a] BY <1>5 DEF Sw!Accepted
  <2>2. v4' \in Sw!InUse(a)'
    <3>1. v4' \in Sw!InUse(v4.of)' BY <2>1, SwapLiveInUse
    <3> QED BY <2>1, <3>1 DEF Sw!InUse
  <2> QED BY <1>2, <2>1, <2>2, SwapAllGood
<1> QED BY <1>1, <1>3, <1>4, <1>5 DEF SwapBefore, Sw!Stored

\* So is the live one.
LEMMA SwapFromLive ==
    ASSUME SwapBefore, NEW p \in Agents, v2' = v2, SwapApart(p), ~Sw!Spent(p),
           v4 = NoSecret \/ v13'[p] = v4 \/ v14'[p] = v4 \/ (v15'[p] = v4 /\ ~Sw!Spent(p)')
    PROVE  SwapOkNext(v4)
<1> SUFFICES ASSUME v4 # NoSecret, ~SwapOk(v4) PROVE SwapOkNext(v4)
  BY SwapOkStays DEF SwapOkNext
<1>1. PICK q \in Agents : Sw!Spent(q) /\ v15[q] = v4 BY DEF SwapBefore
<1>2. q # p /\ v13'[q] = v13[q] BY <1>1 DEF SwapApart
<1>3. Sw!Fresh(q) BY <1>1 DEF Sw!Spent, Sw!Fresh
<1>4. v13[q] # NoSecret /\ v13[q].gen # 0 /\ v13[q].of = v4.of
  BY <1>1, <1>3 DEF SwapBefore, Sw!TokensCount, Sw!SignInKept, Sw!OwnersKept, Sw!Spent
<1>5. v13[q].of \in v22 \/ v13[q].gen \in v2[v13[q].of]
  BY <1>4 DEF SwapBefore, SwapOk
<1>6. CASE v13[q].of \in v22 BY <1>4, <1>6 DEF SwapBefore, SwapOkNext
<1>7. CASE v13[q].gen \in v2[v13[q].of]
  <2>1. PICK a \in People : a = v4.of
    <3>1. v4 \in Sw!Secret BY SwapSecrets DEF SwapBefore, Sw!SwapTypeOK
    <3> QED BY <3>1, SwapSecrets
  <2>2. v13'[q] \in Sw!InUse(a)' BY <1>2, <1>4, <2>1 DEF Sw!InUse
  <2>3. v4 \in Sw!InUse(a)' BY <2>1 DEF Sw!InUse
  <2>4. v13'[q].gen \in v2'[a] BY <1>2, <1>4, <1>7, <2>1
  <2> QED BY <2>2, <2>3, <2>4, SwapAllGood
<1> QED BY <1>5, <1>6, <1>7

\* The server makes one token bad, and no other.
LEMMA SwapRotated ==
    ASSUME SwapBefore, NEW s \in Sw!Secret, Sw!Accepted(s), Sw!Rotate(s),
       NEW t \in Sw!MaybeSecret, t # s
    PROVE  /\ SwapOk(t) => SwapOkNext(t)
           /\ t # NoSecret /\ t.gen \in v2[t.of] => t.gen \in v2'[t.of]
<1>1. Sw!SwapTypeOK /\ Sw!TokensCount /\ v22 \subseteq v22' BY DEF SwapBefore
<1>2. \A u \in Sw!Secret : u.gen \in v2[u.of] /\ u # s => u.gen \in v2'[u.of]
  BY <1>1, SwapServer
<1>3. t # NoSecret => t \in Sw!Secret BY SwapSecrets
<1>4. t # NoSecret /\ t.gen \in v2[t.of] => t.gen \in v2'[t.of] BY <1>2, <1>3
<1> QED BY <1>1, <1>4 DEF SwapOk, SwapOkNext

\* A step that renews a token at the server and holds the answer.
LEMMA SwapRenews ==
    ASSUME SwapBefore, NEW p \in Agents, Sw!Accepted(v13[p]), Sw!Rotate(v13[p]),
           v13'[p] = Sw!Renewed(v13[p]), UNCHANGED <<v1, v4, v6>>, SwapApart(p),
           v14'[p] = v14[p], v15'[p] = v15[p] \/ Sw!Spent(p)', ~Sw!Spent(p), Sw!Fresh(p)',
           v10'[p] \in {"SaveFresh", "RenewCompare", "ParkSave"}
    PROVE  Sw!LiveKept'
<1>1. /\ v13 \in [Agents -> Sw!MaybeSecret] /\ v14 \in [Agents -> Sw!MaybeSecret]
      /\ v15 \in [Agents -> Sw!MaybeSecret] /\ v4 \in Sw!MaybeSecret
      /\ v6 \in [People -> Sw!MaybeSecret]
  BY DEF SwapBefore, Sw!SwapTypeOK
<1>2. PICK s \in Sw!Secret : s = v13[p] BY <1>1, SwapSecrets DEF Sw!Accepted
<1>3. PICK a \in People : a = s.of BY SwapSecrets
<1>4. Sw!Accepted(s) /\ Sw!Rotate(s) /\ v13'[p] = Sw!Renewed(s)
  BY <1>2 DEF Sw!Accepted, Sw!Rotate, Sw!Renewed
<1>5. /\ v13'[p] \in Sw!Secret /\ v13'[p].of = a /\ v13'[p].gen \in v2'[a]
      /\ s.gen \notin v2'[a]
  <2>1. Sw!SwapTypeOK /\ Sw!TokensCount BY DEF SwapBefore
  <2> QED BY <1>3, <1>4, <2>1, SwapServer
<1>6. v13'[p] # NoSecret /\ s # NoSecret BY <1>5, SwapSecrets
<1>7. v13'[p] \in Sw!InUse(a)' BY <1>5, <1>6 DEF Sw!InUse
<1>8. \A t \in Sw!MaybeSecret : t # s =>
         /\ SwapOk(t) => SwapOkNext(t)
         /\ t # NoSecret /\ t.gen \in v2[t.of] => t.gen \in v2'[t.of]
  BY <1>4, SwapRotated
<1>9. SwapOkNext(v13'[p]) BY <1>5 DEF SwapOkNext
\* Another copy of the token shows that two parties work with it.
<1>10. ASSUME s \in Sw!InUse(a)' PROVE SwapOkNext(s)
  BY <1>5, <1>7, <1>10, SwapAllGood
<1>11. SwapHandsNext
  <2>1. ASSUME NEW q \in Agents
        PROVE  SwapOkNext(v13'[q]) /\ SwapOkNext(v14'[q]) /\ (Sw!Spent(q)' \/ SwapOkNext(v15'[q]))
    <3>1. SwapOk(v13[q]) /\ SwapOk(v14[q]) /\ (Sw!Spent(q) \/ SwapOk(v15[q])) BY DEF SwapBefore
    <3>2. v13'[q] = s => s \in Sw!InUse(a)' BY <1>3, <1>6 DEF Sw!InUse
    <3>3. v14'[q] = s => s \in Sw!InUse(a)' BY <1>3, <1>6 DEF Sw!InUse
    <3>4. v15'[q] = s /\ ~Sw!Spent(q)' => s \in Sw!InUse(a)' BY <1>3, <1>6 DEF Sw!InUse
    <3>5. q # p => v13'[q] = v13[q] BY DEF SwapApart
    <3>6. v14'[q] = v14[q] BY DEF SwapApart
    <3>7. Sw!Spent(q)' \/ (v15'[q] = v15[q] /\ ~Sw!Spent(q)) BY DEF SwapApart, Sw!Spent
    <3>8. SwapOkNext(v13'[q]) BY <1>1, <1>8, <1>9, <1>10, <3>1, <3>2, <3>5
    <3>9. SwapOkNext(v14'[q]) BY <1>1, <1>8, <1>10, <3>1, <3>3, <3>6
    <3>10. Sw!Spent(q)' \/ SwapOkNext(v15'[q]) BY <1>1, <1>8, <1>10, <3>1, <3>4, <3>7
    <3> QED BY <3>8, <3>9, <3>10
  <2> QED BY <2>1 DEF SwapHandsNext
<1>12. SwapLiveNext
  <2>1. CASE \E q \in Agents : Sw!Spent(q) /\ v15[q] = v4
    <3>1. PICK q \in Agents : Sw!Spent(q) /\ v15[q] = v4 BY <2>1
    <3>2. Sw!Spent(q)' /\ v15'[q] = v4' BY <3>1 DEF SwapApart, Sw!Spent
    <3> QED BY <3>2 DEF SwapLiveNext
  <2>2. CASE SwapOk(v4) /\ v4 # s
    <3>1. SwapOkNext(v4') BY <1>1, <1>8, <2>2
    <3> QED BY <3>1 DEF SwapLiveNext
  <2>3. CASE v4 = s
    <3>1. CASE \E q \in Agents : Sw!Spent(q)' /\ v15'[q] = v4' BY <3>1 DEF SwapLiveNext
    <3>2. CASE \A q \in Agents : Sw!Spent(q)' => v15'[q] # v4'
      <4>1. v4' \in Sw!InUse(v4.of)' BY <1>6, <2>3, <3>2, SwapCopies
      <4>2. s \in Sw!InUse(a)' BY <1>3, <2>3, <4>1 DEF Sw!InUse
      <4> QED BY <1>10, <2>3, <4>2 DEF SwapLiveNext
    <3> QED BY <3>1, <3>2
  <2> QED BY <2>1, <2>2, <2>3 DEF SwapBefore
<1>13. Sw!Stored(a)'
  <2>1. Sw!HasFresh(p, a)' BY <1>5, <1>6 DEF Sw!HasFresh, Sw!Accepted
  <2> QED BY <2>1 DEF Sw!Stored
<1>14. ASSUME NEW b \in People, b # a, Sw!Stored(b) PROVE Sw!Stored(b)'
  <2>1. CASE Sw!Accepted(v6[b])
    <3>1. v6[b] # NoSecret /\ v6[b].of = b BY <2>1 DEF Sw!Accepted, SwapBefore, Sw!SignInKept, Sw!Of
    <3>2. v6[b] \in Sw!MaybeSecret /\ v6[b] # s BY <1>1, <1>3, <1>14, <3>1
    <3>3. Sw!Accepted(v6[b])' BY <1>8, <2>1, <3>1, <3>2 DEF Sw!Accepted
    <3> QED BY <3>3 DEF Sw!Stored
  <2>2. CASE \E q \in Agents : Sw!HasFresh(q, b)
    <3>1. PICK q \in Agents : Sw!HasFresh(q, b) BY <2>2
    <3>2. v13[q].of = b /\ v13[q] \in Sw!MaybeSecret /\ v13[q] # s /\ v13[q] # NoSecret
      BY <1>1, <1>3, <1>14, <3>1 DEF Sw!HasFresh, Sw!Accepted
    <3>3. q # p BY <1>2, <3>2
    <3>4. v13[q].gen \in v2'[b] BY <1>8, <3>1, <3>2 DEF Sw!HasFresh, Sw!Accepted
    <3>5. Sw!HasFresh(q, b)'
      BY <3>1, <3>2, <3>3, <3>4 DEF Sw!HasFresh, Sw!Fresh, Sw!Accepted, SwapApart
    <3> QED BY <3>5 DEF Sw!Stored
  <2> QED BY <1>14, <2>1, <2>2 DEF Sw!Stored
<1>15. SwapMono BY <1>13, <1>14 DEF SwapMono
<1>16. SwapThereNext
  <2>1. ASSUME NEW b \in People \ v22', b # a
        PROVE  Sw!Stored(b)' \/ (Sw!Accepted(v4)' /\ v4'.of = b)
    <3>1. Sw!Stored(b) \/ (Sw!Accepted(v4) /\ v4.of = b) BY DEF SwapBefore
    <3>2. CASE Sw!Accepted(v4) /\ v4.of = b
      <4>1. v4 # s /\ v4 # NoSecret BY <1>3, <2>1, <3>2 DEF Sw!Accepted
      <4> QED BY <1>1, <1>8, <3>2, <4>1 DEF Sw!Accepted
    <3> QED BY <1>14, <2>1, <3>1, <3>2
  <2> QED BY <1>13, <2>1 DEF SwapThereNext
<1>17. \A q \in Agents : Sw!RestoreLosesNothing(q)'
  <2>1. Sw!RestoreLosesNothing(p)' BY SwapNoRollback
  <2> QED BY <1>15, <2>1, SwapRestores
<1> QED BY <1>11, <1>12, <1>16, <1>17, SwapAssemble

\* Going on with a secret that was replaced.
LEMMA SwapGoesOn ==
    ASSUME SwapBefore, NEW p \in Agents, Sw!Replaced(p), Sw!Replaced(p)', UNCHANGED <<v1, v4, v12,
       v13>>,
           SwapMono, ~v1 => v10'[p] # "Secret"
    PROVE  Sw!RestoreLosesNothing(p)'
<1>1. Sw!JobsKept /\ Sw!RestoreLosesNothing(p) /\ v22 \subseteq v22' BY DEF SwapBefore
<1>2. /\ Sw!Of(v4, v12[p])
      /\ v12[p] \in v22 \/ (Sw!StillThere(v13[p]) /\ Sw!Stored(v12[p]))
  BY <1>1 DEF Sw!RestoreLosesNothing
<1>3. PICK a \in People : a = v12[p] BY <1>1 DEF Sw!JobsKept, Sw!Replaced
<1>4. Sw!Of(v4, v12[p])' BY <1>2 DEF Sw!Of
<1>5. CASE a \in v22' BY <1>3, <1>4, <1>5 DEF Sw!RestoreLosesNothing
<1>6. CASE a \notin v22'
  <2>1. Sw!Stored(a)' BY <1>1, <1>2, <1>3, <1>6 DEF SwapMono
  <2>2. Sw!Stored(v12[p])' BY <1>3, <2>1 DEF Sw!Stored, Sw!HasFresh
  <2>3. Sw!StillThere(v13[p])' BY <1>1, <1>2, <1>3, <1>6 DEF Sw!StillThere
  <2> QED BY <1>4, <2>2, <2>3 DEF Sw!RestoreLosesNothing
<1> QED BY <1>5, <1>6

\* The first step of a command, with what it read.
LEMMA SwapBegins ==
    ASSUME SwapBefore, NEW p \in Agents, NEW j, NEW a, NEW s, NEW h, Sw!Begin(p, j, a, s, h),
           s \notin {"Lock", "Secret", "Ident", "Commit", "KeyRestore"},
           h = NoSecret \/ h = v4 \/ \E b \in People : h = v6[b]
    PROVE  Sw!LiveKept'
<1>1. /\ v13 \in [Agents -> Sw!MaybeSecret] /\ v10 \in [Agents -> Sw!SwapSteps]
      /\ v12 \in [Agents -> Sw!Somebody]
  BY DEF SwapBefore, Sw!SwapTypeOK
<1>2. /\ v13'[p] = h /\ v10'[p] = s /\ v14' = v14 /\ v15' = v15
      /\ UNCHANGED <<v2, v1, v4, v6>>
  BY <1>1 DEF Sw!Begin, Sw!Goto, Sw!server, Sw!files
<1>3. SwapApart(p) BY <1>1 DEF Sw!Begin, Sw!Goto, SwapApart
<1>4. ~Sw!Spent(p) /\ ~Sw!Fresh(p) BY DEF Sw!Begin, Sw!Spent, Sw!Fresh
<1>5. SwapOkNext(v14'[p]) /\ SwapOkNext(v15'[p])
  <2>1. SwapOk(v14[p]) /\ SwapOk(v15[p]) BY <1>4 DEF SwapBefore
  <2> QED BY <1>2, <2>1, SwapOkStays
<1>6. SwapOkNext(v13'[p])
  <2>1. CASE h = NoSecret BY <1>2, <2>1 DEF SwapOkNext
  <2>2. CASE h = v4 BY <1>2, <1>3, <1>4, <2>2, SwapFromLive
  <2>3. CASE \E b \in People : h = v6[b]
    <3>1. PICK b \in People : h = v6[b] BY <2>3
    <3>2. SwapOkNext(v6[b]) BY <1>2, <1>3, <1>4, <3>1, SwapFromVault
    <3> QED BY <1>2, <3>1, <3>2
  <2> QED BY <2>1, <2>2, <2>3
<1>7. Sw!RestoreLosesNothing(p)' BY <1>2, SwapNoRollback
<1> QED BY <1>2, <1>3, <1>4, <1>5, <1>6, <1>7, SwapQuiet

\* The steps of a command that write neither a secret nor what is stored.
LEMMA SwapReads ==
    ASSUME SwapBefore, NEW p \in Agents,
           \/ Sw!CapRead(p) \/ Sw!CapIdent(p) \/ Sw!Lock(p) \/ Sw!WriteIdent(p) \/ Sw!Commit(p)
           \/ Sw!RenewLock(p) \/ Sw!RenewRead(p) \/ Sw!RenewCompare(p) \/ Sw!ParkLock(p)
               \/ Sw!RmIdent(p)
    PROVE  Sw!LiveKept'
<1>1. /\ v13 \in [Agents -> Sw!MaybeSecret] /\ v14 \in [Agents -> Sw!MaybeSecret]
      /\ v15 \in [Agents -> Sw!MaybeSecret] /\ v16 \in [Agents -> Sw!Somebody]
      /\ v10 \in [Agents -> Sw!SwapSteps] /\ v12 \in [Agents -> Sw!Somebody]
  BY DEF SwapBefore, Sw!SwapTypeOK
<1>2. Sw!JobsKept /\ Sw!RestoreLosesNothing(p) /\ v22 \subseteq v22' BY DEF SwapBefore
<1>3. SwapOk(v13[p]) /\ SwapOk(v14[p]) /\ (Sw!Spent(p) \/ SwapOk(v15[p])) BY DEF SwapBefore
<1> USE DEF Sw!server, Sw!files, Sw!bounds
<1>4. ASSUME Sw!CapRead(p) PROVE Sw!LiveKept'
  <2>1. ~Sw!Spent(p) /\ ~Sw!Fresh(p) /\ UNCHANGED <<v2, v1, v4, v6>>
    BY <1>4 DEF Sw!CapRead, Sw!Spent, Sw!Fresh
  <2>2. CASE Sw!GoOn(p, Sw!AfterCapture(p))
    <3>1. CASE Sw!End(p) BY <2>1, <3>1, SwapEnds
    <3>2. CASE /\ v11[p] = "swap" /\ Sw!Goto(p, IF v1 THEN "KeyWrite" ELSE "Lock")
               /\ UNCHANGED Sw!mine
      <4>1. v10'[p] = IF v1 THEN "KeyWrite" ELSE "Lock" BY <1>1, <3>2 DEF Sw!Goto
      <4>2. Sw!RestoreLosesNothing(p)' BY <2>1, <4>1 DEF Sw!RestoreLosesNothing, Sw!Replaced
      <4> QED BY <2>1, <3>2, <4>2, SwapGoes
    <3> QED BY <2>2, <3>1, <3>2 DEF Sw!GoOn, Sw!AfterCapture
  <2>3. CASE /\ v14' = [v14 EXCEPT ![p] = v4] /\ Sw!Goto(p, "CapIdent")
             /\ UNCHANGED <<v11, v12, v13, v15>>
    <3>1. SwapApart(p) /\ v14'[p] = v4 /\ v10'[p] = "CapIdent"
      BY <1>1, <2>3 DEF SwapApart, Sw!Goto
    <3>2. SwapOkNext(v14'[p]) BY <2>1, <3>1, SwapFromLive
    <3>3. SwapOkNext(v13'[p]) /\ SwapOkNext(v15'[p]) BY <1>3, <2>1, <2>3, SwapOkStays
    <3>4. Sw!RestoreLosesNothing(p)' BY <3>1, SwapNoRollback
    <3> QED BY <2>1, <3>1, <3>2, <3>3, <3>4, SwapQuiet
  <2> QED BY <1>4, <2>2, <2>3 DEF Sw!CapRead
<1>5. ASSUME Sw!CapIdent(p) PROVE Sw!LiveKept'
  <2>1. ~Sw!Spent(p) /\ ~Sw!Fresh(p) /\ UNCHANGED <<v2, v1, v4, v6>>
    BY <1>5 DEF Sw!CapIdent, Sw!Spent, Sw!Fresh
  <2>2. CASE Sw!GoOn(p, Sw!AfterCapture(p))
    <3>1. CASE Sw!End(p) BY <2>1, <3>1, SwapEnds
    <3>2. CASE /\ v11[p] = "swap" /\ Sw!Goto(p, IF v1 THEN "KeyWrite" ELSE "Lock")
               /\ UNCHANGED Sw!mine
      <4>1. v10'[p] = IF v1 THEN "KeyWrite" ELSE "Lock" BY <1>1, <3>2 DEF Sw!Goto
      <4>2. Sw!RestoreLosesNothing(p)' BY <2>1, <4>1 DEF Sw!RestoreLosesNothing, Sw!Replaced
      <4> QED BY <2>1, <3>2, <4>2, SwapGoes
    <3> QED BY <2>2, <3>1, <3>2 DEF Sw!GoOn, Sw!AfterCapture
  <2>3. CASE Sw!Goto(p, "CapStore") /\ UNCHANGED <<v11, v12, v13, v14, v15>>
    <3>1. SwapApart(p) /\ v10'[p] = "CapStore" BY <1>1, <2>3 DEF SwapApart, Sw!Goto
    <3>2. SwapOkNext(v13'[p]) /\ SwapOkNext(v14'[p]) /\ SwapOkNext(v15'[p])
      BY <1>3, <2>1, <2>3, SwapOkStays
    <3>3. Sw!RestoreLosesNothing(p)' BY <3>1, SwapNoRollback
    <3> QED BY <2>1, <3>1, <3>2, <3>3, SwapQuiet
  <2> QED BY <1>5, <2>2, <2>3 DEF Sw!CapIdent
<1>6. ASSUME Sw!Lock(p) PROVE Sw!LiveKept'
  <2>1. ~Sw!Spent(p) /\ ~Sw!Spent(p)' /\ ~Sw!Fresh(p) /\ UNCHANGED <<v2, v1, v4, v6>>
    BY <1>1, <1>6 DEF Sw!Lock, Sw!Spent, Sw!Fresh, Sw!Goto
  <2>2. /\ v10'[p] = "Secret" /\ UNCHANGED <<v12, v13, v14>>
        /\ v15'[p] = IF v1 THEN v15[p] ELSE v4
    BY <1>1, <1>6 DEF Sw!Lock, Sw!Goto
  <2>3. SwapApart(p) BY <1>1, <1>6 DEF Sw!Lock, Sw!Goto, SwapApart
  <2>4. SwapOkNext(v13'[p]) /\ SwapOkNext(v14'[p]) /\ SwapOkNext(v15[p])
    BY <1>3, <2>1, <2>2, SwapOkStays
  <2>5. SwapOkNext(v15'[p])
    <3>1. CASE v1 BY <2>2, <2>4, <3>1
    <3>2. CASE ~v1 BY <2>1, <2>2, <2>3, <3>2, SwapFromLive
    <3> QED BY <3>1, <3>2
  <2>6. ASSUME SwapMono PROVE Sw!RestoreLosesNothing(p)'
    <3>1. CASE ~v1
      <4>1. Sw!StillThere(v15[p])' BY <2>1, <2>2, <3>1 DEF Sw!StillThere
      <4> QED BY <2>1, <2>2, <3>1, <4>1 DEF Sw!RestoreLosesNothing, Sw!Replaced
    <3>2. CASE v1
      <4>1. Sw!Replaced(p) BY <1>6, <3>2 DEF Sw!Replaced, Sw!Lock
      <4>2. Sw!Replaced(p)' BY <2>1, <2>2, <3>2 DEF Sw!Replaced
      <4> QED BY <2>1, <2>2, <2>6, <3>2, <4>1, <4>2, SwapGoesOn
    <3> QED BY <3>1, <3>2
  <2> QED BY <2>1, <2>2, <2>3, <2>4, <2>5, <2>6, SwapQuiet
<1>8. ASSUME Sw!WriteIdent(p) PROVE Sw!LiveKept'
  <2>1. /\ ~Sw!Spent(p) /\ ~Sw!Fresh(p) /\ UNCHANGED <<v2, v1, v4, v6, Sw!mine>>
        /\ Sw!Goto(p, "Commit")
    BY <1>8 DEF Sw!WriteIdent, Sw!Spent, Sw!Fresh
  <2>2. v10'[p] = "Commit" BY <1>1, <2>1 DEF Sw!Goto
  <2>3. Sw!Replaced(p) /\ Sw!Replaced(p)' BY <1>8, <2>2 DEF Sw!WriteIdent, Sw!Replaced
  <2>4. SwapMono => Sw!RestoreLosesNothing(p)' BY <2>1, <2>2, <2>3, SwapGoesOn DEF Sw!mine
  <2> QED BY <2>1, <2>4, SwapGoes
<1>9. ASSUME Sw!Commit(p) \/ Sw!RmIdent(p) PROVE Sw!LiveKept'
  <2>1. ~Sw!Spent(p) /\ ~Sw!Fresh(p) /\ UNCHANGED <<v2, v1, v4, v6>> /\ Sw!End(p)
    BY <1>9 DEF Sw!Commit, Sw!RmIdent, Sw!Spent, Sw!Fresh
  <2> QED BY <2>1, SwapEnds
<1>10. ASSUME Sw!RenewLock(p) PROVE Sw!LiveKept'
  <2>1. ~Sw!Spent(p) /\ ~Sw!Fresh(p) /\ UNCHANGED <<v2, v1, v4, v6>>
    BY <1>10 DEF Sw!RenewLock, Sw!Spent, Sw!Fresh
  <2>2. CASE Sw!End(p) BY <2>1, <2>2, SwapEnds
  <2>3. CASE Sw!Goto(p, "RenewRead") /\ UNCHANGED Sw!mine
    <3>1. Sw!RestoreLosesNothing(p)' BY <1>1, <2>3, SwapNoRollback DEF Sw!Goto
    <3> QED BY <2>1, <2>3, <3>1, SwapGoes
  <2> QED BY <1>10, <2>2, <2>3 DEF Sw!RenewLock
<1>11. ASSUME Sw!RenewRead(p) PROVE Sw!LiveKept'
  <2>1. ~Sw!Spent(p) /\ ~Sw!Fresh(p) /\ UNCHANGED <<v2, v1, v4, v6>>
    BY <1>11 DEF Sw!RenewRead, Sw!Spent, Sw!Fresh
  <2>2. CASE Sw!End(p) BY <2>1, <2>2, SwapEnds
  <2>3. CASE Sw!Goto(p, "RenewPost") /\ UNCHANGED Sw!mine
    <3>1. Sw!RestoreLosesNothing(p)' BY <1>1, <2>3, SwapNoRollback DEF Sw!Goto
    <3> QED BY <2>1, <2>3, <3>1, SwapGoes
  <2> QED BY <1>11, <2>2, <2>3 DEF Sw!RenewRead
<1>12. ASSUME Sw!RenewCompare(p) PROVE Sw!LiveKept'
  <2>1. UNCHANGED <<v2, v1, v4, v6>> BY <1>12 DEF Sw!RenewCompare
  <2>2. CASE Sw!End(p) /\ v4 # v15[p]
    <3>1. v13[p].of \in v22'
      <4>1. v13[p].of \in People
        BY <1>1, <1>2, <1>12, SwapSecrets DEF Sw!JobsKept, Sw!RenewCompare
      <4> QED BY <1>12, <2>2, <4>1 DEF Sw!RenewCompare, Sw!Note
    <3> QED BY <2>1, <2>2, <3>1, SwapEnds
  <2>3. CASE Sw!Goto(p, "RenewWrite") /\ UNCHANGED Sw!mine
    <3>1. Sw!RestoreLosesNothing(p)' BY <1>1, <2>3, SwapNoRollback DEF Sw!Goto
    <3> QED BY <2>1, <2>3, <3>1, SwapGoes
  <2> QED BY <1>12, <2>2, <2>3 DEF Sw!RenewCompare
<1>13. ASSUME Sw!ParkLock(p) PROVE Sw!LiveKept'
  <2>1. ~Sw!Spent(p) /\ ~Sw!Fresh(p) /\ UNCHANGED <<v2, v1, v4, v6>>
    BY <1>13 DEF Sw!ParkLock, Sw!Spent, Sw!Fresh
  <2>2. CASE Sw!End(p) BY <2>1, <2>2, SwapEnds
  <2>3. CASE /\ v13' = [v13 EXCEPT ![p] = v6[v12[p]]] /\ Sw!Goto(p, "ParkPost")
             /\ UNCHANGED <<v12, v14, v15>>
    <3>1. SwapApart(p) /\ v13'[p] = v6[v12[p]] /\ v10'[p] = "ParkPost"
      BY <1>1, <2>3 DEF SwapApart, Sw!Goto
    <3>2. PICK a \in People : a = v12[p] BY <1>2, <1>13 DEF Sw!JobsKept, Sw!ParkLock
    <3>3. SwapOkNext(v6[a]) BY <2>1, <3>1, <3>2, SwapFromVault
    <3>4. SwapOkNext(v13'[p]) BY <3>1, <3>2, <3>3
    <3>5. SwapOkNext(v14'[p]) /\ SwapOkNext(v15'[p]) BY <1>3, <2>1, <2>3, SwapOkStays
    <3>6. Sw!RestoreLosesNothing(p)' BY <3>1, SwapNoRollback
    <3> QED BY <2>1, <3>1, <3>4, <3>5, <3>6, SwapQuiet
  <2> QED BY <1>13, <2>2, <2>3 DEF Sw!ParkLock
<1> QED BY <1>4, <1>5, <1>6, <1>8, <1>9, <1>10, <1>11, <1>12, <1>13

\* The steps that renew a token.
LEMMA SwapPosts ==
    ASSUME SwapBefore, NEW p \in Agents, Sw!PreRefresh(p) \/ Sw!RenewPost(p) \/ Sw!ParkPost(p)
        PROVE Sw!LiveKept'
<1>1. /\ v13 \in [Agents -> Sw!MaybeSecret] /\ v15 \in [Agents -> Sw!MaybeSecret]
      /\ v10 \in [Agents -> Sw!SwapSteps]
  BY DEF SwapBefore, Sw!SwapTypeOK
<1>2. ~Sw!Spent(p) /\ ~Sw!Fresh(p) /\ UNCHANGED <<v1, v4, v6>>
  BY DEF Sw!PreRefresh, Sw!RenewPost, Sw!ParkPost, Sw!Spent, Sw!Fresh, Sw!files, Sw!bounds
<1>3. CASE Sw!PreRefresh(p)
  <2>1. UNCHANGED <<v12, v14, v15>> BY <1>3 DEF Sw!PreRefresh
  <2>2. CASE Sw!Goto(p, "CapRead") /\ UNCHANGED <<Sw!server, v13>>
    <3>1. v2' = v2 /\ Sw!mine' = Sw!mine BY <1>3, <2>2 DEF Sw!PreRefresh, Sw!mine, Sw!server
    <3>2. Sw!RestoreLosesNothing(p)' BY <1>1, <2>2, SwapNoRollback DEF Sw!Goto
    <3> QED BY <1>2, <2>2, <3>1, <3>2, SwapGoes
  <2>3. CASE /\ Sw!Accepted(v13[p]) /\ Sw!Rotate(v13[p])
             /\ v13' = [v13 EXCEPT ![p] = Sw!Renewed(v13[p])] /\ Sw!Goto(p, "SaveFresh")
    <3>1. /\ v13'[p] = Sw!Renewed(v13[p]) /\ v10'[p] = "SaveFresh" /\ Sw!Fresh(p)'
          /\ SwapApart(p)
      BY <1>1, <2>1, <2>3 DEF Sw!Goto, Sw!Fresh, SwapApart
    <3> QED BY <1>2, <2>1, <2>3, <3>1, SwapRenews
  <2> QED BY <1>3, <2>2, <2>3 DEF Sw!PreRefresh
<1>4. CASE Sw!RenewPost(p)
  <2>1. CASE Sw!End(p) /\ UNCHANGED Sw!server
    <3>1. v2' = v2 BY <2>1 DEF Sw!server
    <3> QED BY <1>2, <2>1, <3>1, SwapEnds
  <2>2. CASE /\ Sw!Accepted(v13[p]) /\ Sw!Rotate(v13[p]) /\ v15' = [v15 EXCEPT ![p] = v13[p]]
             /\ v13' = [v13 EXCEPT ![p] = Sw!Renewed(v13[p])] /\ Sw!Goto(p, "RenewCompare")
             /\ UNCHANGED <<v12, v14>>
    <3>1. /\ v13'[p] = Sw!Renewed(v13[p]) /\ v10'[p] = "RenewCompare" /\ Sw!Fresh(p)'
              /\ Sw!Spent(p)'
          /\ SwapApart(p)
      BY <1>1, <2>2 DEF Sw!Goto, Sw!Fresh, Sw!Spent, SwapApart
    <3> QED BY <1>2, <2>2, <3>1, SwapRenews
  <2> QED BY <1>4, <2>1, <2>2 DEF Sw!RenewPost
<1>5. CASE Sw!ParkPost(p)
  <2>1. CASE Sw!End(p) /\ UNCHANGED Sw!server
    <3>1. v2' = v2 BY <2>1 DEF Sw!server
    <3> QED BY <1>2, <2>1, <3>1, SwapEnds
  <2>2. CASE /\ Sw!Accepted(v13[p]) /\ Sw!Rotate(v13[p]) /\ UNCHANGED <<v12, v14, v15>>
             /\ v13' = [v13 EXCEPT ![p] = Sw!Renewed(v13[p])] /\ Sw!Goto(p, "ParkSave")
    <3>1. /\ v13'[p] = Sw!Renewed(v13[p]) /\ v10'[p] = "ParkSave" /\ Sw!Fresh(p)'
          /\ SwapApart(p)
      BY <1>1, <2>2 DEF Sw!Goto, Sw!Fresh, SwapApart
    <3> QED BY <1>2, <2>2, <3>1, SwapRenews
  <2> QED BY <1>5, <2>1, <2>2 DEF Sw!ParkPost
<1> QED BY <1>3, <1>4, <1>5

\* The steps that store a secret.
LEMMA SwapStored ==
    ASSUME SwapBefore, NEW p \in Agents, UNCHANGED <<v2, v1, v4>>, SwapApart(p), ~Sw!Spent(p),
           SwapOkNext(v13'[p]), SwapOkNext(v14'[p]), SwapOkNext(v15'[p]),
           \A a \in People \ v22' : v6'[a] = v6[a] \/ Sw!Accepted(v6[a])' \/ ~Sw!Accepted(v6[a]),
           \A a \in People \ v22' : Sw!HasFresh(p, a) => Sw!Accepted(v6[a])',
           Sw!RestoreLosesNothing(p)'
    PROVE  Sw!LiveKept'
<1>1. SwapHandsNext BY SwapHands
<1>2. SwapLiveNext BY SwapLive
<1>3. SwapMono BY SwapStays
<1>4. SwapThereNext BY <1>3, SwapThere
<1>5. \A q \in Agents : Sw!RestoreLosesNothing(q)' BY <1>3, SwapRestores
<1> QED BY <1>1, <1>2, <1>4, <1>5, SwapAssemble

\* The steps that write the store.
LEMMA SwapStoring ==
    ASSUME SwapBefore, NEW p \in Agents, Sw!SaveFresh(p) \/ Sw!ParkSave(p) \/ Sw!CapStore(p)
        PROVE Sw!LiveKept'
<1>1. /\ v13 \in [Agents -> Sw!MaybeSecret] /\ v14 \in [Agents -> Sw!MaybeSecret]
      /\ v15 \in [Agents -> Sw!MaybeSecret] /\ v10 \in [Agents -> Sw!SwapSteps]
      /\ v12 \in [Agents -> Sw!Somebody] /\ v6 \in [People -> Sw!MaybeSecret]
  BY DEF SwapBefore, Sw!SwapTypeOK
<1>2. Sw!JobsKept /\ Sw!OwnersKept(p) /\ v22 \subseteq v22' BY DEF SwapBefore, Sw!SignInKept
<1>3. ~Sw!Spent(p) /\ UNCHANGED <<v2, v1, v4>>
  BY DEF Sw!SaveFresh, Sw!ParkSave, Sw!CapStore, Sw!Spent, Sw!server, Sw!bounds
<1>4. SwapOk(v13[p]) /\ SwapOk(v14[p]) /\ SwapOk(v15[p]) BY <1>3 DEF SwapBefore
<1>5. SwapOkNext(v13[p]) /\ SwapOkNext(v14[p]) /\ SwapOkNext(v15[p])
  BY <1>3, <1>4, SwapOkStays
<1>6. ASSUME Sw!SaveFresh(p) \/ Sw!ParkSave(p)
      PROVE  /\ \A a \in People \ v22' : v6'[a] = v6[a] \/ Sw!Accepted(v6[a])'
             /\ \A a \in People \ v22' : Sw!HasFresh(p, a) => Sw!Accepted(v6[a])'
  <2>1. PICK a \in People : a = v12[p] BY <1>2, <1>6 DEF Sw!JobsKept, Sw!SaveFresh, Sw!ParkSave
  <2>2. v6' = [v6 EXCEPT ![a] = v13[p]] BY <1>6, <2>1 DEF Sw!SaveFresh, Sw!ParkSave
  <2>3. v13[p] # NoSecret /\ v13[p].gen # 0
    BY <1>6 DEF SwapBefore, Sw!TokensCount, Sw!Fresh, Sw!SaveFresh, Sw!ParkSave
  <2>4. v13[p].of = a BY <1>2, <1>6, <2>1 DEF Sw!JobsKept, Sw!OwnersKept, Sw!SaveFresh, Sw!ParkSave
  <2>5. a \notin v22' => Sw!Accepted(v6[a])'
    <3>1. v6'[a] = v13[p] BY <1>1, <2>2
    <3>2. a \notin v22' => v13[p].gen \in v2'[a] BY <1>5, <2>3, <2>4 DEF SwapOkNext
    <3> QED BY <2>3, <2>4, <3>1, <3>2 DEF Sw!Accepted
  <2>6. \A b \in People : b # a => v6'[b] = v6[b] BY <1>1, <2>2
  <2>7. \A b \in People : Sw!HasFresh(p, b) => b = a BY <2>4 DEF Sw!HasFresh
  <2> QED BY <2>5, <2>6, <2>7
<1>7. CASE Sw!SaveFresh(p)
  <2>1. v10'[p] = "CapRead" /\ SwapApart(p) /\ UNCHANGED Sw!mine
    BY <1>1, <1>7 DEF Sw!SaveFresh, Sw!Goto, SwapApart, Sw!mine
  <2>2. Sw!RestoreLosesNothing(p)' BY <2>1, SwapNoRollback
  <2>3. SwapOkNext(v13'[p]) /\ SwapOkNext(v14'[p]) /\ SwapOkNext(v15'[p])
    BY <1>5, <2>1 DEF Sw!mine
  <2> QED BY <1>3, <1>6, <1>7, <2>1, <2>2, <2>3, SwapStored
<1>8. CASE Sw!ParkSave(p)
  <2>1. Sw!End(p) BY <1>8 DEF Sw!ParkSave
  <2>2. /\ SwapApart(p) /\ Sw!RestoreLosesNothing(p)'
        /\ SwapOkNext(v13'[p]) /\ SwapOkNext(v14'[p]) /\ SwapOkNext(v15'[p])
    BY <2>1, SwapEnded
  <2> QED BY <1>3, <1>6, <1>8, <2>2, SwapStored
<1>9. CASE Sw!CapStore(p)
  <2>1. PICK a \in People : a = v16[p] BY <1>2, <1>9 DEF Sw!JobsKept, Sw!CapStore
  <2>2. v6' = [v6 EXCEPT ![a] = Sw!Captured(v6[a], v14[p])] BY <1>9, <2>1 DEF Sw!CapStore
  <2>3. v14[p].of = a /\ v14[p] # NoSecret
    BY <1>2, <1>9, <2>1 DEF Sw!OwnersKept, Sw!JobsKept, Sw!CapStore
  <2>4. \A b \in People \ v22' :
          v6'[b] = v6[b] \/ Sw!Accepted(v6[b])' \/ ~Sw!Accepted(v6[b])
    <3>1. \A b \in People : b # a => v6'[b] = v6[b] BY <1>1, <2>2
    <3>2. v6'[a] = Sw!Captured(v6[a], v14[p]) BY <1>1, <2>2
    <3>3. CASE v14[p].gen = 0 /\ v6[a] # NoSecret BY <3>1, <3>2, <3>3 DEF Sw!Captured
    <3>4. CASE v6[a] = NoSecret BY <3>1, <3>4 DEF Sw!Accepted
    <3>5. CASE v14[p].gen # 0
      <4>1. v6'[a] = v14[p] BY <3>2, <3>5 DEF Sw!Captured
      <4>2. a \notin v22' => v14[p].gen \in v2'[a] BY <1>5, <2>3, <3>5 DEF SwapOkNext
      <4>3. a \notin v22' => Sw!Accepted(v6[a])' BY <2>3, <4>1, <4>2 DEF Sw!Accepted
      <4> QED BY <3>1, <4>3
    <3> QED BY <3>3, <3>4, <3>5
  <2>5. \A b \in People : ~Sw!HasFresh(p, b) BY <1>9 DEF Sw!HasFresh, Sw!Fresh, Sw!CapStore
  <2>6. CASE Sw!End(p)
    <3>1. /\ SwapApart(p) /\ Sw!RestoreLosesNothing(p)'
          /\ SwapOkNext(v13'[p]) /\ SwapOkNext(v14'[p]) /\ SwapOkNext(v15'[p])
      BY <2>6, SwapEnded
    <3> QED BY <1>3, <2>4, <2>5, <3>1, SwapStored
  <2>7. CASE /\ Sw!AfterCapture(p) # "Idle" /\ Sw!Goto(p, Sw!AfterCapture(p))
             /\ v14' = [v14 EXCEPT ![p] = NoSecret] /\ UNCHANGED <<v12, v13, v15>>
    <3>1. v10'[p] = IF v1 THEN "KeyWrite" ELSE "Lock" BY <1>1, <2>7 DEF Sw!AfterCapture, Sw!Goto
    <3>2. Sw!RestoreLosesNothing(p)' BY <1>3, <3>1 DEF Sw!RestoreLosesNothing, Sw!Replaced
    <3>3. SwapApart(p) BY <1>1, <2>7 DEF SwapApart, Sw!Goto
    <3>4. SwapOkNext(v13'[p]) /\ SwapOkNext(v15'[p]) BY <1>5, <2>7
    <3>5. SwapOkNext(v14'[p]) BY <1>1, <2>7 DEF SwapOkNext
    <3> QED BY <1>3, <2>4, <2>5, <3>2, <3>3, <3>4, <3>5, SwapStored
  <2> QED BY <1>9, <2>6, <2>7 DEF Sw!CapStore
<1> QED BY <1>7, <1>8, <1>9

\* The steps that put another secret in the place of the live one.
LEMMA SwapWritten ==
    ASSUME SwapBefore, NEW p \in Agents, UNCHANGED <<v2, v1, v6>>, SwapApart(p),
           Sw!Writing(p) \/ Sw!Writing(p)', SwapOkNext(v4'),
           SwapOkNext(v13'[p]), SwapOkNext(v14'[p]), Sw!Spent(p)' \/ SwapOkNext(v15'[p]),
           \A a \in People \ v22' : Sw!HasFresh(p, a) => Sw!Accepted(v4)' /\ v4'.of = a,
           \A a \in People \ v22' : Sw!Accepted(v4) /\ v4.of = a =>
               (Sw!Accepted(v4)' /\ v4'.of = a) \/ Sw!Stored(a),
           Sw!RestoreLosesNothing(p)'
    PROVE  Sw!LiveKept'
<1>1. SwapHandsNext BY SwapHands
<1>2. SwapLiveNext BY DEF SwapLiveNext
<1>3. \A q \in Agents : Sw!RestoreLosesNothing(q)' BY SwapRestoresAlone
<1>4. SwapThereNext
  <2> SUFFICES ASSUME NEW a \in People \ v22', ~(Sw!Accepted(v4)' /\ v4'.of = a)
               PROVE  Sw!Stored(a)'
    BY DEF SwapThereNext
  <2>1. Sw!Stored(a) BY DEF SwapBefore
  <2>2. CASE Sw!Accepted(v6[a])
    <3>1. Sw!Accepted(v6[a])' BY <2>2 DEF Sw!Accepted
    <3> QED BY <3>1 DEF Sw!Stored
  <2>3. CASE \E q \in Agents : Sw!HasFresh(q, a)
    <3>1. PICK q \in Agents : Sw!HasFresh(q, a) BY <2>3
    <3>2. q # p BY <3>1
    <3>3. Sw!HasFresh(q, a)' BY <3>1, <3>2 DEF Sw!HasFresh, Sw!Fresh, Sw!Accepted, SwapApart
    <3> QED BY <3>3 DEF Sw!Stored
  <2> QED BY <2>1, <2>2, <2>3 DEF Sw!Stored
<1> QED BY <1>1, <1>2, <1>3, <1>4, SwapAssemble

\* A secret is overwritten when it is stored, or its account is blamed.
LEMMA SwapOverwrites ==
    ASSUME SwapBefore, NEW p, Sw!Note(Sw!Overwriting(p)), NEW a \in People \ v22' PROVE Sw!Stored(a)
<1>1. Sw!Stored(a) \/ (Sw!Accepted(v4) /\ v4.of = a) BY DEF SwapBefore
<1>2. CASE Sw!Accepted(v4) /\ v4.of = a
  <2>1. a \notin Sw!Overwriting(p) BY DEF Sw!Note
  <2>2. v6[a] = v4 BY <1>2, <2>1 DEF Sw!Overwriting
  <2> QED BY <1>2, <2>2 DEF Sw!Stored
<1> QED BY <1>1, <1>2

\* The account's secret is written over the one that is kept for a rollback.
LEMMA SwapReplaces ==
    ASSUME SwapBefore, NEW p \in Agents, UNCHANGED <<v2, v1, v6>>, SwapApart(p),
           Sw!Note(Sw!Overwriting(p)), Sw!Writing(p)', ~Sw!Fresh(p), ~Sw!Spent(p), v11[p] = "swap",
           UNCHANGED <<v12, v13, v14>>, v15'[p] = v15[p] \/ (v15'[p] = v4 /\ ~Sw!Spent(p)'),
           v4' = v13[p], ~v1 => v10'[p] # "Secret"
    PROVE  Sw!LiveKept'
<1>1. /\ Sw!JobsKept /\ Sw!OwnersKept(p) /\ v22 \subseteq v22'
      /\ SwapOk(v13[p]) /\ SwapOk(v14[p]) /\ SwapOk(v15[p])
  BY DEF SwapBefore, Sw!SignInKept
<1>2. SwapOkNext(v13[p]) /\ SwapOkNext(v14[p]) /\ SwapOkNext(v15[p]) BY <1>1, SwapOkStays
<1>3. SwapOkNext(v15'[p])
  <2>1. CASE v15'[p] = v15[p] BY <1>2, <2>1
  <2>2. CASE v15'[p] = v4 /\ ~Sw!Spent(p)' BY <2>2, SwapFromLive
  <2> QED BY <2>1, <2>2
<1>4. \A a \in People \ v22' : Sw!Stored(a) BY SwapOverwrites
<1>5. \A a \in People : ~Sw!HasFresh(p, a) BY DEF Sw!HasFresh
<1>6. Sw!RestoreLosesNothing(p)'
  <2>1. PICK a \in People : a = v12[p] BY <1>1 DEF Sw!JobsKept
  <2>2. v13[p].of = a BY <1>1, <2>1 DEF Sw!OwnersKept
  <2>3. Sw!Of(v4, v12[p])' BY <2>1, <2>2 DEF Sw!Of
  <2>4. Sw!StillThere(v13[p])' BY DEF Sw!StillThere
  <2>5. SwapMono BY <1>5, SwapStays
  <2>6. CASE a \in v22' BY <2>1, <2>3, <2>6 DEF Sw!RestoreLosesNothing
  <2>7. CASE a \notin v22'
    <3>1. Sw!Stored(a)' BY <1>4, <2>5, <2>7 DEF SwapMono
    <3>2. Sw!Stored(v12[p])' BY <2>1, <3>1 DEF Sw!Stored, Sw!HasFresh
    <3> QED BY <2>3, <2>4, <3>2 DEF Sw!RestoreLosesNothing
  <2> QED BY <2>6, <2>7
<1> QED BY <1>2, <1>3, <1>4, <1>5, <1>6, SwapWritten

\* The swap puts the secret of its account in place.
LEMMA SwapReplacing ==
    ASSUME SwapBefore, NEW p \in Agents, Sw!KeyWrite(p) \/ Sw!WriteSecret(p) PROVE Sw!LiveKept'
<1>1. /\ v15 \in [Agents -> Sw!MaybeSecret] /\ v10 \in [Agents -> Sw!SwapSteps]
  BY DEF SwapBefore, Sw!SwapTypeOK
<1>2. /\ ~Sw!Fresh(p) /\ ~Sw!Spent(p) /\ UNCHANGED <<v2, v1, v6, v12, v13, v14>>
      /\ v11[p] = "swap"
  BY DEF Sw!KeyWrite, Sw!WriteSecret, Sw!Fresh, Sw!Spent, Sw!server, Sw!bounds, Sw!mine,
     SwapBefore, Sw!JobsKept
<1>3. CASE Sw!KeyWrite(p)
  <2>1. v1 BY <1>3 DEF Sw!KeyWrite, SwapBefore, Sw!JobsKept
  <2>2. v10'[p] = "Lock" /\ v15'[p] = v4 /\ SwapApart(p)
    BY <1>1, <1>2, <1>3 DEF Sw!KeyWrite, Sw!Goto, SwapApart
  <2>3. Sw!Writing(p)' /\ ~Sw!Spent(p)' BY <1>2, <2>1, <2>2 DEF Sw!Writing, Sw!Spent
  <2>4. v4' = v13[p] /\ Sw!Note(Sw!Overwriting(p)) BY <1>3 DEF Sw!KeyWrite
  <2> QED BY <1>2, <2>2, <2>3, <2>4, SwapReplaces
<1>4. CASE Sw!WriteSecret(p)
  <2>1. v10'[p] = "Ident" /\ v15' = v15 /\ SwapApart(p)
    BY <1>1, <1>2, <1>4 DEF Sw!WriteSecret, Sw!Goto, SwapApart, Sw!mine
  <2>2. CASE v1
    <3>1. v4' = v4 /\ Sw!Goto(p, "Ident") /\ UNCHANGED Sw!mine BY <1>4, <2>2 DEF Sw!WriteSecret
    <3>2. Sw!Replaced(p) /\ Sw!Replaced(p)' BY <1>4, <2>1, <2>2 DEF Sw!Replaced, Sw!WriteSecret
    <3>3. SwapMono => Sw!RestoreLosesNothing(p)' BY <1>2, <2>1, <3>1, <3>2, SwapGoesOn
    <3> QED BY <1>2, <3>1, <3>3, SwapGoes
  <2>3. CASE ~v1
    <3>1. Sw!Writing(p)' BY <2>1 DEF Sw!Writing
    <3>2. v4' = v13[p] /\ Sw!Note(Sw!Overwriting(p)) BY <1>4, <2>3 DEF Sw!WriteSecret
    <3> QED BY <1>2, <2>1, <3>1, <3>2, SwapReplaces
  <2> QED BY <2>2, <2>3
<1> QED BY <1>3, <1>4

\* A rollback, and the write of a renewed secret, end the command.
LEMMA SwapWritesLast ==
    ASSUME SwapBefore, NEW p \in Agents, UNCHANGED <<v2, v1, v6>>, Sw!End(p), Sw!Writing(p),
           SwapOk(v4'),
           \A a \in People \ v22' : Sw!HasFresh(p, a) => Sw!Accepted(v4)' /\ v4'.of = a,
           \A a \in People \ v22' : Sw!Accepted(v4) /\ v4.of = a =>
               (Sw!Accepted(v4)' /\ v4'.of = a) \/ Sw!Stored(a)
    PROVE  Sw!LiveKept'
<1>1. SwapOkNext(v4') BY DEF SwapOk, SwapOkNext, SwapBefore
<1>2. /\ SwapApart(p) /\ Sw!RestoreLosesNothing(p)'
      /\ SwapOkNext(v13'[p]) /\ SwapOkNext(v14'[p]) /\ SwapOkNext(v15'[p])
  BY SwapEnded
<1> QED BY <1>1, <1>2, SwapWritten

\* The rollback puts back the secret that was read under the lock.
LEMMA SwapRestoring ==
    ASSUME SwapBefore, NEW p \in Agents, Sw!Fail(p) \/ Sw!KeyRestore(p) PROVE Sw!LiveKept'
<1>1. v10 \in [Agents -> Sw!SwapSteps] /\ Sw!JobsKept /\ Sw!RestoreLosesNothing(p)
        /\ v22 \subseteq v22'
  BY DEF SwapBefore, Sw!SwapTypeOK
<1>2. ~Sw!Fresh(p) /\ ~Sw!Spent(p) /\ UNCHANGED <<v2, v1, v6>> /\ Sw!Writing(p)
  BY DEF Sw!Fail, Sw!KeyRestore, Sw!Fresh, Sw!Spent, Sw!server, Sw!bounds, Sw!Writing
<1>3. SwapOk(v15[p]) BY <1>2 DEF SwapBefore
<1>4. \A a \in People : ~Sw!HasFresh(p, a) BY <1>2 DEF Sw!HasFresh
\* What is overwritten is what was written, and its account's is stored.
<1>5. ASSUME Sw!Replaced(p), NEW a \in People \ v22', Sw!Accepted(v4), v4.of = a PROVE Sw!Stored(a)
  <2>1. v12[p] = a BY <1>1, <1>5 DEF Sw!RestoreLosesNothing, Sw!Of, Sw!Accepted
  <2> QED BY <1>1, <1>5, <2>1 DEF Sw!RestoreLosesNothing
<1>6. ASSUME v4' = v15[p], Sw!End(p), Sw!Replaced(p) PROVE Sw!LiveKept'
  BY <1>2, <1>3, <1>4, <1>5, <1>6, SwapWritesLast
<1>7. CASE Sw!KeyRestore(p)
  <2>1. v4' = v15[p] /\ Sw!End(p) /\ Sw!Replaced(p) BY <1>7 DEF Sw!KeyRestore, Sw!Replaced
  <2> QED BY <1>6, <2>1
<1>8. CASE Sw!Fail(p) /\ ~v1
  <2>1. v4' = v15[p] /\ Sw!End(p) BY <1>8 DEF Sw!Fail
  <2>2. CASE Sw!Replaced(p) BY <1>6, <2>1, <2>2
  <2>3. CASE ~Sw!Replaced(p)
    <3>1. v10[p] = "Secret" BY <1>8, <2>3 DEF Sw!Fail, Sw!Replaced
    <3>2. Sw!StillThere(v15[p]) \/ v4.of \in v22 BY <1>1, <1>8, <3>1 DEF Sw!RestoreLosesNothing
    <3>3. ASSUME NEW a \in People \ v22', Sw!Accepted(v4), v4.of = a
          PROVE  Sw!Accepted(v4)' /\ v4'.of = a
      <4>1. v4.gen # 0 /\ v4 # NoSecret
        BY <3>3 DEF SwapBefore, Sw!TokensCount, Sw!Accepted
      <4>2. v4 = v15[p] BY <1>1, <3>2, <3>3, <4>1 DEF Sw!StillThere
      <4> QED BY <1>2, <2>1, <3>3, <4>2 DEF Sw!Accepted
    <3> QED BY <1>2, <1>3, <1>4, <2>1, <3>3, SwapWritesLast
  <2> QED BY <2>2, <2>3
<1>9. CASE Sw!Fail(p) /\ v1
  <2>1. UNCHANGED <<v4, Sw!mine>> /\ Sw!Goto(p, "KeyRestore") BY <1>9 DEF Sw!Fail
  <2>2. v10'[p] = "KeyRestore" BY <1>1, <2>1 DEF Sw!Goto
  <2>3. Sw!Replaced(p) /\ Sw!Replaced(p)' BY <1>9, <2>2 DEF Sw!Replaced, Sw!Fail
  <2>4. SwapMono => Sw!RestoreLosesNothing(p)' BY <1>2, <2>1, <2>2, <2>3, SwapGoesOn DEF Sw!mine
  <2> QED BY <1>2, <2>1, <2>4, SwapGoes
<1> QED BY <1>7, <1>8, <1>9

\* Nobody else has half written an account while one that writes is not halfway.
LEMMA SwapLiveIsIdent ==
    ASSUME SwapBefore, NEW p \in Agents, ~Sw!HalfWritten(p), v17 = NoOne,
           \A q \in Agents \ {p} : ~Sw!Writing(q)
    PROVE  Sw!Of(v4, v5)
<1>1. \A q \in Agents : ~Sw!HalfWritten(q) BY DEF Sw!HalfWritten, Sw!Writing
<1> QED BY <1>1 DEF SwapBefore, Sw!SignInKept

\* The renewal writes its answer over the secret that it renewed.
LEMMA SwapRenewing == ASSUME SwapBefore, NEW p \in Agents, Sw!RenewWrite(p) PROVE Sw!LiveKept'
<1>1. Sw!JobsKept /\ Sw!OwnersKept(p) /\ ~Sw!Crossing /\ v22 \subseteq v22'
  BY DEF SwapBefore, Sw!SignInKept
<1>2. Sw!Fresh(p) /\ Sw!Writing(p) /\ ~Sw!HalfWritten(p) /\ Sw!End(p) /\ UNCHANGED <<v2, v1, v6>>
  BY DEF Sw!RenewWrite, Sw!Fresh, Sw!Writing, Sw!HalfWritten, Sw!server, Sw!bounds
<1>3. v4' = v13[p] /\ v13[p] # NoSecret /\ v13[p].gen # 0 /\ v13[p].of = v5
  BY <1>1, <1>2 DEF Sw!RenewWrite, SwapBefore, Sw!TokensCount, Sw!OwnersKept
<1>4. SwapOk(v13[p]) BY DEF SwapBefore
<1>5. v17 = NoOne /\ \A q \in Agents \ {p} : ~Sw!Writing(q) BY <1>1, <1>2 DEF Sw!Crossing
<1>6. Sw!Of(v4, v5) BY <1>2, <1>5, SwapLiveIsIdent
<1>7. ASSUME NEW a \in People \ v22', v13[p].of = a PROVE Sw!Accepted(v4)' /\ v4'.of = a
  BY <1>1, <1>2, <1>3, <1>4, <1>7 DEF SwapOk, Sw!Accepted
<1>8. \A a \in People \ v22' : Sw!HasFresh(p, a) => Sw!Accepted(v4)' /\ v4'.of = a
  BY <1>7 DEF Sw!HasFresh
<1>9. \A a \in People \ v22' :
         Sw!Accepted(v4) /\ v4.of = a => Sw!Accepted(v4)' /\ v4'.of = a
  BY <1>3, <1>6, <1>7 DEF Sw!Of, Sw!Accepted
<1> QED BY <1>2, <1>3, <1>4, <1>8, <1>9, SwapWritesLast

\* The removal deletes the live secret of its account.
LEMMA SwapRemoving == ASSUME SwapBefore, NEW p \in Agents, Sw!RmLock(p) PROVE Sw!LiveKept'
<1>1. v10 \in [Agents -> Sw!SwapSteps] /\ Sw!JobsKept /\ ~Sw!Crossing'
  BY DEF SwapBefore, Sw!SwapTypeOK, Sw!SignInKept
<1>2. ~Sw!Fresh(p) /\ ~Sw!Spent(p) /\ ~Sw!HalfWritten(p) /\ UNCHANGED <<v2, v1, v6, v17>>
  BY DEF Sw!RmLock, Sw!Fresh, Sw!Spent, Sw!HalfWritten, Sw!server, Sw!bounds
<1>3. CASE Sw!End(p) /\ UNCHANGED v4 BY <1>2, <1>3, SwapEnds
<1>4. CASE v5 = v12[p] /\ v4' = NoSecret /\ Sw!Goto(p, "RmIdent") /\ UNCHANGED Sw!mine
  <2>1. v10'[p] = "RmIdent" /\ Sw!Writing(p)' BY <1>1, <1>4 DEF Sw!Goto, Sw!Writing
  <2>2. /\ SwapApart(p)
        /\ SwapOkNext(v13'[p]) /\ SwapOkNext(v14'[p]) /\ SwapOkNext(v15'[p])
    BY <1>2, <1>4, SwapGone
  <2>3. v17 = NoOne /\ \A q \in Agents \ {p} : ~Sw!Writing(q)'
    BY <1>1, <1>2, <2>1 DEF Sw!Crossing
  <2>4. \A q \in Agents \ {p} : ~Sw!Writing(q) BY <1>2, <2>2, <2>3 DEF SwapApart, Sw!Writing
  <2>5. Sw!Of(v4, v5) BY <1>2, <2>3, <2>4, SwapLiveIsIdent
  <2>6. v12[p] \in v22' BY <1>1 DEF Sw!RmLock, Sw!Note, Sw!JobsKept
  <2>7. \A a \in People \ v22' : ~(Sw!Accepted(v4) /\ v4.of = a)
    BY <1>4, <2>5, <2>6 DEF Sw!Of, Sw!Accepted
  <2>8. \A a \in People : ~Sw!HasFresh(p, a) BY <1>2 DEF Sw!HasFresh
  <2>9. SwapOkNext(v4') BY <1>4 DEF SwapOkNext
  <2>10. Sw!RestoreLosesNothing(p)' BY <2>1, SwapNoRollback
  <2> QED BY <1>2, <2>1, <2>2, <2>7, <2>8, <2>9, <2>10, SwapWritten
<1> QED BY <1>3, <1>4 DEF Sw!RmLock

\* A process that is killed loses what it held and blames its accounts.
LEMMA SwapKilled == ASSUME SwapBefore, NEW p \in Agents, Sw!Kill(p) PROVE Sw!LiveKept'
<1>1. /\ Sw!End(p) /\ UNCHANGED <<v2, v1, v4, v6>> /\ ~Sw!Writing(p)
      /\ v22' = v22 \cup
            {a \in People : v12[p] = a \/ (v13[p] # NoSecret /\ v13[p].of = a)}
  BY DEF Sw!Kill, Sw!server, Sw!files, SwapBefore
<1>2. v13[p] # NoSecret => v13[p].of \in v22'
  <2>1. v13[p] # NoSecret => v13[p].of \in People
    BY SwapSecrets DEF SwapBefore, Sw!SwapTypeOK
  <2> QED BY <1>1, <2>1
<1>3. Sw!Fresh(p) => v13[p].of \in v22' BY <1>2 DEF SwapBefore, Sw!TokensCount
<1>4. Sw!Spent(p) => v15[p].of \in v22'
  <2>1. Sw!Spent(p) => Sw!Fresh(p) /\ v13[p].of = v15[p].of
    BY DEF Sw!Spent, Sw!Fresh, SwapBefore, Sw!SignInKept, Sw!OwnersKept
  <2> QED BY <1>3, <2>1
<1> QED BY <1>1, <1>3, <1>4, SwapEnds

\* What Claude Code does by itself moves no command.
LEMMA SwapNative ==
    ASSUME SwapBefore, UNCHANGED <<v1, v6, v10, v12, v13, v14, v15>>,
           \A t \in Sw!MaybeSecret : SwapOk(t) => SwapOkNext(t),
           \A t \in Sw!Secret : t.gen \in v2[t.of] => t.gen \in v2'[t.of],
           SwapLiveNext,
           \A a \in People \ v22' :
              Sw!Accepted(v4) /\ v4.of = a => Sw!Stored(a) \/ (Sw!Accepted(v4)' /\ v4'.of = a),
           SwapMono => \A q \in Agents : Sw!RestoreLosesNothing(q)'
    PROVE  Sw!LiveKept'
<1>1. /\ v13 \in [Agents -> Sw!MaybeSecret] /\ v14 \in [Agents -> Sw!MaybeSecret]
      /\ v15 \in [Agents -> Sw!MaybeSecret] /\ v6 \in [People -> Sw!MaybeSecret]
  BY DEF SwapBefore, Sw!SwapTypeOK
<1>2. SwapHandsNext
  <2>1. ASSUME NEW q \in Agents
        PROVE  SwapOkNext(v13'[q]) /\ SwapOkNext(v14'[q]) /\ (Sw!Spent(q)' \/ SwapOkNext(v15'[q]))
    <3>1. SwapOk(v13[q]) /\ SwapOk(v14[q]) /\ (Sw!Spent(q) \/ SwapOk(v15[q])) BY DEF SwapBefore
    <3>2. Sw!Spent(q)' <=> Sw!Spent(q) BY DEF Sw!Spent
    <3> QED BY <1>1, <3>1, <3>2
  <2> QED BY <2>1 DEF SwapHandsNext
<1>3. \A t \in Sw!MaybeSecret : t # NoSecret /\ t.gen \in v2[t.of] => t.gen \in v2'[t.of]
  BY SwapSecrets
<1>4. SwapMono
  <2> SUFFICES ASSUME NEW a \in People \ v22', Sw!Stored(a) PROVE Sw!Stored(a)' BY DEF SwapMono
  <2>1. CASE Sw!Accepted(v6[a])
    <3>1. Sw!Accepted(v6[a])' BY <1>1, <1>3, <2>1 DEF Sw!Accepted
    <3> QED BY <3>1 DEF Sw!Stored
  <2>2. CASE \E q \in Agents : Sw!HasFresh(q, a)
    <3>1. PICK q \in Agents : Sw!HasFresh(q, a) BY <2>2
    <3>2. Sw!HasFresh(q, a)' BY <1>1, <1>3, <3>1 DEF Sw!HasFresh, Sw!Fresh, Sw!Accepted
    <3> QED BY <3>2 DEF Sw!Stored
  <2> QED BY <2>1, <2>2 DEF Sw!Stored
<1>5. SwapThereNext BY <1>4 DEF SwapThereNext, SwapMono, SwapBefore
<1> QED BY <1>2, <1>4, <1>5, SwapAssemble

\* Claude Code drops its secret.
LEMMA SwapStrips == ASSUME SwapBefore, Sw!NativeStrip PROVE Sw!LiveKept'
<1>1. /\ UNCHANGED <<v2, v1, v6, v10, v12, v13, v14, v15>> /\ v4 # NoSecret
      /\ v4' = [v4 EXCEPT !.gen = 0]
      /\ Sw!Note(IF Sw!Accepted(v4) /\ v6[v4.of] # v4 THEN {v4.of} ELSE {})
  BY DEF Sw!NativeStrip, Sw!server, Sw!mine
<1>2. v4 \in Sw!Secret /\ v22 \subseteq v22' BY <1>1, SwapSecrets DEF SwapBefore, Sw!SwapTypeOK
<1>3. v4'.gen = 0 /\ v4'.of = v4.of BY <1>1, <1>2 DEF Sw!Secret
<1>4. \A t \in Sw!MaybeSecret : SwapOk(t) => SwapOkNext(t) BY <1>1, SwapOkStays
<1>5. SwapLiveNext BY <1>3 DEF SwapLiveNext, SwapOkNext
<1>6. \A a \in People \ v22' : Sw!Accepted(v4) /\ v4.of = a => Sw!Stored(a)
  <2> SUFFICES ASSUME NEW a \in People \ v22', Sw!Accepted(v4), v4.of = a PROVE Sw!Stored(a)
    OBVIOUS
  <2>1. v6[a] = v4 BY <1>1 DEF Sw!Note
  <2> QED BY <2>1 DEF Sw!Stored
<1>7. ASSUME SwapMono, NEW q \in Agents PROVE Sw!RestoreLosesNothing(q)'
  <2>1. Sw!RestoreLosesNothing(q) BY DEF SwapBefore
  <2>2. ~v1' /\ v10'[q] = "Secret" => Sw!StillThere(v15[q])' BY <1>1, <1>3 DEF Sw!StillThere
  <2>3. ASSUME Sw!Replaced(q)'
        PROVE  /\ Sw!Of(v4, v12[q])'
               /\ v12'[q] \in v22' \/ (Sw!StillThere(v13[q])' /\ Sw!Stored(v12[q])')
    <3>1. Sw!Replaced(q) BY <1>1, <2>3 DEF Sw!Replaced
    <3>2. /\ Sw!Of(v4, v12[q])
          /\ v12[q] \in v22 \/ (Sw!StillThere(v13[q]) /\ Sw!Stored(v12[q]))
      BY <2>1, <3>1 DEF Sw!RestoreLosesNothing
    <3>3. Sw!Of(v4, v12[q])' BY <1>1, <1>3, <3>2 DEF Sw!Of
    <3>4. Sw!StillThere(v13[q])' BY <1>3 DEF Sw!StillThere
    <3>5. PICK a \in People : a = v12[q] BY <3>1 DEF SwapBefore, Sw!JobsKept, Sw!Replaced
    <3>6. CASE a \in v22' BY <1>1, <3>3, <3>5, <3>6
    <3>7. CASE a \notin v22'
      <4>1. Sw!Stored(a)' BY <1>2, <1>7, <3>2, <3>5, <3>7 DEF SwapMono
      <4>2. Sw!Stored(v12[q])' BY <1>1, <3>5, <4>1 DEF Sw!Stored, Sw!HasFresh
      <4> QED BY <3>3, <3>4, <4>2
    <3> QED BY <3>6, <3>7
  <2> QED BY <2>2, <2>3 DEF Sw!RestoreLosesNothing
<1> QED BY <1>1, <1>4, <1>5, <1>6, <1>7, SwapNative

\* The user signs in: the secret first.
LEMMA SwapLogsIn == ASSUME SwapBefore, NEW a \in People, Sw!NativeLogin(a) PROVE Sw!LiveKept'
<1>1. /\ UNCHANGED <<v1, v6, v10, v12, v13, v14, v15>>
      /\ v2' = [v2 EXCEPT ![a] = @ \cup {v3[a] + 1}]
      /\ v4' = [of |-> a, gen |-> v3[a] + 1] /\ v17' = a
      /\ Sw!Note({b \in People : v4 # NoSecret /\ v4.of = b})
  BY DEF Sw!NativeLogin, Sw!mine
<1>2. v2 \in [People -> SUBSET Sw!Generation] /\ v22 \subseteq v22'
  BY DEF SwapBefore, Sw!SwapTypeOK
<1>3. \A t \in Sw!Secret : t.gen \in v2[t.of] => t.gen \in v2'[t.of]
  BY <1>1, <1>2, SwapSecrets
<1>4. \A t \in Sw!MaybeSecret : SwapOk(t) => SwapOkNext(t)
  BY <1>2, <1>3, SwapSecrets DEF SwapOk, SwapOkNext
<1>5. SwapLiveNext
  <2>1. v4'.gen \in v2'[v4'.of] BY <1>1, <1>2
  <2> QED BY <2>1 DEF SwapLiveNext, SwapOkNext
<1>6. \A b \in People \ v22' : ~(Sw!Accepted(v4) /\ v4.of = b)
  BY <1>1 DEF Sw!Note, Sw!Accepted
<1>7. ASSUME NEW q \in Agents PROVE Sw!RestoreLosesNothing(q)'
  <2>1. ~Sw!Crossing' BY DEF SwapBefore, Sw!SignInKept
  <2>2. v17' # NoOne BY <1>1, SwapSecrets
  <2>3. ~Sw!Writing(q)' BY <2>1, <2>2 DEF Sw!Crossing
  <2> QED BY <2>3 DEF Sw!Writing, Sw!RestoreLosesNothing, Sw!Replaced
<1> QED BY <1>1, <1>3, <1>4, <1>5, <1>6, <1>7, SwapNative

\* The user signs in: the account afterwards.
LEMMA SwapLogsInDone ==
    ASSUME SwapBefore,
           UNCHANGED <<v1, v2, v4, v6, v10, v12, v13, v14, v15>>
    PROVE  Sw!LiveKept'
<1>1. \A t \in Sw!MaybeSecret : SwapOk(t) => SwapOkNext(t) BY SwapOkStays
<1>2. SwapLiveNext
  <2>1. \A q \in Agents : Sw!Spent(q)' <=> Sw!Spent(q) BY DEF Sw!Spent
  <2>2. SwapOk(v4) => SwapOkNext(v4') BY SwapOkStays
  <2> QED BY <2>1, <2>2 DEF SwapLiveNext, SwapBefore
<1>3. \A a \in People \ v22' :
         Sw!Accepted(v4) /\ v4.of = a => Sw!Accepted(v4)' /\ v4'.of = a
  BY DEF Sw!Accepted
<1>4. ASSUME SwapMono, NEW q \in Agents PROVE Sw!RestoreLosesNothing(q)'
  <2>1. SwapApart(q) BY DEF SwapApart
  <2>2. Sw!RestoreLosesNothing(q) /\ v22 \subseteq v22' BY DEF SwapBefore
  <2>3. CASE ~Sw!Replaced(q)
    <3>1. ~Sw!Replaced(q)' BY <2>3 DEF Sw!Replaced
    <3>2. ~v1' /\ v10'[q] = "Secret" => Sw!StillThere(v15[q])' \/ v4'.of \in v22'
      BY <2>2 DEF Sw!RestoreLosesNothing, Sw!StillThere
    <3> QED BY <3>1, <3>2 DEF Sw!RestoreLosesNothing
  <2>4. CASE Sw!Replaced(q)
    <3>1. Sw!Replaced(q)' BY <2>4 DEF Sw!Replaced
    <3>2. CASE ~v1 => v10'[q] # "Secret" BY <1>4, <2>4, <3>1, <3>2, SwapGoesOn
    <3>3. CASE ~v1 /\ v10'[q] = "Secret" BY <2>4, <3>3 DEF Sw!Replaced
    <3> QED BY <3>2, <3>3
  <2> QED BY <2>3, <2>4
<1> QED BY <1>1, <1>2, <1>3, <1>4, SwapNative

\* Claude Code renews its token itself.
LEMMA SwapRefreshes == ASSUME SwapBefore, Sw!NativeRefresh PROVE Sw!LiveKept'
<1>1. /\ UNCHANGED <<v1, v6, v10, v12, v13, v14, v15>>
      /\ Sw!Accepted(v4) /\ Sw!Rotate(v4) /\ v4' = Sw!Renewed(v4)
  BY DEF Sw!NativeRefresh, Sw!mine
<1>2. /\ v13 \in [Agents -> Sw!MaybeSecret] /\ v14 \in [Agents -> Sw!MaybeSecret]
      /\ v15 \in [Agents -> Sw!MaybeSecret] /\ v4 \in Sw!MaybeSecret
      /\ v6 \in [People -> Sw!MaybeSecret] /\ v22 \subseteq v22'
  BY DEF SwapBefore, Sw!SwapTypeOK
<1>3. PICK s \in Sw!Secret : s = v4 BY <1>1, <1>2, SwapSecrets DEF Sw!Accepted
<1>4. PICK a \in People : a = s.of BY SwapSecrets
<1>5. Sw!Accepted(s) /\ Sw!Rotate(s) /\ v4' = Sw!Renewed(s) /\ s # NoSecret
  BY <1>1, <1>3 DEF Sw!Accepted, Sw!Rotate, Sw!Renewed
<1>6. v4' \in Sw!Secret /\ v4'.of = a /\ v4'.gen \in v2'[a] /\ s.gen \notin v2'[a]
      /\ s.gen # 0
  <2>1. Sw!SwapTypeOK /\ Sw!TokensCount BY DEF SwapBefore
  <2>2. s.gen # 0 BY <1>4, <1>5, <2>1 DEF Sw!TokensCount, Sw!Accepted
  <2> QED BY <1>4, <1>5, <2>1, <2>2, SwapServer
<1>7. v4' # NoSecret BY <1>6, SwapSecrets
<1>8. v4' \in Sw!InUse(a)'
  <2>1. v4' \in Sw!InUse(v4.of)' BY <1>6, <1>7, SwapLiveInUse
  <2> QED BY <1>6, <2>1 DEF Sw!InUse
<1>9. \A t \in Sw!MaybeSecret : t # s =>
         /\ SwapOk(t) => SwapOkNext(t)
         /\ t # NoSecret /\ t.gen \in v2[t.of] => t.gen \in v2'[t.of]
  BY <1>5, SwapRotated
<1>10. ASSUME s \in Sw!InUse(a)' PROVE a \in v22'
  <2>1. SwapOkNext(s) BY <1>6, <1>8, <1>10, SwapAllGood
  <2> QED BY <1>4, <1>5, <1>6, <2>1 DEF SwapOkNext
<1>11. ASSUME NEW q \in Agents, v13[q] = s \/ v14[q] = s \/ (v15[q] = s /\ ~Sw!Spent(q))
       PROVE  a \in v22'
  <2>1. Sw!Spent(q)' <=> Sw!Spent(q) BY <1>1 DEF Sw!Spent
  <2>2. s \in Sw!InUse(a)' BY <1>1, <1>4, <1>5, <1>11, <2>1 DEF Sw!InUse
  <2> QED BY <1>10, <2>2
<1>12. a \in v22' => SwapOkNext(s) BY <1>4 DEF SwapOkNext
<1>13. SwapHandsNext
  <2>1. ASSUME NEW q \in Agents
        PROVE  SwapOkNext(v13'[q]) /\ SwapOkNext(v14'[q]) /\ (Sw!Spent(q)' \/ SwapOkNext(v15'[q]))
    <3>1. SwapOk(v13[q]) /\ SwapOk(v14[q]) /\ (Sw!Spent(q) \/ SwapOk(v15[q])) BY DEF SwapBefore
    <3>2. Sw!Spent(q)' <=> Sw!Spent(q) BY <1>1 DEF Sw!Spent
    <3>3. SwapOkNext(v13[q]) BY <1>2, <1>9, <1>11, <1>12, <3>1
    <3>4. SwapOkNext(v14[q]) BY <1>2, <1>9, <1>11, <1>12, <3>1
    <3>5. Sw!Spent(q) \/ SwapOkNext(v15[q]) BY <1>2, <1>9, <1>11, <1>12, <3>1
    <3> QED BY <1>1, <3>2, <3>3, <3>4, <3>5
  <2> QED BY <2>1 DEF SwapHandsNext
<1>14. SwapLiveNext BY <1>6 DEF SwapLiveNext, SwapOkNext
<1>15. ASSUME NEW b \in People, b # a, Sw!Stored(b) PROVE Sw!Stored(b)'
  <2>1. CASE Sw!Accepted(v6[b])
    <3>1. v6[b] # NoSecret /\ v6[b].of = b BY <2>1 DEF Sw!Accepted, SwapBefore, Sw!SignInKept, Sw!Of
    <3>2. v6[b] \in Sw!MaybeSecret /\ v6[b] # s BY <1>2, <1>4, <1>15, <3>1
    <3>3. Sw!Accepted(v6[b])' BY <1>1, <1>9, <2>1, <3>1, <3>2 DEF Sw!Accepted
    <3> QED BY <3>3 DEF Sw!Stored
  <2>2. CASE \E q \in Agents : Sw!HasFresh(q, b)
    <3>1. PICK q \in Agents : Sw!HasFresh(q, b) BY <2>2
    <3>2. v13[q].of = b /\ v13[q] \in Sw!MaybeSecret /\ v13[q] # s /\ v13[q] # NoSecret
      BY <1>2, <1>4, <1>15, <3>1 DEF Sw!HasFresh, Sw!Accepted
    <3>3. v13[q].gen \in v2'[b] BY <1>9, <3>1, <3>2 DEF Sw!HasFresh, Sw!Accepted
    <3>4. Sw!HasFresh(q, b)' BY <1>1, <3>1, <3>2, <3>3 DEF Sw!HasFresh, Sw!Fresh, Sw!Accepted
    <3> QED BY <3>4 DEF Sw!Stored
  <2> QED BY <1>15, <2>1, <2>2 DEF Sw!Stored
<1>16. SwapThereNext
  <2>1. Sw!Accepted(v4)' /\ v4'.of = a BY <1>6, <1>7 DEF Sw!Accepted
  <2>2. ASSUME NEW b \in People \ v22', b # a PROVE Sw!Stored(b)'
    <3>1. Sw!Stored(b) BY <1>2, <1>3, <1>4, <2>2 DEF SwapBefore
    <3> QED BY <1>15, <2>2, <3>1
  <2> QED BY <2>1, <2>2 DEF SwapThereNext
\* What a command wrote or is to restore was the token that is renewed now.
<1>17. ASSUME NEW q \in Agents PROVE Sw!RestoreLosesNothing(q)'
  <2>1. Sw!RestoreLosesNothing(q) BY DEF SwapBefore
  <2>2. ASSUME ~v1', v10'[q] = "Secret" PROVE v4'.of \in v22'
    <3>1. Sw!StillThere(v15[q]) \/ v4.of \in v22 BY <1>1, <2>1, <2>2 DEF Sw!RestoreLosesNothing
    <3>2. ~Sw!Spent(q) BY <1>1, <2>2 DEF Sw!Spent
    <3>3. CASE Sw!StillThere(v15[q])
      <4>1. v15[q] = s BY <1>3, <1>5, <1>6, <3>3 DEF Sw!StillThere
      <4> QED BY <1>6, <1>11, <3>2, <4>1
    <3> QED BY <1>2, <1>3, <1>4, <1>6, <3>1, <3>3
  <2>3. ASSUME Sw!Replaced(q)' PROVE Sw!Of(v4, v12[q])' /\ v12'[q] \in v22'
    <3>1. Sw!Replaced(q) BY <1>1, <2>3 DEF Sw!Replaced
    <3>2. /\ Sw!Of(v4, v12[q])
          /\ v12[q] \in v22 \/ (Sw!StillThere(v13[q]) /\ Sw!Stored(v12[q]))
      BY <2>1, <3>1 DEF Sw!RestoreLosesNothing
    <3>3. v12[q] = a BY <1>3, <1>4, <1>5, <3>2 DEF Sw!Of
    <3>4. Sw!Of(v4, v12[q])' BY <1>1, <1>6, <3>3 DEF Sw!Of
    <3>5. CASE Sw!StillThere(v13[q])
      <4>1. v13[q] = s BY <1>3, <1>5, <1>6, <3>5 DEF Sw!StillThere
      <4> QED BY <1>1, <1>11, <3>3, <3>4, <4>1
    <3> QED BY <1>1, <1>2, <3>2, <3>3, <3>4, <3>5
  <2> QED BY <2>2, <2>3 DEF Sw!RestoreLosesNothing
<1> QED BY <1>13, <1>14, <1>16, <1>17, SwapAssemble

\* The invariant of the tokens is kept by every step.
LEMMA SwapTokens ==
    ASSUME SwapInv, Sw!TokensCount, Sw!LiveKept, [Sw!Next]_(Sw!swapVars), Sw!SignInKept',
       Sw!TokensCount'
    PROVE  Sw!LiveKept'
<1> SUFFICES ASSUME ~v21' PROVE Sw!LiveKept' BY DEF Sw!LiveKept
<1>1. SwapBefore BY SwapUndivided, SwapGather
<1>2. ASSUME NEW p \in Agents,
             \/ \E a \in People : \/ Sw!Activate(p, a) \/ Sw!ParkBegin(p, a)
                                    \/ Sw!Begin(p, "rm", a, "RmLock", NoSecret)
             \/ Sw!Begin(p, "capture", NoOne, "CapRead", NoSecret) \/ Sw!RenewBegin(p)
      PROVE  Sw!LiveKept'
  BY <1>1, <1>2, SwapBegins DEF Sw!Activate, Sw!ParkBegin, Sw!RenewBegin
<1>3. ASSUME NEW p \in Agents, Sw!Step(p) PROVE Sw!LiveKept'
  <2>1. CASE \/ Sw!CapRead(p) \/ Sw!CapIdent(p) \/ Sw!Lock(p) \/ Sw!WriteIdent(p) \/ Sw!Commit(p)
             \/ Sw!RenewLock(p) \/ Sw!RenewRead(p) \/ Sw!RenewCompare(p) \/ Sw!ParkLock(p)
                 \/ Sw!RmIdent(p)
    BY <1>1, <2>1, SwapReads
  <2>2. CASE Sw!PreRefresh(p) \/ Sw!RenewPost(p) \/ Sw!ParkPost(p) BY <1>1, <2>2, SwapPosts
  <2>3. CASE Sw!SaveFresh(p) \/ Sw!ParkSave(p) \/ Sw!CapStore(p) BY <1>1, <2>3, SwapStoring
  <2>4. CASE Sw!KeyWrite(p) \/ Sw!WriteSecret(p) BY <1>1, <2>4, SwapReplacing
  <2>5. CASE Sw!Fail(p) \/ Sw!KeyRestore(p) BY <1>1, <2>5, SwapRestoring
  <2>6. CASE Sw!RenewWrite(p) \/ Sw!RmLock(p) \/ Sw!Kill(p)
    BY <1>1, <2>6, SwapRenewing, SwapRemoving, SwapKilled
  <2> QED BY <1>2, <1>3, <2>1, <2>2, <2>3, <2>4, <2>5, <2>6 DEF Sw!Step
<1>4. CASE Sw!NativeLoginEnds
  <2>1. UNCHANGED <<v1, v2, v4, v6, v10, v12, v13, v14, v15>>
    BY <1>4 DEF Sw!NativeLoginEnds, Sw!server, Sw!mine
  <2> QED BY <1>1, <2>1, SwapLogsInDone
<1>5. CASE UNCHANGED Sw!swapVars
  <2>1. UNCHANGED <<v1, v2, v4, v6, v10, v12, v13, v14, v15>>
    BY <1>5 DEF Sw!swapVars, Sw!mine
  <2> QED BY <1>1, <2>1, SwapLogsInDone
<1> QED BY <1>1, <1>3, <1>4, <1>5, SwapRefreshes, SwapStrips, SwapLogsIn DEF Sw!Next

\* It holds at the start.
LEMMA SwapTokensInit == Sw!Init => Sw!TokensCount /\ Sw!LiveKept
<1> SUFFICES ASSUME Sw!Init PROVE Sw!TokensCount /\ Sw!LiveKept OBVIOUS
<1>1. Sw!TokensCount BY DEF Sw!Init, Sw!TokensCount, Sw!Fresh, Sw!Spent
<1>2. \A s : (\E a \in People : s \in Sw!InUse(a)) => s.gen = 1 /\ s.gen \in v2[s.of]
  BY DEF Sw!Init, Sw!InUse
<1>3. \A a \in People : ~Sw!Divided(a) BY <1>2 DEF Sw!Divided, Sw!Accepted, Sw!InUse
<1>4. \A a \in People : Sw!Stored(a)
  <2> TAKE a \in People
  <2>1. 1 \in 0 .. MaxGeneration BY SwapConstants DEF Sw!ClaudeSwapAssumption
  <2>2. [of |-> a, gen |-> 1] \in [of : People, gen : 0 .. MaxGeneration] BY <2>1
  <2>3. [of |-> a, gen |-> 1] # NoSecret BY <2>2, SwapConstants DEF Sw!ClaudeSwapAssumption
  <2>4. v6[a] = [of |-> a, gen |-> 1] /\ v2[a] = {1} BY DEF Sw!Init
  <2>5. Sw!Accepted(v6[a]) BY <2>3, <2>4 DEF Sw!Accepted
  <2> QED BY <2>5 DEF Sw!Stored
<1>5. Sw!Sound(v4) BY DEF Sw!Init, Sw!Sound, Sw!Accepted
<1>6. \A p \in Agents : Sw!Sound(v13[p]) /\ Sw!Sound(v14[p]) /\ Sw!Sound(v15[p])
  BY DEF Sw!Init, Sw!Sound
<1>7. \A p \in Agents : Sw!RestoreLosesNothing(p)
  BY DEF Sw!Init, Sw!RestoreLosesNothing, Sw!Replaced
<1> QED BY <1>1, <1>3, <1>4, <1>5, <1>6, <1>7 DEF Sw!LiveKept

\* And it is why every account still has a token.
LEMMA SwapTokenKept == SwapInv /\ Sw!TokensCount /\ Sw!LiveKept => Sw!TokenKept
<1> SUFFICES ASSUME SwapInv, Sw!TokensCount, Sw!LiveKept, Sw!Quiet, ~v21, NEW a \in People \ v22
             PROVE  \/ Sw!Accepted(IF v5 = a /\ v4 # NoSecret /\ v4.gen # 0
                                THEN v4 ELSE v6[a])
                    \/ \E p \in Agents : Sw!Accepted(v13[p]) /\ v13[p].of = a
  BY DEF Sw!TokenKept
<1>1. Sw!Of(v4, v5) BY DEF SwapInv, Sw!SignInKept, Sw!Quiet, Sw!HalfWritten, Sw!Writing
<1>2. CASE Sw!Accepted(v4) /\ v4.of = a
  <2>1. v4.gen # 0 BY <1>2 DEF Sw!TokensCount, Sw!Accepted
  <2>2. v5 = a /\ v4 # NoSecret BY <1>1, <1>2 DEF Sw!Of, Sw!Accepted
  <2> QED BY <1>2, <2>1, <2>2
<1>3. CASE \E q \in Agents : Sw!HasFresh(q, a) BY <1>3 DEF Sw!HasFresh
<1>4. CASE Sw!Accepted(v6[a])
  <2>1. CASE ~(v5 = a /\ v4 # NoSecret /\ v4.gen # 0) BY <1>4, <2>1
  <2>2. CASE v5 = a /\ v4 # NoSecret /\ v4.gen # 0
    <3>1. v4.of = a BY <1>1, <2>2 DEF Sw!Of
    <3>2. CASE Sw!Sound(v4) BY <2>2, <3>1, <3>2 DEF Sw!Sound
    <3>3. CASE \E q \in Agents : Sw!Spent(q) /\ v15[q] = v4
      <4>1. PICK q \in Agents : Sw!Spent(q) /\ v15[q] = v4 BY <3>3
      <4>2. Sw!Fresh(q) BY <4>1 DEF Sw!Spent, Sw!Fresh
      <4>3. v13[q] # NoSecret /\ v13[q].gen # 0 /\ v13[q].of = a
        BY <3>1, <4>1, <4>2 DEF Sw!TokensCount, SwapInv, Sw!SignInKept, Sw!OwnersKept, Sw!Spent
      <4>4. Sw!Accepted(v13[q]) BY <4>3 DEF Sw!LiveKept, Sw!Sound
      <4> QED BY <4>3, <4>4
    <3> QED BY <3>2, <3>3 DEF Sw!LiveKept
  <2> QED BY <2>1, <2>2
<1> QED BY <1>2, <1>3, <1>4 DEF Sw!LiveKept, Sw!Stored

LEMMA SwapGood == SwapInv => Sw!SecretIsOfItsAccount
  BY DEF SwapInv, Sw!SignInKept, Sw!SecretIsOfItsAccount, Sw!Quiet, Sw!HalfWritten, Sw!Writing,
      Sw!Of

-----------------------------------------------------------------------------
(* The poll of its usage                                                      *)

PollReserved == {"Before", "Ask", "Finish"}

PollShape ==
    /\ v1 \in Nat
    /\ v2 = [next |-> v2.next, failures |-> v2.failures, owner |-> v2.owner,
               failed |-> v2.failed, limited |-> v2.limited]
    /\ v2.failures \in Nat /\ v2.failed \in Us!Token /\ v2.limited \in BOOLEAN
    /\ v3 \in Agents \cup {NoOne}
    /\ v4 \in [Agents -> Us!PollSteps] /\ v5 \in [Agents -> Us!Token]
    /\ v6 \in [Agents -> [answer : Us!Answers, retry : Nat, live : BOOLEAN]]
    /\ v7 \in Us!Token /\ v7.ver > 0 /\ v8 \in Us!Owners
    /\ v9 \in Us!Owners \cup {NoOne}

PollLockedAt(p) == v4[p] \in PollReserved <=> v3 = p
PollKnownAt(p) == v4[p] \in PollReserved \cup {"Begin"} => v5[p].ver > 0
PollUnsaidAt(p) == v4[p] # "Finish" => v6[p].retry = 0

PaceInv == PollShape /\ \A p \in Agents : PollLockedAt(p) /\ PollKnownAt(p) /\ PollUnsaidAt(p)

LEMMA PaceInvInit == Us!Init => PaceInv
  BY UsageConstants DEF Us!ClaudeUsageAssumption, Us!Init, PaceInv, PollShape, PollLockedAt,
     PollKnownAt, PollUnsaidAt, PollReserved, Us!Token, Us!Nothing, Us!Owners, Us!PollSteps,
     Us!Answers, Us!NoAsk

\* A process whose call ends holds nothing.
LEMMA PollReturns ==
    ASSUME PaceInv, NEW p \in Agents, Us!Return(p)
    PROVE  /\ v4' \in [Agents -> Us!PollSteps] /\ v5' \in [Agents -> Us!Token]
           /\ v6' \in [Agents -> [answer : Us!Answers, retry : Nat, live : BOOLEAN]]
           /\ v3' \in Agents \cup {NoOne}
           /\ \A q \in Agents : (PollLockedAt(q) /\ PollKnownAt(q) /\ PollUnsaidAt(q))'
<1>1. Us!Nothing \in Us!Token
  BY UsageConstants DEF Us!ClaudeUsageAssumption, Us!Nothing, Us!Token, Us!Owners
<1>2. Us!NoAsk \in [answer : Us!Answers, retry : Nat, live : BOOLEAN] BY DEF Us!NoAsk, Us!Answers
<1>3. /\ v4' \in [Agents -> Us!PollSteps] /\ v5' \in [Agents -> Us!Token]
      /\ v6' \in [Agents -> [answer : Us!Answers, retry : Nat, live : BOOLEAN]]
      /\ v3' \in Agents \cup {NoOne}
  BY <1>1, <1>2 DEF PaceInv, PollShape, Us!Return, Us!At, Us!PollSteps
<1>4. ASSUME NEW q \in Agents PROVE (PollLockedAt(q) /\ PollKnownAt(q) /\ PollUnsaidAt(q))'
  <2>1. CASE q = p
    BY <2>1, UsageConstants DEF Us!ClaudeUsageAssumption, PaceInv, PollShape, Us!Return, Us!At,
       Us!NoAsk, PollLockedAt, PollKnownAt, PollUnsaidAt, PollReserved
  <2>2. CASE q # p
    BY <2>2, UsageConstants DEF Us!ClaudeUsageAssumption, PaceInv, PollShape, Us!Return, Us!At,
       PollLockedAt, PollKnownAt, PollUnsaidAt, PollReserved
  <2> QED BY <2>1, <2>2
<1> QED BY <1>3, <1>4

LEMMA PaceInvStep ==
    ASSUME PaceInv, [Us!Next]_(Us!pollVars) PROVE PaceInv'
<1> USE DEF PaceInv
<1> DEFINE AskRecord == [answer : Us!Answers, retry : Nat, live : BOOLEAN]
<1>1. ASSUME NEW p \in Agents, Us!Query(p) PROVE PaceInv'
  <2>1. PollShape'
    <3>1. v5' \in [Agents -> Us!Token]
      <4>1. ASSUME NEW v \in 1 .. MaxVersions PROVE [of |-> us, ver |-> v] \in Us!Token
        BY UsageConstants DEF Us!Token, Us!Owners, Us!ClaudeUsageAssumption
      <4> QED BY <1>1, <4>1 DEF Us!Query, PollShape
    <3>2. v4' \in [Agents -> Us!PollSteps] BY <1>1 DEF Us!Query, PollShape, Us!At, Us!PollSteps
    <3>3. v6' \in [Agents -> AskRecord]
      <4>1. v6' = [v6 EXCEPT ![p] = [v6[p] EXCEPT !.live = (v8 = us)]]
        BY <1>1 DEF Us!Query
      <4>2. [v6[p] EXCEPT !.live = (v8 = us)] \in AskRecord BY DEF PollShape
      <4> HIDE DEF AskRecord
      <4> QED BY <4>1, <4>2 DEF PollShape, AskRecord
    <3> QED BY <1>1, <3>1, <3>2, <3>3 DEF Us!Query, PollShape, Us!client
  <2>2. ASSUME NEW q \in Agents PROVE (PollLockedAt(q) /\ PollKnownAt(q) /\ PollUnsaidAt(q))'
    BY <1>1, <2>2, UsageConstants DEF Us!Query, PollShape, Us!At, PollLockedAt, PollKnownAt,
       PollUnsaidAt, PollReserved, Us!ClaudeUsageAssumption
  <2> QED BY <2>1, <2>2
<1>2. ASSUME NEW p \in Agents, Us!ReadToken(p) PROVE PaceInv'
  <2>1. CASE Us!Return(p)
    BY <1>2, <2>1, PollReturns DEF Us!ReadToken, PollShape, Us!client
  <2>2. CASE /\ v5' = [v5 EXCEPT ![p] = v7] /\ Us!At(p, "Begin")
             /\ UNCHANGED <<v6, v3>>
    <3>1. PollShape' BY <1>2, <2>2 DEF Us!ReadToken, PollShape, Us!At, Us!PollSteps, Us!client
    <3>2. ASSUME NEW q \in Agents PROVE (PollLockedAt(q) /\ PollKnownAt(q) /\ PollUnsaidAt(q))'
      BY <1>2, <2>2, <3>2, UsageConstants DEF Us!ReadToken, PollShape, Us!At, PollLockedAt,
         PollKnownAt, PollUnsaidAt, PollReserved, Us!ClaudeUsageAssumption
    <3> QED BY <3>1, <3>2
  <2> QED BY <1>2, <2>1, <2>2 DEF Us!ReadToken
<1>3. ASSUME NEW p \in Agents, Us!BeginPoll(p) PROVE PaceInv'
  <2>1. CASE Us!Return(p) /\ UNCHANGED v2
    BY <1>3, <2>1, PollReturns DEF Us!BeginPoll, PollShape
  <2>2. CASE /\ v3 = NoOne /\ v3' = p /\ UNCHANGED <<v5, v6>>
             /\ v2' = [v2 EXCEPT !.next = v1 + UsageInterval,
                                     !.failed = Us!Nothing, !.limited = FALSE]
             /\ Us!At(p, IF v6[p].live THEN "Before" ELSE "Ask")
    <3>1. PollShape'
      <4>1. Us!Nothing \in Us!Token
        BY UsageConstants DEF Us!Nothing, Us!Token, Us!Owners, Us!ClaudeUsageAssumption
      <4>2. UNCHANGED <<v1, v7, v8, v9>> BY <1>3 DEF Us!BeginPoll
      <4>3. v4' \in [Agents -> Us!PollSteps] BY <2>2 DEF Us!At, Us!PollSteps, PollShape
      <4> QED BY <2>2, <4>1, <4>2, <4>3 DEF PollShape
    <3>2. ASSUME NEW q \in Agents PROVE (PollLockedAt(q) /\ PollKnownAt(q) /\ PollUnsaidAt(q))'
      BY <1>3, <2>2, <3>2, UsageConstants DEF Us!BeginPoll, PollShape, Us!At, PollLockedAt,
         PollKnownAt, PollUnsaidAt, PollReserved, Us!ClaudeUsageAssumption
    <3> QED BY <3>1, <3>2
  <2> QED BY <1>3, <2>1, <2>2 DEF Us!BeginPoll
<1>4. ASSUME NEW p \in Agents, Us!Before(p) PROVE PaceInv'
  <2>1. PollShape' BY <1>4 DEF Us!Before, PollShape, Us!At, Us!PollSteps, Us!Answers, Us!client
  <2>2. ASSUME NEW q \in Agents PROVE (PollLockedAt(q) /\ PollKnownAt(q) /\ PollUnsaidAt(q))'
    BY <1>4, <2>2 DEF Us!Before, PollShape, Us!At, PollLockedAt, PollKnownAt, PollUnsaidAt,
       PollReserved, Us!client
  <2> QED BY <2>1, <2>2
<1>5. ASSUME NEW p \in Agents, Us!Ask(p) PROVE PaceInv'
  <2>1. v6' \in [Agents -> AskRecord]
    BY <1>5, UsageConstants DEF Us!Ask, PollShape, Us!Answers, Us!ClaudeUsageAssumption
  <2>2. PollShape' BY <1>5, <2>1 DEF Us!Ask, PollShape, Us!At, Us!PollSteps, Us!client
  <2>3. \A q \in Agents \ {p} : v6'[q] = v6[q] BY <1>5 DEF Us!Ask, PollShape
  <2>4. ASSUME NEW q \in Agents PROVE (PollLockedAt(q) /\ PollKnownAt(q) /\ PollUnsaidAt(q))'
    BY <1>5, <2>3, <2>4 DEF Us!Ask, PollShape, Us!At, PollLockedAt, PollKnownAt, PollUnsaidAt,
       PollReserved, Us!client
  <2> QED BY <2>2, <2>4
<1>6. ASSUME NEW p \in Agents, Us!Finish(p) PROVE PaceInv'
  <2>1. /\ v2' = [next |-> v2'.next, failures |-> v2'.failures, owner |-> v2'.owner,
                    failed |-> v2'.failed, limited |-> v2'.limited]
        /\ v2'.failures \in Nat /\ v2'.failed \in Us!Token /\ v2'.limited \in BOOLEAN
    <3>1. Us!Smaller(v2.failures + 1, MaxFailures) \in Nat
      BY UsageConstants DEF PollShape, Us!Smaller, Us!ClaudeUsageAssumption
    <3>2. v5[p] \in Us!Token BY DEF PollShape
    <3>3. Us!Nothing \in Us!Token
      BY UsageConstants DEF Us!ClaudeUsageAssumption, Us!Nothing, Us!Token, Us!Owners
    <3> QED BY <1>6, <3>1, <3>2, <3>3 DEF Us!Finish, Us!Finished
  <2> QED BY <1>6, <2>1, PollReturns DEF Us!Finish, PollShape, Us!client
<1>7. ASSUME NEW p \in Agents, Us!Abandon(p) PROVE PaceInv'
  BY <1>7, PollReturns DEF Us!Abandon, PollShape
<1>8. CASE Us!ChangeBegins
  <2>1. PollShape'
    BY <1>8, UsageConstants DEF Us!ChangeBegins, PollShape, Us!Token, Us!Owners,
       Us!ClaudeUsageAssumption
  <2> QED BY <1>8, <2>1 DEF Us!ChangeBegins, PollLockedAt, PollKnownAt, PollUnsaidAt
<1>9. CASE Us!ChangeEnds
  <2>1. PollShape'
    BY <1>9, UsageConstants DEF Us!ChangeEnds, PollShape, Us!Token, Us!Owners,
       Us!ClaudeUsageAssumption
  <2> QED BY <1>9, <2>1 DEF Us!ChangeEnds, PollLockedAt, PollKnownAt, PollUnsaidAt
<1>10. CASE Us!Rotates
  <2>1. v7' \in Us!Token /\ v7'.ver > 0
    BY <1>10, UsageConstants DEF Us!Rotates, PollShape, Us!Token, Us!ClaudeUsageAssumption
  <2> QED BY <1>10, <2>1 DEF Us!Rotates, PollShape, PollLockedAt, PollKnownAt, PollUnsaidAt
<1>11. CASE Us!PollTick
  BY <1>11 DEF Us!PollTick, Us!client, PollShape, PollLockedAt, PollKnownAt, PollUnsaidAt
<1>12. CASE UNCHANGED Us!pollVars
  BY <1>12 DEF Us!pollVars, PollShape, PollLockedAt, PollKnownAt, PollUnsaidAt
<1> QED
  BY <1>1, <1>2, <1>3, <1>4, <1>5, <1>6, <1>7, <1>8, <1>9, <1>10, <1>11, <1>12 DEF Us!Next, Us!Polls

LEMMA PaceInit == ASSUME scene = "usage", Us!Init PROVE Pace!Init
  BY DEF Us!Init, Pace!Init, Us!Barred, Us!Asking, Us!Said, Polled

\* The end of a call that holds no lock is no step of RequestPace.
LEMMA PaceStutters ==
    ASSUME scene = "usage", scene' = "usage", PaceInv, NEW p \in Agents, Us!Return(p), v3 # p,
           UNCHANGED <<v1, v2>>
    PROVE  UNCHANGED Pace!paceVars
<1>1. v3' = v3 BY DEF Us!Return
<1>2. v3 # NoOne => v5'[v3] = v5[v3] /\ v6'[v3] = v6[v3]
  BY DEF Us!Return, PaceInv, PollShape
<1> QED BY <1>1, <1>2 DEF Pace!paceVars, Us!Barred, Us!Asking, Us!Said, Polled

\* The end of a call that holds it is the end of a request.
LEMMA PaceEnds ==
    ASSUME scene = "usage", scene' = "usage", PaceInv, NEW p \in Agents, Us!Return(p), v3 = p,
           UNCHANGED v1
    PROVE  Pace!Over
<1>1. p # NoOne BY UsageConstants DEF Us!ClaudeUsageAssumption
<1>2. v5[p] # Us!Nothing BY DEF PaceInv, PollLockedAt, PollKnownAt, Us!Nothing
<1> QED BY <1>1, <1>2 DEF Pace!Over, Us!Return, Us!Barred, Us!Asking, Us!Said, Polled

LEMMA PaceFinishes ==
    ASSUME scene = "usage", scene' = "usage", PaceInv, NEW p \in Agents, Us!Finish(p)
    PROVE  Pace!Succeed \/ Pace!Fail \/ Pace!Refused
<1> DEFINE n == Us!Smaller(v2.failures + 1, MaxFailures)
<1>1. v3 = p /\ p # NoOne
  BY UsageConstants DEF Us!Finish, PaceInv, PollLockedAt, PollReserved, Us!ClaudeUsageAssumption
<1>2. Pace!Over BY <1>1, PaceEnds DEF Us!Finish
<1>3. Pace!OneMore = n
  BY UsageConstants DEF Pace!OneMore, Us!Smaller, PaceInv, PollShape, Us!ClaudeUsageAssumption,
     Polled
<1>4. v5[p] # Us!Nothing BY <1>1 DEF PaceInv, PollLockedAt, PollKnownAt, Us!Nothing
<1>5. CASE Us!Outcome(p) = "ok"
  <2>1. v2' = [next |-> v1 + UsageInterval, failures |-> 0, owner |-> v5[p].of,
                 failed |-> Us!Nothing, limited |-> FALSE]
    BY <1>5 DEF Us!Finish, Us!Finished
  <2> QED BY <1>2, <2>1 DEF Pace!Succeed, Us!Barred, Us!Asking, Us!Said, Polled
<1>6. CASE Us!Outcome(p) = "limited"
  <2>1. v2' = [next |-> Us!Larger(v1 + Us!Larger(Us!Backoff(n), LimitBackoff), v6[p].retry),
                 failures |-> n, owner |-> NoOne, failed |-> v5[p], limited |-> TRUE]
    BY <1>6 DEF Us!Finish, Us!Finished
  <2> QED
    BY <1>1, <1>2, <1>3, <2>1 DEF Pace!Refused, Pace!Later, Us!Larger, Us!Barred, Us!Asking,
       Us!Said, Polled
<1>7. CASE Us!Outcome(p) \notin {"ok", "limited"}
  <2>1. v2' = [next |-> v1 + Us!Backoff(n), failures |-> n, owner |-> NoOne,
                 failed |-> v5[p], limited |-> FALSE]
    BY <1>7 DEF Us!Finish, Us!Finished
  <2> QED BY <1>1, <1>2, <1>3, <1>4, <2>1 DEF Pace!Fail, Us!Barred, Us!Asking, Us!Said, Polled
<1> QED BY <1>5, <1>6, <1>7

LEMMA PaceStep ==
    ASSUME scene = "usage", scene' = "usage", PaceInv, [Us!Next]_(Us!pollVars)
    PROVE  [Pace!Next]_(Pace!paceVars)
<1>1. ASSUME NEW p \in Agents, Us!Query(p) PROVE UNCHANGED Pace!paceVars
  <2>1. v3 # p BY <1>1 DEF Us!Query, PaceInv, PollLockedAt, PollReserved
  <2>2. v3 # NoOne => v5'[v3] = v5[v3] /\ v6'[v3] = v6[v3]
    BY <1>1, <2>1 DEF Us!Query, PaceInv, PollShape
  <2> QED BY <1>1, <2>2 DEF Us!Query, Pace!paceVars, Us!Barred, Us!Asking, Us!Said, Polled
<1>2. ASSUME NEW p \in Agents, Us!ReadToken(p) PROVE UNCHANGED Pace!paceVars
  <2>1. v3 # p BY <1>2 DEF Us!ReadToken, PaceInv, PollLockedAt, PollReserved
  <2>2. CASE Us!Return(p) BY <1>2, <2>1, <2>2, PaceStutters DEF Us!ReadToken
  <2>3. CASE v5' = [v5 EXCEPT ![p] = v7] /\ UNCHANGED <<v6, v3>>
    <3>1. v3 # NoOne => v5'[v3] = v5[v3]
      BY <2>1, <2>3 DEF PaceInv, PollShape
    <3> QED
      BY <1>2, <2>3, <3>1 DEF Us!ReadToken, Pace!paceVars, Us!Barred, Us!Asking, Us!Said, Polled
  <2> QED BY <1>2, <2>2, <2>3 DEF Us!ReadToken
<1>3. ASSUME NEW p \in Agents, Us!BeginPoll(p) PROVE [Pace!Next]_(Pace!paceVars)
  <2>1. v3 # p BY <1>3 DEF Us!BeginPoll, PaceInv, PollLockedAt, PollReserved
  <2>2. CASE Us!Return(p) /\ UNCHANGED v2
    BY <1>3, <2>1, <2>2, PaceStutters DEF Us!BeginPoll
  <2>3. CASE /\ v3 = NoOne /\ Us!MayAsk(v5[p]) /\ v3' = p
             /\ v2' = [v2 EXCEPT !.next = v1 + UsageInterval,
                                     !.failed = Us!Nothing, !.limited = FALSE]
             /\ UNCHANGED <<v5, v6>>
    <3>1. v5[p] \in Us!Token \ {Us!Nothing} /\ v6[p].retry = 0 /\ p # NoOne
      BY <1>3, UsageConstants DEF Us!BeginPoll, PaceInv, PollShape, PollKnownAt, PollUnsaidAt,
         Us!Nothing, Us!ClaudeUsageAssumption
    <3>2. /\ v2'.next = v1 + UsageInterval /\ v2'.failed = Us!Nothing
          /\ v2'.failures = v2.failures
      BY <2>3 DEF PaceInv, PollShape
    <3>3. \/ v2.next <= v1
          \/ ~v2.limited /\ v2.failed # Us!Nothing /\ v5[p] # v2.failed
      BY <2>3 DEF Us!MayAsk, Us!OtherCredential
    <3>4. Pace!Reserve(v5[p])
      BY <1>3, <2>3, <3>1, <3>2, <3>3 DEF Us!BeginPoll, Pace!Reserve, Us!Barred, Us!Asking,
         Us!Said, Polled
    <3> QED BY <3>1, <3>4 DEF Pace!Next, Polled
  <2> QED BY <1>3, <2>2, <2>3 DEF Us!BeginPoll
<1>4. ASSUME NEW p \in Agents, Us!Before(p) PROVE UNCHANGED Pace!paceVars
  <2>1. v3 # NoOne => v6'[v3].retry = v6[v3].retry
    BY <1>4 DEF Us!Before, PaceInv, PollShape
  <2> QED BY <1>4, <2>1 DEF Us!Before, Pace!paceVars, Us!Barred, Us!Asking, Us!Said, Polled
<1>5. ASSUME NEW p \in Agents, Us!Ask(p) PROVE [Pace!Next]_(Pace!paceVars)
  <2>1. v3 = p /\ p # NoOne /\ v5[p] # Us!Nothing
    BY <1>5, UsageConstants DEF Us!Ask, PaceInv, PollLockedAt, PollKnownAt, PollReserved,
       Us!Nothing, Us!ClaudeUsageAssumption
  <2>2. CASE \E a \in {"ok", "failed"} : v6' = [v6 EXCEPT ![p].answer = a]
    <3>1. v6'[p].retry = v6[p].retry BY <2>2 DEF PaceInv, PollShape
    <3> QED BY <1>5, <2>1, <3>1 DEF Us!Ask, Pace!paceVars, Us!Barred, Us!Asking, Us!Said, Polled
  <2>3. CASE \E r \in RetryAfter :
                 v6' = [v6 EXCEPT ![p].answer = "limited", ![p].retry = v1 + r]
    <3>1. PICK r \in RetryAfter : v6'[p].retry = v1 + r
      BY <2>3 DEF PaceInv, PollShape
    <3>2. Pace!Hear BY <1>5, <2>1, <3>1 DEF Us!Ask, Pace!Hear, Us!Barred, Us!Asking, Us!Said, Polled
    <3> QED BY <3>2 DEF Pace!Next, Polled
  <2> QED BY <1>5, <2>2, <2>3 DEF Us!Ask
<1>6. ASSUME NEW p \in Agents, Us!Finish(p) PROVE [Pace!Next]_(Pace!paceVars)
  BY <1>6, PaceFinishes DEF Pace!Next, Polled
<1>7. ASSUME NEW p \in Agents, Us!Abandon(p) PROVE [Pace!Next]_(Pace!paceVars)
  <2>1. Pace!Over BY <1>7, PaceEnds DEF Us!Abandon
  <2>2. Pace!GiveUp BY <1>7, <2>1 DEF Us!Abandon, Pace!GiveUp, Us!Barred, Polled
  <2> QED BY <2>2 DEF Pace!Next, Polled
<1>8. CASE Us!ChangeBegins \/ Us!ChangeEnds \/ Us!Rotates
  BY <1>8 DEF Us!ChangeBegins, Us!ChangeEnds, Us!Rotates, Pace!paceVars, Us!Barred, Us!Asking,
     Us!Said, Polled
<1>9. CASE Us!PollTick
  <2>1. Pace!Tick BY <1>9 DEF Us!PollTick, Pace!Tick, Us!Barred, Us!Asking, Us!Said, Polled
  <2> QED BY <2>1 DEF Pace!Next, Polled
<1>10. CASE UNCHANGED Us!pollVars
  BY <1>10 DEF Us!pollVars, Pace!paceVars, Us!Barred, Us!Asking, Us!Said, Polled
<1> QED
  BY <1>1, <1>2, <1>3, <1>4, <1>5, <1>6, <1>7, <1>8, <1>9, <1>10 DEF Us!Next, Us!Polls

-----------------------------------------------------------------------------
(* Claude's usage                                                             *)

UsageTypes ==
    /\ v1 \in Nat /\ v10 \in Nat /\ v12 \subseteq Agents
    /\ v4 \in [Agents -> Us!PollSteps] /\ v5 \in [Agents -> Us!Token]
    /\ v6 \in [Agents -> [answer : Us!Answers, retry : Nat, live : BOOLEAN]]
    /\ v7 \in Us!Token /\ v8 \in Us!Owners /\ v9 \in (Us!Owners \ {v8}) \cup {NoOne}

UsageInv == UsageTypes /\ Us!TokensAreOurs

LEMMA UsTokens ==
    /\ \A t \in Us!Token : t.of \in Us!Owners
    /\ Us!Nothing \in Us!Token /\ \A o \in Us!Owners : [of |-> o, ver |-> 1] \in Us!Token
    /\ \A v \in 1 .. MaxVersions : [of |-> us, ver |-> v] \in Us!Token
    /\ Us!Owners = {us, others} /\ us # others /\ NoOne \notin Us!Owners
<1>1. us # others /\ NoOne \notin Us!Owners
  BY UsageConstants DEF Us!ClaudeUsageAssumption, Us!Owners
<1>2. MaxVersions \in Nat \ {0} BY UsageConstants DEF Us!ClaudeUsageAssumption
<1> QED BY <1>1, <1>2 DEF Us!Token, Us!Nothing, Us!Owners

LEMMA UsInit == Us!Init => UsageInv
<1> SUFFICES ASSUME Us!Init PROVE UsageInv OBVIOUS
<1>1. UsageTypes
  <2>1. "Idle" \in Us!PollSteps /\ "none" \in Us!Answers BY DEF Us!PollSteps, Us!Answers
  <2>2. Us!NoAsk \in [answer : Us!Answers, retry : Nat, live : BOOLEAN] BY <2>1 DEF Us!NoAsk
  <2> QED BY <2>1, <2>2, UsTokens DEF Us!Init, UsageTypes
<1>2. \A p \in Agents : v4[p] = "Idle" BY DEF Us!Init
<1>3. v7.of = v8 /\ v9 = NoOne BY DEF Us!Init
<1>4. Us!TokensAreOurs
  BY <1>2, <1>3, UsTokens DEF Us!TokensAreOurs, Us!SwapsNoticed, Us!TokenIsOurs, Us!AsLive,
     Us!Owners
<1> QED BY <1>1, <1>4 DEF UsageInv

\* A call ends.
LEMMA UsReturn ==
    ASSUME NEW p \in Agents, UsageInv, Us!Return(p), UNCHANGED <<v1, v10, v7, v8, v9>>
    PROVE  UsageInv'
<1>1. Us!NoAsk \in [answer : Us!Answers, retry : Nat, live : BOOLEAN] BY DEF Us!NoAsk, Us!Answers
<1>2. UsageTypes'
  <2>1. "Idle" \in Us!PollSteps BY DEF Us!PollSteps
  <2> QED BY <1>1, <2>1, UsTokens DEF UsageInv, UsageTypes, Us!Return, Us!At
<1>3. v4'[p] = "Idle" /\ ~v6'[p].live BY DEF UsageInv, UsageTypes, Us!Return, Us!At, Us!NoAsk
<1>4. \A q \in Agents \ {p} :
         /\ v4'[q] = v4[q] /\ v6'[q] = v6[q] /\ v5'[q] = v5[q]
         /\ q \in v12' <=> q \in v12
  BY DEF UsageInv, UsageTypes, Us!Return, Us!At
<1>5. Us!TokensAreOurs'
  BY <1>3, <1>4 DEF UsageInv, Us!TokensAreOurs, Us!SwapsNoticed, Us!TokenIsOurs, Us!AsLive
<1> QED BY <1>2, <1>5 DEF UsageInv

LEMMA UsNext == ASSUME UsageInv, [Us!Next]_(Us!pollVars) PROVE UsageInv'
<1>0. /\ v4 \in [Agents -> Us!PollSteps] /\ v5 \in [Agents -> Us!Token] /\ v7 \in Us!Token
      /\ v6 \in [Agents -> [answer : Us!Answers, retry : Nat, live : BOOLEAN]]
      /\ v8 \in Us!Owners /\ v9 \in (Us!Owners \ {v8}) \cup {NoOne}
      /\ v1 \in Nat /\ v10 \in Nat /\ v12 \subseteq Agents
  BY DEF UsageInv, UsageTypes
<1>1. Us!SwapsNoticed /\ \A p \in Agents : Us!TokenIsOurs(p) BY DEF UsageInv, Us!TokensAreOurs
<1>2. Us!PollSteps = {"Idle", "Token", "Begin", "Before", "Ask", "Finish"} BY DEF Us!PollSteps
\* One process goes on with its call, with the same token.
<1>3. ASSUME NEW p \in Agents, v4[p] \in {"Begin", "Before", "Ask"},
             NEW s \in {"Begin", "Before", "Ask", "Finish"}, Us!At(p, s),
             v6' \in [Agents -> [answer : Us!Answers, retry : Nat, live : BOOLEAN]],
             \A q \in Agents : v6'[q].live = v6[q].live,
             UNCHANGED <<v1, v5, Us!client, v12>>
      PROVE  UsageInv'
  <2>1. UsageTypes' BY <1>0, <1>2, <1>3 DEF UsageTypes, Us!At, Us!client
  <2>2. /\ v4'[p] = s /\ \A q \in Agents \ {p} : v4'[q] = v4[q]
        /\ UNCHANGED <<v5, v7, v8, v9, v10, v12>>
    BY <1>0, <1>3 DEF Us!At, Us!client
  <2>3. Us!SwapsNoticed' BY <1>1, <1>3, <2>2 DEF Us!SwapsNoticed, Us!AsLive
  <2>4. \A q \in Agents : Us!TokenIsOurs(q)' BY <1>1, <1>3, <2>2 DEF Us!TokenIsOurs
  <2> QED BY <2>1, <2>3, <2>4 DEF UsageInv, Us!TokensAreOurs
<1>4. ASSUME NEW p \in Agents, Us!Query(p) PROVE UsageInv'
  <2>1. /\ v4[p] = "Idle" /\ v6' = [v6 EXCEPT ![p].live = (v8 = us)]
        /\ UNCHANGED <<v1, v7, v8, v9, v10, v12>>
    BY <1>4 DEF Us!Query, Us!client
  <2>2. v6'[p].live = (v8 = us) /\ \A q \in Agents \ {p} : v6'[q] = v6[q] BY <1>0, <2>1
  <2>3. v6' \in [Agents -> [answer : Us!Answers, retry : Nat, live : BOOLEAN]]
    <3>1. [v6[p] EXCEPT !.live = (v8 = us)] \in [answer : Us!Answers, retry : Nat, live : BOOLEAN]
      BY <1>0
    <3>2. v6' = [v6 EXCEPT ![p] = [v6[p] EXCEPT !.live = (v8 = us)]] BY <2>1
    <3> QED BY <1>0, <3>1, <3>2
  <2>4. \/ v8 = us /\ Us!At(p, "Token") /\ v5' = v5
        \/ v8 # us /\ Us!At(p, "Begin")
            /\ \E v \in 1 .. MaxVersions : v5' = [v5 EXCEPT ![p] = [of |-> us, ver |-> v]]
    BY <1>4 DEF Us!Query
  <2>5. v5' \in [Agents -> Us!Token] BY <1>0, <2>4, UsTokens
  <2>6. \A q \in Agents \ {p} : v4'[q] = v4[q] /\ v5'[q] = v5[q] BY <1>0, <2>4 DEF Us!At
  <2>7. v4' \in [Agents -> Us!PollSteps] BY <1>0, <1>2, <2>4 DEF Us!At
  <2>8. UsageTypes' BY <1>0, <2>1, <2>3, <2>5, <2>7 DEF UsageTypes
  <2>9. Us!TokenIsOurs(p)'
    <3>1. CASE v8 = us /\ Us!At(p, "Token")
      <4>1. v4'[p] = "Token" /\ v6'[p].live BY <1>0, <2>2, <3>1 DEF Us!At
      <4> QED BY <4>1 DEF Us!TokenIsOurs
    <3>2. ASSUME Us!At(p, "Begin"), NEW v \in 1 .. MaxVersions,
       v5' = [v5 EXCEPT ![p] = [of |-> us, ver |-> v]]
          PROVE  Us!TokenIsOurs(p)'
      <4>1. v4'[p] = "Begin" /\ v5'[p].of = us BY <1>0, <3>2 DEF Us!At
      <4> QED BY <4>1 DEF Us!TokenIsOurs
    <3> QED BY <2>4, <3>1, <3>2
  <2>10. \A q \in Agents \ {p} : Us!TokenIsOurs(q)' BY <1>1, <2>1, <2>2, <2>6 DEF Us!TokenIsOurs
  <2>11. Us!SwapsNoticed'
    <3>1. v9 = us => v8 # us BY <1>0, UsTokens
    <3>2. v9 = us => ~Us!AsLive(p)' BY <2>2, <3>1 DEF Us!AsLive
    <3>3. v8 # us => ~Us!AsLive(p)' BY <2>2 DEF Us!AsLive
    <3>4. \A q \in Agents \ {p} : Us!AsLive(q)' <=> Us!AsLive(q) BY <2>2, <2>6 DEF Us!AsLive
    <3> QED BY <1>1, <2>1, <3>2, <3>3, <3>4 DEF Us!SwapsNoticed
  <2> QED BY <2>8, <2>9, <2>10, <2>11 DEF UsageInv, Us!TokensAreOurs
\* Where nothing is being swapped, the token is of the account that is signed in.
<1>5. ASSUME NEW p \in Agents, Us!ReadToken(p) PROVE UsageInv'
  <2>1. CASE Us!Return(p) BY <1>5, <2>1, UsReturn DEF Us!ReadToken, Us!client
  <2>2. CASE /\ v5' = [v5 EXCEPT ![p] = v7] /\ Us!At(p, "Begin") /\ v6' = v6
             /\ v12' = IF v9 # NoOne THEN v12 \cup {p} ELSE v12
    <3>1. v4[p] = "Token" /\ UNCHANGED <<v1, v7, v8, v9, v10>>
      BY <1>5 DEF Us!ReadToken, Us!client
    <3>2. /\ v4'[p] = "Begin" /\ v5'[p] = v7
          /\ \A q \in Agents \ {p} : v4'[q] = v4[q] /\ v5'[q] = v5[q]
      BY <1>0, <2>2 DEF Us!At
    <3>3. UsageTypes' BY <1>0, <1>2, <2>2, <3>1 DEF UsageTypes, Us!At
    <3>4. v6[p].live BY <1>1, <3>1 DEF Us!TokenIsOurs
    <3>5. Us!TokenIsOurs(p)'
      <4>1. v9 = NoOne => v7.of = v8 BY <1>1 DEF Us!SwapsNoticed
      <4> QED BY <2>2, <3>1, <3>2, <3>4, <4>1 DEF Us!TokenIsOurs
    <3>6. \A q \in Agents \ {p} : Us!TokenIsOurs(q)' BY <1>1, <2>2, <3>1, <3>2 DEF Us!TokenIsOurs
    <3>7. \A q \in Agents : Us!AsLive(q)' <=> Us!AsLive(q) BY <2>2, <3>1, <3>2 DEF Us!AsLive
    <3>8. Us!SwapsNoticed' BY <1>1, <2>2, <3>1, <3>7 DEF Us!SwapsNoticed
    <3> QED BY <3>3, <3>5, <3>6, <3>8 DEF UsageInv, Us!TokensAreOurs
  <2> QED BY <1>5, <2>1, <2>2 DEF Us!ReadToken
<1>6. ASSUME NEW p \in Agents, Us!BeginPoll(p) PROVE UsageInv'
  <2>1. CASE Us!Return(p) BY <1>6, <2>1, UsReturn DEF Us!BeginPoll
  <2>2. CASE Us!At(p, IF v6[p].live THEN "Before" ELSE "Ask") /\ UNCHANGED <<v5, v6, v11, v12>>
    <3>1. v4[p] = "Begin" /\ UNCHANGED <<v1, v7, v8, v9, v10>>
      BY <1>6 DEF Us!BeginPoll
    <3>2. Us!At(p, "Before") \/ Us!At(p, "Ask") BY <2>2
    <3> QED BY <1>0, <1>3, <2>2, <3>1, <3>2 DEF Us!client
  <2> QED BY <1>6, <2>1, <2>2 DEF Us!BeginPoll
<1>7. ASSUME NEW p \in Agents, Us!Before(p) PROVE UsageInv'
  <2>1. v4[p] = "Before" /\ UNCHANGED <<v1, v5, Us!client, v12>> BY <1>7 DEF Us!Before
  <2>2. v6' = v6 \/ v6' = [v6 EXCEPT ![p].answer = "failed"] BY <1>7 DEF Us!Before
  <2>3. v6' \in [Agents -> [answer : Us!Answers, retry : Nat, live : BOOLEAN]]
    BY <1>0, <2>2 DEF Us!Answers
  <2>4. \A q \in Agents : v6'[q].live = v6[q].live BY <1>0, <2>2
  <2>5. Us!At(p, "Ask") \/ Us!At(p, "Finish") BY <1>7 DEF Us!Before
  <2> QED BY <1>3, <2>1, <2>3, <2>4, <2>5
<1>8. ASSUME NEW p \in Agents, Us!Ask(p) PROVE UsageInv'
  <2>1. v4[p] = "Ask" /\ Us!At(p, "Finish") /\ UNCHANGED <<v1, v5, Us!client, v12>>
    BY <1>8 DEF Us!Ask
  <2>2. \/ \E a \in {"ok", "failed"} : v6' = [v6 EXCEPT ![p].answer = a]
        \/ \E r \in RetryAfter : v6' = [v6 EXCEPT ![p].answer = "limited", ![p].retry = v1 + r]
    BY <1>8 DEF Us!Ask
  <2>3. v6' \in [Agents -> [answer : Us!Answers, retry : Nat, live : BOOLEAN]]
    <3>1. \A r \in RetryAfter : v1 + r \in Nat
      BY <1>0, UsageConstants DEF Us!ClaudeUsageAssumption
    <3> QED BY <1>0, <2>2, <3>1 DEF Us!Answers
  <2>4. \A q \in Agents : v6'[q].live = v6[q].live BY <1>0, <2>2
  <2> QED BY <1>3, <2>1, <2>3, <2>4
<1>9. ASSUME NEW p \in Agents, Us!Finish(p) \/ Us!Abandon(p) PROVE UsageInv'
  BY <1>9, UsReturn DEF Us!Finish, Us!Abandon, Us!client
\* A swap begins: whoever asks since before an earlier one cannot tell.
<1>10. ASSUME Us!ChangeBegins PROVE UsageInv'
  <2>1. /\ v9 = NoOne /\ v10' = v10 + 1
        /\ \E o \in Us!Owners \ {v8} : v7' = [of |-> o, ver |-> 1] /\ v9' = o
        /\ v12' = IF v10 > 0 THEN v12 \cup Us!Busy ELSE v12
        /\ UNCHANGED <<v1, v4, v5, v6, v8>>
    BY <1>10 DEF Us!ChangeBegins
  <2>2. v9' \in Us!Owners \ {v8} /\ v7' \in Us!Token /\ v9' # NoOne BY <2>1, UsTokens
  <2>3. UsageTypes' BY <1>0, <2>1, <2>2 DEF UsageTypes, Us!Busy
  <2>4. v12 \subseteq v12' BY <2>1
  <2>5. \A q \in Agents : Us!TokenIsOurs(q)' BY <1>1, <2>1, <2>4 DEF Us!TokenIsOurs
  <2>6. \A q \in Agents : Us!AsLive(q)' <=> Us!AsLive(q) BY <2>1 DEF Us!AsLive
  <2>7. v8 # us /\ v10 = 0 => \A q \in Agents : ~Us!AsLive(q) BY <1>1 DEF Us!SwapsNoticed
  <2>8. v9' = us => \A q \in Agents : Us!AsLive(q)' => q \in v12'
    <3>1. v9' = us => v8 # us BY <2>2
    <3>2. v10 = 0 \/ v10 > 0 BY <1>0
    <3>3. \A q \in Agents : Us!AsLive(q) => q \in Us!Busy BY DEF Us!AsLive, Us!Busy
    <3> QED BY <2>1, <2>6, <2>7, <3>1, <3>2, <3>3
  <2>9. v10' > 0 /\ v10' # 0 /\ (v10' = 1 => v10 = 0) BY <1>0, <2>1
  <2>10. v7'.of = v9' BY <2>1
  <2>11. Us!SwapsNoticed' BY <2>1, <2>2, <2>6, <2>7, <2>8, <2>9, <2>10 DEF Us!SwapsNoticed
  <2> QED BY <2>3, <2>5, <2>11 DEF UsageInv, Us!TokensAreOurs
<1>11. ASSUME Us!ChangeEnds PROVE UsageInv'
  <2>1. /\ v9 # NoOne /\ v9' = NoOne /\ v9 \in Us!Owners \ {v8}
        /\ UNCHANGED <<v1, v4, v5, v6, v10>>
    BY <1>0, <1>11 DEF Us!ChangeEnds
  <2>2. \A q \in Agents : Us!AsLive(q)' <=> Us!AsLive(q) BY <2>1 DEF Us!AsLive
  <2>3. NoOne # us BY UsTokens
  <2>4. CASE /\ v8' = v9 /\ v7' = v7
             /\ v12' = IF v10 = 1 THEN {} ELSE v12
    <3>1. UsageTypes' BY <1>0, <2>1, <2>4 DEF UsageTypes
    <3>2. Us!SwapsNoticed'
      <4>1. v7.of = v9 /\ v10 # 0 BY <1>0, <1>1, <2>1 DEF Us!SwapsNoticed
      <4> QED BY <2>1, <2>3, <2>4, <4>1 DEF Us!SwapsNoticed
    <3>3. ASSUME NEW q \in Agents PROVE Us!TokenIsOurs(q)'
      <4>1. CASE v8' # us
        <5>1. Us!TokenIsOurs(q) /\ v6' = v6 /\ v5' = v5 /\ v4' = v4 BY <1>1, <2>1
        <5> QED BY <4>1, <5>1 DEF Us!TokenIsOurs
      <4>2. CASE v8' = us
        <5>1. v9 = us /\ v8 # us BY <2>1, <2>4, <4>2
        <5>2. Us!AsLive(q) => q \in v12 /\ v10 # 1 BY <1>1, <5>1 DEF Us!SwapsNoticed
        <5>3. Us!AsLive(q) => q \in v12' BY <2>4, <5>2
        <5>4. Us!TokenIsOurs(q) /\ v6' = v6 /\ v5' = v5 /\ v4' = v4 BY <1>1, <2>1
        <5>5. v4[q] \in {"Begin", "Before", "Ask", "Finish"} => v4[q] # "Idle" OBVIOUS
        <5> QED BY <5>3, <5>4, <5>5 DEF Us!TokenIsOurs, Us!AsLive
      <4> QED BY <4>1, <4>2
    <3> QED BY <3>1, <3>2, <3>3 DEF UsageInv, Us!TokensAreOurs
  <2>5. CASE v7' = [of |-> v8, ver |-> 1] /\ UNCHANGED <<v8, v12>>
    <3>1. UsageTypes' BY <1>0, <2>1, <2>5, UsTokens DEF UsageTypes
    <3>2. Us!SwapsNoticed'
      <4>1. v8 # us /\ v10 = 0 => \A q \in Agents : ~Us!AsLive(q) BY <1>1 DEF Us!SwapsNoticed
      <4>2. v7'.of = v8 BY <2>5
      <4> QED BY <2>1, <2>2, <2>3, <2>5, <4>1, <4>2 DEF Us!SwapsNoticed
    <3>3. \A q \in Agents : Us!TokenIsOurs(q)' BY <1>1, <2>1, <2>5 DEF Us!TokenIsOurs
    <3> QED BY <3>1, <3>2, <3>3 DEF UsageInv, Us!TokensAreOurs
  <2> QED BY <1>11, <2>4, <2>5 DEF Us!ChangeEnds
<1>12. ASSUME Us!Rotates PROVE UsageInv'
  <2>1. /\ v7' = [v7 EXCEPT !.ver = @ + 1] /\ v7.ver < MaxVersions
        /\ UNCHANGED <<v1, v4, v5, v6, v8, v9, v10, v12>>
    BY <1>12 DEF Us!Rotates
  <2>2. v7 = [of |-> v7.of, ver |-> v7.ver] /\ v7.ver \in 0 .. MaxVersions /\ v7.of \in Us!Owners
    BY <1>0 DEF Us!Token
  <2>3. v7' = [of |-> v7.of, ver |-> v7.ver + 1] BY <2>1, <2>2
  <2>4. v7' \in Us!Token /\ v7'.of = v7.of
    BY <2>1, <2>2, <2>3, UsageConstants DEF Us!Token, Us!ClaudeUsageAssumption
  <2>5. UsageTypes' BY <1>0, <2>1, <2>4 DEF UsageTypes
  <2>6. Us!TokensAreOurs'
    BY <1>1, <2>1, <2>4 DEF Us!TokensAreOurs, Us!SwapsNoticed, Us!TokenIsOurs, Us!AsLive
  <2> QED BY <2>5, <2>6 DEF UsageInv
<1>13. CASE Us!PollTick \/ UNCHANGED Us!pollVars
  <2>1. /\ UNCHANGED <<v4, v5, v6, v7, v8, v9, v10, v12>>
        /\ v1' \in {v1, v1 + 1}
    BY <1>13 DEF Us!PollTick, Us!pollVars, Us!client
  <2>2. UsageTypes' BY <1>0, <2>1 DEF UsageTypes
  <2>3. Us!TokensAreOurs'
    BY <1>1, <2>1 DEF Us!TokensAreOurs, Us!SwapsNoticed, Us!TokenIsOurs, Us!AsLive
  <2> QED BY <2>2, <2>3 DEF UsageInv
<1> QED
  BY <1>4, <1>5, <1>6, <1>7, <1>8, <1>9, <1>10, <1>11, <1>12, <1>13 DEF Us!Next, Us!Polls

\* What is kept was asked for with a token of the account.
LEMMA UsKeeps == ASSUME UsageInv PROVE Us!AnswerIsOurs
<1> SUFFICES ASSUME NEW p \in Agents, Us!Finish(p), Us!Outcome(p) = "ok", p \notin v12
             PROVE  v2'.owner = us
  BY DEF Us!AnswerIsOurs
<1>1. v4[p] = "Finish" /\ v2' = Us!Finished(p) BY DEF Us!Finish
<1>2. v6[p].live => v8 = us BY DEF Us!Outcome
<1>3. v5[p].of = us BY <1>1, <1>2 DEF UsageInv, Us!TokensAreOurs, Us!TokenIsOurs
<1> QED BY <1>1, <1>3 DEF Us!Finished

-----------------------------------------------------------------------------
(* The types of the poll of its usage                                         *)

PollBounds ==
    /\ v1 \in 0 .. MaxPollTime
    /\ v2.next \in Us!PollTimes /\ v2.failures \in 0 .. MaxFailures
    /\ v2.owner \in Us!Owners \cup {NoOne}
    /\ \A p \in Agents : v6[p].retry \in Us!PollTimes
    /\ v10 \in 0 .. MaxChanges /\ v11 \in 0 .. MaxPollFaults

LEMMA PollNumbers ==
    /\ UsageInterval \in Nat /\ BackoffCap \in Nat /\ LimitBackoff \in Nat
    /\ MaxFailures \in Nat /\ MaxFailures > 0 /\ RetryAfter \subseteq Nat
    /\ MaxPollTime \in Nat /\ MaxChanges \in Nat /\ MaxPollFaults \in Nat
  BY UsageConstants DEF Us!ClaudeUsageAssumption

\* The dates that a poll may be put off to.
LEMMA PollDates ==
    /\ Us!PollTimes \subseteq Nat /\ 0 \in Us!PollTimes
    /\ \A t \in 0 .. MaxPollTime :
        /\ t + UsageInterval \in Us!PollTimes /\ t + LimitBackoff \in Us!PollTimes
        /\ \A r \in RetryAfter : t + r \in Us!PollTimes
        /\ \A d \in Nat : d <= UsageInterval \/ d <= BackoffCap => t + d \in Us!PollTimes
<1> DEFINE D == {UsageInterval, BackoffCap, LimitBackoff} \cup RetryAfter
<1>1. D \subseteq Nat BY PollNumbers
<1>2. Us!PollTimes = UNION {0 .. MaxPollTime + d : d \in D} BY DEF Us!PollTimes
<1>3. ASSUME NEW d \in D, NEW n \in 0 .. MaxPollTime + d PROVE n \in Us!PollTimes
  BY <1>2
<1>4. Us!PollTimes \subseteq Nat
  <2>1. ASSUME NEW n \in Us!PollTimes PROVE n \in Nat
    <3>1. PICK d \in D : n \in 0 .. MaxPollTime + d BY <1>2
    <3> QED BY <3>1
  <2> QED BY <2>1
<1>5. UsageInterval \in D /\ BackoffCap \in D /\ LimitBackoff \in D /\ RetryAfter \subseteq D
  OBVIOUS
<1> HIDE DEF D
<1>6. ASSUME NEW t \in 0 .. MaxPollTime, NEW e \in D, NEW d \in Nat, d <= e
      PROVE  t + d \in Us!PollTimes
  <2>1. e \in Nat BY <1>1
  <2>2. t + d \in 0 .. MaxPollTime + e BY <1>6, <2>1, PollNumbers
  <2> QED BY <1>3, <2>2
<1>7. 0 \in Us!PollTimes
  <2>1. 0 \in 0 .. MaxPollTime + UsageInterval BY PollNumbers
  <2> QED BY <1>3, <1>5, <2>1
<1>8. ASSUME NEW t \in 0 .. MaxPollTime
      PROVE  /\ t + UsageInterval \in Us!PollTimes /\ t + LimitBackoff \in Us!PollTimes
             /\ \A r \in RetryAfter : t + r \in Us!PollTimes
  <2>1. \A d \in D : d \in Nat /\ d <= d BY <1>1
  <2>2. \A d \in D : t + d \in Us!PollTimes BY <1>6, <2>1
  <2> QED BY <1>5, <2>2
<1>9. ASSUME NEW t \in 0 .. MaxPollTime, NEW d \in Nat, d <= UsageInterval \/ d <= BackoffCap
      PROVE  t + d \in Us!PollTimes
  BY <1>5, <1>6, <1>9
<1> QED BY <1>4, <1>7, <1>8, <1>9

\* A power of two is the number of the subsets of a set.
LEMMA PollPowers == ASSUME NEW n \in Nat PROVE 2 ^ n \in Nat
<1>1. IsFiniteSet(1 .. n) /\ Cardinality(1 .. n) = n
  <2>1. 1 \in Int /\ n \in Int OBVIOUS
  <2>2. /\ IsFiniteSet(1 .. n) /\ Cardinality(1 .. n) = IF 1 > n THEN 0 ELSE n - 1 + 1
    BY <2>1, FS_Interval
  <2> QED BY <2>2
<1>2. IsFiniteSet(SUBSET (1 .. n)) /\ Cardinality(SUBSET (1 .. n)) = 2 ^ Cardinality(1 .. n)
  BY <1>1, FS_SUBSET
<1> QED BY <1>1, <1>2, FS_CardinalityType

\* The backoff never exceeds its cap.
LEMMA PollBackoff ==
    ASSUME NEW n \in 1 .. MaxFailures
    PROVE  Us!Backoff(n) \in Nat /\ (Us!Backoff(n) <= UsageInterval \/ Us!Backoff(n) <= BackoffCap)
<1>1. n - 1 \in Nat OBVIOUS
<1>2. 2 ^ (n - 1) \in Nat BY <1>1, PollPowers
<1>3. PICK b \in Nat : b = UsageInterval * 2 ^ (n - 1) BY <1>2, PollNumbers
<1>4. Us!Larger(BackoffCap, UsageInterval) \in {BackoffCap, UsageInterval} BY DEF Us!Larger
<1>5. Us!Backoff(n) = Us!Smaller(b, Us!Larger(BackoffCap, UsageInterval)) BY <1>3 DEF Us!Backoff
<1> QED BY <1>4, <1>5, PollNumbers DEF Us!Smaller

LEMMA PollStarts == Us!Init => PollBounds
<1> SUFFICES ASSUME Us!Init PROVE PollBounds OBVIOUS
<1>1. 0 \in Us!PollTimes BY PollDates
<1>2. \A n \in Nat : 0 \in 0 .. n OBVIOUS
<1>3. \A p \in Agents : v6[p].retry = 0 BY DEF Us!Init, Us!NoAsk
<1>4. v2.next = 0 /\ v2.failures = 0 /\ v2.owner = NoOne BY DEF Us!Init
<1>5. /\ 0 \in 0 .. MaxPollTime /\ 0 \in 0 .. MaxFailures /\ 0 \in 0 .. MaxChanges
      /\ 0 \in 0 .. MaxPollFaults
  BY <1>2, PollNumbers
<1> QED BY <1>1, <1>3, <1>4, <1>5 DEF Us!Init, PollBounds

LEMMA PollTyped == PaceInv /\ UsageInv /\ PollBounds => Us!PollTypeOK
<1> SUFFICES ASSUME PaceInv, UsageInv, PollBounds PROVE Us!PollTypeOK OBVIOUS
<1>1. PollShape BY DEF PaceInv
<1>2. v2 \in [next : Us!PollTimes, failures : 0 .. MaxFailures, owner : Us!Owners \cup {NoOne},
                failed : Us!Token, limited : BOOLEAN]
  BY <1>1 DEF PollShape, PollBounds
<1>3. v6 \in [Agents -> [answer : Us!Answers, retry : Us!PollTimes, live : BOOLEAN]]
  <2>1. v6 \in [Agents -> [answer : Us!Answers, retry : Nat, live : BOOLEAN]]
    BY <1>1 DEF PollShape
  <2>2. \A p \in Agents : v6[p] \in [answer : Us!Answers, retry : Us!PollTimes, live : BOOLEAN]
    BY <2>1 DEF PollBounds
  <2> QED BY <2>1, <2>2
<1>4. v12 \subseteq Agents BY DEF UsageInv, UsageTypes
<1> QED BY <1>1, <1>2, <1>3, <1>4 DEF PollShape, PollBounds, Us!PollTypeOK

LEMMA PollFinished ==
    ASSUME PaceInv, UsageInv, PollBounds, NEW p \in Agents
    PROVE  /\ Us!Finished(p).next \in Us!PollTimes /\ Us!Finished(p).failures \in 0 .. MaxFailures
           /\ Us!Finished(p).owner \in Us!Owners \cup {NoOne}
<1> DEFINE n == Us!Smaller(v2.failures + 1, MaxFailures)
           a == Us!Outcome(p)
<1>1. n \in 1 .. MaxFailures BY PollNumbers DEF PollBounds, Us!Smaller
<1> HIDE DEF n
<1>2. v1 \in 0 .. MaxPollTime /\ v1 \in Nat BY DEF PollBounds
<1>3. v1 + Us!Backoff(n) \in Us!PollTimes BY <1>1, <1>2, PollBackoff, PollDates
<1>4. v1 + UsageInterval \in Us!PollTimes /\ v1 + LimitBackoff \in Us!PollTimes
  BY <1>2, PollDates
<1>5. v6[p].retry \in Us!PollTimes BY DEF PollBounds
<1>6. Us!Larger(v1 + Us!Larger(Us!Backoff(n), LimitBackoff), v6[p].retry) \in Us!PollTimes
  BY <1>3, <1>4, <1>5 DEF Us!Larger
<1>7. v5[p].of \in Us!Owners BY UsTokens DEF UsageInv, UsageTypes
<1>8. n \in 0 .. MaxFailures /\ 0 \in 0 .. MaxFailures BY <1>1, PollNumbers
<1>9. CASE a = "ok"
  <2>1. Us!Finished(p).next = v1 + UsageInterval /\ Us!Finished(p).failures = 0
        /\ Us!Finished(p).owner = v5[p].of
    BY <1>9 DEF Us!Finished
  <2> QED BY <1>4, <1>7, <1>8, <2>1
<1>10. CASE a = "limited"
  <2>1. /\ Us!Finished(p).next = Us!Larger(v1 + Us!Larger(Us!Backoff(n), LimitBackoff),
           v6[p].retry)
        /\ Us!Finished(p).failures = n /\ Us!Finished(p).owner = NoOne
    BY <1>10 DEF Us!Finished, n
  <2> QED BY <1>6, <1>8, <2>1
<1>11. CASE a # "ok" /\ a # "limited"
  <2>1. /\ Us!Finished(p).next = v1 + Us!Backoff(n)
        /\ Us!Finished(p).failures = n /\ Us!Finished(p).owner = NoOne
    BY <1>11 DEF Us!Finished, n
  <2> QED BY <1>3, <1>8, <2>1
<1> QED BY <1>9, <1>10, <1>11

LEMMA PollBounded == ASSUME PaceInv, UsageInv, PollBounds, [Us!Next]_(Us!pollVars)
                     PROVE  PollBounds'
<1>0. /\ v6 \in [Agents -> [answer : Us!Answers, retry : Nat, live : BOOLEAN]]
      /\ v2 = [next |-> v2.next, failures |-> v2.failures, owner |-> v2.owner,
                 failed |-> v2.failed, limited |-> v2.limited]
  BY DEF PaceInv, PollShape
<1>1. CASE UNCHANGED Us!pollVars BY <1>1 DEF Us!pollVars, PollBounds
<1>2. CASE Us!Next
  <2>1. v1' \in 0 .. MaxPollTime
    <3>1. \/ v1' = v1
          \/ v1 < MaxPollTime /\ v1' = v1 + 1
      BY <1>2 DEF Us!Next, Us!Polls, Us!Query, Us!ReadToken, Us!BeginPoll, Us!Before, Us!Ask,
         Us!Finish, Us!Abandon,
         Us!ChangeBegins, Us!ChangeEnds, Us!Rotates, Us!PollTick
    <3> QED BY <3>1, PollNumbers DEF PollBounds
  <2>2. v10' \in 0 .. MaxChanges
    <3>1. \/ v10' = v10
          \/ v10 < MaxChanges /\ v10' = v10 + 1
      BY <1>2 DEF Us!Next, Us!Polls, Us!Query, Us!ReadToken, Us!BeginPoll, Us!Before, Us!Ask,
         Us!Finish, Us!Abandon,
         Us!ChangeBegins, Us!ChangeEnds, Us!Rotates, Us!PollTick, Us!client
    <3> QED BY <3>1, PollNumbers DEF PollBounds
  <2>3. v11' \in 0 .. MaxPollFaults
    <3>1. \/ v11' = v11
          \/ v11 < MaxPollFaults /\ v11' = v11 + 1
      BY <1>2 DEF Us!Next, Us!Polls, Us!Query, Us!ReadToken, Us!BeginPoll, Us!Before, Us!Ask,
         Us!Finish, Us!Abandon,
         Us!ChangeBegins, Us!ChangeEnds, Us!Rotates, Us!PollTick, Us!client
    <3> QED BY <3>1, PollNumbers DEF PollBounds
  <2>4. /\ v2'.next \in Us!PollTimes /\ v2'.failures \in 0 .. MaxFailures
        /\ v2'.owner \in Us!Owners \cup {NoOne}
    <3>1. \/ v2' = v2
          \/ v2' = [v2 EXCEPT !.next = v1 + UsageInterval,
                                  !.failed = Us!Nothing, !.limited = FALSE]
          \/ \E p \in Agents : v2' = Us!Finished(p)
      BY <1>2 DEF Us!Next, Us!Polls, Us!Query, Us!ReadToken, Us!BeginPoll, Us!Before, Us!Ask,
         Us!Finish, Us!Abandon,
         Us!ChangeBegins, Us!ChangeEnds, Us!Rotates, Us!PollTick
    <3>2. CASE v2' = v2 BY <3>2 DEF PollBounds
    <3>3. CASE v2' = [v2 EXCEPT !.next = v1 + UsageInterval,
                                    !.failed = Us!Nothing, !.limited = FALSE]
      <4>1. v2'.next = v1 + UsageInterval /\ v2'.failures = v2.failures
            /\ v2'.owner = v2.owner
        BY <1>0, <3>3
      <4> QED BY <4>1, PollDates DEF PollBounds
    <3>4. CASE \E p \in Agents : v2' = Us!Finished(p) BY <3>4, PollFinished
    <3> QED BY <3>1, <3>2, <3>3, <3>4
  <2>5. ASSUME NEW p \in Agents PROVE v6'[p].retry \in Us!PollTimes
    <3>1. /\ \A q \in Agents : v6[q].retry \in Us!PollTimes /\ Us!NoAsk.retry \in Us!PollTimes
          /\ \A r \in RetryAfter : v1 + r \in Us!PollTimes
      BY PollDates DEF PollBounds, Us!NoAsk
    <3>2. CASE UNCHANGED v6 BY <3>1, <3>2
    <3>3. ASSUME NEW q \in Agents, v6' = [v6 EXCEPT ![q] = Us!NoAsk]
          PROVE  v6'[p].retry \in Us!PollTimes
      BY <1>0, <3>1, <3>3
    <3>4. ASSUME NEW q \in Agents, NEW b, v6' = [v6 EXCEPT ![q].live = b]
                                        \/ v6' = [v6 EXCEPT ![q].answer = b]
          PROVE  v6'[p].retry \in Us!PollTimes
      <4>1. v6'[p].retry = v6[p].retry BY <1>0, <3>4
      <4> QED BY <3>1, <4>1
    <3>5. ASSUME NEW q \in Agents, NEW r \in RetryAfter,
                 v6' = [v6 EXCEPT ![q].answer = "limited", ![q].retry = v1 + r]
          PROVE  v6'[p].retry \in Us!PollTimes
      <4>1. v6'[p].retry \in {v6[p].retry, v1 + r} BY <1>0, <3>5
      <4> QED BY <3>1, <4>1
    <3>6. \/ UNCHANGED v6
          \/ \E q \in Agents :
              \/ v6' = [v6 EXCEPT ![q] = Us!NoAsk]
              \/ \E b : v6' = [v6 EXCEPT ![q].live = b] \/ v6' = [v6 EXCEPT ![q].answer = b]
              \/ \E r \in RetryAfter :
                    v6' = [v6 EXCEPT ![q].answer = "limited", ![q].retry = v1 + r]
      <4>1. CASE \E q \in Agents : Us!Query(q) BY <4>1 DEF Us!Query
      <4>2. CASE \E q \in Agents : Us!Before(q) BY <4>2 DEF Us!Before
      <4>3. CASE \E q \in Agents : Us!Ask(q) BY <4>3 DEF Us!Ask
      <4>4. CASE \E q \in Agents :
                    Us!ReadToken(q) \/ Us!BeginPoll(q) \/ Us!Finish(q) \/ Us!Abandon(q)
        BY <4>4 DEF Us!ReadToken, Us!BeginPoll, Us!Finish, Us!Abandon, Us!Return
      <4>5. CASE Us!ChangeBegins \/ Us!ChangeEnds \/ Us!Rotates \/ Us!PollTick
        BY <4>5 DEF Us!ChangeBegins, Us!ChangeEnds, Us!Rotates, Us!PollTick
      <4> QED BY <1>2, <4>1, <4>2, <4>3, <4>4, <4>5 DEF Us!Next, Us!Polls
    <3> QED BY <3>2, <3>3, <3>4, <3>5, <3>6
  <2> QED BY <2>1, <2>2, <2>3, <2>4, <2>5 DEF PollBounds
<1> QED BY <1>1, <1>2

-----------------------------------------------------------------------------
(* Request metrics                                                            *)

\* The instance has the library's operators under names of its own.
LEMMA RmCard == /\ \A S : Rm!Cardinality(S) = Cardinality(S)
                /\ \A S : Rm!IsFiniteSet(S) <=> IsFiniteSet(S)
<1>1. \A S : Rm!Cardinality(S) = Cardinality(S) BY DEF Rm!Cardinality, Cardinality
<1>2. \A S : Rm!IsFiniteSet(S) <=> IsFiniteSet(S) BY DEF Rm!IsFiniteSet, IsFiniteSet
<1> QED BY <1>1, <1>2

LEMMA RmConstants ==
    /\ MetricAccounts \subseteq Nat /\ MetricAccounts # {} /\ IsFiniteSet(MetricAccounts)
    /\ Codes \subseteq 100 .. 599 /\ Rm!Start \notin Codes /\ Rm!OtherCode \notin Codes
    /\ MaxMinutes \in Nat /\ MaxMinutes > 0 /\ MaxAccounts \in Nat /\ MaxAccounts > 0
    /\ MaxStatuses \in Nat /\ MaxStatuses > 1
    /\ MaxMinute \in Nat /\ MaxEvents \in Nat /\ MaxMetricFaults \in Nat
  BY MetricsConstants, RmCard DEF Rm!MetricsAssumption, Rm!Start, Rm!OtherCode

LEMMA RmCodes == ASSUME NEW S \in SUBSET (Codes \cup {Rm!OtherCode})
                 PROVE  IsFiniteSet(S) /\ Cardinality(S) \in Nat
<1>1. S \subseteq 0 .. 600 BY RmConstants DEF Rm!OtherCode
<1>2. 0 \in Int /\ 600 \in Int OBVIOUS
<1>3. IsFiniteSet(0 .. 600) BY <1>2, FS_Interval
<1> QED BY <1>1, <1>3, FS_Subset, FS_CardinalityType

LEMMA RmNames == ASSUME NEW S \in SUBSET MetricAccounts
                 PROVE  IsFiniteSet(S) /\ Cardinality(S) \in Nat
  BY RmConstants, FS_Subset, FS_CardinalityType

\* What a count is made of.
LEMMA RmCountIs ==
    ASSUME NEW n \in Nat, NEW c \in Rm!Counts(n)
    PROVE  /\ c = [starts |-> c.starts, completes |-> c.completes, statuses |-> c.statuses]
           /\ c.starts \in 0 .. n /\ c.completes \in 0 .. n
           /\ DOMAIN c.statuses \subseteq Codes \cup {Rm!OtherCode}
           /\ c.statuses \in [DOMAIN c.statuses -> 1 .. n]
           /\ Cardinality(DOMAIN c.statuses \ {Rm!OtherCode}) < MaxStatuses
<1>1. /\ c \in [starts : 0 .. n, completes : 0 .. n, statuses : Rm!Statuses(n)]
      /\ Cardinality(DOMAIN c.statuses \ {Rm!OtherCode}) < MaxStatuses
  BY RmCard DEF Rm!Counts
<1>2. c.statuses \in Rm!Statuses(n) BY <1>1
<1>3. PICK codes \in SUBSET (Codes \cup {Rm!OtherCode}) : c.statuses \in [codes -> 1 .. n]
  BY <1>2 DEF Rm!Statuses
<1> QED BY <1>1, <1>3

LEMMA RmCountOf ==
    ASSUME NEW n \in Nat, NEW x \in 0 .. n, NEW y \in 0 .. n,
           NEW D \in SUBSET (Codes \cup {Rm!OtherCode}), NEW z \in [D -> 1 .. n],
           Cardinality(D \ {Rm!OtherCode}) < MaxStatuses
    PROVE  [starts |-> x, completes |-> y, statuses |-> z] \in Rm!Counts(n)
<1>1. z \in Rm!Statuses(n) BY DEF Rm!Statuses
<1> QED BY <1>1, RmCard DEF Rm!Counts

LEMMA RmCountGrows == ASSUME NEW n \in Nat, NEW c \in Rm!Counts(n) PROVE c \in Rm!Counts(n + 1)
<1> DEFINE D == DOMAIN c.statuses
<1>0. c.starts \in 0 .. n /\ c.completes \in 0 .. n /\ c.statuses \in [D -> 1 .. n] BY RmCountIs
<1>1. c.starts \in 0 .. n + 1 /\ c.completes \in 0 .. n + 1 /\ n + 1 \in Nat BY <1>0
<1>2. c.statuses \in [D -> 1 .. n + 1] BY <1>0
<1>3. D \in SUBSET (Codes \cup {Rm!OtherCode}) /\ Cardinality(D \ {Rm!OtherCode}) < MaxStatuses
  BY RmCountIs
<1>4. c = [starts |-> c.starts, completes |-> c.completes, statuses |-> c.statuses] BY RmCountIs
<1> HIDE DEF D
<1>5. [starts |-> c.starts, completes |-> c.completes,
      statuses |-> c.statuses] \in Rm!Counts(n + 1)
  BY <1>1, <1>2, <1>3, RmCountOf
<1> QED BY <1>4, <1>5

LEMMA RmNoCount == ASSUME NEW n \in Nat PROVE Rm!NoCount \in Rm!Counts(n)
<1>1. <<>> \in [{} -> 1 .. n] OBVIOUS
<1>2. Cardinality({} \ {Rm!OtherCode}) < MaxStatuses
  <2>1. {} \ {Rm!OtherCode} = {} OBVIOUS
  <2> QED BY <2>1, FS_EmptySet, RmConstants
<1>3. 0 \in 0 .. n /\ {} \in SUBSET (Codes \cup {Rm!OtherCode}) OBVIOUS
<1>4. [starts |-> 0, completes |-> 0, statuses |-> <<>>] \in Rm!Counts(n)
  BY <1>1, <1>2, <1>3, RmCountOf
<1> QED BY <1>4 DEF Rm!NoCount

\* Another event in a count: a code of its own while there is room.
LEMMA RmBump ==
    ASSUME NEW n \in Nat, NEW c \in Rm!Counts(n), NEW what \in Codes \cup {Rm!Start}
    PROVE  Rm!Bump(c, what) \in Rm!Counts(n + 1)
<1> DEFINE S == c.statuses
           D == DOMAIN S
<1>0. /\ c = [starts |-> c.starts, completes |-> c.completes, statuses |-> S]
      /\ c.starts \in 0 .. n /\ c.completes \in 0 .. n
      /\ D \in SUBSET (Codes \cup {Rm!OtherCode}) /\ S \in [D -> 1 .. n]
      /\ Cardinality(D \ {Rm!OtherCode}) < MaxStatuses
  BY RmCountIs
<1> HIDE DEF D
<1>1. CASE what = Rm!Start
  <2>1. Rm!Bump(c, what) = [starts |-> c.starts + 1, completes |-> c.completes, statuses |-> S]
    BY <1>0, <1>1 DEF Rm!Bump
  <2>2. S \in [D -> 1 .. n + 1] BY <1>0
  <2> HIDE DEF S
  <2>3. [starts |-> c.starts + 1, completes |-> c.completes, statuses |-> S] \in Rm!Counts(n + 1)
    <3>1. c.starts + 1 \in 0 .. n + 1 /\ c.completes \in 0 .. n + 1 /\ n + 1 \in Nat BY <1>0
    <3> QED BY <1>0, <2>2, <3>1, RmCountOf
  <2> QED BY <2>1, <2>3
<1>2. CASE what # Rm!Start
  <2> DEFINE room == Cardinality(D) < MaxStatuses - 1
             key == IF what \in D \/ room THEN what ELSE Rm!OtherCode
             had == IF key \in D THEN S[key] ELSE 0
             E == D \cup {key}
             T == [k \in E |-> IF k = key THEN had + 1 ELSE S[k]]
  <2>1. Rm!Bump(c, what) = [starts |-> c.starts, completes |-> c.completes + 1, statuses |-> T]
    <3>1. T = Rm!AddStatus(S, what, 1) BY RmCard DEF Rm!AddStatus, D
    <3> QED BY <1>0, <1>2, <3>1 DEF Rm!Bump
  <2>2. what \in Codes /\ key \in Codes \cup {Rm!OtherCode} BY <1>2
  <2>3. had \in 0 .. n BY <1>0
  <2>4. T \in [E -> 1 .. n + 1] /\ E \in SUBSET (Codes \cup {Rm!OtherCode})
    <3> HIDE DEF had, key
    <3> QED BY <1>0, <2>2, <2>3
  <2>5. Cardinality(E \ {Rm!OtherCode}) < MaxStatuses
    <3>1. CASE key \in D \/ key = Rm!OtherCode
      <4>1. E \ {Rm!OtherCode} = D \ {Rm!OtherCode} BY <3>1
      <4> QED BY <1>0, <4>1
    <3>2. CASE key \notin D /\ key # Rm!OtherCode
      <4>1. Cardinality(D) < MaxStatuses - 1 /\ key = what BY <3>2
      <4>2. IsFiniteSet(D) /\ Cardinality(D) \in Nat BY <1>0, RmCodes
      <4>3. IsFiniteSet(E) /\ Cardinality(E) = Cardinality(D) + 1
        <5> HIDE DEF key
        <5> QED BY <3>2, <4>2, FS_AddElement
      <4>4. Cardinality(E \ {Rm!OtherCode}) <= Cardinality(E)
        <5> HIDE DEF E
        <5> QED BY <4>3, FS_Subset
      <4>5. Cardinality(E \ {Rm!OtherCode}) \in Nat
        <5> HIDE DEF E
        <5>1. E \ {Rm!OtherCode} \in SUBSET (Codes \cup {Rm!OtherCode}) BY <2>4
        <5> QED BY <5>1, RmCodes
      <4> HIDE DEF E
      <4> QED BY <4>1, <4>2, <4>3, <4>4, <4>5, RmConstants
    <3> QED BY <3>1, <3>2
  <2> HIDE DEF T, E, S
  <2>6. [starts |-> c.starts, completes |-> c.completes + 1, statuses |-> T] \in Rm!Counts(n + 1)
    <3>1. c.starts \in 0 .. n + 1 /\ c.completes + 1 \in 0 .. n + 1 /\ n + 1 \in Nat BY <1>0
    <3> QED BY <2>4, <2>5, <3>1, RmCountOf
  <2> QED BY <2>1, <2>6
<1> QED BY <1>1, <1>2

LEMMA RmLeast == ASSUME NEW S \in SUBSET Nat, S # {} PROVE \E n \in S : \A m \in S : n <= m
<1> DEFINE R == {ss \in Nat \X Nat : ss[1] < ss[2]}
<1>1. IsWellFoundedOn(R, Nat) BY NatLessThanWellFounded, Zenon DEF OpToRel
<1>2. PICK x \in S : \A y \in S : <<y, x>> \notin R
  <2> HIDE DEF R
  <2> QED BY <1>1, WFMin, Zenon
<1>3. \A y \in S : y < x => <<y, x>> \in R OBVIOUS
<1>4. \A y \in S : ~(y < x)
  <2> HIDE DEF R
  <2> QED BY <1>2, <1>3, Zenon
<1> HIDE DEF R
<1>5. \A y \in S : x \in Nat /\ y \in Nat OBVIOUS
<1> QED BY <1>4, <1>5

RmBuckets(n) == [minute : 0 .. MaxMinute, count : Rm!Counts(n)]
InOrder(b) == \A i, j \in DOMAIN b : i < j => b[i].minute < b[j].minute

\* Where the bucket of a minute is, or goes.
LEMMA RmPlace ==
    ASSUME NEW n \in Nat, NEW b \in Seq(RmBuckets(n)), InOrder(b), NEW m \in Nat
    PROVE  \E k \in 1 .. Len(b) + 1 : \A i \in DOMAIN b : b[i].minute < m <=> i < k
<1> DEFINE S == {i \in 1 .. Len(b) + 1 : i = Len(b) + 1 \/ b[i].minute >= m}
<1>0. Len(b) \in Nat /\ DOMAIN b = 1 .. Len(b) /\ \A i \in DOMAIN b : b[i] \in RmBuckets(n)
  OBVIOUS
<1>1. Len(b) \in Nat /\ DOMAIN b = 1 .. Len(b) /\ \A i \in DOMAIN b : b[i].minute \in Nat
  BY <1>0, RmConstants DEF RmBuckets
<1>2. S \in SUBSET Nat /\ S # {} BY <1>1
<1>3. PICK k \in S : \A i \in S : k <= i
  <2> HIDE DEF S
  <2> QED BY <1>2, RmLeast
<1>4. k \in 1 .. Len(b) + 1 OBVIOUS
<1>5. ASSUME NEW i \in DOMAIN b, i < k PROVE b[i].minute < m
  <2>1. i \notin S
    <3> HIDE DEF S
    <3> QED BY <1>1, <1>3, <1>4, <1>5
  <2> QED BY <1>1, <2>1
<1>6. ASSUME NEW i \in DOMAIN b, ~(i < k) PROVE ~(b[i].minute < m)
  <2>1. k \in DOMAIN b /\ b[k].minute >= m BY <1>1, <1>4, <1>6
  <2>2. CASE i = k BY <1>1, <2>1, <2>2
  <2>3. CASE i # k
    <3>1. k < i BY <1>1, <1>4, <1>6, <2>3
    <3>2. b[k].minute < b[i].minute BY <2>1, <3>1 DEF InOrder
    <3> QED BY <1>1, <2>1, <3>2
  <2> QED BY <2>2, <2>3
<1> QED BY <1>4, <1>5, <1>6

LEMMA RmInsert ==
    ASSUME NEW X, NEW s \in Seq(X), NEW e \in X, NEW k \in 1 .. Len(s) + 1
    PROVE  /\ Rm!InsertAt(s, k, e) \in Seq(X) /\ Len(Rm!InsertAt(s, k, e)) = Len(s) + 1
           /\ \A i \in 1 .. Len(s) + 1 :
                Rm!InsertAt(s, k, e)[i] = IF i < k THEN s[i] ELSE IF i = k THEN e ELSE s[i - 1]
<1> DEFINE A == SubSeq(s, 1, k - 1)
           C == SubSeq(s, k, Len(s))
           B == A \o <<e>>
<1>1. A \in Seq(X) /\ Len(A) = k - 1 /\ \A i \in 1 .. k - 1 : A[i] = s[i] OBVIOUS
<1>2. C \in Seq(X) /\ Len(C) = Len(s) + 1 - k
      /\ \A i \in 1 .. Len(s) + 1 - k : C[i] = s[k + i - 1]
  OBVIOUS
<1>3. Rm!InsertAt(s, k, e) = B \o C BY DEF Rm!InsertAt
<1> HIDE DEF A, C
<1>4. B \in Seq(X) /\ Len(B) = k /\ B[k] = e /\ \A i \in 1 .. k - 1 : B[i] = A[i] BY <1>1
<1> HIDE DEF B
<1>5. B \o C \in Seq(X) /\ Len(B \o C) = Len(s) + 1
  <2>0. B \in Seq(X) /\ C \in Seq(X) BY <1>2, <1>4
  <2>1. B \o C \in Seq(X) BY <2>0
  <2>2. Len(B \o C) = Len(B) + Len(C) BY <2>0
  <2>3. k \in Nat /\ Len(s) \in Nat OBVIOUS
  <2> QED BY <1>2, <1>4, <2>1, <2>2, <2>3
<1>6. ASSUME NEW i \in 1 .. Len(s) + 1
      PROVE  (B \o C)[i] = IF i < k THEN s[i] ELSE IF i = k THEN e ELSE s[i - 1]
  <2>1. CASE i < k
    <3>1. (B \o C)[i] = B[i] BY <1>2, <1>4, <2>1
    <3> QED BY <1>1, <1>4, <2>1, <3>1
  <2>2. CASE i = k
    <3>1. (B \o C)[i] = B[i] BY <1>2, <1>4, <2>2
    <3> QED BY <1>4, <2>2, <3>1
  <2>3. CASE i > k
    <3>1. (B \o C)[i] = C[i - k] /\ i - k \in 1 .. Len(s) + 1 - k BY <1>2, <1>4, <2>3
    <3>2. C[i - k] = s[i - 1] /\ ~(i < k) /\ i # k BY <1>2, <2>3, <3>1
    <3> QED BY <3>1, <3>2
  <2>4. i \in Nat /\ k \in Nat OBVIOUS
  <2>5. i < k \/ i = k \/ i > k BY <2>4
  <2> QED BY <2>1, <2>2, <2>3, <2>5
<1> QED BY <1>3, <1>5, <1>6

LEMMA RmTrim ==
    ASSUME NEW X, NEW s \in Seq(X)
    PROVE  /\ Rm!Trim(s) \in Seq(X) /\ Len(Rm!Trim(s)) <= MaxMinutes
           /\ \E d \in Nat : \A i \in DOMAIN Rm!Trim(s) : i + d \in DOMAIN s
              /\ Rm!Trim(s)[i] = s[i + d]
<1>1. CASE Len(s) <= MaxMinutes
  <2>1. Rm!Trim(s) = s BY <1>1 DEF Rm!Trim
  <2>2. \A i \in DOMAIN s : i + 0 \in DOMAIN s /\ s[i] = s[i + 0] OBVIOUS
  <2> QED BY <1>1, <2>1, <2>2
<1>2. CASE ~(Len(s) <= MaxMinutes)
  <2> DEFINE d == Len(s) - MaxMinutes
  <2>1. d \in Nat BY <1>2, RmConstants
  <2>2. Rm!Trim(s) = SubSeq(s, d + 1, Len(s)) BY <1>2, <2>1 DEF Rm!Trim
  <2>3. Rm!Trim(s) \in Seq(X) /\ Len(Rm!Trim(s)) = MaxMinutes BY <1>2, <2>1, <2>2, RmConstants
  <2>4. ASSUME NEW i \in 1 .. MaxMinutes PROVE i + d \in DOMAIN s /\ Rm!Trim(s)[i] = s[i + d]
    BY <1>2, <2>1, <2>2, RmConstants
  <2> HIDE DEF d
  <2>5. DOMAIN Rm!Trim(s) = 1 .. MaxMinutes BY <2>3, RmConstants
  <2>6. \A i \in DOMAIN Rm!Trim(s) : i + d \in DOMAIN s /\ Rm!Trim(s)[i] = s[i + d] BY <2>4, <2>5
  <2> QED BY <2>1, <2>3, <2>6, RmConstants
<1> QED BY <1>1, <1>2

LEMMA RmTrimOrder ==
    ASSUME NEW n \in Nat, NEW s \in Seq(RmBuckets(n)), InOrder(s)
    PROVE  InOrder(Rm!Trim(s))
<1>1. PICK d \in Nat : \A i \in DOMAIN Rm!Trim(s) : i + d \in DOMAIN s /\ Rm!Trim(s)[i] = s[i + d]
  BY RmTrim
<1>2. Rm!Trim(s) \in Seq(RmBuckets(n)) BY RmTrim
<1>3. ASSUME NEW i \in DOMAIN Rm!Trim(s), NEW j \in DOMAIN Rm!Trim(s), i < j
      PROVE  Rm!Trim(s)[i].minute < Rm!Trim(s)[j].minute
  <2>1. i + d < j + d BY <1>2, <1>3
  <2>2. s[i + d].minute < s[j + d].minute BY <1>1, <2>1 DEF InOrder
  <2> QED BY <1>1, <2>2
<1> QED BY <1>3 DEF InOrder

LEMMA RmMinutes ==
    ASSUME NEW n \in Nat, NEW b \in Seq(RmBuckets(n)), InOrder(b), NEW m \in 0 .. MaxMinute,
           NEW what \in Codes \cup {Rm!Start}
    PROVE  /\ Rm!BumpMinutes(b, m, what) \in Seq(RmBuckets(n + 1))
           /\ Len(Rm!BumpMinutes(b, m, what)) <= MaxMinutes /\ InOrder(Rm!BumpMinutes(b, m, what))
<1> DEFINE has == \E i \in DOMAIN b : b[i].minute = m
           place == CHOOSE k \in 1 .. Len(b) + 1 : \A i \in DOMAIN b : b[i].minute < m <=> i < k
           all == IF has THEN b ELSE Rm!InsertAt(b, place, Rm!Bucket(m))
           new == [all EXCEPT ![place].count = Rm!Bump(@, what)]
<1>0. Rm!BumpMinutes(b, m, what) = Rm!Trim(new) BY DEF Rm!BumpMinutes
<1>1. /\ Len(b) \in Nat /\ DOMAIN b = 1 .. Len(b) /\ m \in Nat
      /\ \A i \in DOMAIN b : b[i] \in RmBuckets(n) /\ b[i].minute \in Nat
  <2>1. \A i \in DOMAIN b : b[i] \in RmBuckets(n) OBVIOUS
  <2>2. \A i \in DOMAIN b : b[i].minute \in Nat BY <2>1, RmConstants DEF RmBuckets
  <2> QED BY <2>1, <2>2, RmConstants
<1>2. place \in 1 .. Len(b) + 1 /\ \A i \in DOMAIN b : b[i].minute < m <=> i < place
  BY <1>1, RmPlace
<1>3. Rm!Bucket(m) \in RmBuckets(n) /\ Rm!Bucket(m).minute = m
  BY RmNoCount DEF Rm!Bucket, RmBuckets
<1> HIDE DEF place
<1>4. /\ all \in Seq(RmBuckets(n)) /\ place \in DOMAIN all /\ all[place].minute = m
      /\ InOrder(all)
  <2>1. CASE has
    <3>1. PICK i \in DOMAIN b : b[i].minute = m BY <2>1
    <3>2. ~(i < place) BY <1>1, <1>2, <3>1
    <3>3. place \in DOMAIN b BY <1>1, <1>2, <3>2
    <3>4. ~(b[place].minute < m) BY <1>1, <1>2, <3>3
    <3>5. i = place
      <4>1. SUFFICES ASSUME place < i PROVE FALSE BY <1>1, <1>2, <3>2
      <4>2. b[place].minute < b[i].minute BY <3>3, <4>1 DEF InOrder
      <4> QED BY <1>1, <3>1, <3>3, <3>4, <4>2
    <3> QED BY <2>1, <3>1, <3>5
  <2>2. CASE ~has
    <3>1. all = Rm!InsertAt(b, place, Rm!Bucket(m)) BY <2>2
    <3> HIDE DEF all
    <3>2. /\ all \in Seq(RmBuckets(n)) /\ Len(all) = Len(b) + 1
          /\ \A i \in 1 .. Len(b) + 1 :
                all[i] = IF i < place THEN b[i] ELSE IF i = place THEN Rm!Bucket(m) ELSE b[i - 1]
      <4>1. place \in 1 .. Len(b) + 1 /\ Rm!Bucket(m) \in RmBuckets(n) BY <1>2, <1>3
      <4> DEFINE e == Rm!Bucket(m)
                 X == RmBuckets(n)
                 it == Rm!InsertAt(b, place, e)
      <4>2. b \in Seq(X) /\ e \in X /\ place \in 1 .. Len(b) + 1 BY <4>1
      <4> HIDE DEF e, X
      <4>3. /\ it \in Seq(X) /\ Len(it) = Len(b) + 1
            /\ \A i \in 1 .. Len(b) + 1 :
                  it[i] = IF i < place THEN b[i] ELSE IF i = place THEN e ELSE b[i - 1]
        BY <4>2, RmInsert
      <4> HIDE DEF it
      <4> USE DEF e, X
      <4>4. all = it BY <3>1 DEF it
      <4> QED BY <4>3, <4>4
    <3>3. DOMAIN all = 1 .. Len(b) + 1 /\ all[place] = Rm!Bucket(m) BY <1>1, <1>2, <3>2
    <3>4. ASSUME NEW i \in DOMAIN all, NEW j \in DOMAIN all, i < j
          PROVE  all[i].minute < all[j].minute
      <4>1. i \in Nat /\ j \in Nat /\ place \in Nat BY <1>1, <1>2, <3>3
      <4>2. CASE j < place
        <5>1. i \in DOMAIN b /\ j \in DOMAIN b /\ all[i] = b[i] /\ all[j] = b[j]
          BY <1>1, <1>2, <3>2, <3>3, <3>4, <4>1, <4>2
        <5> QED BY <3>4, <5>1 DEF InOrder
      <4>3. CASE j = place
        <5>1. i \in DOMAIN b /\ all[i] = b[i] /\ i < place /\ all[j] = Rm!Bucket(m)
          BY <1>1, <1>2, <3>2, <3>3, <3>4, <4>1, <4>3
        <5> QED BY <1>2, <1>3, <5>1
      <4>4. CASE place < j /\ i < place
        <5>1. i \in DOMAIN b /\ j - 1 \in DOMAIN b /\ all[i] = b[i] /\ all[j] = b[j - 1]
              /\ i < j - 1
          BY <1>1, <1>2, <3>2, <3>3, <3>4, <4>1, <4>4
        <5> QED BY <5>1 DEF InOrder
      <4>5. CASE place < j /\ i = place
        <5>1. j - 1 \in DOMAIN b /\ all[i] = Rm!Bucket(m) /\ all[j] = b[j - 1] /\ ~(j - 1 < place)
          BY <1>1, <1>2, <3>2, <3>3, <3>4, <4>1, <4>5
        <5>2. ~(b[j - 1].minute < m) /\ b[j - 1].minute # m BY <1>2, <2>2, <5>1
        <5>3. b[j - 1].minute \in Nat BY <1>1, <5>1
        <5> QED BY <1>1, <1>3, <5>1, <5>2, <5>3
      <4>6. CASE place < i
        <5>1. /\ i - 1 \in DOMAIN b /\ j - 1 \in DOMAIN b /\ all[i] = b[i - 1]
              /\ all[j] = b[j - 1] /\ i - 1 < j - 1
          BY <1>1, <1>2, <3>2, <3>3, <3>4, <4>1, <4>6
        <5> QED BY <5>1 DEF InOrder
      <4> QED BY <3>4, <4>1, <4>2, <4>3, <4>4, <4>5, <4>6
    <3>5. InOrder(all) BY <3>4 DEF InOrder
    <3> QED BY <1>2, <1>3, <3>2, <3>3, <3>5
  <2> QED BY <2>1, <2>2
<1> HIDE DEF all
<1>5. ASSUME NEW i \in DOMAIN all
      PROVE  all[i].minute \in 0 .. MaxMinute /\ all[i].count \in Rm!Counts(n)
             /\ all[i] = [minute |-> all[i].minute, count |-> all[i].count]
  <2>1. all[i] \in RmBuckets(n) BY <1>4
  <2> QED BY <2>1 DEF RmBuckets
<1>6. DOMAIN new = DOMAIN all OBVIOUS
<1>7. ASSUME NEW i \in DOMAIN all
      PROVE  new[i] \in RmBuckets(n + 1) /\ new[i].minute = all[i].minute
  <2>1. CASE i = place
    <3>1. new[i] = [minute |-> all[i].minute, count |-> Rm!Bump(all[i].count, what)]
      <4>1. new[i] = [all[i] EXCEPT !.count = Rm!Bump(@, what)] BY <1>4, <2>1
      <4> QED BY <1>5, <4>1
    <3>2. Rm!Bump(all[i].count, what) \in Rm!Counts(n + 1) BY <1>5, RmBump
    <3> HIDE DEF new
    <3> QED BY <1>5, <3>1, <3>2 DEF RmBuckets
  <2>2. CASE i # place
    <3>1. new[i] = all[i] BY <2>2
    <3>2. all[i].count \in Rm!Counts(n + 1) BY <1>5, RmCountGrows
    <3> HIDE DEF new
    <3> QED BY <1>5, <3>1, <3>2 DEF RmBuckets
  <2> QED BY <2>1, <2>2
<1>8. new \in Seq(RmBuckets(n + 1)) /\ InOrder(new)
  <2>1. Len(all) \in Nat /\ DOMAIN all = 1 .. Len(all) BY <1>4
  <2>2. new = [i \in 1 .. Len(all) |-> new[i]] BY <1>6, <2>1
  <2> HIDE DEF new
  <2>3. new \in Seq(RmBuckets(n + 1)) BY <1>7, <2>1, <2>2
  <2>4. InOrder(new) BY <1>4, <1>6, <1>7 DEF InOrder
  <2> QED BY <2>3, <2>4
<1> HIDE DEF new
<1>9. n + 1 \in Nat OBVIOUS
<1> QED BY <1>0, <1>8, <1>9, RmTrim, RmTrimOrder

\* Scopes: a counter with its buckets.
LEMMA RmScopeIs ==
    ASSUME NEW n \in Nat, NEW s \in Rm!Scopes(n)
    PROVE  /\ s.count \in Rm!Counts(n) /\ s.minutes \in Seq(RmBuckets(n))
              /\ s.seen \in 0 .. MaxMinute
           /\ s = [count |-> s.count, minutes |-> s.minutes, seen |-> s.seen]
           /\ Len(s.minutes) <= MaxMinutes /\ InOrder(s.minutes)
  BY DEF Rm!Scopes, RmBuckets, InOrder

LEMMA RmScopeOf ==
    ASSUME NEW n \in Nat, NEW c \in Rm!Counts(n), NEW b \in Seq(RmBuckets(n)),
           NEW m \in 0 .. MaxMinute,
           Len(b) <= MaxMinutes, InOrder(b)
    PROVE  [count |-> c, minutes |-> b, seen |-> m] \in Rm!Scopes(n)
  BY DEF Rm!Scopes, RmBuckets, InOrder

LEMMA RmScopeGrows == ASSUME NEW n \in Nat, NEW s \in Rm!Scopes(n) PROVE s \in Rm!Scopes(n + 1)
<1>1. /\ s.count \in Rm!Counts(n) /\ s.minutes \in Seq(RmBuckets(n)) /\ s.seen \in 0 .. MaxMinute
      /\ s = [count |-> s.count, minutes |-> s.minutes, seen |-> s.seen]
      /\ Len(s.minutes) <= MaxMinutes /\ InOrder(s.minutes)
  BY RmScopeIs
<1>2. s.count \in Rm!Counts(n + 1) BY <1>1, RmCountGrows
<1>3. RmBuckets(n) \subseteq RmBuckets(n + 1)
  <2>1. Rm!Counts(n) \subseteq Rm!Counts(n + 1) BY RmCountGrows
  <2> QED BY <2>1 DEF RmBuckets
<1>4. s.minutes \in Seq(RmBuckets(n + 1)) BY <1>1, <1>3
<1>5. n + 1 \in Nat OBVIOUS
<1>6. [count |-> s.count, minutes |-> s.minutes, seen |-> s.seen] \in Rm!Scopes(n + 1)
  BY <1>1, <1>2, <1>4, <1>5, RmScopeOf
<1> QED BY <1>1, <1>6

LEMMA RmNewScope == ASSUME NEW n \in Nat PROVE Rm!NewScope \in Rm!Scopes(n)
<1>1. /\ Rm!NoCount \in Rm!Counts(n) /\ <<>> \in Seq(RmBuckets(n)) /\ 0 \in 0 .. MaxMinute
      /\ Len(<<>>) <= MaxMinutes
  BY RmNoCount, RmConstants
<1>2. InOrder(<<>>) BY DEF InOrder
<1>3. [count |-> Rm!NoCount, minutes |-> <<>>, seen |-> 0] \in Rm!Scopes(n)
  BY <1>1, <1>2, RmScopeOf
<1> QED BY <1>3 DEF Rm!NewScope

LEMMA RmEvent ==
    ASSUME NEW e \in Rm!Event
    PROVE  e.what \in Codes \cup {Rm!Start} /\ e.account \in MetricAccounts
           /\ e.minute \in 0 .. MaxMinute
  BY DEF Rm!Event

LEMMA RmAddTo ==
    ASSUME NEW n \in Nat, NEW s \in Rm!Scopes(n), NEW e \in Rm!Event
    PROVE  Rm!AddTo(s, e) \in Rm!Scopes(n + 1) /\ Rm!AddTo(s, e).count = Rm!Bump(s.count, e.what)
<1> DEFINE c == Rm!Bump(s.count, e.what)
           b == Rm!BumpMinutes(s.minutes, e.minute, e.what)
<1>1. /\ s.count \in Rm!Counts(n) /\ s.minutes \in Seq(RmBuckets(n)) /\ InOrder(s.minutes)
      /\ e.what \in Codes \cup {Rm!Start} /\ e.minute \in 0 .. MaxMinute
  BY RmScopeIs, RmEvent
<1>2. c \in Rm!Counts(n + 1) BY <1>1, RmBump
<1>3. b \in Seq(RmBuckets(n + 1)) /\ Len(b) <= MaxMinutes /\ InOrder(b) BY <1>1, RmMinutes
<1>4. Rm!AddTo(s, e) = [count |-> c, minutes |-> b, seen |-> e.minute] BY DEF Rm!AddTo
<1> HIDE DEF c, b
<1>5. n + 1 \in Nat OBVIOUS
<1>6. [count |-> c, minutes |-> b, seen |-> e.minute] \in Rm!Scopes(n + 1)
  BY <1>1, <1>2, <1>3, <1>5, RmScopeOf
<1>7. Rm!AddTo(s, e) \in Rm!Scopes(n + 1) /\ Rm!AddTo(s, e).count = c BY <1>4, <1>6
<1> QED BY <1>7 DEF c

\* Of the scopes seen longest ago, the one of the first name.
LEMMA RmOldest ==
    ASSUME NEW n \in Nat, NEW f, DOMAIN f \in SUBSET MetricAccounts, DOMAIN f # {},
           \A x \in DOMAIN f : f[x] \in Rm!Scopes(n)
    PROVE  \E x \in DOMAIN f : \A y \in DOMAIN f \ {x} :
               f[x].seen < f[y].seen \/ (f[x].seen = f[y].seen /\ x < y)
<1> DEFINE T == {f[x].seen : x \in DOMAIN f}
<1>1. \A x \in DOMAIN f : x \in Nat /\ f[x].seen \in Nat
  <2>1. ASSUME NEW x \in DOMAIN f PROVE f[x].seen \in 0 .. MaxMinute BY RmScopeIs
  <2>2. \A x \in DOMAIN f : x \in Nat BY RmConstants
  <2> QED BY <2>1, <2>2, RmConstants
<1>2. T \in SUBSET Nat /\ T # {} BY <1>1
<1>3. PICK t \in T : \A u \in T : t <= u
  <2> HIDE DEF T
  <2> QED BY <1>2, RmLeast
<1> DEFINE S == {x \in DOMAIN f : f[x].seen = t}
<1>4. S \in SUBSET Nat /\ S # {} BY <1>1
<1>5. PICK x \in S : \A y \in S : x <= y
  <2> HIDE DEF S
  <2> QED BY <1>4, RmLeast
<1>6. x \in DOMAIN f /\ f[x].seen = t OBVIOUS
<1>7. ASSUME NEW y \in DOMAIN f \ {x}
      PROVE  f[x].seen < f[y].seen \/ (f[x].seen = f[y].seen /\ x < y)
  <2>1. t <= f[y].seen BY <1>3
  <2>2. CASE f[y].seen = t
    <3>1. y \in S BY <2>2
    <3>2. x <= y
      <4> HIDE DEF S
      <4> QED BY <1>5, <3>1
    <3>3. x < y BY <1>1, <1>6, <3>2
    <3> QED BY <1>6, <2>2, <3>3
  <2>3. CASE f[y].seen # t BY <1>1, <1>6, <2>1, <2>3
  <2> QED BY <2>2, <2>3
<1> QED BY <1>6, <1>7

\* There is room for one more, and what was there and is not put out stays.
LEMMA RmRoom ==
    ASSUME NEW n \in Nat, NEW f, DOMAIN f \in SUBSET MetricAccounts,
           Cardinality(DOMAIN f) <= MaxAccounts, \A x \in DOMAIN f : f[x] \in Rm!Scopes(n),
           NEW a \in MetricAccounts
    PROVE  /\ DOMAIN Rm!MakeRoom(f, a) \in SUBSET DOMAIN f
           /\ \A x \in DOMAIN Rm!MakeRoom(f, a) : Rm!MakeRoom(f, a)[x] = f[x]
           /\ Cardinality(DOMAIN Rm!MakeRoom(f, a) \cup {a}) <= MaxAccounts
           /\ (a \in DOMAIN f \/ Cardinality(DOMAIN f) < MaxAccounts) => Rm!MakeRoom(f, a) = f
<1>0. IsFiniteSet(DOMAIN f) /\ Cardinality(DOMAIN f) \in Nat BY RmNames
<1>1. CASE a \in DOMAIN f \/ Cardinality(DOMAIN f) < MaxAccounts
  <2>1. Rm!MakeRoom(f, a) = f BY <1>1, RmCard DEF Rm!MakeRoom
  <2>2. Cardinality(DOMAIN f \cup {a}) <= MaxAccounts
    <3>1. Cardinality(DOMAIN f \cup {a}) = IF a \in DOMAIN f THEN Cardinality(DOMAIN f)
                                           ELSE Cardinality(DOMAIN f) + 1
      BY <1>0, FS_AddElement
    <3> QED BY <1>0, <1>1, <3>1, RmConstants
  <2> QED BY <2>1, <2>2
<1>2. CASE ~(a \in DOMAIN f \/ Cardinality(DOMAIN f) < MaxAccounts)
  <2> DEFINE old == CHOOSE x \in DOMAIN f : \A y \in DOMAIN f \ {x} :
                       f[x].seen < f[y].seen \/ (f[x].seen = f[y].seen /\ x < y)
             D == DOMAIN f \ {old}
  <2>1. Rm!MakeRoom(f, a) = [x \in D |-> f[x]] BY <1>2, RmCard DEF Rm!MakeRoom
  <2>2. DOMAIN f # {}
    <3>1. Cardinality(DOMAIN f) # 0 BY <1>0, <1>2, RmConstants
    <3> QED BY <1>0, <3>1, FS_EmptySet
  <2>3. old \in DOMAIN f BY <2>2, RmOldest
  <2> HIDE DEF old
  <2>4. IsFiniteSet(D) /\ Cardinality(D) = Cardinality(DOMAIN f) - 1
    BY <1>0, <2>3, FS_RemoveElement
  <2>5. Cardinality(D \cup {a}) = Cardinality(D) + 1
    <3>1. a \notin D BY <1>2
    <3> QED BY <2>4, <3>1, FS_AddElement
  <2>6. Cardinality(D \cup {a}) <= MaxAccounts BY <1>0, <2>4, <2>5
  <2> QED BY <1>2, <2>1, <2>6
<1> QED BY <1>1, <1>2

LEMMA RmStateIs ==
    ASSUME NEW n, NEW s, Rm!StateOK(s, n)
    PROVE  /\ s.totals \in Rm!Scopes(n) /\ s = [totals |-> s.totals, accounts |-> s.accounts]
           /\ DOMAIN s.accounts \in SUBSET MetricAccounts
           /\ Cardinality(DOMAIN s.accounts) <= MaxAccounts
           /\ \A a \in DOMAIN s.accounts : s.accounts[a] \in Rm!Scopes(n)
  BY RmCard DEF Rm!StateOK

LEMMA RmStateGrows == ASSUME NEW n \in Nat, NEW s, Rm!StateOK(s, n) PROVE Rm!StateOK(s, n + 1)
<1>1. s.totals \in Rm!Scopes(n + 1) BY RmStateIs, RmScopeGrows
<1>2. \A a \in DOMAIN s.accounts : s.accounts[a] \in Rm!Scopes(n + 1)
  BY RmScopeGrows DEF Rm!StateOK
<1> QED BY <1>1, <1>2 DEF Rm!StateOK

LEMMA RmNewState == ASSUME NEW n \in Nat PROVE Rm!StateOK(Rm!NewState, n)
<1>1. Rm!NewState.totals = Rm!NewScope /\ Rm!NewState.accounts = <<>> /\ DOMAIN <<>> = {}
      /\ Rm!NewState = [totals |-> Rm!NewState.totals, accounts |-> Rm!NewState.accounts]
  BY DEF Rm!NewState
<1>2. Rm!Cardinality({}) <= MaxAccounts BY RmCard, FS_EmptySet, RmConstants
<1>3. Rm!NewScope \in Rm!Scopes(n) BY RmNewScope
<1> QED BY <1>1, <1>2, <1>3 DEF Rm!StateOK

\* What an event changes in the state.
LEMMA RmApply ==
    ASSUME NEW n \in Nat, NEW s, Rm!StateOK(s, n), NEW e \in Rm!Event
    PROVE  /\ Rm!StateOK(Rm!Apply(s, e), n + 1)
           /\ Rm!Apply(s, e).totals.count = Rm!Bump(s.totals.count, e.what)
           /\ LET a == e.account
              IN  (a \in DOMAIN s.accounts \/ Cardinality(DOMAIN s.accounts) < MaxAccounts) =>
                  /\ DOMAIN Rm!Apply(s, e).accounts = DOMAIN s.accounts \cup {a}
                  /\ \A x \in DOMAIN s.accounts \ {a} : Rm!Apply(s, e).accounts[x] = s.accounts[x]
                  /\ Rm!Apply(s, e).accounts[a].count =
                        Rm!Bump(IF a \in DOMAIN s.accounts THEN s.accounts[a].count
                        ELSE Rm!NoCount, e.what)
<1> DEFINE a == e.account
           f == s.accounts
           kept == Rm!MakeRoom(f, a)
           mine == IF a \in DOMAIN kept THEN kept[a] ELSE Rm!NewScope
           D == DOMAIN kept \cup {a}
           g == [x \in D |-> IF x = a THEN Rm!AddTo(mine, e) ELSE kept[x]]
           t == Rm!AddTo(s.totals, e)
<1>1. Rm!Apply(s, e) = [totals |-> t, accounts |-> g] BY DEF Rm!Apply
<1>2. /\ s.totals \in Rm!Scopes(n)
      /\ DOMAIN f \in SUBSET MetricAccounts /\ Cardinality(DOMAIN f) <= MaxAccounts
      /\ \A x \in DOMAIN f : f[x] \in Rm!Scopes(n)
  BY RmStateIs
<1>3. a \in MetricAccounts BY RmEvent
<1> HIDE DEF a, f
<1>4. /\ DOMAIN kept \in SUBSET DOMAIN f /\ \A x \in DOMAIN kept : kept[x] = f[x]
      /\ Cardinality(D) <= MaxAccounts
      /\ (a \in DOMAIN f \/ Cardinality(DOMAIN f) < MaxAccounts) => kept = f
  BY <1>2, <1>3, RmRoom
<1> HIDE DEF kept
<1>5. mine \in Rm!Scopes(n)
      /\ mine.count = IF a \in DOMAIN kept THEN kept[a].count ELSE Rm!NoCount
  <2>1. Rm!NewScope \in Rm!Scopes(n) /\ Rm!NewScope.count = Rm!NoCount
    BY RmNewScope DEF Rm!NewScope
  <2> QED BY <1>2, <1>4, <2>1
<1> HIDE DEF mine
<1>6. Rm!AddTo(mine, e) \in Rm!Scopes(n + 1) /\ Rm!AddTo(mine, e).count = Rm!Bump(mine.count,
      e.what)
  BY <1>5, RmAddTo
<1>7. t \in Rm!Scopes(n + 1) /\ t.count = Rm!Bump(s.totals.count, e.what) BY <1>2, RmAddTo
<1> HIDE DEF t
<1>8. \A x \in D : g[x] \in Rm!Scopes(n + 1)
  <2>1. \A x \in DOMAIN kept : kept[x] \in Rm!Scopes(n + 1)
    <3>1. \A x \in DOMAIN kept : kept[x] \in Rm!Scopes(n) BY <1>2, <1>4
    <3> QED BY <3>1, RmScopeGrows
  <2> QED BY <1>6, <2>1
<1>9. DOMAIN g = D /\ D \in SUBSET MetricAccounts /\ g[a] = Rm!AddTo(mine, e)
      /\ \A x \in DOMAIN kept \ {a} : g[x] = kept[x]
  BY <1>2, <1>3, <1>4
<1> HIDE DEF g
<1>10. Rm!StateOK([totals |-> t, accounts |-> g], n + 1)
  <2>1. Rm!Cardinality(DOMAIN g) <= MaxAccounts BY <1>4, <1>9, RmCard
  <2> QED BY <1>7, <1>8, <1>9, <2>1 DEF Rm!StateOK
<1>11. Rm!Apply(s, e).totals.count = Rm!Bump(s.totals.count, e.what) BY <1>1, <1>7
<1>12. ASSUME a \in DOMAIN f \/ Cardinality(DOMAIN f) < MaxAccounts
       PROVE  /\ DOMAIN g = DOMAIN f \cup {a} /\ \A x \in DOMAIN f \ {a} : g[x] = f[x]
              /\ g[a].count = Rm!Bump(IF a \in DOMAIN f THEN f[a].count ELSE Rm!NoCount, e.what)
  <2>1. kept = f BY <1>4, <1>12
  <2>2. g[a].count = Rm!Bump(mine.count, e.what) BY <1>6, <1>9
  <2>3. mine.count = IF a \in DOMAIN f THEN f[a].count ELSE Rm!NoCount BY <1>5, <2>1
  <2>4. \A x \in DOMAIN f \ {a} : g[x] = f[x] BY <1>9, <2>1
  <2> QED BY <1>9, <2>1, <2>2, <2>3, <2>4
<1>13. Rm!Apply(s, e).accounts = g BY <1>1
<1> QED BY <1>1, <1>10, <1>11, <1>12, <1>13 DEF a, f

\* Another event in the sums.
LEMMA RmSums ==
    ASSUME v10 \in Seq(Rm!Event), NEW e \in Rm!Event, v10' = Append(v10, e),
           NEW n \in Nat, NEW c \in Rm!Counts(n), NEW is \in SUBSET DOMAIN v10, Rm!Sums(c, is)
    PROVE  LET new == is \cup {Len(v10) + 1}
               begun == {i \in new : v10'[i].what = Rm!Start}
           IN  /\ Rm!Bump(c, e.what).starts = Rm!Cardinality(begun)
               /\ Rm!Bump(c, e.what).completes = Rm!Cardinality(new \ begun)
<1> DEFINE k == Len(v10) + 1
           new == is \cup {k}
           begun == {i \in new : v10'[i].what = Rm!Start}
           old == {i \in is : v10[i].what = Rm!Start}
<1>1. /\ k \notin is /\ v10'[k] = e /\ \A i \in is : v10'[i] = v10[i]
  OBVIOUS
<1>2. IsFiniteSet(is)
  <2>1. is \in SUBSET (1 .. Len(v10)) /\ 1 \in Int /\ Len(v10) \in Int OBVIOUS
  <2>2. IsFiniteSet(1 .. Len(v10)) BY <2>1, FS_Interval
  <2> QED BY <2>1, <2>2, FS_Subset
<1>3. IsFiniteSet(old) /\ IsFiniteSet(is \ old) BY <1>2, FS_Subset
<1>4. c.starts = Cardinality(old) /\ c.completes = Cardinality(is \ old)
  BY RmCard DEF Rm!Sums, Rm!Starts
<1>5. c = [starts |-> c.starts, completes |-> c.completes, statuses |-> c.statuses]
  BY RmCountIs
<1>6. CASE e.what = Rm!Start
  <2>1. begun = old \cup {k} /\ new \ begun = is \ old BY <1>1, <1>6
  <2>2. k \notin old BY <1>1
  <2> HIDE DEF begun, new, old, k
  <2>3. Cardinality(begun) = Cardinality(old) + 1 BY <1>3, <2>1, <2>2, FS_AddElement
  <2>4. Rm!Bump(c, e.what).starts = c.starts + 1 /\ Rm!Bump(c, e.what).completes = c.completes
    BY <1>5, <1>6 DEF Rm!Bump
  <2>5. Rm!Bump(c, e.what).starts = Cardinality(begun) /\ Rm!Bump(c,
        e.what).completes = Cardinality(new \ begun)
    BY <1>4, <2>1, <2>3, <2>4
  <2> QED BY <2>5, RmCard DEF begun, new, k
<1>7. CASE e.what # Rm!Start
  <2>1. begun = old /\ new \ begun = (is \ old) \cup {k} BY <1>1, <1>7
  <2>2. k \notin is \ old BY <1>1
  <2> HIDE DEF begun, new, old, k
  <2>3. Cardinality(new \ begun) = Cardinality(is \ old) + 1 BY <1>3, <2>1, <2>2, FS_AddElement
  <2>4. Rm!Bump(c, e.what).starts = c.starts /\ Rm!Bump(c, e.what).completes = c.completes + 1
    BY <1>5, <1>7 DEF Rm!Bump
  <2>5. Rm!Bump(c, e.what).starts = Cardinality(begun) /\ Rm!Bump(c,
        e.what).completes = Cardinality(new \ begun)
    BY <1>4, <2>1, <2>3, <2>4
  <2> QED BY <2>5, RmCard DEF begun, new, k
<1> QED BY <1>6, <1>7

\* Nothing has been counted.
LEMMA RmNoSums == Rm!Sums(Rm!NoCount, {})
<1>1. Rm!Starts({}) = {} BY DEF Rm!Starts
<1> QED BY <1>1, RmCard, FS_EmptySet DEF Rm!Sums, Rm!NoCount

\* The file, read, added to and renamed under the lock, holds what every event made
\* of it.
MetricsInv == Rm!MetricsTypeOK /\ Rm!UpdatesKept /\ Rm!EventsSummed

LEMMA MetricsInit == Rm!Init => MetricsInv
<1> SUFFICES ASSUME Rm!Init PROVE MetricsInv OBVIOUS
<1>1. v1 = 0 /\ v2 = [is |-> "absent", state |-> Rm!NewState] /\ v3 = FALSE /\ v4 = {}
  BY DEF Rm!Init, Rm!Useless
<1>2. /\ v5 = [w \in Agents |-> "Idle"] /\ v6 = [w \in Agents |-> Rm!NoEvent]
      /\ v7 = [w \in Agents |-> Rm!NewState] /\ v8 = 0 /\ v9 = 0 /\ v10 = <<>>
  BY DEF Rm!Init
<1>3. Rm!NoEvent \in Rm!Event BY RmConstants DEF Rm!NoEvent, Rm!Event
<1>4. Rm!StateOK(Rm!NewState, Len(v10)) BY <1>2, RmNewState
<1>5. Rm!MetricsTypeOK
  <2>1. v10 \in Seq(Rm!Event) /\ Rm!StateOK(v2.state, Len(v10)) BY <1>1, <1>2, <1>4
  <2>2. /\ v7 = [w \in Agents |-> v7[w]]
        /\ \A w \in Agents : Rm!StateOK(v7[w], Len(v10))
    BY <1>2, <1>4
  <2>3. v6 \in [Agents -> Rm!Event] BY <1>2, <1>3
  <2>4. v5 \in [Agents -> {"Idle", "Lock", "Load", "Write"}] BY <1>2
  <2>5. v2.is = "absent" BY <1>1
  <2>6. /\ v1 \in 0 .. MaxMinute /\ v8 \in 0 .. MaxEvents
        /\ v9 \in 0 .. MaxMetricFaults /\ v3 \in BOOLEAN /\ v4 \subseteq Agents
    <3>1. \A m \in Nat : 0 \in 0 .. m OBVIOUS
    <3>2. 0 \in 0 .. MaxMinute /\ 0 \in 0 .. MaxEvents /\ 0 \in 0 .. MaxMetricFaults
      BY <3>1, RmConstants
    <3> QED BY <1>1, <1>2, <3>2
  <2> QED BY <2>1, <2>2, <2>3, <2>4, <2>5, <2>6 DEF Rm!MetricsTypeOK
<1>6. Rm!UpdatesKept BY <1>1, <1>2 DEF Rm!UpdatesKept, Rm!Busy
<1>7. Rm!Recorded = {} /\ Rm!Seen = {} BY <1>2 DEF Rm!Recorded, Rm!Seen
<1>8. Rm!NewState.totals.count = Rm!NoCount /\ DOMAIN Rm!NewState.accounts = {}
  BY DEF Rm!NewState, Rm!NewScope
<1>9. Rm!EventsSummed BY <1>1, <1>7, <1>8, RmNoSums DEF Rm!EventsSummed
<1> QED BY <1>5, <1>6, <1>9 DEF MetricsInv

LEMMA RmEnd ==
    ASSUME Rm!MetricsTypeOK, Rm!UpdatesKept, NEW w \in Agents, Rm!End(w)
    PROVE  /\ v4' \subseteq Agents
           /\ v5' \in [Agents -> {"Idle", "Lock", "Load", "Write"}]
           /\ v7' = [u \in Agents |-> v7'[u]]
           /\ v6' \in [Agents -> Rm!Event] /\ v5'[w] = "Idle" /\ v7'[w] = Rm!NewState
           /\ \A u \in Agents \ {w} : v5'[u] = v5[u] /\ v7'[u] = v7[u]
           /\ \A u \in Agents : u \in v4' <=> u # w /\ u \in v4
<1>1. Rm!NoEvent \in Rm!Event BY RmConstants DEF Rm!NoEvent, Rm!Event
<1> QED BY <1>1 DEF Rm!MetricsTypeOK, Rm!UpdatesKept, Rm!End, Rm!Goto

LEMMA RmTypes == Rm!MetricsTypeOK /\ Rm!UpdatesKept /\ Rm!Next => Rm!MetricsTypeOK'
<1> SUFFICES ASSUME Rm!MetricsTypeOK, Rm!UpdatesKept, Rm!Next PROVE Rm!MetricsTypeOK' OBVIOUS
<1> USE RmConstants
<1>1. CASE Rm!Pass
  <2>1. v1' \in 0 .. MaxMinute BY <1>1 DEF Rm!Pass, Rm!MetricsTypeOK
  <2> QED BY <1>1, <2>1 DEF Rm!Pass, Rm!MetricsTypeOK
<1>2. CASE Rm!Damage
  <2>1. PICK is \in {"damaged", "newer"} : v2' = [is |-> is, state |-> Rm!NewState]
    BY <1>2 DEF Rm!Damage, Rm!Useless
  <2>2. v2'.is \in {"damaged", "newer"} /\ v2'.state = Rm!NewState BY <2>1
  <2>3. v9' \in 0 .. MaxMetricFaults BY <1>2 DEF Rm!Damage, Rm!MetricsTypeOK
  <2>4. \A w \in Agents : v7'[w] = Rm!NewState
    BY <1>2 DEF Rm!Damage, Rm!MetricsTypeOK, Rm!UpdatesKept, Rm!Busy
  <2>5. v10' = <<>> BY <1>2 DEF Rm!Damage
  <2>6. Rm!StateOK(Rm!NewState, 0) BY RmNewState
  <2>9. v7' = [u \in Agents |-> v7'[u]] BY <1>2 DEF Rm!Damage, Rm!MetricsTypeOK
  <2>7. /\ UNCHANGED <<v1, v3, v4, v5, v6, v8>>
    BY <1>2 DEF Rm!Damage
  <2>8. Len(v10') = 0 /\ v10' \in Seq(Rm!Event) BY <2>5
  <2> QED BY <2>2, <2>3, <2>4, <2>6, <2>7, <2>8, <2>9 DEF Rm!MetricsTypeOK
<1>3. ASSUME NEW w \in Agents, Rm!Record(w) PROVE Rm!MetricsTypeOK'
  <2>1. v8' \in 0 .. MaxEvents BY <1>3 DEF Rm!Record, Rm!MetricsTypeOK
  <2>2. PICK what \in Codes \cup {Rm!Start}, a \in MetricAccounts :
            v6' = [v6 EXCEPT ![w] = [what |-> what, account |-> a, minute |-> v1]]
    BY <1>3 DEF Rm!Record
  <2>3. [what |-> what, account |-> a, minute |-> v1] \in Rm!Event
    BY DEF Rm!MetricsTypeOK, Rm!Event
  <2>4. v6' \in [Agents -> Rm!Event] BY <2>2, <2>3 DEF Rm!MetricsTypeOK
  <2>5. v5' \in [Agents -> {"Idle", "Lock", "Load", "Write"}]
    BY <1>3 DEF Rm!Record, Rm!Goto, Rm!MetricsTypeOK
  <2> QED BY <1>3, <2>1, <2>4, <2>5 DEF Rm!Record, Rm!MetricsTypeOK
<1>4. ASSUME NEW w \in Agents, Rm!LockMetrics(w) PROVE Rm!MetricsTypeOK'
  BY <1>4 DEF Rm!LockMetrics, Rm!Goto, Rm!MetricsTypeOK
<1>5. ASSUME NEW w \in Agents, Rm!Load(w) PROVE Rm!MetricsTypeOK'
  <2>0. UNCHANGED <<v1, v8, v9, v10>> BY <1>5 DEF Rm!Load
  <2>1. CASE v2.is = "newer"
    <3>1. Rm!End(w) /\ UNCHANGED <<v2, v3>> BY <1>5, <2>1 DEF Rm!Load
    <3>2. \A u \in Agents : Rm!StateOK(v7'[u], Len(v10'))
      <4>1. Rm!StateOK(Rm!NewState, Len(v10)) BY RmNewState DEF Rm!MetricsTypeOK
      <4>2. \A u \in Agents : v7'[u] \in {v7[u], Rm!NewState} BY <3>1, RmEnd
      <4> QED BY <2>0, <4>1, <4>2 DEF Rm!MetricsTypeOK
    <3>3. /\ v7' = [u \in Agents |-> v7'[u]]
          /\ v4' \subseteq Agents /\ v6' \in [Agents -> Rm!Event]
          /\ v5' \in [Agents -> {"Idle", "Lock", "Load", "Write"}]
      BY <3>1, RmEnd
    <3> QED BY <2>0, <3>1, <3>2, <3>3 DEF Rm!MetricsTypeOK
  <2>2. CASE v2.is = "damaged"
    <3>1. v3' = TRUE /\ v2' = [is |-> "absent", state |-> Rm!NewState]
          /\ Rm!Goto(w, "Write") /\ UNCHANGED <<v4, v6, v7>>
      BY <1>5, <2>2 DEF Rm!Load, Rm!Useless
    <3>2. Rm!StateOK(Rm!NewState, Len(v10)) BY RmNewState DEF Rm!MetricsTypeOK
    <3>3. v5' \in [Agents -> {"Idle", "Lock", "Load", "Write"}]
      BY <3>1 DEF Rm!Goto, Rm!MetricsTypeOK
    <3>4. v2'.is = "absent" /\ v2'.state = Rm!NewState BY <3>1
    <3> QED BY <2>0, <3>1, <3>2, <3>3, <3>4 DEF Rm!MetricsTypeOK
  <2>3. CASE v2.is # "newer" /\ v2.is # "damaged"
    <3>1. v7' = [v7 EXCEPT ![w] = v2.state]
          /\ Rm!Goto(w, "Write") /\ UNCHANGED <<v2, v3, v4, v6>>
      BY <1>5, <2>3 DEF Rm!Load
    <3>2. v5' \in [Agents -> {"Idle", "Lock", "Load", "Write"}]
      BY <3>1 DEF Rm!Goto, Rm!MetricsTypeOK
    <3>3. \A u \in Agents : v7'[u] \in {v7[u], v2.state} BY <3>1
    <3>4. \A u \in Agents : Rm!StateOK(v7'[u], Len(v10')) BY <2>0, <3>3 DEF Rm!MetricsTypeOK
    <3> QED BY <2>0, <3>1, <3>2, <3>4 DEF Rm!MetricsTypeOK
  <2> QED BY <2>1, <2>2, <2>3
<1>6. ASSUME NEW w \in Agents, Rm!Write(w) PROVE Rm!MetricsTypeOK'
  <2> DEFINE n == Len(v10)
  <2>1. /\ v2' = [is |-> "readable", state |-> Rm!Apply(v7[w], v6[w])]
        /\ v10' = Append(v10, v6[w]) /\ Rm!End(w)
        /\ UNCHANGED <<v1, v3, v8, v9>>
    BY <1>6 DEF Rm!Write, Rm!Holds
  <2>2. /\ n \in Nat /\ v6[w] \in Rm!Event /\ v10 \in Seq(Rm!Event)
        /\ \A u \in Agents : Rm!StateOK(v7[u], n)
    BY DEF Rm!MetricsTypeOK
  <2>3. v10' \in Seq(Rm!Event) /\ Len(v10') = n + 1 BY <2>1, <2>2
  <2> HIDE DEF n
  <2>4. Rm!StateOK(Rm!Apply(v7[w], v6[w]), n + 1) BY <2>2, RmApply
  <2>5. \A u \in Agents : Rm!StateOK(v7'[u], n + 1)
    <3>1. Rm!StateOK(Rm!NewState, n + 1) BY <2>2, RmNewState
    <3>2. \A u \in Agents : Rm!StateOK(v7[u], n + 1) BY <2>2, RmStateGrows
    <3>3. \A u \in Agents : v7'[u] \in {v7[u], Rm!NewState} BY <2>1, RmEnd
    <3> QED BY <3>1, <3>2, <3>3
  <2>6. /\ v7' = [u \in Agents |-> v7'[u]]
        /\ v4' \subseteq Agents /\ v6' \in [Agents -> Rm!Event]
        /\ v5' \in [Agents -> {"Idle", "Lock", "Load", "Write"}]
    BY <2>1, RmEnd
  <2>7. v2'.is = "readable" /\ Rm!StateOK(v2'.state, Len(v10')) BY <2>1, <2>3, <2>4
  <2>8. \A u \in Agents : Rm!StateOK(v7'[u], Len(v10')) BY <2>3, <2>5
  <2> QED BY <2>1, <2>3, <2>6, <2>7, <2>8 DEF Rm!MetricsTypeOK
<1>7. ASSUME NEW w \in Agents, Rm!Lose(w) PROVE Rm!MetricsTypeOK'
  <2>1. v9' \in 0 .. MaxMetricFaults BY <1>7 DEF Rm!Lose, Rm!MetricsTypeOK
  <2>2. Rm!End(w) /\ UNCHANGED <<v1, v2, v3, v8, v10>> BY <1>7 DEF Rm!Lose
  <2>3. \A u \in Agents : Rm!StateOK(v7'[u], Len(v10'))
    <3>1. Rm!StateOK(Rm!NewState, Len(v10)) BY RmNewState DEF Rm!MetricsTypeOK
    <3>2. \A u \in Agents : v7'[u] \in {v7[u], Rm!NewState} BY <2>2, RmEnd
    <3> QED BY <2>2, <3>1, <3>2 DEF Rm!MetricsTypeOK
  <2>4. /\ v7' = [u \in Agents |-> v7'[u]]
        /\ v4' \subseteq Agents /\ v6' \in [Agents -> Rm!Event]
        /\ v5' \in [Agents -> {"Idle", "Lock", "Load", "Write"}]
    BY <2>2, RmEnd
  <2> QED BY <2>1, <2>2, <2>3, <2>4 DEF Rm!MetricsTypeOK
<1> QED BY <1>1, <1>2, <1>3, <1>4, <1>5, <1>6, <1>7 DEF Rm!Next

LEMMA RmKept == Rm!MetricsTypeOK /\ Rm!UpdatesKept /\ Rm!Next => Rm!UpdatesKept'
<1> SUFFICES ASSUME Rm!MetricsTypeOK, Rm!UpdatesKept, Rm!Next PROVE Rm!UpdatesKept' OBVIOUS
<1>0. v5 \in [Agents -> {"Idle", "Lock", "Load", "Write"}] /\ v4 \subseteq Agents
      /\ v7 = [w \in Agents |-> v7[w]]
  BY DEF Rm!MetricsTypeOK
<1>1. CASE Rm!Pass BY <1>1 DEF Rm!Pass, Rm!UpdatesKept, Rm!Busy
<1>2. CASE Rm!Damage
  <2>1. PICK is \in {"damaged", "newer"} : v2' = [is |-> is, state |-> Rm!NewState]
    BY <1>2 DEF Rm!Damage, Rm!Useless
  <2>2. v2'.is # "readable" /\ v2'.state = Rm!NewState /\ v10' = <<>> BY <1>2, <2>1 DEF Rm!Damage
  <2>3. \A w \in Agents : ~Rm!Busy(w) BY <1>2 DEF Rm!Damage, Rm!UpdatesKept
  <2> QED BY <1>2, <2>2, <2>3 DEF Rm!Damage, Rm!UpdatesKept, Rm!Busy
<1>3. ASSUME NEW w \in Agents, Rm!Record(w) PROVE Rm!UpdatesKept'
  <2>1. v5[w] = "Idle" /\ v5' = [v5 EXCEPT ![w] = "Lock"]
        /\ UNCHANGED <<v2, v4, v7, v10>>
    BY <1>3 DEF Rm!Record, Rm!Goto
  <2>2. \A u \in Agents : Rm!Busy(u)' = Rm!Busy(u) /\ (v5'[u] = "Write" <=> v5[u] = "Write")
    BY <1>0, <2>1 DEF Rm!Busy
  <2> QED BY <2>1, <2>2 DEF Rm!UpdatesKept
<1>4. ASSUME NEW w \in Agents, Rm!LockMetrics(w) PROVE Rm!UpdatesKept'
  <2>1. v5[w] = "Lock" /\ v4 = {} /\ v4' = {w}
        /\ v5' = [v5 EXCEPT ![w] = "Load"] /\ UNCHANGED <<v2, v7, v10>>
    BY <1>4 DEF Rm!LockMetrics, Rm!Goto
  <2>2. \A u \in Agents : Rm!Busy(u)' = (u = w) /\ (v5'[u] = "Write" <=> v5[u] = "Write")
    BY <1>0, <2>1 DEF Rm!Busy, Rm!UpdatesKept
  <2> QED BY <2>1, <2>2 DEF Rm!UpdatesKept
<1>5. ASSUME NEW w \in Agents, Rm!Load(w) PROVE Rm!UpdatesKept'
  <2>0. v5[w] = "Load" /\ v10' = v10 BY <1>5 DEF Rm!Load
  <2>1. CASE v2.is = "newer"
    <3>1. Rm!End(w) /\ v2' = v2 BY <1>5, <2>1 DEF Rm!Load
    <3> QED BY <2>0, <3>1, RmEnd DEF Rm!UpdatesKept, Rm!Busy
  <2>2. CASE v2.is = "damaged"
    <3>1. v2' = [is |-> "absent", state |-> Rm!NewState]
          /\ v5' = [v5 EXCEPT ![w] = "Write"] /\ UNCHANGED <<v4, v7>>
      BY <1>5, <2>2 DEF Rm!Load, Rm!Useless, Rm!Goto
    <3>2. v2'.is = "absent" /\ v2'.state = Rm!NewState /\ v2.state = Rm!NewState /\ v10' = <<>>
      BY <2>0, <2>2, <3>1 DEF Rm!UpdatesKept
    <3>3. \A u \in Agents : Rm!Busy(u)' = Rm!Busy(u) BY <1>0, <2>0, <3>1 DEF Rm!Busy
    <3>4. \A u \in Agents : v7'[u] = Rm!NewState BY <3>1, <3>2 DEF Rm!UpdatesKept
    <3> QED BY <3>1, <3>2, <3>3, <3>4 DEF Rm!UpdatesKept
  <2>3. CASE v2.is # "newer" /\ v2.is # "damaged"
    <3>1. v7' = [v7 EXCEPT ![w] = v2.state]
          /\ v5' = [v5 EXCEPT ![w] = "Write"] /\ UNCHANGED <<v2, v4>>
      BY <1>5, <2>3 DEF Rm!Load, Rm!Goto
    <3>3. \A u \in Agents : Rm!Busy(u)' = Rm!Busy(u) BY <1>0, <2>0, <3>1 DEF Rm!Busy
    <3>4. \A u \in Agents : v7'[u] = IF v5'[u] = "Write" THEN v2.state ELSE Rm!NewState
      BY <1>0, <3>1 DEF Rm!UpdatesKept
    <3> QED BY <2>0, <3>1, <3>3, <3>4 DEF Rm!UpdatesKept
  <2> QED BY <2>1, <2>2, <2>3
<1>6. ASSUME NEW w \in Agents, Rm!Write(w) PROVE Rm!UpdatesKept'
  <2>1. v5[w] = "Write" /\ v2' = [is |-> "readable", state |-> Rm!Apply(v7[w], v6[w])]
        /\ Rm!End(w)
    BY <1>6 DEF Rm!Write, Rm!Holds
  <2>2. \A u \in Agents \ {w} : ~Rm!Busy(u) BY <2>1 DEF Rm!UpdatesKept, Rm!Busy
  <2>3. \A u \in Agents : ~Rm!Busy(u)' /\ v7'[u] = Rm!NewState /\ v5'[u] # "Write" /\ u \notin v4'
    BY <2>1, <2>2, RmEnd DEF Rm!UpdatesKept, Rm!Busy
  <2>4. v4' = {} BY <2>1, <2>3, RmEnd
  <2> QED BY <2>1, <2>3, <2>4 DEF Rm!UpdatesKept
<1>7. ASSUME NEW w \in Agents, Rm!Lose(w) PROVE Rm!UpdatesKept'
  <2>1. Rm!End(w) /\ UNCHANGED <<v2, v10>> BY <1>7 DEF Rm!Lose
  <2> QED BY <2>1, RmEnd DEF Rm!UpdatesKept, Rm!Busy
<1> QED BY <1>1, <1>2, <1>3, <1>4, <1>5, <1>6, <1>7 DEF Rm!Next

LEMMA RmSummedSame ==
    ASSUME Rm!EventsSummed, v2'.state = v2.state, v10' = v10 PROVE Rm!EventsSummed'
<1>1. Rm!Recorded' = Rm!Recorded BY DEF Rm!Recorded
<1>2. Rm!Seen' = Rm!Seen BY DEF Rm!Seen, Rm!Recorded
<1>3. \A a : Rm!Of(a)' = Rm!Of(a) BY DEF Rm!Of, Rm!Recorded
<1>5. Rm!Sums(v2.state.totals.count, Rm!Recorded)'
  <2>1. Rm!Sums(v2.state.totals.count, Rm!Recorded) BY DEF Rm!EventsSummed
  <2> QED BY <1>1, <2>1 DEF Rm!Sums, Rm!Starts
<1>6. ASSUME Rm!Cardinality(Rm!Seen') <= MaxAccounts
      PROVE  /\ DOMAIN v2'.state.accounts = Rm!Seen'
             /\ \A a \in Rm!Seen' : Rm!Sums(v2.state.accounts[a].count, Rm!Of(a))'
  <2>1. DOMAIN v2.state.accounts = Rm!Seen
        /\ \A a \in Rm!Seen : Rm!Sums(v2.state.accounts[a].count, Rm!Of(a))
    BY <1>2, <1>6 DEF Rm!EventsSummed
  <2>2. ASSUME NEW a \in Rm!Seen' PROVE Rm!Sums(v2.state.accounts[a].count, Rm!Of(a))'
    <3>1. Rm!Sums(v2.state.accounts[a].count, Rm!Of(a)) /\ Rm!Of(a)' = Rm!Of(a)
      BY <1>2, <1>3, <2>1
    <3> QED BY <3>1 DEF Rm!Sums, Rm!Starts
  <2> QED BY <1>2, <2>1, <2>2
<1> QED BY <1>5, <1>6 DEF Rm!EventsSummed

LEMMA RmSummed ==
    Rm!MetricsTypeOK /\ Rm!UpdatesKept /\ Rm!EventsSummed /\ Rm!Next => Rm!EventsSummed'
<1> SUFFICES ASSUME Rm!MetricsTypeOK, Rm!UpdatesKept, Rm!EventsSummed, Rm!Next
             PROVE  Rm!EventsSummed' OBVIOUS
<1>0. ASSUME v2'.state = v2.state, v10' = v10 PROVE Rm!EventsSummed'
  BY <1>0, RmSummedSame
<1>1. CASE Rm!Pass BY <1>0, <1>1 DEF Rm!Pass
<1>2. CASE Rm!Damage
  <2>1. PICK is \in {"damaged", "newer"} : v2' = [is |-> is, state |-> Rm!NewState]
    BY <1>2 DEF Rm!Damage, Rm!Useless
  <2>2. v2'.state = Rm!NewState /\ v10' = <<>> BY <1>2, <2>1 DEF Rm!Damage
  <2>3. Rm!Recorded' = {} /\ Rm!Seen' = {} BY <2>2 DEF Rm!Recorded, Rm!Seen
  <2>4. Rm!NewState.totals.count = Rm!NoCount /\ DOMAIN Rm!NewState.accounts = {}
    BY DEF Rm!NewState, Rm!NewScope
  <2>5. Rm!Sums(Rm!NoCount, {})'
    <3>1. Rm!Starts({})' = {} BY DEF Rm!Starts
    <3>2. {} \ {} = {} OBVIOUS
    <3> QED BY <3>1, <3>2, RmCard, FS_EmptySet DEF Rm!Sums, Rm!NoCount
  <2>6. Rm!Sums(v2.state.totals.count, Rm!Recorded)'
    BY <2>2, <2>3, <2>4, <2>5 DEF Rm!Sums, Rm!Starts
  <2> QED BY <2>2, <2>3, <2>4, <2>6 DEF Rm!EventsSummed
<1>3. ASSUME NEW w \in Agents, Rm!Record(w) PROVE Rm!EventsSummed' BY <1>0, <1>3 DEF Rm!Record
<1>4. ASSUME NEW w \in Agents, Rm!LockMetrics(w) PROVE Rm!EventsSummed'
  BY <1>0, <1>4 DEF Rm!LockMetrics
<1>5. ASSUME NEW w \in Agents, Rm!Load(w) PROVE Rm!EventsSummed'
  <2>1. v10' = v10 BY <1>5 DEF Rm!Load
  <2>2. CASE v2.is = "damaged"
    <3>1. v2.state = Rm!NewState BY <2>2 DEF Rm!UpdatesKept
    <3>2. v2' = [is |-> "absent", state |-> Rm!NewState] BY <1>5, <2>2 DEF Rm!Load, Rm!Useless
    <3>3. v2'.state = Rm!NewState BY <3>2
    <3> QED BY <1>0, <2>1, <3>1, <3>3
  <2>3. CASE v2.is # "damaged"
    <3>1. v2' = v2 BY <1>5, <2>3 DEF Rm!Load
    <3> QED BY <1>0, <2>1, <3>1
  <2> QED BY <2>2, <2>3
<1>6. ASSUME NEW w \in Agents, Rm!Write(w) PROVE Rm!EventsSummed'
  <2>0. PICK e \in Rm!Event : e = v6[w] BY DEF Rm!MetricsTypeOK
  <2> DEFINE n == Len(v10)
             s == v2.state
             k == n + 1
  <2>1. v5[w] = "Write" /\ v7[w] = s BY <1>6 DEF Rm!Write, Rm!UpdatesKept
  <2>2. v2'.state = Rm!Apply(s, e) /\ v10' = Append(v10, e)
    <3>1. v2' = [is |-> "readable", state |-> Rm!Apply(s, e)]
      BY <1>6, <2>0, <2>1 DEF Rm!Write, Rm!Holds
    <3> QED BY <1>6, <2>0, <3>1 DEF Rm!Write
  <2>3. n \in Nat /\ e \in Rm!Event /\ v10 \in Seq(Rm!Event) /\ Rm!StateOK(s, n)
    BY DEF Rm!MetricsTypeOK
  <2>4. Rm!Recorded = 1 .. n /\ Rm!Recorded' = Rm!Recorded \cup {k} /\ k \notin Rm!Recorded
        /\ v10'[k] = e /\ \A i \in Rm!Recorded : v10'[i] = v10[i]
    BY <2>2, <2>3 DEF Rm!Recorded
  <2>5. Rm!Seen' = Rm!Seen \cup {e.account} BY <2>4 DEF Rm!Seen
  <2>6. \A a : Rm!Of(a)' = IF a = e.account THEN Rm!Of(a) \cup {k} ELSE Rm!Of(a) BY <2>4 DEF Rm!Of
  <2>7. Rm!Seen \in SUBSET MetricAccounts /\ e.account \in MetricAccounts
    <3>1. \A i \in Rm!Recorded : v10[i] \in Rm!Event BY <2>3 DEF Rm!Recorded
    <3> QED BY <2>3, <3>1, RmEvent DEF Rm!Seen
  <2> HIDE DEF s
  <2>8. ASSUME NEW c \in Rm!Counts(n), NEW is \in SUBSET Rm!Recorded, Rm!Sums(c, is)
        PROVE  LET new == is \cup {k}
                   begun == {i \in new : v10'[i].what = Rm!Start}
               IN  /\ Rm!Bump(c, e.what).starts = Rm!Cardinality(begun)
                   /\ Rm!Bump(c, e.what).completes = Rm!Cardinality(new \ begun)
    BY <2>2, <2>3, <2>8, RmSums DEF Rm!Recorded
  <2>9. /\ s.totals.count \in Rm!Counts(n)
        /\ \A a \in DOMAIN s.accounts : s.accounts[a].count \in Rm!Counts(n)
    <3>1. s.totals \in Rm!Scopes(n) /\ \A a \in DOMAIN s.accounts : s.accounts[a] \in Rm!Scopes(n)
      BY <2>3, RmStateIs
    <3> QED BY <2>3, <3>1, RmScopeIs
  <2>10. Rm!Sums(v2.state.totals.count, Rm!Recorded)'
    <3>1. Rm!Sums(s.totals.count, Rm!Recorded) BY DEF Rm!EventsSummed, s
    <3>2. v2'.state.totals.count = Rm!Bump(s.totals.count, e.what) BY <2>2, <2>3, RmApply
    <3> DEFINE c == s.totals.count
               new == Rm!Recorded \cup {k}
               begun == {i \in new : v10'[i].what = Rm!Start}
    <3>3. c \in Rm!Counts(n) /\ Rm!Recorded \in SUBSET Rm!Recorded BY <2>9
    <3>4. /\ Rm!Bump(c, e.what).starts = Rm!Cardinality(begun)
          /\ Rm!Bump(c, e.what).completes = Rm!Cardinality(new \ begun)
      BY <2>8, <3>1, <3>3
    <3>5. new = Rm!Recorded' /\ begun = Rm!Starts(Rm!Recorded)' BY <2>4 DEF Rm!Starts
    <3> HIDE DEF c, new, begun
    <3> QED BY <3>2, <3>4, <3>5 DEF Rm!Sums, c
  <2>11. ASSUME Rm!Cardinality(Rm!Seen') <= MaxAccounts
         PROVE  /\ DOMAIN v2'.state.accounts = Rm!Seen'
                /\ \A a \in Rm!Seen' : Rm!Sums(v2.state.accounts[a].count, Rm!Of(a))'
    <3> DEFINE b == e.account
               g == v2'.state.accounts
    <3>1. IsFiniteSet(Rm!Seen) /\ Cardinality(Rm!Seen) \in Nat
          /\ Cardinality(Rm!Seen') = IF b \in Rm!Seen THEN Cardinality(Rm!Seen)
             ELSE Cardinality(Rm!Seen) + 1
      BY <2>5, <2>7, RmNames, FS_AddElement
    <3>2. Cardinality(Rm!Seen) <= MaxAccounts
          /\ (b \in Rm!Seen \/ Cardinality(Rm!Seen) < MaxAccounts)
      BY <2>11, <3>1, RmCard, RmConstants
    <3>3. DOMAIN s.accounts = Rm!Seen /\ \A a \in Rm!Seen : Rm!Sums(s.accounts[a].count, Rm!Of(a))
      BY <3>2, RmCard DEF Rm!EventsSummed, s
    <3>4. /\ DOMAIN g = Rm!Seen \cup {b}
          /\ \A x \in Rm!Seen \ {b} : g[x] = s.accounts[x]
          /\ g[b].count = Rm!Bump(IF b \in Rm!Seen THEN s.accounts[b].count ELSE Rm!NoCount,
             e.what)
      BY <2>2, <2>3, <3>2, <3>3, RmApply
    <3> HIDE DEF g
    <3>5. \A a : Rm!Of(a) \in SUBSET Rm!Recorded BY DEF Rm!Of
    <3>6. ASSUME NEW a \in Rm!Seen' PROVE Rm!Sums(v2.state.accounts[a].count, Rm!Of(a))'
      <4>1. CASE a = b
        <5> DEFINE c == IF b \in Rm!Seen THEN s.accounts[b].count ELSE Rm!NoCount
        <5>1. c \in Rm!Counts(n) BY <2>3, <2>9, <3>3, RmNoCount
        <5>2. Rm!Sums(c, Rm!Of(b))
          <6>1. CASE b \in Rm!Seen BY <3>3, <6>1
          <6>2. CASE b \notin Rm!Seen
            <7>1. Rm!Of(b) = {} BY <6>2 DEF Rm!Of, Rm!Seen
            <7> QED BY <6>2, <7>1, RmNoSums
          <6> QED BY <6>1, <6>2
        <5> HIDE DEF c
        <5>3. g[b].count = Rm!Bump(c, e.what) BY <3>4 DEF c
        <5>4. Rm!Of(b)' = Rm!Of(b) \cup {k} BY <2>6
        <5>5. LET begun == {i \in Rm!Of(b)' : v10'[i].what = Rm!Start}
              IN  /\ g[b].count.starts = Rm!Cardinality(begun)
                  /\ g[b].count.completes = Rm!Cardinality(Rm!Of(b)' \ begun)
          BY <2>8, <3>5, <5>1, <5>2, <5>3, <5>4
        <5> QED BY <4>1, <5>5 DEF Rm!Sums, Rm!Starts, g
      <4>2. CASE a # b
        <5>1. a \in Rm!Seen \ {b} /\ Rm!Of(a)' = Rm!Of(a) BY <2>5, <2>6, <4>2
        <5>2. g[a] = s.accounts[a] /\ Rm!Sums(s.accounts[a].count, Rm!Of(a)) BY <3>3, <3>4, <5>1
        <5>3. {i \in Rm!Of(a) : v10'[i].what = Rm!Start} = {i \in Rm!Of(a) : v10[i].what =
              Rm!Start}
          BY <2>4, <3>5
        <5> QED BY <5>1, <5>2, <5>3 DEF Rm!Sums, Rm!Starts, g
      <4> QED BY <4>1, <4>2
    <3> QED BY <2>5, <3>4, <3>6 DEF g
  <2> QED BY <2>10, <2>11 DEF Rm!EventsSummed
<1>7. ASSUME NEW w \in Agents, Rm!Lose(w) PROVE Rm!EventsSummed' BY <1>0, <1>7 DEF Rm!Lose
<1> QED BY <1>1, <1>2, <1>3, <1>4, <1>5, <1>6, <1>7 DEF Rm!Next

LEMMA MetricsNext == MetricsInv /\ [Rm!Next]_(Rm!metricVars) => MetricsInv'
<1> SUFFICES ASSUME MetricsInv, [Rm!Next]_(Rm!metricVars) PROVE MetricsInv' OBVIOUS
<1>1. CASE Rm!Next BY <1>1, RmTypes, RmKept, RmSummed DEF MetricsInv
<1>2. CASE UNCHANGED Rm!metricVars
  <2>1. UNCHANGED <<v1, v2, v3, v4, v5, v6, v7, v8, v9,
                    v10>>
    BY <1>2 DEF Rm!metricVars
  <2>2. Rm!MetricsTypeOK' BY <2>1 DEF MetricsInv, Rm!MetricsTypeOK
  <2>3. Rm!UpdatesKept' BY <2>1 DEF MetricsInv, Rm!UpdatesKept, Rm!Busy
  <2>4. Rm!EventsSummed' BY <2>1, RmSummedSame DEF MetricsInv
  <2> QED BY <2>2, <2>3, <2>4 DEF MetricsInv
<1> QED BY <1>1, <1>2
=============================================================================
