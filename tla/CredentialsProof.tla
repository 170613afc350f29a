--------------------------- MODULE CredentialsProof ---------------------------
(* What TLAPS proves about the credentials of a file-based provider, for any  *)
(* number of accounts, commands, tokens and faults.                           *)
EXTENDS Credentials, FiniteSetTheorems, TLAPS

-----------------------------------------------------------------------------
(* Types, and what a step of a command rests on                               *)

Swapping == {"Write", "Commit", "Save"}
Removal == {"RmCheck", "RmLock", "RmLoad", "RmSave", "RmDelete", "RmKeyring"}
Signing == {"SyncRead", "Migrate", "Import", "UpsertLoad", "UpsertSave", "MarkLoad",
            "MarkSave", "SettleLoad", "SettleSave"}
Nowhere == {"Idle", "Capture", "CaptureSet", "SyncRead"}
Laden == {"Repair", "Refresh", "Rotated", "Materialize", "Absorb", "Migrate", "Import",
          "Lock", "Write", "Commit", "Save"}
Whys == {"divided", "contended", "overtaken", "fault", "stripped", "shared", "unmanaged"}

\* Which command a step belongs to.
CommandShape(p) ==
    /\ pc[p] \in {"Capture", "CaptureSet"} => cmd[p] \in {"swap", "capture"}
    /\ pc[p] \in {"Lock", "Write", "Commit", "Save"} => cmd[p] = "swap"
    /\ pc[p] \in {"Read", "Repair"} => cmd[p] \in {"swap", "query", "auth", "run", "env"}
    /\ pc[p] \in {"Acquire", "Materialize", "Session", "Absorb", "Drop"} =>
          cmd[p] \in {"run", "env"}
    /\ pc[p] \in {"Refresh", "Rotated"} => cmd[p] = "query"
    /\ pc[p] \in Signing => cmd[p] \in {"sync", "login"}
    /\ pc[p] = "Idle" => cmd[p] = "none"
    /\ cmd[p] = "rm" <=> pc[p] \in Removal

\* Which account and credentials it holds.
LoadShape(p) ==
    /\ pc[p] = "Idle" =>
          acct[p] = NoAccount /\ mem[p] = NoBlob /\ cap[p] = NoBlob /\ back[p] = NoBlob
    /\ pc[p] \in Removal => mem[p] = NoBlob /\ cap[p] = NoBlob
    /\ pc[p] \notin Nowhere => acct[p] \in Accounts
    /\ pc[p] = "SyncRead" \/ cmd[p] = "capture" => acct[p] = NoAccount
    /\ pc[p] \in {"Capture", "CaptureSet"} /\ cmd[p] = "swap" => acct[p] \in Accounts
    /\ \/ pc[p] \in Laden
       \/ pc[p] \in {"Capture", "CaptureSet"} /\ cmd[p] = "swap"
       => mem[p] \in Blob /\ mem[p].id = acct[p]
    /\ pc[p] = "CaptureSet" => cap[p] \in Blob

\* Which registry it saves, and whether it holds the lock.
FileShape(p) ==
    /\ pc[p] \in {"Save", "UpsertSave", "MarkSave", "SettleSave", "RmSave"} => reg[p] \in Registry
    /\ pc[p] \in {"Save", "MarkSave"} => reg[p][acct[p]] # "absent"
    /\ pc[p] \in Swapping <=> flock = p

Shape(p) == CommandShape(p) /\ LoadShape(p) /\ FileShape(p)

\* Files hold an account's own credential.
Keyed ==
    /\ \A a \in Accounts : store[a] # NoBlob => store[a].id = a
    /\ \A a \in Accounts : keyring[a] # NoBlob => keyring[a].id = a
    /\ \A d \in Dirs : env[d] \in Blob => env[d].id = d[1]
    /\ \A a \in Accounts : valid[a] \subseteq 1 .. issued[a]

TypeInv == TypeOK /\ (\A p \in Procs : Shape(p)) /\ Keyed

LEMMA Constants ==
    /\ NoProc \notin Procs /\ NoAccount \notin Accounts
    /\ NoBlob \notin Blob /\ NoDir \notin Blob /\ Empty \notin Blob
    /\ MaxTokens \in Nat \ {0} /\ MaxCommands \in Nat /\ MaxNative \in Nat /\ MaxFaults \in Nat
    /\ "none" \notin Cmds
    /\ Cmds \subseteq {"swap", "query", "auth", "capture", "sync", "login", "rm", "run", "env"}
BY CredentialsAssumption, BlobAssumption

LEMMA NoteType ==
    ASSUME NEW because \in [Accounts -> SUBSET Whys], blame \in [Accounts -> SUBSET Whys],
           Note(because)
    PROVE  blame' \in [Accounts -> SUBSET Whys]
BY DEF Note, Whys

LEMMA ForType ==
    /\ Nothing \in [Accounts -> SUBSET Whys]
    /\ \A a \in Accounts, why \in Whys : For(a, why) \in [Accounts -> SUBSET Whys]
BY DEF Nothing, For

LEMMA TypeInit == Init => TypeInv
<1> SUFFICES ASSUME Init PROVE TypeInv OBVIOUS
<1> USE Constants
<1>1. TypeOK
  <2>1. 1 \in Token BY DEF Token
  <2>2. \A a \in Accounts : [id |-> a, tok |-> 1] \in MaybeBlob BY <2>1 DEF Blob, MaybeBlob
  <2>3. /\ store \in [Accounts -> MaybeBlob] /\ keyring \in [Accounts -> MaybeBlob]
        /\ live \in MaybeBlob
    BY <2>2 DEF Init, MaybeBlob
  <2>4. valid \in [Accounts -> SUBSET Token] /\ issued \in [Accounts -> Token]
    BY <2>1 DEF Init
  <2>5. registry \in Registry BY DEF Init, Registry, Mark
  <2>6. /\ flock \in Procs \cup {NoProc} /\ env \in [Dirs -> Blob \cup {NoDir, Empty}]
        /\ acct \in [Procs -> Accounts \cup {NoAccount}] /\ parked \in [Procs -> BOOLEAN]
        /\ pc \in [Procs -> Steps] /\ cmd \in [Procs -> Cmds \cup {"none"}]
    BY DEF Init, Steps
  <2>7. /\ mem \in [Procs -> MaybeBlob] /\ cap \in [Procs -> MaybeBlob]
        /\ back \in [Procs -> MaybeBlob] /\ reg \in [Procs -> Registry \cup {NoBlob}]
    BY DEF Init, MaybeBlob
  <2>8. /\ commands \in 0 .. MaxCommands /\ natives \in 0 .. MaxNative /\ faults \in 0 .. MaxFaults
    BY DEF Init
  <2>9. blame \in [Accounts -> SUBSET Whys] BY DEF Init
  <2>10. clobbered \in BOOLEAN /\ agree \in BOOLEAN BY DEF Init
  <2> QED BY <2>3, <2>4, <2>5, <2>6, <2>7, <2>8, <2>9, <2>10 DEF TypeOK, Whys
<1>2. \A p \in Procs : Shape(p)
  BY DEF Init, Shape, CommandShape, LoadShape, FileShape, Swapping, Removal, Signing, Nowhere, Laden
<1>3. Keyed BY DEF Init, Keyed, Blob
<1> QED BY <1>1, <1>2, <1>3 DEF TypeInv

\* Who does not move keeps its shape.
LEMMA Bystander ==
    ASSUME NEW q \in Procs, Shape(q), flock' = q <=> flock = q,
           pc'[q] = pc[q], cmd'[q] = cmd[q], acct'[q] = acct[q], mem'[q] = mem[q],
           cap'[q] = cap[q], back'[q] = back[q], reg'[q] = reg[q]
    PROVE  Shape(q)'
BY DEF Shape, CommandShape, LoadShape, FileShape

-----------------------------------------------------------------------------
(* Types and shapes are kept                                                  *)

\* A command starts.
Start(p) ==
    \/ \E c \in Cmds, a \in Accounts : StartRead(p, c, a) \/ StartSession(p, c, a)
    \/ \E a \in Accounts : StartRemove(p, a)
    \/ StartCapture(p) \/ StartSync(p) \/ StartLogin(p)

FileTypes ==
    /\ valid \in [Accounts -> SUBSET Token] /\ issued \in [Accounts -> Token]
    /\ live \in MaybeBlob
    /\ store \in [Accounts -> MaybeBlob] /\ keyring \in [Accounts -> MaybeBlob]
    /\ registry \in Registry
    /\ flock \in Procs \cup {NoProc}
    /\ env \in [Dirs -> Blob \cup {NoDir, Empty}]

StepTypes ==
    /\ pc \in [Procs -> Steps]
    /\ cmd \in [Procs -> Cmds \cup {"none"}]
    /\ acct \in [Procs -> Accounts \cup {NoAccount}]

CopyTypes ==
    /\ mem \in [Procs -> MaybeBlob] /\ cap \in [Procs -> MaybeBlob]
    /\ back \in [Procs -> MaybeBlob]

BoundTypes ==
    /\ reg \in [Procs -> Registry \cup {NoBlob}]
    /\ commands \in 0 .. MaxCommands /\ natives \in 0 .. MaxNative /\ faults \in 0 .. MaxFaults

FlagTypes ==
    /\ blame \in [Accounts -> SUBSET Whys]
    /\ clobbered \in BOOLEAN /\ agree \in BOOLEAN /\ parked \in [Procs -> BOOLEAN]

LEMMA TypeParts == TypeOK <=> FileTypes /\ StepTypes /\ CopyTypes /\ BoundTypes /\ FlagTypes
BY DEF TypeOK, FileTypes, StepTypes, CopyTypes, BoundTypes, FlagTypes, Whys

\* A new token is the next one.
LEMMA Rotation ==
    ASSUME TypeInv, NEW a \in Accounts, NEW t \in Token, Rotate(a, t)
    PROVE  /\ valid' \in [Accounts -> SUBSET Token] /\ issued' \in [Accounts -> Token]
           /\ \A b \in Accounts : valid'[b] \subseteq 1 .. issued'[b]
           /\ Fresh(a) \in Blob /\ Fresh(a).id = a /\ Fresh(a).tok = issued[a] + 1
           /\ valid'[a] = (valid[a] \ {t}) \cup {issued[a] + 1}
           /\ \A b \in Accounts \ {a} : valid'[b] = valid[b]
           /\ issued[a] + 1 \notin valid[a] /\ Fresh(a).tok \in valid'[a]
<1>1. valid \in [Accounts -> SUBSET Token] /\ issued \in [Accounts -> Token] /\ MaxTokens \in Nat
      /\ \A b \in Accounts : valid[b] \subseteq 1 .. issued[b]
  BY Constants DEF TypeInv, TypeOK, Keyed
<1>2. issued[a] \in Nat /\ issued[a] + 1 \in Token /\ issued[a] + 1 >= 1
  BY <1>1 DEF Token, Rotate
<1>3. Fresh(a) \in Blob /\ Fresh(a).id = a /\ Fresh(a).tok = issued[a] + 1
  BY <1>2 DEF Fresh, Blob
<1>4. valid' = [valid EXCEPT ![a] = (@ \ {t}) \cup {issued[a] + 1}]
      /\ issued' = [issued EXCEPT ![a] = @ + 1]
  BY DEF Rotate
<1>5. valid'[a] = (valid[a] \ {t}) \cup {issued[a] + 1} /\ issued'[a] = issued[a] + 1
      /\ \A b \in Accounts \ {a} : valid'[b] = valid[b] /\ issued'[b] = issued[b]
  BY <1>1, <1>4
<1>6. \A b \in Accounts : valid'[b] \subseteq 1 .. issued'[b]
  BY <1>1, <1>2, <1>5 DEF Token
<1>7. issued[a] + 1 \notin valid[a] BY <1>1, <1>2
<1>8. valid' \in [Accounts -> SUBSET Token] /\ issued' \in [Accounts -> Token]
  BY <1>1, <1>2, <1>4
<1> QED BY <1>3, <1>5, <1>6, <1>7, <1>8

LEMMA FilesTyped == ASSUME TypeInv, NEW p \in Procs, Step(p) PROVE FileTypes'
<1> USE Constants DEF TypeInv, TypeOK, FileTypes, files, server, MaybeBlob, Registry, Mark, Dirs,
                      Shape, LoadShape, FileShape, Laden, Nowhere
<1>1. CASE Start(p)
  BY <1>1 DEF Start, StartRead, StartSession, StartRemove, StartCapture, StartSync, StartLogin,
              StartCommand
<1>2. CASE Acquire(p) BY <1>2 DEF Acquire, Goto
<1>3. CASE Read(p) BY <1>3 DEF Read, Goto, End, Forget, AfterRead, AfterFailure, LiveOf
<1>4. CASE Repair(p) BY <1>4 DEF Repair, Goto, End, Forget, AfterRead, StoreSet
<1>5. CASE Capture(p) BY <1>5 DEF Capture, Goto, End, Forget, AfterCapture, Capturable
<1>6. CASE CaptureSet(p) BY <1>6 DEF CaptureSet, Goto, GoOn, End, Forget, AfterCapture, StoreSet
<1>7. CASE CaptureFails(p) BY <1>7 DEF CaptureFails
<1>8. CASE Lock(p) BY <1>8 DEF Lock, Goto
<1>9. CASE Write(p) BY <1>9 DEF Write, Goto
<1>10. CASE Commit(p) BY <1>10 DEF Commit, Goto, Rollback, End, Forget
<1>11. CASE Save(p) BY <1>11 DEF Save, SaveRegistry, OnlyActive, End, Forget
<1>12. CASE SwapFails(p) BY <1>12 DEF SwapFails, End, Forget
<1>13. CASE RefreshNot(p) BY <1>13 DEF RefreshNot, End, Forget
<1>14. CASE Refresh(p)
  <2>1. /\ mem[p].tok \in Token /\ acct[p] \in Accounts /\ Rotate(acct[p], mem[p].tok)
    BY <1>14 DEF Refresh, Shape, LoadShape, Laden, Nowhere, Blob
  <2>2. UNCHANGED <<live, store, keyring, registry, flock, env>> BY <1>14 DEF Refresh
  <2> QED BY <2>1, <2>2, Rotation
<1>15. CASE Rotated(p) BY <1>15 DEF Rotated, StoreSet, End, Forget
<1>16. CASE Materialize(p) BY <1>16 DEF Materialize, Goto, DirOf
<1>17. CASE SessionRefresh(p)
  <2>1. /\ env[DirOf(p)].tok \in Token /\ acct[p] \in Accounts
        /\ Rotate(acct[p], env[DirOf(p)].tok)
    BY <1>17 DEF SessionRefresh, Shape, LoadShape, Nowhere, Blob
  <2>2. /\ UNCHANGED <<live, store, keyring, registry, flock>>
        /\ env' = [env EXCEPT ![DirOf(p)] = Fresh(acct[p])]
    BY <1>17 DEF SessionRefresh
  <2> QED BY <2>1, <2>2, Rotation
<1>18. CASE SessionEnds(p) BY <1>18 DEF SessionEnds, Goto, DirOf
<1>19. CASE Absorb(p) BY <1>19 DEF Absorb, StoreSet, Goto
<1>20. CASE Drop(p) BY <1>20 DEF Drop, DirOf, End, Forget
<1>21. CASE SyncRead(p) BY <1>21 DEF SyncRead, End, Forget
<1>22. CASE Migrate(p) BY <1>22 DEF Migrate, StoreSet, Goto
<1>23. CASE Import(p) BY <1>23 DEF Import, StoreSet, Goto
<1>24. CASE LoadRegistry(p) BY <1>24 DEF LoadRegistry, LoadSteps, SaveOf, Goto, End, Forget
<1>25. CASE UpsertSave(p) BY <1>25 DEF UpsertSave, SaveStep, SaveRegistry, Goto, End, Forget
<1>26. CASE MarkSave(p)
  BY <1>26 DEF MarkSave, OnlyActive, SaveStep, SaveRegistry, Goto, End, Forget
<1>27. CASE SettleSave(p) BY <1>27 DEF SettleSave, SaveStep, SaveRegistry, Goto, End, Forget
<1>28. CASE RmCheck(p) BY <1>28 DEF RmCheck, Goto, LiveOf
<1>29. CASE RmLock(p) BY <1>29 DEF RmLock, Goto, LiveOf
<1>30. CASE RmSave(p) BY <1>30 DEF RmSave, SaveStep, SaveRegistry, Goto, End, Forget
<1>31. CASE RmDelete(p) BY <1>31 DEF RmDelete, StoreSet, Goto
<1>32. CASE RmKeyring(p) BY <1>32 DEF RmKeyring, End, Forget
<1>33. CASE Kill(p) BY <1>33 DEF Kill, End, Forget
<1> QED BY <1>1, <1>2, <1>3, <1>4, <1>5, <1>6, <1>7, <1>8, <1>9, <1>10, <1>11, <1>12, <1>13,
           <1>14, <1>15, <1>16, <1>17, <1>18, <1>19, <1>20, <1>21, <1>22, <1>23, <1>24, <1>25,
           <1>26, <1>27, <1>28, <1>29, <1>30, <1>31, <1>32, <1>33 DEF Step, Start

LEMMA StepsTyped == ASSUME TypeInv, NEW p \in Procs, Step(p) PROVE StepTypes'
<1> USE DEF TypeInv, TypeOK, StepTypes, Steps, Shape, CommandShape
<1>1. CASE Start(p)
  BY <1>1 DEF Start, StartRead, StartSession, StartRemove, StartCapture, StartSync, StartLogin,
              StartCommand
<1>2. CASE Acquire(p) BY <1>2 DEF Acquire, Goto
<1>3. CASE Read(p) BY <1>3 DEF Read, Goto, End, Forget, AfterRead, AfterFailure, LiveOf
<1>4. CASE Repair(p) BY <1>4 DEF Repair, Goto, End, Forget, AfterRead, StoreSet
<1>5. CASE Capture(p) BY <1>5 DEF Capture, Goto, End, Forget, AfterCapture, Capturable
<1>6. CASE CaptureSet(p) BY <1>6 DEF CaptureSet, Goto, GoOn, End, Forget, AfterCapture, StoreSet
<1>7. CASE CaptureFails(p) BY <1>7 DEF CaptureFails
<1>8. CASE Lock(p) BY <1>8 DEF Lock, Goto
<1>9. CASE Write(p) BY <1>9 DEF Write, Goto
<1>10. CASE Commit(p) BY <1>10 DEF Commit, Goto, Rollback, End, Forget
<1>11. CASE Save(p) BY <1>11 DEF Save, SaveRegistry, OnlyActive, End, Forget
<1>12. CASE SwapFails(p) BY <1>12 DEF SwapFails, End, Forget
<1>13. CASE RefreshNot(p) BY <1>13 DEF RefreshNot, End, Forget
<1>14. CASE Refresh(p) BY <1>14 DEF Refresh, Goto
<1>15. CASE Rotated(p) BY <1>15 DEF Rotated, StoreSet, End, Forget
<1>16. CASE Materialize(p) BY <1>16 DEF Materialize, Goto, DirOf
<1>17. CASE SessionRefresh(p) BY <1>17 DEF SessionRefresh, DirOf
<1>18. CASE SessionEnds(p) BY <1>18 DEF SessionEnds, Goto, DirOf
<1>19. CASE Absorb(p) BY <1>19 DEF Absorb, StoreSet, Goto
<1>20. CASE Drop(p) BY <1>20 DEF Drop, DirOf, End, Forget
<1>21. CASE SyncRead(p)
  <2>1. CASE live = NoBlob BY <1>21, <2>1 DEF SyncRead, End, Forget
  <2>2. CASE live # NoBlob
    <3>1. live.id \in Accounts BY <2>2 DEF MaybeBlob, Blob
    <3> QED BY <1>21, <2>2, <3>1 DEF SyncRead
  <2> QED BY <2>1, <2>2
<1>22. CASE Migrate(p) BY <1>22 DEF Migrate, StoreSet, Goto
<1>23. CASE Import(p) BY <1>23 DEF Import, StoreSet, Goto
<1>24. CASE LoadRegistry(p) BY <1>24 DEF LoadRegistry, LoadSteps, SaveOf, Goto, End, Forget
<1>25. CASE UpsertSave(p) BY <1>25 DEF UpsertSave, SaveStep, SaveRegistry, Goto, End, Forget
<1>26. CASE MarkSave(p)
  BY <1>26 DEF MarkSave, OnlyActive, SaveStep, SaveRegistry, Goto, End, Forget
<1>27. CASE SettleSave(p) BY <1>27 DEF SettleSave, SaveStep, SaveRegistry, Goto, End, Forget
<1>28. CASE RmCheck(p) BY <1>28 DEF RmCheck, Goto, LiveOf
<1>29. CASE RmLock(p) BY <1>29 DEF RmLock, Goto, LiveOf
<1>30. CASE RmSave(p) BY <1>30 DEF RmSave, SaveStep, SaveRegistry, Goto, End, Forget
<1>31. CASE RmDelete(p) BY <1>31 DEF RmDelete, StoreSet, Goto
<1>32. CASE RmKeyring(p) BY <1>32 DEF RmKeyring, End, Forget
<1>33. CASE Kill(p) BY <1>33 DEF Kill, End, Forget
<1> QED BY <1>1, <1>2, <1>3, <1>4, <1>5, <1>6, <1>7, <1>8, <1>9, <1>10, <1>11, <1>12, <1>13,
           <1>14, <1>15, <1>16, <1>17, <1>18, <1>19, <1>20, <1>21, <1>22, <1>23, <1>24, <1>25,
           <1>26, <1>27, <1>28, <1>29, <1>30, <1>31, <1>32, <1>33 DEF Step, Start

LEMMA CopiesTyped == ASSUME TypeInv, NEW p \in Procs, Step(p) PROVE CopyTypes'
<1> USE Constants DEF TypeInv, TypeOK, CopyTypes, MaybeBlob, Dirs, work, Shape, LoadShape
<1>1. CASE Start(p)
  BY <1>1 DEF Start, StartRead, StartSession, StartRemove, StartCapture, StartSync, StartLogin,
              StartCommand
<1>2. CASE Acquire(p) BY <1>2 DEF Acquire, Goto
<1>3. CASE Read(p)
  <2>1. \E b \in MaybeBlob :
           \/ End(p)
           \/ mem' = [mem EXCEPT ![p] = b] /\ UNCHANGED <<cap, back>>
    <3>1. acct[p] \in Accounts BY <1>3 DEF Read, Nowhere
    <3> QED BY <1>3, <3>1 DEF Read
  <2> QED BY <2>1 DEF End, Forget
<1>4. CASE Repair(p) BY <1>4 DEF Repair, Goto, End, Forget, AfterRead, StoreSet
<1>5. CASE Capture(p)
  <2>1. CASE ~Capturable /\ AfterCapture(p) = "Idle" BY <1>5, <2>1 DEF Capture, End, Forget
  <2>2. CASE ~(~Capturable /\ AfterCapture(p) = "Idle") BY <1>5, <2>2 DEF Capture
  <2> QED BY <2>1, <2>2
<1>6. CASE CaptureSet(p) BY <1>6 DEF CaptureSet, Goto, GoOn, End, Forget, AfterCapture, StoreSet
<1>7. CASE CaptureFails(p) BY <1>7 DEF CaptureFails
<1>8. CASE Lock(p) BY <1>8 DEF Lock, Goto
<1>9. CASE Write(p) BY <1>9 DEF Write, Goto
<1>10. CASE Commit(p) BY <1>10 DEF Commit, Goto, Rollback, End, Forget
<1>11. CASE Save(p) BY <1>11 DEF Save, SaveRegistry, OnlyActive, End, Forget
<1>12. CASE SwapFails(p) BY <1>12 DEF SwapFails, End, Forget
<1>13. CASE RefreshNot(p) BY <1>13 DEF RefreshNot, End, Forget
<1>14. CASE Refresh(p)
  <2>1. /\ mem[p].tok \in Token /\ acct[p] \in Accounts /\ Rotate(acct[p], mem[p].tok)
    BY <1>14 DEF Refresh, Shape, LoadShape, Laden, Nowhere, Blob
  <2>2. Fresh(acct[p]) \in Blob BY <2>1, Rotation
  <2> QED BY <1>14, <2>2 DEF Refresh
<1>15. CASE Rotated(p) BY <1>15 DEF Rotated, StoreSet, End, Forget
<1>16. CASE Materialize(p) BY <1>16 DEF Materialize, Goto, DirOf
<1>17. CASE SessionRefresh(p) BY <1>17 DEF SessionRefresh, DirOf
<1>18. CASE SessionEnds(p) BY <1>18 DEF SessionEnds, Goto, DirOf
<1>19. CASE Absorb(p) BY <1>19 DEF Absorb, StoreSet, Goto
<1>20. CASE Drop(p) BY <1>20 DEF Drop, DirOf, End, Forget
<1>21. CASE SyncRead(p)
  <2>1. CASE live = NoBlob BY <1>21, <2>1 DEF SyncRead, End, Forget
  <2>2. CASE live # NoBlob
    <3>1. live.id \in Accounts BY <2>2 DEF MaybeBlob, Blob
    <3>2. \E b \in MaybeBlob : mem' = [mem EXCEPT ![p] = b] /\ UNCHANGED <<cap, back>>
      <4>1. mem = [mem EXCEPT ![p] = mem[p]] OBVIOUS
      <4> QED BY <1>21, <2>2, <3>1, <4>1 DEF SyncRead
    <3> QED BY <3>2
  <2> QED BY <2>1, <2>2
<1>22. CASE Migrate(p) BY <1>22 DEF Migrate, StoreSet, Goto
<1>23. CASE Import(p) BY <1>23 DEF Import, StoreSet, Goto
<1>24. CASE LoadRegistry(p)
  <2>1. CASE End(p) BY <2>1 DEF End, Forget
  <2>2. CASE UNCHANGED <<mem, cap, back>> BY <2>2
  <2> QED BY <1>24, <2>1, <2>2 DEF LoadRegistry
<1>25. CASE UpsertSave(p) BY <1>25 DEF UpsertSave, SaveStep, SaveRegistry, Goto, End, Forget
<1>26. CASE MarkSave(p)
  BY <1>26 DEF MarkSave, OnlyActive, SaveStep, SaveRegistry, Goto, End, Forget
<1>27. CASE SettleSave(p) BY <1>27 DEF SettleSave, SaveStep, SaveRegistry, Goto, End, Forget
<1>28. CASE RmCheck(p) BY <1>28 DEF RmCheck, Goto, LiveOf
<1>29. CASE RmLock(p) BY <1>29 DEF RmLock, Goto, LiveOf
<1>30. CASE RmSave(p) BY <1>30 DEF RmSave, SaveStep, SaveRegistry, Goto, End, Forget
<1>31. CASE RmDelete(p) BY <1>31 DEF RmDelete, StoreSet, Goto
<1>32. CASE RmKeyring(p) BY <1>32 DEF RmKeyring, End, Forget
<1>33. CASE Kill(p) BY <1>33 DEF Kill, End, Forget
<1> QED BY <1>1, <1>2, <1>3, <1>4, <1>5, <1>6, <1>7, <1>8, <1>9, <1>10, <1>11, <1>12, <1>13,
           <1>14, <1>15, <1>16, <1>17, <1>18, <1>19, <1>20, <1>21, <1>22, <1>23, <1>24, <1>25,
           <1>26, <1>27, <1>28, <1>29, <1>30, <1>31, <1>32, <1>33 DEF Step, Start

LEMMA BoundsTyped == ASSUME TypeInv, NEW p \in Procs, Step(p) PROVE BoundTypes'
<1> USE Constants DEF TypeInv, TypeOK, BoundTypes, bounds, work
<1>1. CASE Start(p)
  BY <1>1 DEF Start, StartRead, StartSession, StartRemove, StartCapture, StartSync, StartLogin,
              StartCommand
<1>2. CASE Acquire(p) BY <1>2 DEF Acquire, Goto
<1>3. CASE Read(p) BY <1>3 DEF Read, Goto, End, Forget, AfterRead, AfterFailure, LiveOf
<1>4. CASE Repair(p) BY <1>4 DEF Repair, Goto, End, Forget, AfterRead, StoreSet
<1>5. CASE Capture(p) BY <1>5 DEF Capture, Goto, End, Forget, AfterCapture, Capturable
<1>6. CASE CaptureSet(p) BY <1>6 DEF CaptureSet, Goto, GoOn, End, Forget, AfterCapture, StoreSet
<1>7. CASE CaptureFails(p) BY <1>7 DEF CaptureFails
<1>8. CASE Lock(p) BY <1>8 DEF Lock, Goto
<1>9. CASE Write(p) BY <1>9 DEF Write, Goto
<1>10. CASE Commit(p) BY <1>10 DEF Commit, Goto, Rollback, End, Forget
<1>11. CASE Save(p) BY <1>11 DEF Save, SaveRegistry, OnlyActive, End, Forget
<1>12. CASE SwapFails(p) BY <1>12 DEF SwapFails, End, Forget
<1>13. CASE RefreshNot(p) BY <1>13 DEF RefreshNot, End, Forget
<1>14. CASE Refresh(p) BY <1>14 DEF Refresh, Goto
<1>15. CASE Rotated(p) BY <1>15 DEF Rotated, StoreSet, End, Forget
<1>16. CASE Materialize(p) BY <1>16 DEF Materialize, Goto, DirOf
<1>17. CASE SessionRefresh(p) BY <1>17 DEF SessionRefresh, DirOf
<1>18. CASE SessionEnds(p) BY <1>18 DEF SessionEnds, Goto, DirOf
<1>19. CASE Absorb(p) BY <1>19 DEF Absorb, StoreSet, Goto
<1>20. CASE Drop(p) BY <1>20 DEF Drop, DirOf, End, Forget
<1>21. CASE SyncRead(p) BY <1>21 DEF SyncRead, End, Forget
<1>22. CASE Migrate(p) BY <1>22 DEF Migrate, StoreSet, Goto
<1>23. CASE Import(p) BY <1>23 DEF Import, StoreSet, Goto
<1>24. CASE LoadRegistry(p) BY <1>24 DEF LoadRegistry, LoadSteps, SaveOf, Goto, End, Forget
<1>25. CASE UpsertSave(p) BY <1>25 DEF UpsertSave, SaveStep, SaveRegistry, Goto, End, Forget
<1>26. CASE MarkSave(p)
  BY <1>26 DEF MarkSave, OnlyActive, SaveStep, SaveRegistry, Goto, End, Forget
<1>27. CASE SettleSave(p) BY <1>27 DEF SettleSave, SaveStep, SaveRegistry, Goto, End, Forget
<1>28. CASE RmCheck(p) BY <1>28 DEF RmCheck, Goto, LiveOf
<1>29. CASE RmLock(p) BY <1>29 DEF RmLock, Goto, LiveOf
<1>30. CASE RmSave(p) BY <1>30 DEF RmSave, SaveStep, SaveRegistry, Goto, End, Forget
<1>31. CASE RmDelete(p) BY <1>31 DEF RmDelete, StoreSet, Goto
<1>32. CASE RmKeyring(p) BY <1>32 DEF RmKeyring, End, Forget
<1>33. CASE Kill(p) BY <1>33 DEF Kill, End, Forget
<1> QED BY <1>1, <1>2, <1>3, <1>4, <1>5, <1>6, <1>7, <1>8, <1>9, <1>10, <1>11, <1>12, <1>13,
           <1>14, <1>15, <1>16, <1>17, <1>18, <1>19, <1>20, <1>21, <1>22, <1>23, <1>24, <1>25,
           <1>26, <1>27, <1>28, <1>29, <1>30, <1>31, <1>32, <1>33 DEF Step, Start

LEMMA ShapeKept == ASSUME TypeInv, NEW p \in Procs, Step(p) PROVE Shape(p)'
<1> USE Constants DEF TypeInv, TypeOK, Shape, CommandShape, LoadShape, FileShape, Nowhere, Laden,
                      Signing, Swapping, Removal, MaybeBlob, Registry, Mark, Steps, Dirs, files, work
<1>1. CASE Start(p)
  <2> QED
  BY <1>1 DEF Start, StartRead, StartSession, StartRemove, StartCapture, StartSync, StartLogin,
            StartCommand, Registry, Mark, MaybeBlob
<1>2. CASE Acquire(p) BY <1>2 DEF Acquire, Goto
<1>3. CASE Read(p)
  <2> DEFINE a == acct[p]
  <2>1. a \in Accounts /\ pc[p] = "Read" /\ flock' = flock BY <1>3 DEF Read
  <2>2. CASE End(p) BY <1>3, <2>1, <2>2 DEF End, Forget
  <2>3. ASSUME NEW b \in Blob, b.id = a, mem' = [mem EXCEPT ![p] = b],
               NEW s \in {"Repair", "Capture", "Materialize", "Refresh"}, Goto(p, s),
               s = "Repair" \/ s = AfterRead(p),
               UNCHANGED <<cap, back, reg, parked>>
        PROVE  Shape(p)'
    BY <1>3, <2>1, <2>3 DEF Goto, AfterRead
  <2>4. ASSUME AfterFailure(p) # "Idle", mem' = [mem EXCEPT ![p] = NoBlob], Goto(p, "Drop"),
               UNCHANGED <<cap, back, reg, parked>>
        PROVE  Shape(p)'
    BY <1>3, <2>1, <2>4 DEF Goto, AfterFailure
  <2>5. /\ store[a] # NoBlob => store[a] \in Blob /\ store[a].id = a
        /\ keyring[a] # NoBlob => keyring[a] \in Blob /\ keyring[a].id = a
        /\ LiveOf(a) => live \in Blob /\ live.id = a
    BY <2>1 DEF Keyed, LiveOf
  <2>6. AfterRead(p) \in {"Idle", "Capture", "Materialize", "Refresh"}
        /\ AfterFailure(p) \in {"Idle", "Drop"}
    BY DEF AfterRead, AfterFailure
  <2> HIDE DEF a
  <2>7. CASE LiveOf(a) BY <1>3, <2>7, <2>3, <2>5 DEF Read, a
  <2>8. CASE ~LiveOf(a) /\ store[a] # NoBlob
    BY <1>3, <2>8, <2>2, <2>3, <2>5, <2>6 DEF Read, a
  <2>9. CASE ~LiveOf(a) /\ store[a] = NoBlob /\ keyring[a] # NoBlob
    BY <1>3, <2>9, <2>3, <2>5 DEF Read, a
  <2>10. CASE ~LiveOf(a) /\ store[a] = NoBlob /\ keyring[a] = NoBlob
    BY <1>3, <2>10, <2>2, <2>4, <2>6 DEF Read, a
  <2> QED BY <2>7, <2>8, <2>9, <2>10
<1>4. CASE Repair(p) BY <1>4 DEF Repair, Goto, End, Forget, AfterRead, StoreSet
<1>5. CASE Capture(p) BY <1>5 DEF Capture, Goto, End, Forget, AfterCapture, Capturable
<1>6. CASE CaptureSet(p) BY <1>6 DEF CaptureSet, Goto, GoOn, End, Forget, AfterCapture, StoreSet
<1>7. CASE CaptureFails(p) BY <1>7 DEF CaptureFails
<1>8. CASE Lock(p) BY <1>8 DEF Lock, Goto
<1>9. CASE Write(p) BY <1>9 DEF Write, Goto
<1>10. CASE Commit(p) BY <1>10 DEF Commit, Goto, Rollback, End, Forget
<1>11. CASE Save(p) BY <1>11 DEF Save, SaveRegistry, OnlyActive, End, Forget
<1>12. CASE SwapFails(p) BY <1>12 DEF SwapFails, End, Forget
<1>13. CASE RefreshNot(p) BY <1>13 DEF RefreshNot, End, Forget
<1>14. CASE Refresh(p)
  <2>1. /\ mem[p].tok \in Token /\ acct[p] \in Accounts /\ Rotate(acct[p], mem[p].tok)
    BY <1>14 DEF Refresh, Shape, LoadShape, Laden, Nowhere, Blob
  <2>2. Fresh(acct[p]) \in Blob /\ Fresh(acct[p]).id = acct[p] BY <2>1, Rotation
  <2> QED BY <1>14, <2>2 DEF Refresh, Goto
<1>15. CASE Rotated(p) BY <1>15 DEF Rotated, StoreSet, End, Forget
<1>16. CASE Materialize(p) BY <1>16 DEF Materialize, Goto, DirOf
<1>17. CASE SessionRefresh(p) BY <1>17 DEF SessionRefresh, DirOf
<1>18. CASE SessionEnds(p) BY <1>18 DEF SessionEnds, Goto, DirOf, Keyed
<1>19. CASE Absorb(p) BY <1>19 DEF Absorb, StoreSet, Goto
<1>20. CASE Drop(p) BY <1>20 DEF Drop, DirOf, End, Forget
<1>21. CASE SyncRead(p)
  <2>1. CASE live = NoBlob BY <1>21, <2>1 DEF SyncRead, End, Forget
  <2>2. CASE live # NoBlob
    <3>1. live \in Blob /\ live.id \in Accounts BY <2>2 DEF Blob
    <3>2. keyring[live.id] # NoBlob => keyring[live.id] \in Blob /\ keyring[live.id].id = live.id
      BY <3>1 DEF Keyed
    <3> QED BY <1>21, <2>2, <3>1, <3>2 DEF SyncRead
  <2> QED BY <2>1, <2>2
<1>22. CASE Migrate(p) BY <1>22 DEF Migrate, StoreSet, Goto
<1>23. CASE Import(p) BY <1>23 DEF Import, StoreSet, Goto
<1>24. CASE LoadRegistry(p) BY <1>24 DEF LoadRegistry, LoadSteps, SaveOf, Goto, End, Forget
<1>25. CASE UpsertSave(p) BY <1>25 DEF UpsertSave, SaveStep, SaveRegistry, Goto, End, Forget
<1>26. CASE MarkSave(p)
  BY <1>26 DEF MarkSave, OnlyActive, SaveStep, SaveRegistry, Goto, End, Forget
<1>27. CASE SettleSave(p) BY <1>27 DEF SettleSave, SaveStep, SaveRegistry, Goto, End, Forget
<1>28. CASE RmCheck(p) BY <1>28 DEF RmCheck, Goto, LiveOf
<1>29. CASE RmLock(p) BY <1>29 DEF RmLock, Goto, LiveOf
<1>30. CASE RmSave(p) BY <1>30 DEF RmSave, SaveStep, SaveRegistry, Goto, End, Forget
<1>31. CASE RmDelete(p) BY <1>31 DEF RmDelete, StoreSet, Goto
<1>32. CASE RmKeyring(p) BY <1>32 DEF RmKeyring, End, Forget
<1>33. CASE Kill(p) BY <1>33 DEF Kill, End, Forget
<1> QED BY <1>1, <1>2, <1>3, <1>4, <1>5, <1>6, <1>7, <1>8, <1>9, <1>10, <1>11, <1>12, <1>13,
           <1>14, <1>15, <1>16, <1>17, <1>18, <1>19, <1>20, <1>21, <1>22, <1>23, <1>24, <1>25,
           <1>26, <1>27, <1>28, <1>29, <1>30, <1>31, <1>32, <1>33 DEF Step, Start

LEMMA OthersKept ==
    ASSUME TypeInv, NEW p \in Procs, Step(p) PROVE \A q \in Procs \ {p} : Shape(q)'
<1> USE Constants
<1>u. \A q \in Procs : Shape(q) BY DEF TypeInv
<1>v. \A q \in Procs : flock = q => pc[q] \in Swapping BY <1>u DEF Shape, FileShape
<1>w. pc[p] \in Swapping => flock = p BY <1>u DEF Shape, FileShape
<1> USE <1>v, <1>w DEF Swapping
<1>1. CASE Start(p)
  BY <1>1, <1>u, Bystander DEF TypeInv, TypeOK, work, files, Start, StartRead, StartSession,
                               StartRemove, StartCapture, StartSync, StartLogin, StartCommand
<1>2. CASE Acquire(p) BY <1>2, <1>u, Bystander DEF TypeInv, TypeOK, work, files, Acquire, Goto
<1>3. CASE Read(p)
  BY <1>3, <1>u, Bystander DEF TypeInv, TypeOK, work, files, Read, Goto, End, Forget, AfterRead,
                               AfterFailure, LiveOf
<1>4. CASE Repair(p)
  BY <1>4, <1>u, Bystander DEF TypeInv, TypeOK, work, files, Repair, Goto, End, Forget,
                               AfterRead, StoreSet
<1>5. CASE Capture(p)
  BY <1>5, <1>u, Bystander DEF TypeInv, TypeOK, work, files, Capture, Goto, End, Forget,
                               AfterCapture, Capturable
<1>6. CASE CaptureSet(p)
  BY <1>6, <1>u, Bystander DEF TypeInv, TypeOK, work, files, CaptureSet, Goto, GoOn, End,
                               Forget, AfterCapture, StoreSet
<1>7. CASE CaptureFails(p)
  BY <1>7, <1>u, Bystander DEF TypeInv, TypeOK, work, files, CaptureFails
<1>8. CASE Lock(p) BY <1>8, <1>u, Bystander DEF TypeInv, TypeOK, work, files, Lock, Goto
<1>9. CASE Write(p) BY <1>9, <1>u, Bystander DEF TypeInv, TypeOK, work, files, Write, Goto
<1>10. CASE Commit(p)
  BY <1>10, <1>u, Bystander DEF TypeInv, TypeOK, work, files, Commit, Goto, Rollback, End,
                                Forget
<1>11. CASE Save(p)
  BY <1>11, <1>u, Bystander DEF TypeInv, TypeOK, work, files, Save, SaveRegistry, OnlyActive,
                                End, Forget
<1>12. CASE SwapFails(p)
  BY <1>12, <1>u, Bystander DEF TypeInv, TypeOK, work, files, SwapFails, End, Forget
<1>13. CASE RefreshNot(p)
  BY <1>13, <1>u, Bystander DEF TypeInv, TypeOK, work, files, RefreshNot, End, Forget
<1>14. CASE Refresh(p) BY <1>14, <1>u, Bystander DEF TypeInv, TypeOK, work, files, Refresh, Goto
<1>15. CASE Rotated(p)
  BY <1>15, <1>u, Bystander DEF TypeInv, TypeOK, work, files, Rotated, StoreSet, End, Forget
<1>16. CASE Materialize(p)
  BY <1>16, <1>u, Bystander DEF TypeInv, TypeOK, work, files, Materialize, Goto, DirOf
<1>17. CASE SessionRefresh(p)
  BY <1>17, <1>u, Bystander DEF TypeInv, TypeOK, work, files, SessionRefresh, DirOf
<1>18. CASE SessionEnds(p)
  BY <1>18, <1>u, Bystander DEF TypeInv, TypeOK, work, files, SessionEnds, Goto, DirOf
<1>19. CASE Absorb(p)
  BY <1>19, <1>u, Bystander DEF TypeInv, TypeOK, work, files, Absorb, StoreSet, Goto
<1>20. CASE Drop(p)
  BY <1>20, <1>u, Bystander DEF TypeInv, TypeOK, work, files, Drop, DirOf, End, Forget
<1>21. CASE SyncRead(p)
  BY <1>21, <1>u, Bystander DEF TypeInv, TypeOK, work, files, SyncRead, End, Forget
<1>22. CASE Migrate(p)
  BY <1>22, <1>u, Bystander DEF TypeInv, TypeOK, work, files, Migrate, StoreSet, Goto
<1>23. CASE Import(p)
  BY <1>23, <1>u, Bystander DEF TypeInv, TypeOK, work, files, Import, StoreSet, Goto
<1>24. CASE LoadRegistry(p)
  BY <1>24, <1>u, Bystander DEF TypeInv, TypeOK, work, files, LoadRegistry, LoadSteps, SaveOf,
                                Goto, End, Forget
<1>25. CASE UpsertSave(p)
  BY <1>25, <1>u, Bystander DEF TypeInv, TypeOK, work, files, UpsertSave, SaveStep,
                                SaveRegistry, Goto, End, Forget
<1>26. CASE MarkSave(p)
  BY <1>26, <1>u, Bystander DEF TypeInv, TypeOK, work, files, MarkSave, OnlyActive, SaveStep,
                                SaveRegistry, Goto, End, Forget
<1>27. CASE SettleSave(p)
  BY <1>27, <1>u, Bystander DEF TypeInv, TypeOK, work, files, SettleSave, SaveStep,
                                SaveRegistry, Goto, End, Forget
<1>28. CASE RmCheck(p)
  BY <1>28, <1>u, Bystander DEF TypeInv, TypeOK, work, files, RmCheck, Goto, LiveOf
<1>29. CASE RmLock(p)
  BY <1>29, <1>u, Bystander DEF TypeInv, TypeOK, work, files, RmLock, Goto, LiveOf
<1>30. CASE RmSave(p)
  BY <1>30, <1>u, Bystander DEF TypeInv, TypeOK, work, files, RmSave, SaveStep, SaveRegistry,
                                Goto, End, Forget
<1>31. CASE RmDelete(p)
  BY <1>31, <1>u, Bystander DEF TypeInv, TypeOK, work, files, RmDelete, StoreSet, Goto
<1>32. CASE RmKeyring(p)
  BY <1>32, <1>u, Bystander DEF TypeInv, TypeOK, work, files, RmKeyring, End, Forget
<1>33. CASE Kill(p)
  BY <1>33, <1>u, Bystander DEF TypeInv, TypeOK, work, files, Kill, End, Forget
<1> QED BY <1>1, <1>2, <1>3, <1>4, <1>5, <1>6, <1>7, <1>8, <1>9, <1>10, <1>11, <1>12, <1>13,
           <1>14, <1>15, <1>16, <1>17, <1>18, <1>19, <1>20, <1>21, <1>22, <1>23, <1>24, <1>25,
           <1>26, <1>27, <1>28, <1>29, <1>30, <1>31, <1>32, <1>33 DEF Step, Start

LEMMA KeyedKept == ASSUME TypeInv, NEW p \in Procs, Step(p) PROVE Keyed'
<1> USE Constants DEF TypeInv, TypeOK, Keyed, files, server, MaybeBlob, Dirs, DirOf,
                      Shape, LoadShape, FileShape, Laden, Nowhere
<1>1. CASE Start(p)
  BY <1>1 DEF Start, StartRead, StartSession, StartRemove, StartCapture, StartSync, StartLogin,
              StartCommand
<1>2. CASE Acquire(p) BY <1>2 DEF Acquire, Goto
<1>3. CASE Read(p) BY <1>3 DEF Read, Goto, End, Forget, AfterRead, AfterFailure, LiveOf
<1>4. CASE Repair(p) BY <1>4 DEF Repair, Goto, End, Forget, AfterRead, StoreSet
<1>5. CASE Capture(p) BY <1>5 DEF Capture, Goto, End, Forget, AfterCapture, Capturable
<1>6. CASE CaptureSet(p) BY <1>6 DEF CaptureSet, Goto, GoOn, End, Forget, AfterCapture, StoreSet
<1>7. CASE CaptureFails(p) BY <1>7 DEF CaptureFails
<1>8. CASE Lock(p) BY <1>8 DEF Lock, Goto
<1>9. CASE Write(p) BY <1>9 DEF Write, Goto
<1>10. CASE Commit(p) BY <1>10 DEF Commit, Goto, Rollback, End, Forget
<1>11. CASE Save(p) BY <1>11 DEF Save, SaveRegistry, OnlyActive, End, Forget
<1>12. CASE SwapFails(p) BY <1>12 DEF SwapFails, End, Forget
<1>13. CASE RefreshNot(p) BY <1>13 DEF RefreshNot, End, Forget
<1>14. CASE Refresh(p)
  <2>1. /\ mem[p].tok \in Token /\ acct[p] \in Accounts /\ Rotate(acct[p], mem[p].tok)
    BY <1>14 DEF Refresh, Nowhere, Laden, MaybeBlob, Blob
  <2>2. UNCHANGED <<store, keyring, env>> BY <1>14 DEF Refresh
  <2> QED BY <2>1, <2>2, Rotation
<1>15. CASE Rotated(p) BY <1>15 DEF Rotated, StoreSet, End, Forget
<1>16. CASE Materialize(p) BY <1>16 DEF Materialize, Goto, DirOf
<1>17. CASE SessionRefresh(p)
  <2>1. /\ env[DirOf(p)].tok \in Token /\ acct[p] \in Accounts
        /\ Rotate(acct[p], env[DirOf(p)].tok)
    BY <1>17 DEF SessionRefresh, Nowhere, Blob
  <2>2. /\ UNCHANGED <<store, keyring>> /\ DirOf(p)[1] = acct[p]
        /\ env' = [env EXCEPT ![DirOf(p)] = Fresh(acct[p])]
    BY <1>17 DEF SessionRefresh, DirOf
  <2> QED BY <2>1, <2>2, Rotation
<1>18. CASE SessionEnds(p) BY <1>18 DEF SessionEnds, Goto, DirOf
<1>19. CASE Absorb(p) BY <1>19 DEF Absorb, StoreSet, Goto
<1>20. CASE Drop(p) BY <1>20 DEF Drop, DirOf, End, Forget
<1>21. CASE SyncRead(p) BY <1>21 DEF SyncRead, End, Forget
<1>22. CASE Migrate(p) BY <1>22 DEF Migrate, StoreSet, Goto
<1>23. CASE Import(p) BY <1>23 DEF Import, StoreSet, Goto
<1>24. CASE LoadRegistry(p) BY <1>24 DEF LoadRegistry, LoadSteps, SaveOf, Goto, End, Forget
<1>25. CASE UpsertSave(p) BY <1>25 DEF UpsertSave, SaveStep, SaveRegistry, Goto, End, Forget
<1>26. CASE MarkSave(p)
  BY <1>26 DEF MarkSave, OnlyActive, SaveStep, SaveRegistry, Goto, End, Forget
<1>27. CASE SettleSave(p) BY <1>27 DEF SettleSave, SaveStep, SaveRegistry, Goto, End, Forget
<1>28. CASE RmCheck(p) BY <1>28 DEF RmCheck, Goto, LiveOf
<1>29. CASE RmLock(p) BY <1>29 DEF RmLock, Goto, LiveOf
<1>30. CASE RmSave(p) BY <1>30 DEF RmSave, SaveStep, SaveRegistry, Goto, End, Forget
<1>31. CASE RmDelete(p) BY <1>31 DEF RmDelete, StoreSet, Goto
<1>32. CASE RmKeyring(p) BY <1>32 DEF RmKeyring, End, Forget
<1>33. CASE Kill(p) BY <1>33 DEF Kill, End, Forget
<1> QED BY <1>1, <1>2, <1>3, <1>4, <1>5, <1>6, <1>7, <1>8, <1>9, <1>10, <1>11, <1>12, <1>13,
           <1>14, <1>15, <1>16, <1>17, <1>18, <1>19, <1>20, <1>21, <1>22, <1>23, <1>24, <1>25,
           <1>26, <1>27, <1>28, <1>29, <1>30, <1>31, <1>32, <1>33 DEF Step, Start

\* Every step but the start of a command, and taking a directory, notes what it costs.
LEMMA Noted ==
    ASSUME TypeInv, NEW p \in Procs, Step(p), ~Start(p), ~Acquire(p)
    PROVE  \E because \in [Accounts -> SUBSET Whys] : Note(because)
<1> USE DEF Whys
<1>e. Nothing \in [Accounts -> SUBSET Whys] BY DEF Nothing
<1>f. \A a, why : why \in Whys => For(a, why) \in [Accounts -> SUBSET Whys] BY DEF For
<1>1. CASE Read(p) BY <1>1, <1>e DEF Read
<1>2. CASE Repair(p) BY <1>2, <1>e DEF Repair
<1>3. CASE Capture(p)
  <2>1. Unmanaged(p) \in [Accounts -> SUBSET Whys] BY <1>e, <1>f DEF Unmanaged
  <2> QED BY <1>3, <2>1 DEF Capture
<1>4. CASE CaptureSet(p) BY <1>4, <1>e DEF CaptureSet
<1>5. CASE CaptureFails(p) BY <1>5, <1>f DEF CaptureFails
<1>6. CASE Lock(p) BY <1>6, <1>e DEF Lock
<1>7. CASE Write(p)
  <2>1. Overtaken(p) \in [Accounts -> SUBSET Whys] BY <1>e, <1>f DEF Overtaken
  <2> QED BY <1>7, <2>1 DEF Write
<1>8. CASE Commit(p)
  <2>1. (IF pc'[p] = "Idle" THEN Undone(p) ELSE Nothing) \in [Accounts -> SUBSET Whys]
    BY <1>e, <1>f DEF Undone
  <2> QED BY <1>8, <2>1 DEF Commit
<1>9. CASE Save(p) BY <1>9, <1>e DEF Save
<1>10. CASE SwapFails(p)
  <2>1. Undone(p) \in [Accounts -> SUBSET Whys] BY <1>e, <1>f DEF Undone
  <2> QED BY <1>10, <2>1 DEF SwapFails
<1>11. CASE RefreshNot(p) BY <1>11, <1>e DEF RefreshNot
<1>12. CASE Refresh(p) BY <1>12, <1>e DEF Refresh
<1>13. CASE Rotated(p) BY <1>13, <1>e DEF Rotated
<1>14. CASE Materialize(p)
  <2>1. Shared(p) \in [Accounts -> SUBSET Whys] BY <1>e, <1>f DEF Shared
  <2> QED BY <1>14, <2>1 DEF Materialize
<1>15. CASE SessionRefresh(p) BY <1>15, <1>e DEF SessionRefresh
<1>16. CASE SessionEnds(p) BY <1>16, <1>e DEF SessionEnds
<1>17. CASE Absorb(p) BY <1>17, <1>e DEF Absorb
<1>18. CASE Drop(p)
  <2>1. Shared(p) \in [Accounts -> SUBSET Whys] BY <1>e, <1>f DEF Shared
  <2> QED BY <1>18, <2>1 DEF Drop
<1>19. CASE SyncRead(p) BY <1>19, <1>e DEF SyncRead
<1>20. CASE Migrate(p) BY <1>20, <1>e DEF Migrate
<1>21. CASE Import(p) BY <1>21, <1>e DEF Import
<1>22. CASE LoadRegistry(p) BY <1>22, <1>e DEF LoadRegistry
<1>23. CASE UpsertSave(p) BY <1>23, <1>e DEF UpsertSave, SaveStep
<1>24. CASE MarkSave(p) BY <1>24, <1>e DEF MarkSave, SaveStep
<1>25. CASE SettleSave(p) BY <1>25, <1>e DEF SettleSave, SaveStep
<1>26. CASE RmCheck(p) BY <1>26, <1>e DEF RmCheck
<1>27. CASE RmLock(p) BY <1>27, <1>e DEF RmLock
<1>28. CASE RmSave(p) BY <1>28, <1>e DEF RmSave, SaveStep
<1>29. CASE RmDelete(p) BY <1>29, <1>e DEF RmDelete
<1>30. CASE RmKeyring(p) BY <1>30, <1>e DEF RmKeyring
<1>31. CASE Kill(p)
  <2>1. [a \in Accounts |-> IF a \in Holds(p) THEN {"fault"} ELSE {}] \in [Accounts -> SUBSET Whys]
    OBVIOUS
  <2> QED BY <1>31, <2>1 DEF Kill
<1> QED BY <1>1, <1>2, <1>3, <1>4, <1>5, <1>6, <1>7, <1>8, <1>9, <1>10, <1>11, <1>12, <1>13,
           <1>14, <1>15, <1>16, <1>17, <1>18, <1>19, <1>20, <1>21, <1>22, <1>23, <1>24, <1>25,
           <1>26, <1>27, <1>28, <1>29, <1>30, <1>31 DEF Step, Start

LEMMA BooleansTyped ==
    ASSUME TypeInv, NEW p \in Procs, Step(p)
    PROVE  clobbered' \in BOOLEAN /\ agree' \in BOOLEAN /\ parked' \in [Procs -> BOOLEAN]
<1>b. clobbered \in BOOLEAN /\ agree \in BOOLEAN /\ parked \in [Procs -> BOOLEAN]
  BY DEF TypeInv, TypeOK
<1>1. CASE Start(p)
  BY <1>1, <1>b DEF ghosts, work, Start, StartRead, StartSession, StartRemove, StartCapture,
                    StartSync, StartLogin, StartCommand
<1>2. CASE Acquire(p) BY <1>2, <1>b DEF ghosts, work, Acquire, Goto
<1>3. CASE Read(p)
  BY <1>3, <1>b DEF ghosts, work, Read, Goto, End, Forget, AfterRead, AfterFailure, LiveOf
<1>4. CASE Repair(p)
  BY <1>4, <1>b DEF ghosts, work, Repair, Goto, End, Forget, AfterRead, StoreSet
<1>5. CASE Capture(p)
  BY <1>5, <1>b DEF ghosts, work, Capture, Goto, End, Forget, AfterCapture, Capturable
<1>6. CASE CaptureSet(p)
  BY <1>6, <1>b DEF ghosts, work, CaptureSet, Goto, GoOn, End, Forget, AfterCapture, StoreSet
<1>7. CASE CaptureFails(p) BY <1>7, <1>b DEF ghosts, work, CaptureFails
<1>8. CASE Lock(p) BY <1>8, <1>b DEF ghosts, work, Lock, Goto
<1>9. CASE Write(p) BY <1>9, <1>b DEF ghosts, work, Write, Goto
<1>10. CASE Commit(p) BY <1>10, <1>b DEF ghosts, work, Commit, Goto, Rollback, End, Forget
<1>11. CASE Save(p) BY <1>11, <1>b DEF ghosts, work, Save, SaveRegistry, OnlyActive, End, Forget
<1>12. CASE SwapFails(p) BY <1>12, <1>b DEF ghosts, work, SwapFails, End, Forget
<1>13. CASE RefreshNot(p) BY <1>13, <1>b DEF ghosts, work, RefreshNot, End, Forget
<1>14. CASE Refresh(p) BY <1>14, <1>b DEF ghosts, work, Refresh, Goto
<1>15. CASE Rotated(p) BY <1>15, <1>b DEF ghosts, work, Rotated, StoreSet, End, Forget
<1>16. CASE Materialize(p) BY <1>16, <1>b DEF ghosts, work, Materialize, Goto, DirOf
<1>17. CASE SessionRefresh(p) BY <1>17, <1>b DEF ghosts, work, SessionRefresh, DirOf
<1>18. CASE SessionEnds(p) BY <1>18, <1>b DEF ghosts, work, SessionEnds, Goto, DirOf
<1>19. CASE Absorb(p) BY <1>19, <1>b DEF ghosts, work, Absorb, StoreSet, Goto
<1>20. CASE Drop(p) BY <1>20, <1>b DEF ghosts, work, Drop, DirOf, End, Forget
<1>21. CASE SyncRead(p) BY <1>21, <1>b DEF ghosts, work, SyncRead, End, Forget
<1>22. CASE Migrate(p) BY <1>22, <1>b DEF ghosts, work, Migrate, StoreSet, Goto
<1>23. CASE Import(p) BY <1>23, <1>b DEF ghosts, work, Import, StoreSet, Goto
<1>24. CASE LoadRegistry(p)
  BY <1>24, <1>b DEF ghosts, work, LoadRegistry, LoadSteps, SaveOf, Goto, End, Forget
<1>25. CASE UpsertSave(p)
  BY <1>25, <1>b DEF ghosts, work, UpsertSave, SaveStep, SaveRegistry, Goto, End, Forget
<1>26. CASE MarkSave(p)
  BY <1>26, <1>b DEF ghosts, work, MarkSave, OnlyActive, SaveStep, SaveRegistry, Goto, End,
                     Forget
<1>27. CASE SettleSave(p)
  BY <1>27, <1>b DEF ghosts, work, SettleSave, SaveStep, SaveRegistry, Goto, End, Forget
<1>28. CASE RmCheck(p) BY <1>28, <1>b DEF ghosts, work, RmCheck, Goto, LiveOf
<1>29. CASE RmLock(p) BY <1>29, <1>b DEF ghosts, work, RmLock, Goto, LiveOf
<1>30. CASE RmSave(p)
  BY <1>30, <1>b DEF ghosts, work, RmSave, SaveStep, SaveRegistry, Goto, End, Forget
<1>31. CASE RmDelete(p) BY <1>31, <1>b DEF ghosts, work, RmDelete, StoreSet, Goto
<1>32. CASE RmKeyring(p) BY <1>32, <1>b DEF ghosts, work, RmKeyring, End, Forget
<1>33. CASE Kill(p) BY <1>33, <1>b DEF ghosts, work, Kill, End, Forget
<1> QED BY <1>1, <1>2, <1>3, <1>4, <1>5, <1>6, <1>7, <1>8, <1>9, <1>10, <1>11, <1>12, <1>13,
           <1>14, <1>15, <1>16, <1>17, <1>18, <1>19, <1>20, <1>21, <1>22, <1>23, <1>24, <1>25,
           <1>26, <1>27, <1>28, <1>29, <1>30, <1>31, <1>32, <1>33 DEF Step, Start

LEMMA FlagsTyped == ASSUME TypeInv, NEW p \in Procs, Step(p) PROVE FlagTypes'
<1>1. blame' \in [Accounts -> SUBSET Whys]
  <2>1. blame \in [Accounts -> SUBSET Whys] BY DEF TypeInv, TypeOK, Whys
  <2>2. CASE Start(p)
    BY <2>1, <2>2 DEF Start, StartRead, StartSession, StartRemove, StartCapture, StartSync,
                      StartLogin, StartCommand, ghosts
  <2>3. CASE Acquire(p) BY <2>1, <2>3 DEF Acquire, ghosts
  <2>4. CASE ~Start(p) /\ ~Acquire(p) BY <2>1, <2>4, Noted, NoteType
  <2> QED BY <2>2, <2>3, <2>4
<1> QED BY <1>1, BooleansTyped DEF FlagTypes

LEMMA NativeKept ==
    ASSUME TypeInv, NativeRefresh \/ NativeStrip \/ \E a \in Accounts : NativeLogin(a)
    PROVE  TypeInv'
<1> USE Constants
<1>1. UNCHANGED <<store, keyring, registry, flock, env, pc, cmd, acct, work, commands, faults,
                  clobbered>>
      /\ natives < MaxNative /\ natives' = natives + 1
  BY DEF NativeRefresh, NativeStrip, NativeLogin, Native
<1>2. /\ valid' \in [Accounts -> SUBSET Token] /\ issued' \in [Accounts -> Token]
      /\ \A b \in Accounts : valid'[b] \subseteq 1 .. issued'[b]
      /\ live' \in MaybeBlob
  <2>1. CASE NativeRefresh
    <3>1. live.id \in Accounts /\ live.tok \in Token /\ Rotate(live.id, live.tok)
      BY <2>1 DEF NativeRefresh, Usable, TypeInv, TypeOK, MaybeBlob, Blob
    <3> QED BY <2>1, <3>1, Rotation DEF NativeRefresh, MaybeBlob
  <2>2. CASE NativeStrip
    <3>1. live \in Blob /\ None \in Token
      BY <2>2 DEF NativeStrip, TypeInv, TypeOK, MaybeBlob, None, Token
    <3>2. [live EXCEPT !.tok = None] \in Blob BY <3>1 DEF Blob
    <3> QED BY <2>2, <3>2 DEF NativeStrip, TypeInv, TypeOK, Keyed, MaybeBlob, server
  <2>3. ASSUME NEW a \in Accounts, NativeLogin(a)
        PROVE  /\ valid' \in [Accounts -> SUBSET Token] /\ issued' \in [Accounts -> Token]
               /\ \A b \in Accounts : valid'[b] \subseteq 1 .. issued'[b]
               /\ live' \in MaybeBlob
    <3>1. valid \in [Accounts -> SUBSET Token] /\ issued \in [Accounts -> Token] /\ MaxTokens \in Nat
          /\ \A b \in Accounts : valid[b] \subseteq 1 .. issued[b]
      BY DEF TypeInv, TypeOK, Keyed
    <3>2. /\ issued[a] < MaxTokens /\ issued' = [issued EXCEPT ![a] = @ + 1]
          /\ valid' = [valid EXCEPT ![a] = @ \cup {issued[a] + 1}] /\ live' = Fresh(a)
      BY <2>3 DEF NativeLogin
    <3>3. issued[a] \in Nat /\ issued[a] + 1 \in Token /\ issued[a] + 1 >= 1
      BY <3>1, <3>2 DEF Token
    <3>4. live' \in Blob BY <3>2, <3>3 DEF Fresh, Blob
    <3>5. valid' \in [Accounts -> SUBSET Token] /\ issued' \in [Accounts -> Token]
      BY <3>1, <3>2, <3>3
    <3>6. valid'[a] = valid[a] \cup {issued[a] + 1} /\ issued'[a] = issued[a] + 1
          /\ \A b \in Accounts \ {a} : valid'[b] = valid[b] /\ issued'[b] = issued[b]
      BY <3>1, <3>2
    <3>7. \A b \in Accounts : valid'[b] \subseteq 1 .. issued'[b]
      BY <3>1, <3>3, <3>6 DEF Token
    <3> QED BY <3>4, <3>5, <3>7 DEF MaybeBlob
  <2> QED BY <2>1, <2>2, <2>3
<1>3. natives' \in 0 .. MaxNative BY <1>1 DEF TypeInv, TypeOK
<1>4. agree' \in BOOLEAN BY DEF NativeRefresh, NativeStrip, NativeLogin, TypeInv, TypeOK
<1>5. blame' \in [Accounts -> SUBSET Whys]
  <2>1. blame \in [Accounts -> SUBSET Whys] BY DEF TypeInv, TypeOK, Whys
  <2>2. /\ Nothing \in [Accounts -> SUBSET Whys]
        /\ For(live.id, "stripped") \in [Accounts -> SUBSET Whys]
    BY DEF Nothing, For, Whys
  <2> QED BY <2>1, <2>2, NoteType DEF NativeRefresh, NativeStrip, NativeLogin
<1>6. \A p \in Procs : Shape(p)'
  BY <1>1 DEF TypeInv, Shape, CommandShape, LoadShape, FileShape, work
<1>7. TypeOK'
  BY <1>1, <1>2, <1>3, <1>4, <1>5 DEF TypeInv, TypeOK, Whys, work
<1> QED BY <1>1, <1>2, <1>6, <1>7 DEF TypeInv, Keyed

LEMMA TypeNext == TypeInv /\ [Next]_vars => TypeInv'
<1> SUFFICES ASSUME TypeInv, [Next]_vars PROVE TypeInv' OBVIOUS
<1>1. ASSUME NEW p \in Procs, Step(p) PROVE TypeInv'
  <2>1. TypeOK'
    BY <1>1, TypeParts, FilesTyped, StepsTyped, CopiesTyped, BoundsTyped, FlagsTyped
       DEF TypeOK, FileTypes, StepTypes, CopyTypes, BoundTypes, FlagTypes, Whys
  <2> QED BY <1>1, <2>1, ShapeKept, OthersKept, KeyedKept DEF TypeInv
<1>2. CASE NativeRefresh \/ NativeStrip \/ \E a \in Accounts : NativeLogin(a)
  BY <1>2, NativeKept
<1>3. CASE UNCHANGED vars
  BY <1>3 DEF TypeInv, TypeOK, Keyed, Shape, CommandShape, LoadShape, FileShape,
              vars, server, files, work, bounds, ghosts
<1> QED BY <1>1, <1>2, <1>3 DEF Next

\* Every variable keeps to its values, whatever commands run side by side.
THEOREM TypesHold == Spec => []TypeOK
<1>1. Spec => []TypeInv BY TypeInit, TypeNext, PTL DEF Spec
<1>2. TypeInv => TypeOK BY DEF TypeInv
<1> QED BY <1>1, <1>2, PTL

-----------------------------------------------------------------------------
(* What a step may change                                                     *)

\* A step is its own command's.
LEMMA OthersStay ==
    ASSUME TypeInv, NEW p \in Procs, Step(p), NEW q \in Procs \ {p}
    PROVE  /\ pc'[q] = pc[q] /\ cmd'[q] = cmd[q] /\ acct'[q] = acct[q]
           /\ mem'[q] = mem[q] /\ cap'[q] = cap[q] /\ back'[q] = back[q]
<1> USE DEF TypeInv, TypeOK, work
<1>1. CASE Start(p)
  BY <1>1 DEF Start, StartRead, StartSession, StartRemove, StartCapture, StartSync, StartLogin,
              StartCommand
<1>2. CASE Acquire(p) BY <1>2 DEF Acquire, Goto
<1>3. CASE Read(p) BY <1>3 DEF Read, Goto, End, Forget, AfterRead, AfterFailure, LiveOf
<1>4. CASE Repair(p) BY <1>4 DEF Repair, Goto, End, Forget, AfterRead, StoreSet
<1>5. CASE Capture(p) BY <1>5 DEF Capture, Goto, End, Forget, AfterCapture, Capturable
<1>6. CASE CaptureSet(p) BY <1>6 DEF CaptureSet, Goto, GoOn, End, Forget, AfterCapture, StoreSet
<1>7. CASE CaptureFails(p) BY <1>7 DEF CaptureFails
<1>8. CASE Lock(p) BY <1>8 DEF Lock, Goto
<1>9. CASE Write(p) BY <1>9 DEF Write, Goto
<1>10. CASE Commit(p) BY <1>10 DEF Commit, Goto, Rollback, End, Forget
<1>11. CASE Save(p) BY <1>11 DEF Save, SaveRegistry, OnlyActive, End, Forget
<1>12. CASE SwapFails(p) BY <1>12 DEF SwapFails, End, Forget
<1>13. CASE RefreshNot(p) BY <1>13 DEF RefreshNot, End, Forget
<1>14. CASE Refresh(p) BY <1>14 DEF Refresh, Goto
<1>15. CASE Rotated(p) BY <1>15 DEF Rotated, StoreSet, End, Forget
<1>16. CASE Materialize(p) BY <1>16 DEF Materialize, Goto, DirOf
<1>17. CASE SessionRefresh(p) BY <1>17 DEF SessionRefresh, DirOf
<1>18. CASE SessionEnds(p) BY <1>18 DEF SessionEnds, Goto, DirOf
<1>19. CASE Absorb(p) BY <1>19 DEF Absorb, StoreSet, Goto
<1>20. CASE Drop(p) BY <1>20 DEF Drop, DirOf, End, Forget
<1>21. CASE SyncRead(p) BY <1>21 DEF SyncRead, End, Forget
<1>22. CASE Migrate(p) BY <1>22 DEF Migrate, StoreSet, Goto
<1>23. CASE Import(p) BY <1>23 DEF Import, StoreSet, Goto
<1>24. CASE LoadRegistry(p) BY <1>24 DEF LoadRegistry, LoadSteps, SaveOf, Goto, End, Forget
<1>25. CASE UpsertSave(p) BY <1>25 DEF UpsertSave, SaveStep, SaveRegistry, Goto, End, Forget
<1>26. CASE MarkSave(p)
  BY <1>26 DEF MarkSave, OnlyActive, SaveStep, SaveRegistry, Goto, End, Forget
<1>27. CASE SettleSave(p) BY <1>27 DEF SettleSave, SaveStep, SaveRegistry, Goto, End, Forget
<1>28. CASE RmCheck(p) BY <1>28 DEF RmCheck, Goto, LiveOf
<1>29. CASE RmLock(p) BY <1>29 DEF RmLock, Goto, LiveOf
<1>30. CASE RmSave(p) BY <1>30 DEF RmSave, SaveStep, SaveRegistry, Goto, End, Forget
<1>31. CASE RmDelete(p) BY <1>31 DEF RmDelete, StoreSet, Goto
<1>32. CASE RmKeyring(p) BY <1>32 DEF RmKeyring, End, Forget
<1>33. CASE Kill(p) BY <1>33 DEF Kill, End, Forget
<1> QED BY <1>1, <1>2, <1>3, <1>4, <1>5, <1>6, <1>7, <1>8, <1>9, <1>10, <1>11, <1>12, <1>13,
           <1>14, <1>15, <1>16, <1>17, <1>18, <1>19, <1>20, <1>21, <1>22, <1>23, <1>24, <1>25,
           <1>26, <1>27, <1>28, <1>29, <1>30, <1>31, <1>32, <1>33 DEF Step, Start

\* Few steps write to the files ...
LEMMA FileSteps ==
    ASSUME NEW p \in Procs, Step(p)
    PROVE  /\ \/ live' = live
              \/ Write(p) \/ Commit(p) \/ SwapFails(p) \/ RmLock(p)
           /\ \/ store' = store
              \/ Repair(p) \/ CaptureSet(p) \/ Rotated(p) \/ Absorb(p) \/ Migrate(p) \/ Import(p)
              \/ RmDelete(p)
           /\ keyring' = keyring \/ RmKeyring(p)
           /\ valid' = valid \/ Refresh(p) \/ SessionRefresh(p)
           /\ \/ registry' = registry /\ clobbered' = clobbered
              \/ Save(p) \/ UpsertSave(p) \/ MarkSave(p) \/ SettleSave(p) \/ RmSave(p)
<1> USE DEF server, files, ghosts
<1>1. CASE Start(p)
  BY <1>1 DEF Start, StartRead, StartSession, StartRemove, StartCapture, StartSync, StartLogin,
              StartCommand
<1>2. CASE Acquire(p) BY <1>2 DEF Acquire
<1>3. CASE Read(p) BY <1>3 DEF Read
<1>4. CASE Repair(p) BY <1>4 DEF Repair
<1>5. CASE Capture(p) BY <1>5 DEF Capture
<1>6. CASE CaptureSet(p) BY <1>6 DEF CaptureSet
<1>7. CASE CaptureFails(p) BY <1>7 DEF CaptureFails
<1>8. CASE Lock(p) BY <1>8 DEF Lock
<1>9. CASE Write(p) BY <1>9 DEF Write
<1>10. CASE Commit(p) BY <1>10 DEF Commit
<1>11. CASE Save(p) BY <1>11 DEF Save
<1>12. CASE SwapFails(p) BY <1>12 DEF SwapFails
<1>13. CASE RefreshNot(p) BY <1>13 DEF RefreshNot
<1>14. CASE Refresh(p) BY <1>14 DEF Refresh
<1>15. CASE Rotated(p) BY <1>15 DEF Rotated
<1>16. CASE Materialize(p) BY <1>16 DEF Materialize
<1>17. CASE SessionRefresh(p) BY <1>17 DEF SessionRefresh
<1>18. CASE SessionEnds(p) BY <1>18 DEF SessionEnds
<1>19. CASE Absorb(p) BY <1>19 DEF Absorb
<1>20. CASE Drop(p) BY <1>20 DEF Drop
<1>21. CASE SyncRead(p) BY <1>21 DEF SyncRead
<1>22. CASE Migrate(p) BY <1>22 DEF Migrate
<1>23. CASE Import(p) BY <1>23 DEF Import
<1>24. CASE LoadRegistry(p) BY <1>24 DEF LoadRegistry
<1>25. CASE UpsertSave(p) BY <1>25 DEF UpsertSave, SaveStep
<1>26. CASE MarkSave(p) BY <1>26 DEF MarkSave, SaveStep
<1>27. CASE SettleSave(p) BY <1>27 DEF SettleSave, SaveStep
<1>28. CASE RmCheck(p) BY <1>28 DEF RmCheck
<1>29. CASE RmLock(p) BY <1>29 DEF RmLock
<1>30. CASE RmSave(p) BY <1>30 DEF RmSave, SaveStep
<1>31. CASE RmDelete(p) BY <1>31 DEF RmDelete
<1>32. CASE RmKeyring(p) BY <1>32 DEF RmKeyring
<1>33. CASE Kill(p) BY <1>33 DEF Kill
<1> QED BY <1>1, <1>2, <1>3, <1>4, <1>5, <1>6, <1>7, <1>8, <1>9, <1>10, <1>11, <1>12, <1>13,
           <1>14, <1>15, <1>16, <1>17, <1>18, <1>19, <1>20, <1>21, <1>22, <1>23, <1>24, <1>25,
           <1>26, <1>27, <1>28, <1>29, <1>30, <1>31, <1>32, <1>33 DEF Step, Start

\* ... or the private directories.
LEMMA EnvSteps ==
    ASSUME NEW p \in Procs, Step(p)
    PROVE  env' = env \/ Acquire(p) \/ Materialize(p) \/ SessionRefresh(p) \/ Drop(p)
<1> USE DEF files
<1>1. CASE Start(p)
  BY <1>1 DEF Start, StartRead, StartSession, StartRemove, StartCapture, StartSync, StartLogin,
              StartCommand
<1>2. CASE Acquire(p) BY <1>2 DEF Acquire
<1>3. CASE Read(p) BY <1>3 DEF Read
<1>4. CASE Repair(p) BY <1>4 DEF Repair
<1>5. CASE Capture(p) BY <1>5 DEF Capture
<1>6. CASE CaptureSet(p) BY <1>6 DEF CaptureSet
<1>7. CASE CaptureFails(p) BY <1>7 DEF CaptureFails
<1>8. CASE Lock(p) BY <1>8 DEF Lock
<1>9. CASE Write(p) BY <1>9 DEF Write
<1>10. CASE Commit(p) BY <1>10 DEF Commit
<1>11. CASE Save(p) BY <1>11 DEF Save
<1>12. CASE SwapFails(p) BY <1>12 DEF SwapFails
<1>13. CASE RefreshNot(p) BY <1>13 DEF RefreshNot
<1>14. CASE Refresh(p) BY <1>14 DEF Refresh
<1>15. CASE Rotated(p) BY <1>15 DEF Rotated
<1>16. CASE Materialize(p) BY <1>16 DEF Materialize
<1>17. CASE SessionRefresh(p) BY <1>17 DEF SessionRefresh
<1>18. CASE SessionEnds(p) BY <1>18 DEF SessionEnds
<1>19. CASE Absorb(p) BY <1>19 DEF Absorb
<1>20. CASE Drop(p) BY <1>20 DEF Drop
<1>21. CASE SyncRead(p) BY <1>21 DEF SyncRead
<1>22. CASE Migrate(p) BY <1>22 DEF Migrate
<1>23. CASE Import(p) BY <1>23 DEF Import
<1>24. CASE LoadRegistry(p) BY <1>24 DEF LoadRegistry
<1>25. CASE UpsertSave(p) BY <1>25 DEF UpsertSave, SaveStep
<1>26. CASE MarkSave(p) BY <1>26 DEF MarkSave, SaveStep
<1>27. CASE SettleSave(p) BY <1>27 DEF SettleSave, SaveStep
<1>28. CASE RmCheck(p) BY <1>28 DEF RmCheck
<1>29. CASE RmLock(p) BY <1>29 DEF RmLock
<1>30. CASE RmSave(p) BY <1>30 DEF RmSave, SaveStep
<1>31. CASE RmDelete(p) BY <1>31 DEF RmDelete
<1>32. CASE RmKeyring(p) BY <1>32 DEF RmKeyring
<1>33. CASE Kill(p) BY <1>33 DEF Kill
<1> QED BY <1>1, <1>2, <1>3, <1>4, <1>5, <1>6, <1>7, <1>8, <1>9, <1>10, <1>11, <1>12, <1>13,
           <1>14, <1>15, <1>16, <1>17, <1>18, <1>19, <1>20, <1>21, <1>22, <1>23, <1>24, <1>25,
           <1>26, <1>27, <1>28, <1>29, <1>30, <1>31, <1>32, <1>33 DEF Step, Start

-----------------------------------------------------------------------------
(* Tokens                                                                     *)

\* Nothing that may cost the account its token has happened.
Good(a) == blame[a] = {} /\ ~clobbered

Registered(a) == registry[a] # "absent"

\* A credential that somebody goes on to use.
Held(b) ==
    \/ b = live \/ \E d \in Dirs : b = env[d]
    \/ \E q \in Procs : b = mem[q] \/ b = cap[q] \/ b = back[q]

HeldValid == \A b \in Blob : Held(b) /\ Good(b.id) => b.tok \in valid[b.id]

\* Only a command on a registered account contends with its removal.
OnlyStarted == \A a \in Accounts : Good(a) /\ Contended(a) => Registered(a)

Removed(a) == \E q \in Procs : acct[q] = a /\ pc[q] \in {"RmDelete", "RmKeyring"}

\* What is left of an account that is not registered is about to be removed, or
\* to be registered.
Absent(a) ==
    /\ \A q \in Procs :
          /\ acct[q] = a =>
                pc[q] \in {"RmDelete", "RmKeyring", "Import", "UpsertLoad", "UpsertSave", "MarkLoad"}
          /\ pc[q] = "CaptureSet" => cap[q].id # a
    /\ keyring[a] # NoBlob => Removed(a)
    /\ store[a] # NoBlob =>
          \E q \in Procs : acct[q] = a /\ pc[q] \in {"RmDelete", "UpsertLoad", "UpsertSave"}

AbsentInv ==
    \A a \in Accounts :
        Good(a) => (~Registered(a) => Absent(a)) /\ (Removed(a) => ~Registered(a))

\* An account whose token must not be lost: registered and not under removal,
\* or imported.
Managed(a) ==
    \/ Registered(a) /\ ~\E q \in Procs : cmd[q] = "rm" /\ acct[q] = a
    \/ \E q \in Procs : acct[q] = a /\ pc[q] \in {"UpsertLoad", "UpsertSave"}

\* A command is going to store a token of the account.
Flying(a) ==
    \E q \in Procs :
        /\ acct[q] = a
        /\ \/ pc[q] \in {"Rotated", "Absorb", "Import"}
           \/ pc[q] = "Session" /\ env[DirOf(q)] \in Blob

Backed(a) == Usable(store[a]) \/ Flying(a)

\* A swap activates a credential that is stored.
SwapStored ==
    \A q \in Procs :
        /\ cmd[q] = "swap" /\ pc[q] \in {"Capture", "CaptureSet", "Lock", "Write", "Commit", "Save"}
        /\ Good(acct[q])
        => store[acct[q]] # NoBlob

\* What a swap is to overwrite is stored, or is not what it has captured.
Kept(q) ==
    pc[q] \in {"Lock", "Write"} /\ cap[q] # NoBlob /\ Good(cap[q].id) /\ Managed(cap[q].id) =>
        Backed(cap[q].id) \/ (LiveOf(cap[q].id) /\ live # cap[q])

\* What a failed swap takes back is stored, or was there before.
Written(q) ==
    pc[q] \in {"Write", "Commit", "Save"} /\ Good(acct[q]) /\ Managed(acct[q]) =>
        Backed(acct[q]) \/ live # mem[q] \/ live = back[q]

\* The token is in the live file, or in the store, or about to be stored, or
\* where it was before there was a store.
Healthy(a) ==
    Good(a) /\ Managed(a) =>
        LiveOf(a) \/ Backed(a) \/ (store[a] = NoBlob /\ Usable(keyring[a]))

TokenInv ==
    /\ TypeInv /\ HeldValid /\ OnlyStarted /\ AbsentInv /\ SwapStored
    /\ \A q \in Procs : Kept(q) /\ Written(q)
    /\ \A a \in Accounts : Healthy(a)

LEMMA ClobberedStays ==
    ASSUME NEW p \in Procs, Step(p), ~clobbered'
    PROVE  /\ ~clobbered
           /\ Save(p) \/ UpsertSave(p) \/ MarkSave(p) \/ SettleSave(p) \/ RmSave(p) =>
                 registry = reg[p]
BY FileSteps DEF Save, UpsertSave, MarkSave, SettleSave, RmSave, SaveStep, SaveRegistry

LEMMA NotedStays ==
    ASSUME NEW a \in Accounts, NEW because \in [Accounts -> SUBSET Whys], Note(because),
           blame'[a] = {}
    PROVE  blame[a] = {} /\ because[a] = {} /\ ~Divided(a)' /\ ~Contended(a)'
<1>1. blame'[a] = blame[a] \cup because[a]
                  \cup (IF Divided(a)' THEN {"divided"} ELSE {})
                  \cup (IF Contended(a)' THEN {"contended"} ELSE {})
  BY DEF Note
<1> QED BY <1>1

\* An account that nothing has cost its token has not cost it before.
LEMMA GoodBefore ==
    ASSUME TypeInv, NEW p \in Procs, Step(p), NEW a \in Accounts, Good(a)'
    PROVE  /\ Good(a)
           /\ Start(p) \/ Acquire(p) \/ (~Divided(a)' /\ ~Contended(a)')
           /\ pc[p] \notin {"Idle", "Acquire"} => ~Divided(a)' /\ ~Contended(a)'
<1>1. CASE Start(p)
  BY <1>1 DEF Start, StartRead, StartSession, StartRemove, StartCapture, StartSync, StartLogin,
              StartCommand, ghosts, Good
<1>2. CASE Acquire(p) BY <1>2 DEF Acquire, ghosts, Good
<1>3. CASE ~Start(p) /\ ~Acquire(p)
  <2>1. PICK because \in [Accounts -> SUBSET Whys] : Note(because) BY <1>3, Noted
  <2> QED BY <1>3, <2>1, NotedStays, ClobberedStays DEF Good
<1> QED BY <1>1, <1>2, <1>3

\* With one token of an account that is good, all that are held of it are.
LEMMA Undivided ==
    ASSUME NEW b \in Blob, NEW c \in Blob, b.id = c.id, Held(b)', Held(c)', ~Divided(b.id)',
           c.tok \in valid'[c.id]
    PROVE  b.tok \in valid'[b.id]
<1>1. ASSUME NEW x \in Blob, Held(x)' PROVE x \in Working(x.id)'
  BY <1>1, Constants DEF Held, Working
<1> QED BY <1>1 DEF Divided

\* Nobody but who reads a file or has a new token gets hold of another credential.
LEMMA HeldBefore ==
    ASSUME TypeInv, NEW p \in Procs, Step(p), ~Refresh(p), ~SessionRefresh(p), ~Read(p), ~SyncRead(p),
           NEW b \in Blob, Held(b)'
    PROVE  Held(b)
<1> USE Constants DEF TypeInv, TypeOK, Held, work, files
<1>1. CASE Start(p)
  BY <1>1 DEF Start, StartRead, StartSession, StartRemove, StartCapture, StartSync, StartLogin,
              StartCommand
<1>2. CASE Acquire(p) BY <1>2 DEF Acquire, Goto
<1>3. CASE Repair(p) BY <1>3 DEF Repair, Goto, End, Forget, AfterRead, StoreSet
<1>4. CASE Capture(p) BY <1>4 DEF Capture, Goto, End, Forget, AfterCapture, Capturable
<1>5. CASE CaptureSet(p) BY <1>5 DEF CaptureSet, Goto, GoOn, End, Forget, AfterCapture, StoreSet
<1>6. CASE CaptureFails(p) BY <1>6 DEF CaptureFails
<1>7. CASE Lock(p) BY <1>7 DEF Lock, Goto
<1>8. CASE Write(p) BY <1>8 DEF Write, Goto
<1>9. CASE Commit(p) BY <1>9 DEF Commit, Goto, Rollback, End, Forget
<1>10. CASE Save(p) BY <1>10 DEF Save, SaveRegistry, OnlyActive, End, Forget
<1>11. CASE SwapFails(p) BY <1>11 DEF SwapFails, End, Forget
<1>12. CASE RefreshNot(p) BY <1>12 DEF RefreshNot, End, Forget
<1>13. CASE Rotated(p) BY <1>13 DEF Rotated, StoreSet, End, Forget
<1>14. CASE Materialize(p) BY <1>14 DEF Materialize, Goto, DirOf
<1>15. CASE SessionEnds(p)
  <2>1. DirOf(p) \in Dirs
    BY <1>15, Constants DEF SessionEnds, DirOf, Dirs, FirstSeq, Shape, LoadShape, Nowhere
  <2> QED BY <1>15, <2>1 DEF SessionEnds, Goto
<1>16. CASE Absorb(p) BY <1>16 DEF Absorb, StoreSet, Goto
<1>17. CASE Drop(p) BY <1>17 DEF Drop, DirOf, End, Forget
<1>18. CASE Migrate(p) BY <1>18 DEF Migrate, StoreSet, Goto
<1>19. CASE Import(p) BY <1>19 DEF Import, StoreSet, Goto
<1>20. CASE LoadRegistry(p) BY <1>20 DEF LoadRegistry, LoadSteps, SaveOf, Goto, End, Forget
<1>21. CASE UpsertSave(p) BY <1>21 DEF UpsertSave, SaveStep, SaveRegistry, Goto, End, Forget
<1>22. CASE MarkSave(p)
  BY <1>22 DEF MarkSave, OnlyActive, SaveStep, SaveRegistry, Goto, End, Forget
<1>23. CASE SettleSave(p) BY <1>23 DEF SettleSave, SaveStep, SaveRegistry, Goto, End, Forget
<1>24. CASE RmCheck(p) BY <1>24 DEF RmCheck, Goto, LiveOf
<1>25. CASE RmLock(p) BY <1>25 DEF RmLock, Goto, LiveOf
<1>26. CASE RmSave(p) BY <1>26 DEF RmSave, SaveStep, SaveRegistry, Goto, End, Forget
<1>27. CASE RmDelete(p) BY <1>27 DEF RmDelete, StoreSet, Goto
<1>28. CASE RmKeyring(p) BY <1>28 DEF RmKeyring, End, Forget
<1>29. CASE Kill(p) BY <1>29 DEF Kill, End, Forget
<1> QED BY <1>1, <1>2, <1>3, <1>4, <1>5, <1>6, <1>7, <1>8, <1>9, <1>10, <1>11, <1>12, <1>13,
           <1>14, <1>15, <1>16, <1>17, <1>18, <1>19, <1>20, <1>21, <1>22, <1>23, <1>24, <1>25,
           <1>26, <1>27, <1>28, <1>29 DEF Step, Start

LEMMA NewToken ==
    ASSUME TokenInv, NEW p \in Procs, Refresh(p) \/ SessionRefresh(p)
    PROVE  /\ acct[p] \in Accounts
           /\ \A b \in Accounts \ {acct[p]} : valid'[b] = valid[b]
           /\ \E f \in Blob :
                 /\ f.id = acct[p] /\ f.tok = issued[acct[p]] + 1 /\ f.tok \in valid'[f.id]
                 /\ Held(f)'
                 /\ \A b : Held(b)' => Held(b) \/ b = f
<1> USE DEF TokenInv, TypeInv
<1>1. Shape(p) OBVIOUS
<1>2. CASE Refresh(p)
  <2>1. /\ mem[p].tok \in Token /\ acct[p] \in Accounts /\ Rotate(acct[p], mem[p].tok)
    BY <1>1, <1>2 DEF Refresh, Shape, LoadShape, Laden, Nowhere, Blob
  <2>2. /\ mem' = [mem EXCEPT ![p] = Fresh(acct[p])]
        /\ UNCHANGED <<live, env, cap, back>>
    BY <1>2 DEF Refresh, files
  <2> DEFINE f == Fresh(acct[p])
  <2>3. mem'[p] = f /\ \A q \in Procs \ {p} : mem'[q] = mem[q]
    BY <2>2 DEF TypeOK
  <2>4. /\ f \in Blob /\ f.id = acct[p] /\ f.tok = issued[acct[p]] + 1 /\ f.tok \in valid'[acct[p]]
        /\ \A b \in Accounts \ {acct[p]} : valid'[b] = valid[b]
    BY <2>1, Rotation
  <2> HIDE DEF f
  <2>5. ASSUME NEW b PROVE /\ b = f => Held(b)'
                           /\ Held(b)' => Held(b) \/ b = f
    BY <2>2, <2>3 DEF Held
  <2> QED BY <2>1, <2>4, <2>5
<1>3. CASE SessionRefresh(p)
  <2>1. /\ env[DirOf(p)].tok \in Token /\ acct[p] \in Accounts
        /\ Rotate(acct[p], env[DirOf(p)].tok)
    BY <1>1, <1>3 DEF SessionRefresh, Shape, LoadShape, Nowhere, Blob
  <2>2. /\ env' = [env EXCEPT ![DirOf(p)] = Fresh(acct[p])] /\ DirOf(p) \in Dirs
        /\ UNCHANGED <<live, mem, cap, back>>
    BY <1>3, <2>1 DEF SessionRefresh, DirOf, Dirs, FirstSeq, work
  <2> DEFINE f == Fresh(acct[p])
             e == DirOf(p)
  <2>3. env'[e] = f /\ \A d \in Dirs \ {e} : env'[d] = env[d]
    BY <2>2 DEF TypeOK
  <2>4. /\ f \in Blob /\ f.id = acct[p] /\ f.tok = issued[acct[p]] + 1 /\ f.tok \in valid'[acct[p]]
        /\ \A b \in Accounts \ {acct[p]} : valid'[b] = valid[b]
    BY <2>1, Rotation
  <2>5. e \in Dirs BY <2>2
  <2> HIDE DEF f, e
  <2>6. ASSUME NEW b PROVE /\ b = f => Held(b)'
                           /\ Held(b)' => Held(b) \/ b = f
    BY <2>2, <2>3, <2>5 DEF Held
  <2> QED BY <2>1, <2>4, <2>6
<1> QED BY <1>2, <1>3

\* What is about to be stored is held.
LEMMA FlyingHeld ==
    ASSUME TypeInv, NEW a \in Accounts, NEW q \in Procs, acct[q] = a,
           \/ pc[q] \in {"Rotated", "Absorb", "Import"}
           \/ pc[q] = "Session" /\ env[DirOf(q)] \in Blob
    PROVE  \E b \in InFlight(a) :
              /\ b \in Blob /\ b.id = a /\ Held(b)
              /\ b = mem[q] \/ (pc[q] = "Session" /\ b = env[DirOf(q)])
<1>1. CASE pc[q] \in {"Rotated", "Absorb", "Import"}
  <2>1. mem[q] \in Blob /\ mem[q].id = a
    BY <1>1 DEF TypeInv, Shape, LoadShape, Laden
  <2>2. mem[q] \in InFlight(a) BY <1>1, <2>1 DEF InFlight
  <2>3. Held(mem[q]) BY DEF Held
  <2> WITNESS mem[q] \in InFlight(a)
  <2> QED BY <2>1, <2>3
<1>2. CASE pc[q] = "Session" /\ env[DirOf(q)] \in Blob
  <2>1. DirOf(q) \in Dirs /\ DirOf(q)[1] = a BY DEF DirOf, Dirs
  <2>2. env[DirOf(q)].id = a BY <1>2, <2>1 DEF TypeInv, Keyed
  <2> QED BY <1>2, <2>1, <2>2 DEF InFlight, Held
<1> QED BY <1>1, <1>2

LEMMA HeldValidKept == ASSUME TokenInv, NEW p \in Procs, Step(p) PROVE HeldValid'
<1> USE DEF TokenInv
<1> SUFFICES ASSUME NEW b \in Blob, Held(b)', Good(b.id)' PROVE b.tok \in valid'[b.id]
  BY DEF HeldValid
<1> DEFINE a == b.id
<1>1. a \in Accounts BY DEF Blob
<1>2. Good(a) /\ (pc[p] \notin {"Idle", "Acquire"} => ~Divided(a)' /\ ~Contended(a)')
  BY <1>1, GoodBefore
<1>3. Held(b) => b.tok \in valid[a] BY <1>2 DEF HeldValid
<1>4. CASE ~Refresh(p) /\ ~SessionRefresh(p) /\ ~Read(p) /\ ~SyncRead(p)
  BY <1>3, <1>4, HeldBefore, FileSteps
<1>5. CASE Refresh(p) \/ SessionRefresh(p)
  <2>1. ~Divided(a)' BY <1>2, <1>5 DEF Refresh, SessionRefresh
  <2>2. CASE a # acct[p] BY <1>1, <1>3, <1>5, <2>2, NewToken
  <2>3. CASE a = acct[p] BY <1>5, <2>1, <2>3, NewToken, Undivided
  <2> QED BY <2>2, <2>3
<1>6. CASE Read(p)
  <2>1. valid' = valid /\ UNCHANGED <<live, env>> /\ pc[p] = "Read" BY <1>6 DEF Read, server, files
  <2>2. ~Divided(a)' /\ ~Contended(a)' BY <1>2, <2>1
  <2>3. CASE Held(b) BY <1>3, <2>1, <2>3
  <2>4. CASE ~Held(b)
    <3>1. acct[p] \in Accounts /\ cmd[p] # "rm"
      BY <2>1 DEF TypeInv, Shape, LoadShape, CommandShape, Nowhere, Removal
    <3>2. /\ acct' = acct /\ cmd' = cmd /\ acct[p] = a /\ ~LiveOf(a)
          /\ \/ store[a] # NoBlob /\ b = store[a]
             \/ store[a] = NoBlob /\ keyring[a] # NoBlob /\ b = keyring[a]
          /\ \A q \in Procs \ {p} : mem'[q] = mem[q]
      <4>1. \/ End(p)
            \/ /\ acct' = acct /\ cmd' = cmd /\ cap' = cap /\ back' = back
               /\ LET c == acct[p] IN
                  \/ LiveOf(c) /\ mem' = [mem EXCEPT ![p] = live]
                  \/ ~LiveOf(c) /\ store[c] # NoBlob /\ mem' = [mem EXCEPT ![p] = store[c]]
                  \/ ~LiveOf(c) /\ store[c] = NoBlob /\ keyring[c] # NoBlob
                        /\ mem' = [mem EXCEPT ![p] = keyring[c]]
                  \/ mem' = [mem EXCEPT ![p] = NoBlob]
        BY <1>6 DEF Read, Goto
      <4>2. ~End(p)
        <5> SUFFICES ASSUME End(p) PROVE FALSE OBVIOUS
        <5> QED BY <2>1, <2>4, Constants DEF End, Forget, Held, TypeInv, TypeOK
      <4>3. mem'[p] = b /\ \A q \in Procs \ {p} : mem'[q] = mem[q]
        BY <2>1, <2>4, <4>1, <4>2 DEF Held, TypeInv, TypeOK
      <4>4. b # NoBlob /\ b # live BY <2>4, Constants DEF Held
      <4>5. /\ store[acct[p]] # NoBlob => store[acct[p]].id = acct[p]
            /\ keyring[acct[p]] # NoBlob => keyring[acct[p]].id = acct[p]
        BY <3>1 DEF TypeInv, Keyed
      <4> QED BY <4>1, <4>2, <4>3, <4>4, <4>5 DEF TypeInv, TypeOK
    <3>3. ~\E q \in Procs : cmd[q] = "rm" /\ acct[q] = a
      BY <2>2, <3>1, <3>2 DEF Contended
    <3>4. Registered(a) BY <1>1, <1>2, <2>1, <3>2 DEF AbsentInv, Absent
    <3>5. Backed(a) \/ (store[a] = NoBlob /\ Usable(keyring[a]))
      BY <1>1, <1>2, <3>2, <3>3, <3>4 DEF Healthy, Managed
    <3>6. CASE Usable(store[a]) BY <2>1, <3>2, <3>6 DEF Usable
    <3>7. CASE Flying(a)
      <4>1. PICK q \in Procs :
               /\ acct[q] = a
               /\ \/ pc[q] \in {"Rotated", "Absorb", "Import"}
                  \/ pc[q] = "Session" /\ env[DirOf(q)] \in Blob
        BY <3>7 DEF Flying
      <4>2. PICK c \in InFlight(a) :
               /\ c \in Blob /\ c.id = a /\ Held(c)
               /\ c = mem[q] \/ (pc[q] = "Session" /\ c = env[DirOf(q)])
        BY <1>1, <4>1, FlyingHeld
      <4>3. c.tok \in valid'[a] BY <1>2, <2>1, <4>2 DEF HeldValid
      <4>4. Held(c)'
        <5>1. q # p BY <2>1, <4>1
        <5>2. CASE c = mem[q] BY <3>2, <5>1, <5>2 DEF Held
        <5>3. CASE pc[q] = "Session" /\ c = env[DirOf(q)]
          <6>1. DirOf(q) \in Dirs BY <1>1, <4>1 DEF DirOf, Dirs
          <6> QED BY <2>1, <5>3, <6>1 DEF Held
        <5> QED BY <4>2, <5>2, <5>3
      <4> QED BY <2>2, <4>2, <4>3, <4>4, Undivided
    <3>8. CASE store[a] = NoBlob /\ Usable(keyring[a]) BY <2>1, <3>2, <3>8 DEF Usable
    <3> QED BY <3>5, <3>6, <3>7, <3>8 DEF Backed
  <2> QED BY <2>3, <2>4
<1>7. CASE SyncRead(p)
  <2>1. valid' = valid /\ UNCHANGED <<live, env>> /\ pc[p] = "SyncRead"
    BY <1>7 DEF SyncRead, server, files
  <2>2. ~Divided(a)' BY <1>2, <2>1
  <2>3. CASE Held(b) BY <1>3, <2>1, <2>3
  <2>4. CASE ~Held(b)
    <3>1. live # NoBlob
      BY <1>7, <2>1, <2>4, Constants DEF SyncRead, End, Forget, Held, TypeInv, TypeOK
    <3>2. live \in Blob /\ live.id \in Accounts BY <3>1 DEF TypeInv, TypeOK, MaybeBlob, Blob
    <3>3. keyring[live.id] # NoBlob /\ b = keyring[live.id]
      <4>1. UNCHANGED <<cap, back>>
            /\ (\/ UNCHANGED mem \/ mem' = [mem EXCEPT ![p] = live]
                \/ keyring[live.id] # NoBlob /\ mem' = [mem EXCEPT ![p] = keyring[live.id]])
        BY <1>7, <3>1 DEF SyncRead
      <4> QED BY <2>1, <2>4, <4>1 DEF Held, TypeInv, TypeOK
    <3>4. live.id = a BY <3>2, <3>3 DEF TypeInv, Keyed
    <3>5. live.tok \in valid'[a] /\ Held(live)'
      BY <1>2, <2>1, <3>2, <3>4 DEF HeldValid, Held
    <3> QED BY <2>1, <2>2, <3>2, <3>4, <3>5, Undivided
  <2> QED BY <2>3, <2>4
<1> QED BY <1>4, <1>5, <1>6, <1>7

LEMMA OnlyStartedKept == ASSUME TokenInv, NEW p \in Procs, Step(p) PROVE OnlyStarted'
<1> USE DEF TokenInv
<1> SUFFICES ASSUME NEW a \in Accounts, Good(a)', Contended(a)' PROVE Registered(a)'
  BY DEF OnlyStarted
<1>1. Good(a) /\ (Start(p) \/ Acquire(p)) BY GoodBefore
<1>2. registry' = registry
  BY <1>1 DEF Start, StartRead, StartSession, StartRemove, StartCapture, StartSync, StartLogin,
              StartCommand, Acquire, files
<1>3. CASE Contended(a) BY <1>1, <1>2, <1>3 DEF OnlyStarted, Registered
<1>4. CASE ~Contended(a)
  <2>1. CASE acct'[p] = a /\ acct[p] # a
    <3>1. Start(p)
      BY <1>1, <2>1 DEF Acquire, Goto
    <3>2. registry[a] # "absent"
      BY <2>1, <3>1, Constants DEF Start, StartRead, StartSession, StartRemove, StartCapture,
         StartSync, StartLogin, StartCommand, TypeInv, TypeOK
    <3> QED BY <1>2, <3>2 DEF Registered
  <2>2. CASE ~(acct'[p] = a /\ acct[p] # a)
    <3>1. mem'[p] = mem[p] /\ cap'[p] = cap[p] /\ (acct'[p] = a => cmd'[p] = cmd[p] /\ acct[p] = a)
      <4>1. CASE Start(p)
        BY <2>2, <4>1, Constants DEF Start, StartRead, StartSession, StartRemove, StartCapture,
           StartSync, StartLogin, StartCommand, TypeInv, TypeOK, Shape, LoadShape
      <4>2. CASE Acquire(p) BY <4>2 DEF Acquire, Goto, work
      <4> QED BY <1>1, <4>1, <4>2
    <3>2. Contended(a)
      <4>1. \A q \in Procs \ {p} : cmd'[q] = cmd[q] /\ acct'[q] = acct[q] /\ mem'[q] = mem[q]
                                  /\ cap'[q] = cap[q]
        BY OthersStay
      <4> QED BY <3>1, <4>1 DEF Contended
    <3> QED BY <1>4, <3>2
  <2> QED BY <2>1, <2>2
<1> QED BY <1>3, <1>4

\* Which steps a command may take from where it is ...
LEMMA From ==
    ASSUME NEW p \in Procs, Step(p)
    PROVE  /\ pc[p] = "Rotated" => Rotated(p) \/ Kill(p)
           /\ pc[p] = "Absorb" => Absorb(p) \/ Kill(p)
           /\ pc[p] = "Session" => SessionRefresh(p) \/ SessionEnds(p) \/ Kill(p)
           /\ pc[p] = "Import" => Import(p) \/ Kill(p)
           /\ pc[p] \in {"UpsertLoad", "MarkLoad"} => LoadRegistry(p) \/ Kill(p)
           /\ pc[p] = "UpsertSave" => UpsertSave(p) \/ Kill(p)
           /\ pc[p] = "MarkSave" => MarkSave(p) \/ Kill(p)
           /\ pc[p] = "RmCheck" => RmCheck(p) \/ Kill(p)
           /\ pc[p] = "RmLock" => RmLock(p) \/ Kill(p)
           /\ pc[p] = "RmLoad" => LoadRegistry(p) \/ Kill(p)
           /\ pc[p] = "RmSave" => RmSave(p) \/ Kill(p)
           /\ pc[p] = "RmDelete" => RmDelete(p) \/ Kill(p)
           /\ pc[p] = "RmKeyring" => RmKeyring(p) \/ Kill(p)
<1>1. CASE Start(p)
  BY <1>1 DEF Start, StartRead, StartSession, StartRemove, StartCapture, StartSync, StartLogin,
              StartCommand
<1>2. CASE Acquire(p) BY <1>2 DEF Acquire
<1>3. CASE Read(p) BY <1>3 DEF Read
<1>4. CASE Repair(p) BY <1>4 DEF Repair
<1>5. CASE Capture(p) BY <1>5 DEF Capture
<1>6. CASE CaptureSet(p) BY <1>6 DEF CaptureSet
<1>7. CASE CaptureFails(p) BY <1>7 DEF CaptureFails
<1>8. CASE Lock(p) BY <1>8 DEF Lock
<1>9. CASE Write(p) BY <1>9 DEF Write
<1>10. CASE Commit(p) BY <1>10 DEF Commit
<1>11. CASE Save(p) BY <1>11 DEF Save
<1>12. CASE SwapFails(p) BY <1>12 DEF SwapFails
<1>13. CASE RefreshNot(p) BY <1>13 DEF RefreshNot
<1>14. CASE Refresh(p) BY <1>14 DEF Refresh
<1>15. CASE Rotated(p) BY <1>15 DEF Rotated
<1>16. CASE Materialize(p) BY <1>16 DEF Materialize
<1>17. CASE SessionRefresh(p) BY <1>17 DEF SessionRefresh
<1>18. CASE SessionEnds(p) BY <1>18 DEF SessionEnds
<1>19. CASE Absorb(p) BY <1>19 DEF Absorb
<1>20. CASE Drop(p) BY <1>20 DEF Drop
<1>21. CASE SyncRead(p) BY <1>21 DEF SyncRead
<1>22. CASE Migrate(p) BY <1>22 DEF Migrate
<1>23. CASE Import(p) BY <1>23 DEF Import
<1>24. CASE LoadRegistry(p) BY <1>24 DEF LoadRegistry, LoadSteps
<1>25. CASE UpsertSave(p) BY <1>25 DEF UpsertSave, SaveStep
<1>26. CASE MarkSave(p) BY <1>26 DEF MarkSave, SaveStep
<1>27. CASE SettleSave(p) BY <1>27 DEF SettleSave, SaveStep
<1>28. CASE RmCheck(p) BY <1>28 DEF RmCheck
<1>29. CASE RmLock(p) BY <1>29 DEF RmLock
<1>30. CASE RmSave(p) BY <1>30 DEF RmSave, SaveStep
<1>31. CASE RmDelete(p) BY <1>31 DEF RmDelete
<1>32. CASE RmKeyring(p) BY <1>32 DEF RmKeyring
<1>33. CASE Kill(p) BY <1>33 DEF Kill
<1> QED BY <1>1, <1>2, <1>3, <1>4, <1>5, <1>6, <1>7, <1>8, <1>9, <1>10, <1>11, <1>12, <1>13,
           <1>14, <1>15, <1>16, <1>17, <1>18, <1>19, <1>20, <1>21, <1>22, <1>23, <1>24, <1>25,
           <1>26, <1>27, <1>28, <1>29, <1>30, <1>31, <1>32, <1>33 DEF Step, Start

\* ... and which take it there.
LEMMA Into ==
    ASSUME TypeInv, NEW p \in Procs, Step(p)
    PROVE  /\ pc'[p] \in {"RmDelete", "RmKeyring"} => RmSave(p) \/ RmDelete(p)
           /\ pc'[p] \in {"UpsertLoad", "UpsertSave"} => Import(p) \/ pc[p] = "UpsertLoad"
           /\ pc'[p] = "Capture" => Start(p) \/ Read(p) \/ Repair(p)
           /\ pc'[p] = "CaptureSet" => Capture(p)
           /\ pc'[p] = "Lock" => Capture(p) \/ CaptureSet(p) \/ CaptureFails(p)
           /\ pc'[p] = "Write" => Lock(p)
           /\ pc'[p] = "Commit" => Write(p)
           /\ pc'[p] = "Save" => Commit(p)
           /\ pc'[p] \in {"MarkLoad", "MarkSave"} =>
                 UpsertSave(p) \/ SyncRead(p) \/ Migrate(p) \/ pc[p] = "MarkLoad"
           /\ acct'[p] \notin {acct[p], NoAccount} => Start(p) \/ SyncRead(p)
           /\ cmd'[p] \notin {cmd[p], "none"} => Start(p)
           /\ cmd'[p] # cmd[p] => Start(p) \/ (acct'[p] = NoAccount /\ pc'[p] = "Idle")
<1> USE DEF TypeInv, TypeOK
<1>1. CASE Start(p)
  BY <1>1 DEF Start, StartRead, StartSession, StartRemove, StartCapture, StartSync, StartLogin,
              StartCommand
<1>2. CASE Acquire(p) BY <1>2 DEF Acquire, Goto
<1>3. CASE Read(p)
  <2>1. \/ End(p)
        \/ Goto(p, "Repair") \/ Goto(p, AfterRead(p)) \/ Goto(p, AfterFailure(p))
    BY <1>3 DEF Read
  <2> QED BY <1>3, <2>1 DEF End, Goto, AfterRead, AfterFailure
<1>4. CASE Repair(p) BY <1>4 DEF Repair, Goto, End, Forget, AfterRead, StoreSet
<1>5. CASE Capture(p) BY <1>5 DEF Capture, Goto, End, Forget, AfterCapture, Capturable
<1>6. CASE CaptureSet(p) BY <1>6 DEF CaptureSet, Goto, GoOn, End, Forget, AfterCapture, StoreSet
<1>7. CASE CaptureFails(p) BY <1>7 DEF CaptureFails
<1>8. CASE Lock(p) BY <1>8 DEF Lock, Goto
<1>9. CASE Write(p) BY <1>9 DEF Write, Goto
<1>10. CASE Commit(p) BY <1>10 DEF Commit, Goto, Rollback, End, Forget
<1>11. CASE Save(p) BY <1>11 DEF Save, SaveRegistry, OnlyActive, End, Forget
<1>12. CASE SwapFails(p) BY <1>12 DEF SwapFails, End, Forget
<1>13. CASE RefreshNot(p) BY <1>13 DEF RefreshNot, End, Forget
<1>14. CASE Refresh(p) BY <1>14 DEF Refresh, Goto
<1>15. CASE Rotated(p) BY <1>15 DEF Rotated, StoreSet, End, Forget
<1>16. CASE Materialize(p) BY <1>16 DEF Materialize, Goto, DirOf
<1>17. CASE SessionRefresh(p) BY <1>17 DEF SessionRefresh, DirOf
<1>18. CASE SessionEnds(p) BY <1>18 DEF SessionEnds, Goto, DirOf
<1>19. CASE Absorb(p) BY <1>19 DEF Absorb, StoreSet, Goto
<1>20. CASE Drop(p) BY <1>20 DEF Drop, DirOf, End, Forget
<1>21. CASE SyncRead(p) BY <1>21 DEF SyncRead, End, Forget
<1>22. CASE Migrate(p) BY <1>22 DEF Migrate, StoreSet, Goto
<1>23. CASE Import(p) BY <1>23 DEF Import, StoreSet, Goto
<1>24. CASE LoadRegistry(p) BY <1>24 DEF LoadRegistry, LoadSteps, SaveOf, Goto, End, Forget
<1>25. CASE UpsertSave(p) BY <1>25 DEF UpsertSave, SaveStep, SaveRegistry, Goto, End, Forget
<1>26. CASE MarkSave(p)
  BY <1>26 DEF MarkSave, OnlyActive, SaveStep, SaveRegistry, Goto, End, Forget
<1>27. CASE SettleSave(p) BY <1>27 DEF SettleSave, SaveStep, SaveRegistry, Goto, End, Forget
<1>28. CASE RmCheck(p) BY <1>28 DEF RmCheck, Goto, LiveOf
<1>29. CASE RmLock(p) BY <1>29 DEF RmLock, Goto, LiveOf
<1>30. CASE RmSave(p) BY <1>30 DEF RmSave, SaveStep, SaveRegistry, Goto, End, Forget
<1>31. CASE RmDelete(p) BY <1>31 DEF RmDelete, StoreSet, Goto
<1>32. CASE RmKeyring(p) BY <1>32 DEF RmKeyring, End, Forget
<1>33. CASE Kill(p) BY <1>33 DEF Kill, End, Forget
<1> QED BY <1>1, <1>2, <1>3, <1>4, <1>5, <1>6, <1>7, <1>8, <1>9, <1>10, <1>11, <1>12, <1>13,
           <1>14, <1>15, <1>16, <1>17, <1>18, <1>19, <1>20, <1>21, <1>22, <1>23, <1>24, <1>25,
           <1>26, <1>27, <1>28, <1>29, <1>30, <1>31, <1>32, <1>33 DEF Step, Start

\* With the registry it was loaded from, a save registers an account, or removes one.
LEMMA Registering ==
    ASSUME TypeInv, NEW p \in Procs, Step(p), ~clobbered', NEW a \in Accounts
    PROVE  /\ Registered(a) /\ ~Registered(a)' => RmSave(p) /\ acct[p] = a
           /\ ~Registered(a) /\ Registered(a)' => UpsertSave(p) /\ acct[p] = a
           /\ UpsertSave(p) /\ acct[p] = a => Registered(a)'
<1> USE DEF TypeInv, TypeOK, Registered, Registry, Mark
<1>1. CASE registry' = registry
  <2>1. UpsertSave(p) => registry' = [reg[p] EXCEPT ![acct[p]] = "active"] /\ reg[p] \in Registry
    BY DEF UpsertSave, SaveStep, SaveRegistry, Shape, FileShape
  <2> QED BY <1>1, <2>1
<1>2. CASE Save(p) \/ MarkSave(p)
  <2>1. /\ registry' = OnlyActive(registry, acct[p]) /\ registry[acct[p]] # "absent"
        /\ ~UpsertSave(p)
    BY <1>2, ClobberedStays DEF Save, MarkSave, UpsertSave, SaveStep, SaveRegistry, Shape, FileShape
  <2> QED BY <2>1 DEF OnlyActive
<1>3. CASE UpsertSave(p)
  <2>1. registry' = [registry EXCEPT ![acct[p]] = "active"]
    BY <1>3, ClobberedStays DEF UpsertSave, SaveStep, SaveRegistry
  <2> QED BY <1>3, <2>1
<1>4. CASE SettleSave(p)
  <2>1. registry' = registry
    BY <1>4, ClobberedStays DEF SettleSave, SaveStep, SaveRegistry
  <2> QED BY <1>1, <2>1
<1>5. CASE RmSave(p)
  <2>1. registry' = [registry EXCEPT ![acct[p]] = "absent"] /\ ~UpsertSave(p)
    BY <1>5, ClobberedStays DEF RmSave, UpsertSave, SaveStep, SaveRegistry
  <2> QED BY <1>5, <2>1
<1> QED BY <1>1, <1>2, <1>3, <1>4, <1>5, FileSteps

\* Who is killed loses what it holds.
LEMMA Killed ==
    ASSUME NEW p \in Procs, Kill(p), NEW a \in Accounts, Good(a)'
    PROVE  acct[p] # a /\ \A b \in {mem[p], cap[p], back[p]} : b # NoBlob => b.id # a
<1> DEFINE because == [c \in Accounts |-> IF c \in Holds(p) THEN {"fault"} ELSE {}]
<1>1. because \in [Accounts -> SUBSET Whys] BY DEF Whys
<1>2. Note(because) BY DEF Kill
<1>3. because[a] = {} BY <1>1, <1>2, NotedStays DEF Good
<1> QED BY <1>3 DEF Holds

LEMMA AbsentKept == ASSUME TokenInv, NEW p \in Procs, Step(p) PROVE AbsentInv'
<1> USE DEF TokenInv
<1> SUFFICES ASSUME NEW a \in Accounts, Good(a)'
             PROVE  /\ ~Registered(a)' => Absent(a)'
                    /\ Removed(a)' => ~Registered(a)'
  BY DEF AbsentInv
<1> DEFINE left == {"RmDelete", "RmKeyring", "Import", "UpsertLoad", "UpsertSave", "MarkLoad"}
<1>1. Good(a) /\ (pc[p] \notin {"Idle", "Acquire"} => ~Divided(a)' /\ ~Contended(a)')
      /\ ~clobbered'
  BY GoodBefore DEF Good
<1>2. TypeInv' BY TypeNext DEF Next
<1>3. (~Registered(a) => Absent(a)) /\ (Removed(a) => ~Registered(a)) BY <1>1 DEF AbsentInv
<1>4. ASSUME Removed(a)' PROVE ~Registered(a)'
  <2>1. PICK q \in Procs : acct'[q] = a /\ pc'[q] \in {"RmDelete", "RmKeyring"}
    BY <1>4 DEF Removed
  <2>2. CASE q = p
    <3>1. CASE RmSave(p)
      <4>1. acct[p] = a /\ registry' = [reg[p] EXCEPT ![acct[p]] = "absent"] /\ reg[p] \in Registry
        BY <2>1, <2>2, <3>1 DEF RmSave, SaveStep, SaveRegistry, Goto, TypeInv, Shape, FileShape
      <4> QED BY <4>1 DEF Registered, Registry
    <3>2. CASE RmDelete(p)
      <4>1. acct[p] = a /\ pc[p] = "RmDelete" /\ registry' = registry
        BY <2>1, <2>2, <3>2 DEF RmDelete, Goto
      <4> QED BY <1>3, <4>1 DEF Removed, Registered
    <3> QED BY <2>1, <2>2, <3>1, <3>2, Into
  <2>3. CASE q # p
    <3>1. acct[q] = a /\ pc[q] \in {"RmDelete", "RmKeyring"} /\ cmd'[q] = cmd[q]
      BY <2>1, <2>3, OthersStay
    <3>2. cmd'[q] = "rm" BY <3>1 DEF TypeInv, Shape, CommandShape, Removal
    <3>3. ~Registered(a) BY <1>3, <3>1 DEF Removed
    <3>4. SUFFICES ASSUME Registered(a)' PROVE FALSE OBVIOUS
    <3>5. UpsertSave(p) /\ acct[p] = a BY <1>1, <3>3, <3>4, Registering
    <3>6. acct'[p] = a /\ pc[p] = "UpsertSave" BY <3>5 DEF UpsertSave, SaveStep, Goto
    <3> QED BY <1>1, <2>1, <2>3, <3>2, <3>6 DEF Contended
  <2> QED BY <2>2, <2>3
<1>5. ASSUME ~Registered(a)', Registered(a) PROVE Absent(a)'
  <2>1. RmSave(p) /\ acct[p] = a BY <1>1, <1>5, Registering
  <2>2. acct'[p] = a /\ pc'[p] = "RmDelete" /\ cmd'[p] = cmd[p] /\ pc[p] = "RmSave"
    BY <2>1 DEF RmSave, SaveStep, Goto, TypeInv, TypeOK
  <2>3. cmd'[p] = "rm" BY <2>2 DEF TypeInv, Shape, CommandShape, Removal
  <2>4. \A q \in Procs \ {p} : acct'[q] # a /\ (cap'[q] # NoBlob => cap'[q].id # a)
    BY <1>1, <2>2, <2>3 DEF Contended
  <2>5. \A q \in Procs : pc'[q] = "CaptureSet" => cap'[q] # NoBlob
    BY <1>2, Constants DEF TypeInv, Shape, LoadShape
  <2> QED BY <2>2, <2>4, <2>5 DEF Absent, Removed
<1>6. ASSUME ~Registered(a)', ~Registered(a) PROVE Absent(a)'
  <2>1. Absent(a) BY <1>3, <1>6
  <2>2. \A q \in Procs \ {p} : acct'[q] = acct[q] /\ pc'[q] = pc[q] /\ cap'[q] = cap[q]
    BY OthersStay
  <2>3. acct[p] = a => ~Kill(p) BY Killed
  <2>4. ~(UpsertSave(p) /\ acct[p] = a) BY <1>1, <1>6, Registering
  <2>5. acct[p] = a => pc[p] \in left BY <2>1 DEF Absent
  <2>6. ASSUME acct'[p] = a PROVE pc'[p] \in left
    <3>1. CASE Start(p)
      BY <1>6, <2>6, <3>1, Constants DEF Start, StartRead, StartSession, StartRemove, StartCapture,
         StartSync, StartLogin, StartCommand, TypeInv, TypeOK, Registered
    <3>2. CASE SyncRead(p)
      <4>1. /\ pc[p] = "SyncRead" /\ live # NoBlob /\ live.id = a
            /\ pc'[p] \in {"MarkLoad", "Import", "Migrate"}
            /\ pc'[p] = "Migrate" => keyring[a] # NoBlob
        BY <2>6, <3>2, Constants DEF SyncRead, End, TypeInv, TypeOK
      <4>2. SUFFICES ASSUME pc'[p] = "Migrate" PROVE FALSE BY <4>1
      <4>3. PICK q \in Procs : acct[q] = a /\ pc[q] \in {"RmDelete", "RmKeyring"}
        BY <2>1, <4>1, <4>2 DEF Absent, Removed
      <4>4. q # p /\ cmd[q] = "rm" BY <4>1, <4>3 DEF TypeInv, Shape, CommandShape, Removal
      <4>5. cmd'[q] = "rm" /\ acct'[q] = a BY <4>3, <4>4, OthersStay
      <4> QED BY <1>1, <2>6, <4>1, <4>4, <4>5 DEF Contended
    <3>3. CASE ~Start(p) /\ ~SyncRead(p)
      <4>1. acct[p] = a BY <2>6, <3>3, Into, Constants
      <4>2. pc[p] \in left BY <2>5, <4>1
      <4>3. RmDelete(p) \/ RmKeyring(p) \/ Import(p) \/ LoadRegistry(p)
        BY <2>3, <2>4, <4>1, <4>2, From
      <4>4. pc'[p] \in {"RmKeyring", "UpsertLoad", "UpsertSave", "MarkSave"} \/ acct'[p] = NoAccount
        BY <4>2, <4>3 DEF RmDelete, RmKeyring, Import, LoadRegistry, LoadSteps, SaveOf, Goto, End,
           TypeInv, TypeOK
      <4>5. ~(LoadRegistry(p) /\ pc[p] = "MarkLoad" /\ acct'[p] = a)
        BY <1>6, <4>1, Constants DEF LoadRegistry, End, Registered, TypeInv, TypeOK
      <4>6. pc'[p] # "MarkSave"
        BY <2>6, <4>2, <4>3, <4>5 DEF RmDelete, RmKeyring, Import, LoadRegistry, LoadSteps, SaveOf,
           Goto, End, TypeInv, TypeOK
      <4> QED BY <2>6, <4>4, <4>6, Constants
    <3> QED BY <3>1, <3>2, <3>3
  <2>7. ASSUME pc'[p] = "CaptureSet" PROVE cap'[p].id # a
    <3>1. Capture(p) BY <2>7, Into
    <3>2. Capturable /\ cap' = [cap EXCEPT ![p] = live]
      BY <2>7, <3>1 DEF Capture, Goto, End, AfterCapture, TypeInv, TypeOK
    <3> QED BY <1>6, <3>2 DEF Capturable, Registered, TypeInv, TypeOK
  <2>8. ASSUME keyring'[a] # NoBlob PROVE Removed(a)'
    <3>1. keyring[a] # NoBlob /\ ~(RmKeyring(p) /\ acct[p] = a)
      BY <2>8, FileSteps DEF RmKeyring, TypeInv, TypeOK
    <3>2. PICK q \in Procs : acct[q] = a /\ pc[q] \in {"RmDelete", "RmKeyring"}
      BY <2>1, <3>1 DEF Absent, Removed
    <3>3. CASE q # p BY <2>2, <3>2, <3>3 DEF Removed
    <3>4. CASE q = p
      <4>1. RmDelete(p) BY <2>3, <3>1, <3>2, <3>4, From
      <4> QED BY <3>2, <3>4, <4>1 DEF RmDelete, Goto, Removed, TypeInv, TypeOK
    <3> QED BY <3>3, <3>4
  <2>9. ASSUME store'[a] # NoBlob
        PROVE  \E q \in Procs : acct'[q] = a /\ pc'[q] \in {"RmDelete", "UpsertLoad", "UpsertSave"}
    <3>1. CASE store[a] # NoBlob
      <4>1. PICK q \in Procs : acct[q] = a /\ pc[q] \in {"RmDelete", "UpsertLoad", "UpsertSave"}
        BY <2>1, <3>1 DEF Absent
      <4>2. CASE q # p BY <2>2, <4>1, <4>2
      <4>3. CASE q = p
        <5>1. ~RmDelete(p) BY <2>9, <4>1, <4>3 DEF RmDelete, StoreSet, TypeInv, TypeOK
        <5>2. LoadRegistry(p) /\ pc[p] = "UpsertLoad"
          BY <2>3, <2>4, <4>1, <4>3, <5>1, From DEF LoadRegistry, UpsertSave, SaveStep, Kill
        <5>3. acct'[p] = a /\ pc'[p] = "UpsertSave"
          BY <4>1, <4>3, <5>2 DEF LoadRegistry, SaveOf, Goto, TypeInv, TypeOK
        <5> QED BY <5>3
      <4> QED BY <4>2, <4>3
    <3>2. CASE store[a] = NoBlob
      <4>1. store' # store BY <2>9, <3>2
      <4>2. CASE Import(p) /\ acct[p] = a
        BY <4>2 DEF Import, Goto, TypeInv, TypeOK
      <4>3. CASE CaptureSet(p)
        <5>1. cap[p].id = a
          BY <2>9, <3>2, <4>3 DEF CaptureSet, StoreSet, TypeInv, TypeOK
        <5> QED BY <2>1, <4>3, <5>1 DEF CaptureSet, Absent
      <4>4. CASE Repair(p) \/ Rotated(p) \/ Absorb(p) \/ Migrate(p) \/ Import(p) \/ RmDelete(p)
        <5>1. acct[p] = a
          BY <2>9, <3>2, <4>4 DEF Repair, Rotated, Absorb, Migrate, Import, RmDelete, StoreSet,
             TypeInv, TypeOK
        <5>2. CASE RmDelete(p) BY <2>9, <5>1, <5>2 DEF RmDelete, StoreSet, TypeInv, TypeOK
        <5>3. CASE Import(p) BY <4>2, <5>1, <5>3
        <5> QED BY <2>5, <4>4, <5>1, <5>2, <5>3 DEF Repair, Rotated, Absorb, Migrate
      <4> QED BY <4>1, <4>3, <4>4, FileSteps
    <3> QED BY <3>1, <3>2
  <2>10. \A q \in Procs : acct'[q] = a => pc'[q] \in left
    BY <2>1, <2>2, <2>6 DEF Absent
  <2>11. \A q \in Procs : pc'[q] = "CaptureSet" => cap'[q].id # a
    BY <2>1, <2>2, <2>7 DEF Absent
  <2> QED BY <2>8, <2>9, <2>10, <2>11 DEF Absent
<1> QED BY <1>4, <1>5, <1>6

LEMMA NotRemoving ==
    ASSUME TypeInv', NEW p \in Procs, NEW a \in Accounts, ~Contended(a)', Managed(a)'
    PROVE  ~(cmd'[p] = "rm" /\ acct'[p] = a)
<1> SUFFICES ASSUME cmd'[p] = "rm", acct'[p] = a PROVE FALSE OBVIOUS
<1>1. PICK q \in Procs : acct'[q] = a /\ pc'[q] \in {"UpsertLoad", "UpsertSave"} BY DEF Managed
<1>2. cmd'[q] # "rm" BY <1>1 DEF TypeInv, Shape, CommandShape, Signing
<1> QED BY <1>1, <1>2 DEF Contended

LEMMA ManagedBefore ==
    ASSUME TokenInv, NEW p \in Procs, Step(p), NEW a \in Accounts, Good(a)', Managed(a)'
    PROVE  Managed(a) \/ (Import(p) /\ acct[p] = a)
<1> USE DEF TokenInv
<1>1. Good(a) /\ ~clobbered' BY GoodBefore DEF Good
<1>2. ASSUME NEW q \in Procs, acct'[q] = a, pc'[q] \in {"UpsertLoad", "UpsertSave"}
      PROVE  Managed(a) \/ (Import(p) /\ acct[p] = a)
  <2>1. CASE q # p BY <1>2, <2>1, OthersStay DEF Managed
  <2>2. CASE q = p
    <3>1. CASE Import(p) BY <1>2, <2>2, <3>1 DEF Import, Goto
    <3>2. CASE pc[p] = "UpsertLoad"
      <4>1. ~Kill(p) BY <1>2, <2>2, Constants DEF Kill, End, TypeInv, TypeOK
      <4>2. LoadRegistry(p) BY <3>2, <4>1, From
      <4>3. acct[p] = a
        BY <1>2, <2>2, <3>2, <4>2, Constants DEF LoadRegistry, Goto, End, TypeInv, TypeOK
      <4> QED BY <3>2, <4>3 DEF Managed
    <3> QED BY <1>2, <2>2, <3>1, <3>2, Into
  <2> QED BY <2>1, <2>2
<1>3. ASSUME Registered(a)', ~\E q \in Procs : cmd'[q] = "rm" /\ acct'[q] = a PROVE Managed(a)
  <2>1. CASE ~Registered(a)
    <3>1. UpsertSave(p) /\ acct[p] = a BY <1>1, <1>3, <2>1, Registering
    <3> QED BY <3>1 DEF Managed, UpsertSave, SaveStep
  <2>2. CASE Registered(a) /\ ~\E q \in Procs : cmd[q] = "rm" /\ acct[q] = a
    BY <2>2 DEF Managed
  <2>3. ASSUME Registered(a), NEW q \in Procs, cmd[q] = "rm", acct[q] = a PROVE FALSE
    <3>1. q = p BY <1>3, <2>3, OthersStay
    <3>2. pc[p] \in Removal BY <2>3, <3>1 DEF TypeInv, Shape, CommandShape
    <3>3. ~Kill(p) BY <2>3, <3>1, Killed
    <3>4. RmCheck(p) \/ RmLock(p) \/ LoadRegistry(p) \/ RmSave(p) \/ RmDelete(p) \/ RmKeyring(p)
      BY <3>2, <3>3, From DEF Removal
    <3>5. RmKeyring(p) \/ LoadRegistry(p)
      BY <1>3, <2>3, <3>1, <3>4 DEF RmCheck, RmLock, RmSave, RmDelete, SaveStep, Goto
    <3>6. CASE RmKeyring(p) BY <1>1, <2>3, <3>1, <3>6 DEF RmKeyring, AbsentInv, Removed
    <3>7. CASE LoadRegistry(p)
      BY <1>3, <2>3, <3>1, <3>7 DEF LoadRegistry, Goto, Registered
    <3> QED BY <3>5, <3>6, <3>7
  <2> QED BY <2>1, <2>2, <2>3
<1> QED BY <1>2, <1>3 DEF Managed

LEMMA FlyingKept ==
    ASSUME TokenInv, NEW p \in Procs, Step(p), NEW a \in Accounts, Good(a)', Flying(a)
    PROVE  Flying(a)' \/ (acct[p] = a /\ (Rotated(p) \/ Absorb(p) \/ Import(p)))
<1> USE DEF TokenInv
<1>1. PICK q \in Procs :
         /\ acct[q] = a
         /\ \/ pc[q] \in {"Rotated", "Absorb", "Import"}
            \/ pc[q] = "Session" /\ env[DirOf(q)] \in Blob
  BY DEF Flying
<1>2. acct[p] = a => ~Kill(p) BY Killed
<1>3. CASE q = p
  <2>1. CASE pc[p] \in {"Rotated", "Absorb", "Import"} BY <1>1, <1>2, <1>3, <2>1, From
  <2>2. CASE pc[p] = "Session" /\ env[DirOf(p)] \in Blob
    <3>1. CASE SessionEnds(p)
      <4>1. acct'[p] = a /\ pc'[p] = "Absorb"
        BY <1>1, <1>3, <2>2, <3>1 DEF SessionEnds, Goto, TypeInv, TypeOK
      <4> QED BY <4>1 DEF Flying
    <3>2. CASE SessionRefresh(p)
      <4>1. /\ env[DirOf(p)].tok \in Token /\ Rotate(a, env[DirOf(p)].tok)
            /\ env' = [env EXCEPT ![DirOf(p)] = Fresh(a)]
            /\ UNCHANGED <<pc, acct>> /\ DirOf(p) \in Dirs /\ DirOf(p)' = DirOf(p)
        BY <1>1, <1>3, <2>2, <3>2 DEF SessionRefresh, DirOf, Dirs, Blob
      <4>2. env'[DirOf(p)] \in Blob BY <4>1, Rotation DEF TypeInv, TypeOK
      <4> QED BY <1>1, <1>3, <2>2, <4>1, <4>2 DEF Flying
    <3> QED BY <1>1, <1>2, <1>3, <2>2, <3>1, <3>2, From
  <2> QED BY <1>1, <1>3, <2>1, <2>2
<1>4. CASE q # p
  <2>1. acct'[q] = a /\ pc'[q] = pc[q] /\ cmd'[q] = cmd[q] BY <1>1, <1>4, OthersStay
  <2>2. CASE pc[q] \in {"Rotated", "Absorb", "Import"} BY <2>1, <2>2 DEF Flying
  <2>3. CASE pc[q] = "Session" /\ env[DirOf(q)] \in Blob
    <3> DEFINE d == DirOf(q)
    <3>1. d \in Dirs /\ d = <<a, FirstSeq>> /\ d = DirOf(q)' BY <1>1, <2>1 DEF DirOf, Dirs
    <3>2. cmd[q] \in {"run", "env"} BY <2>3 DEF TypeInv, Shape, CommandShape
    <3>3. env'[d] \in Blob
      <4>1. CASE env' = env BY <2>3, <4>1
      <4>2. CASE Acquire(p)
        <5>1. env[d] # NoDir BY <2>3, Constants
        <5> QED BY <2>3, <3>1, <4>2, <5>1 DEF Acquire, TypeInv, TypeOK
      <4>3. CASE Materialize(p)
        <5>1. mem[p] \in Blob BY <4>3 DEF Materialize, TypeInv, Shape, LoadShape, Laden
        <5> QED BY <2>3, <3>1, <4>3, <5>1 DEF Materialize, TypeInv, TypeOK
      <4>4. CASE SessionRefresh(p)
        <5>1. /\ acct[p] \in Accounts
              /\ env[DirOf(p)].tok \in Token /\ Rotate(acct[p], env[DirOf(p)].tok)
              /\ env' = [env EXCEPT ![DirOf(p)] = Fresh(acct[p])]
          BY <4>4 DEF SessionRefresh, TypeInv, Shape, LoadShape, Nowhere, Blob
        <5>2. Fresh(acct[p]) \in Blob BY <5>1, Rotation
        <5> QED BY <2>3, <3>1, <5>1, <5>2 DEF TypeInv, TypeOK
      <4>5. CASE Drop(p)
        <5>1. SUFFICES ASSUME DirOf(p) = d PROVE FALSE
          BY <2>3, <3>1, <4>5 DEF Drop, TypeInv, TypeOK
        <5>2. acct[p] = a BY <3>1, <5>1 DEF DirOf
        <5>3. Shared(p) = For(a, "shared") BY <1>4, <3>2, <5>1, <5>2 DEF Shared
        <5>4. For(a, "shared") \in [Accounts -> SUBSET Whys] BY DEF For, Whys
        <5>5. For(a, "shared")[a] = {} BY <4>5, <5>3, <5>4, NotedStays DEF Drop, Good
        <5> QED BY <5>5 DEF For
      <4> QED BY <4>1, <4>2, <4>3, <4>4, <4>5, EnvSteps
    <3> QED BY <2>1, <2>3, <3>1, <3>3 DEF Flying
  <2> QED BY <1>1, <2>2, <2>3
<1> QED BY <1>3, <1>4

\* What is stored is accepted ...
LEMMA Stores ==
    ASSUME TokenInv, NEW p \in Procs, Step(p), NEW a \in Accounts, Good(a)',
           \/ acct[p] = a /\ (Repair(p) \/ Rotated(p) \/ Absorb(p) \/ Migrate(p) \/ Import(p))
           \/ cap[p].id = a /\ CaptureSet(p)
    PROVE  Usable(store[a])'
<1> USE DEF TokenInv
<1>1. PICK b \in Blob : b.id = a /\ Held(b) /\ store' = [store EXCEPT ![a] = b]
  <2>1. CASE CaptureSet(p) /\ cap[p].id = a
    <3>1. cap[p] \in Blob BY <2>1 DEF CaptureSet, TypeInv, Shape, LoadShape
    <3>2. Held(cap[p]) BY DEF Held
    <3> QED BY <2>1, <3>1, <3>2 DEF CaptureSet, StoreSet
  <2>2. CASE acct[p] = a /\ (Repair(p) \/ Rotated(p) \/ Absorb(p) \/ Migrate(p) \/ Import(p))
    <3>1. mem[p] \in Blob /\ mem[p].id = a
      BY <2>2 DEF Repair, Rotated, Absorb, Migrate, Import, TypeInv, Shape, LoadShape, Laden
    <3>2. store' = [store EXCEPT ![a] = mem[p]]
      BY <2>2 DEF Repair, Rotated, Absorb, Migrate, Import, StoreSet
    <3>3. Held(mem[p]) BY DEF Held
    <3> QED BY <3>1, <3>2, <3>3
  <2> QED BY <2>1, <2>2
<1>2. b.tok \in valid[a] BY <1>1, GoodBefore DEF HeldValid
<1>3. valid' = valid
  BY FileSteps DEF Repair, Rotated, Absorb, Migrate, Import, CaptureSet, Refresh, SessionRefresh
<1>4. store'[a] = b BY <1>1 DEF TypeInv, TypeOK
<1> QED BY <1>1, <1>2, <1>3, <1>4, Constants DEF Usable

\* ... and but for a removal nothing else changes what is stored.
LEMMA StoreOf ==
    ASSUME TypeInv, NEW p \in Procs, Step(p), NEW a \in Accounts
    PROVE  \/ store'[a] = store[a]
           \/ acct[p] = a /\ (Repair(p) \/ Rotated(p) \/ Absorb(p) \/ Migrate(p) \/ Import(p))
           \/ cap[p].id = a /\ CaptureSet(p)
           \/ acct[p] = a /\ RmDelete(p)
<1> USE DEF TypeInv, TypeOK, StoreSet
<1>1. CASE CaptureSet(p) BY <1>1 DEF CaptureSet
<1>2. CASE RmDelete(p) BY <1>2 DEF RmDelete
<1>3. CASE Repair(p) \/ Rotated(p) \/ Absorb(p) \/ Migrate(p) \/ Import(p)
  BY <1>3 DEF Repair, Rotated, Absorb, Migrate, Import
<1> QED BY <1>1, <1>2, <1>3, FileSteps

\* A new token is going to be stored.
LEMMA NewTokenFlies ==
    ASSUME TokenInv, NEW p \in Procs, Step(p), NEW a \in Accounts
    PROVE  valid'[a] = valid[a] \/ Flying(a)'
<1> USE DEF TokenInv, TypeInv
<1>1. CASE Refresh(p)
  <2>1. CASE acct[p] = a
    <3>1. acct'[p] = a /\ pc'[p] = "Rotated" BY <1>1, <2>1 DEF Refresh, Goto, TypeOK
    <3> QED BY <3>1 DEF Flying
  <2>2. CASE acct[p] # a BY <1>1, <2>2, NewToken
  <2> QED BY <2>1, <2>2
<1>2. CASE SessionRefresh(p)
  <2>1. CASE acct[p] = a
    <3>1. /\ env[DirOf(p)].tok \in Token /\ Rotate(a, env[DirOf(p)].tok)
          /\ env' = [env EXCEPT ![DirOf(p)] = Fresh(a)]
          /\ UNCHANGED <<pc, acct>> /\ DirOf(p) \in Dirs /\ DirOf(p)' = DirOf(p)
          /\ pc[p] = "Session"
      BY <1>2, <2>1 DEF SessionRefresh, DirOf, Dirs, Blob
    <3>2. env'[DirOf(p)] \in Blob BY <3>1, Rotation DEF TypeOK
    <3> QED BY <2>1, <3>1, <3>2 DEF Flying
  <2>2. CASE acct[p] # a BY <1>2, <2>2, NewToken
  <2> QED BY <2>1, <2>2
<1> QED BY <1>1, <1>2, FileSteps

LEMMA BackedKept ==
    ASSUME TokenInv, NEW p \in Procs, Step(p), NEW a \in Accounts, Good(a)', Managed(a)', Backed(a)
    PROVE  Backed(a)'
<1>0. TypeInv' BY TypeNext DEF Next, TokenInv
<1>1. CASE Flying(a) BY <1>1, FlyingKept, Stores DEF Backed
<1>2. CASE Usable(store[a])
  <2>1. ~(RmDelete(p) /\ acct[p] = a)
    <3> SUFFICES ASSUME RmDelete(p), acct[p] = a PROVE FALSE OBVIOUS
    <3>1. pc[p] = "RmDelete" /\ acct'[p] = a /\ cmd'[p] = cmd[p] BY DEF RmDelete, Goto
    <3>2. cmd'[p] = "rm" BY <3>1 DEF TokenInv, TypeInv, Shape, CommandShape, Removal
    <3>3. ~Contended(a)' BY <3>1, GoodBefore DEF TokenInv
    <3> QED BY <1>0, <3>1, <3>2, <3>3, NotRemoving
  <2>2. CASE store'[a] = store[a] /\ valid'[a] = valid[a]
    <3>1. store[a].id = a BY <1>2 DEF Usable, TokenInv, TypeInv, Keyed
    <3> QED BY <1>2, <2>2, <3>1 DEF Backed, Usable
  <2> QED BY <2>1, <2>2, NewTokenFlies, StoreOf, Stores DEF Backed, TokenInv
<1> QED BY <1>1, <1>2 DEF Backed

\* A live token that is nowhere else is left alone.
LEMMA LiveKept ==
    ASSUME TokenInv, NEW p \in Procs, Step(p),
           NEW a \in Accounts, Good(a)', Managed(a), Managed(a)',
           LiveOf(a), ~Backed(a)
    PROVE  live' = live /\ ~Write(p)
<1> USE DEF TokenInv
<1>1. Good(a) BY GoodBefore
<1>2. ASSUME Write(p) PROVE FALSE
  <2>1. Overtaken(p) \in [Accounts -> SUBSET Whys] BY DEF Overtaken, For, Nothing, Whys
  <2>2. Overtaken(p)[a] = {} BY <1>2, <2>1, NotedStays DEF Write, Good
  <2>3. live = cap[p] BY <2>2 DEF Overtaken, For, LiveOf
  <2> QED BY <1>1, <1>2, <2>3 DEF Write, Kept, LiveOf
<1>3. ASSUME live' = back[p], Note(Undone(p)), pc[p] \in {"Write", "Commit", "Save"} PROVE live' = live
  <2>1. Undone(p) \in [Accounts -> SUBSET Whys] BY DEF Undone, For, Nothing, Whys
  <2>2. Undone(p)[a] = {} BY <1>3, <2>1, NotedStays DEF Good
  <2>3. live \in {mem[p], back[p]} BY <2>2 DEF Undone, For, LiveOf
  <2>4. mem[p].id = acct[p] BY <1>3 DEF TypeInv, Shape, LoadShape, Laden
  <2> QED BY <1>1, <1>3, <2>3, <2>4 DEF Written, LiveOf
<1>4. CASE Commit(p)
  <2>1. CASE live' = live BY <1>2, <2>1
  <2>2. CASE live' # live
    <3>1. Rollback(p) /\ pc[p] = "Commit" BY <1>4, <2>2 DEF Commit
    <3>2. pc'[p] = "Idle" BY <3>1 DEF Rollback, End, TypeInv, TypeOK
    <3> QED BY <1>2, <1>3, <1>4, <3>1, <3>2 DEF Commit, Rollback
  <2> QED BY <2>1, <2>2
<1>5. CASE SwapFails(p) BY <1>2, <1>3, <1>5 DEF SwapFails
<1>6. CASE RmLock(p)
  <2>1. CASE acct[p] = a
    <3>1. pc[p] = "RmLock" /\ acct'[p] = a /\ cmd'[p] = cmd[p] BY <1>6, <2>1 DEF RmLock, Goto
    <3>2. cmd'[p] = "rm" BY <3>1 DEF TypeInv, Shape, CommandShape, Removal
    <3>3. TypeInv' /\ ~Contended(a)' BY <3>1, GoodBefore, TypeNext DEF Next
    <3> QED BY <3>1, <3>2, <3>3, NotRemoving
  <2>2. CASE acct[p] # a BY <1>2, <1>6, <2>2 DEF RmLock, LiveOf
  <2> QED BY <2>1, <2>2
<1> QED BY <1>2, <1>4, <1>5, <1>6, FileSteps

LEMMA HealthyKept ==
    ASSUME TokenInv, NEW p \in Procs, Step(p), NEW a \in Accounts PROVE Healthy(a)'
<1> USE DEF TokenInv
<1> SUFFICES ASSUME Good(a)', Managed(a)'
             PROVE  LiveOf(a)' \/ Backed(a)' \/ (store'[a] = NoBlob /\ Usable(keyring[a])')
  BY DEF Healthy
<1>1. Good(a) BY GoodBefore
<1>2. CASE Import(p) /\ acct[p] = a BY <1>2, Stores DEF Backed
<1>3. CASE Managed(a)
  <2>1. LiveOf(a) \/ Backed(a) \/ (store[a] = NoBlob /\ Usable(keyring[a]))
    BY <1>1, <1>3 DEF Healthy
  <2>2. CASE Backed(a) BY <2>2, BackedKept
  <2>3. CASE LiveOf(a) /\ ~Backed(a) BY <1>3, <2>3, LiveKept DEF LiveOf
  <2>4. CASE store[a] = NoBlob /\ Usable(keyring[a]) /\ ~Backed(a)
    <3>1. ~(RmKeyring(p) /\ acct[p] = a)
      <4> SUFFICES ASSUME RmKeyring(p), acct[p] = a PROVE FALSE OBVIOUS
      <4>1. pc[p] = "RmKeyring" BY DEF RmKeyring
      <4>2. cmd[p] = "rm" BY <4>1 DEF TypeInv, Shape, CommandShape, Removal
      <4>3. ~Registered(a) BY <1>1, <4>1 DEF AbsentInv, Removed
      <4>4. PICK q \in Procs : acct[q] = a /\ pc[q] \in {"UpsertLoad", "UpsertSave"}
        BY <1>3, <4>3 DEF Managed
      <4>5. Contended(a) BY <4>1, <4>2, <4>4 DEF Contended
      <4> QED BY <1>1, <4>3, <4>5 DEF OnlyStarted
    <3>2. keyring'[a] = keyring[a] BY <3>1, FileSteps DEF RmKeyring, TypeInv, TypeOK
    <3>3. CASE Flying(a)' BY <3>3 DEF Backed
    <3>4. CASE valid'[a] = valid[a]
      <4>1. CASE store'[a] = store[a]
        <5>1. keyring[a].id = a BY <2>4 DEF Usable, TypeInv, Keyed
        <5> QED BY <2>4, <3>2, <3>4, <4>1, <5>1 DEF Usable
      <4>2. CASE RmDelete(p) /\ acct[p] = a
        <5>1. store'[a] = NoBlob BY <4>2 DEF RmDelete, StoreSet, TypeInv, TypeOK
        <5> QED BY <2>4, <4>1, <5>1
      <4> QED BY <4>1, <4>2, StoreOf, Stores DEF Backed
    <3> QED BY <3>3, <3>4, NewTokenFlies
  <2> QED BY <2>1, <2>2, <2>3, <2>4
<1> QED BY <1>2, <1>3, ManagedBefore

LEMMA SwapStoredKept == ASSUME TokenInv, NEW p \in Procs, Step(p) PROVE SwapStored'
<1> USE DEF TokenInv
<1> DEFINE swap == {"Capture", "CaptureSet", "Lock", "Write", "Commit", "Save"}
<1>1. TypeInv' BY TypeNext DEF Next
<1> SUFFICES ASSUME NEW q \in Procs, cmd'[q] = "swap", pc'[q] \in swap,
                    NEW a \in Accounts, acct'[q] = a, Good(a)'
             PROVE  store'[a] # NoBlob
  <2>1. \A q \in Procs : cmd'[q] = "swap" /\ pc'[q] \in swap => acct'[q] \in Accounts
    BY <1>1 DEF TypeInv, Shape, LoadShape, Nowhere
  <2> QED BY <2>1 DEF SwapStored, Good
<1>2. a \in Accounts OBVIOUS
<1>3. Good(a)' OBVIOUS
<1>4. Good(a) BY <1>2, <1>3, GoodBefore
<1>5. ASSUME store[a] # NoBlob, ~(RmDelete(p) /\ acct[p] = a) PROVE store'[a] # NoBlob
  BY <1>2, <1>3, <1>5, StoreOf, Stores DEF Usable
<1>6. CASE q # p
  <2>1. acct[q] = a /\ pc[q] \in swap /\ cmd[q] = "swap" BY <1>6, OthersStay
  <2>2. store[a] # NoBlob BY <1>4, <2>1 DEF SwapStored
  <2>3. ~(RmDelete(p) /\ acct[p] = a)
    <3> SUFFICES ASSUME RmDelete(p), acct[p] = a PROVE FALSE OBVIOUS
    <3>1. pc[p] = "RmDelete" /\ acct'[p] = a /\ cmd'[p] = cmd[p] BY DEF RmDelete, Goto
    <3>2. cmd'[p] = "rm" BY <3>1 DEF TypeInv, Shape, CommandShape, Removal
    <3> QED BY <1>2, <1>3, <1>6, <3>1, <3>2, GoodBefore DEF Contended
  <2> QED BY <1>5, <2>2, <2>3
<1>7. CASE q = p /\ pc[p] \in swap
  <2>1. ~Start(p) /\ ~SyncRead(p)
    BY <1>7 DEF Start, StartRead, StartSession, StartRemove, StartCapture, StartSync, StartLogin,
       StartCommand, SyncRead
  <2>2. acct[p] = a /\ cmd[p] = "swap" BY <1>2, <1>7, <2>1, Into, Constants
  <2>3. store[a] # NoBlob BY <1>4, <1>7, <2>2 DEF SwapStored
  <2> QED BY <1>5, <1>7, <2>3 DEF RmDelete
<1>8. CASE q = p /\ pc[p] \notin swap
  <2>1. pc'[p] = "Capture"
    BY <1>8, Into DEF Capture, CaptureSet, CaptureFails, Lock, Write, Commit
  <2>2. CASE Start(p)
    BY <1>8, <2>1, <2>2 DEF Start, StartRead, StartSession, StartRemove, StartCapture, StartSync,
       StartLogin, StartCommand, TypeInv, TypeOK
  <2>3. CASE Read(p)
    <3>1. /\ pc[p] = "Read" /\ store' = store
          /\ \/ End(p) \/ Goto(p, "Repair") \/ Goto(p, AfterFailure(p))
             \/ Goto(p, AfterRead(p)) /\ store[acct[p]] # NoBlob
      BY <2>3 DEF Read, files
    <3> QED BY <1>8, <2>1, <3>1 DEF Goto, End, AfterFailure, TypeInv, TypeOK
  <2>4. CASE Repair(p)
    <3>1. acct[p] = a /\ pc[p] = "Repair"
      BY <1>2, <1>8, <2>4, Constants DEF Repair, Goto, End, TypeInv, TypeOK
    <3> QED BY <1>2, <1>3, <2>4, <3>1, Stores DEF Usable
  <2> QED BY <2>1, <2>2, <2>3, <2>4, Into
<1> QED BY <1>6, <1>7, <1>8

LEMMA KeptKept ==
    ASSUME TokenInv, NEW p \in Procs, Step(p), NEW q \in Procs PROVE Kept(q)'
<1> USE DEF TokenInv
<1>1. TypeInv' BY TypeNext DEF Next
<1> SUFFICES ASSUME pc'[q] \in {"Lock", "Write"}, cap'[q] # NoBlob,
                    NEW c \in Accounts, cap'[q].id = c, Good(c)', Managed(c)'
             PROVE  Backed(c)' \/ (LiveOf(c)' /\ live' # cap'[q])
  <2>1. cap'[q] # NoBlob => cap'[q].id \in Accounts
    BY <1>1 DEF TypeInv, TypeOK, MaybeBlob, Blob
  <2> QED BY <2>1 DEF Kept, Good, Managed, Registered, Backed, LiveOf, Flying, Usable
<1>2. c \in Accounts OBVIOUS
<1>3. Good(c)' /\ Managed(c)' OBVIOUS
<1>4. Good(c) BY <1>2, <1>3, GoodBefore
<1>6. ASSUME cap[q] = cap'[q], pc[q] \in {"Lock", "Write"}
      PROVE  Backed(c)' \/ (LiveOf(c)' /\ live' # cap'[q])
  <2>1. CASE Import(p) /\ acct[p] = c BY <1>2, <1>3, <2>1, Stores DEF Backed
  <2>2. CASE Managed(c)
    <3>1. Backed(c) \/ (LiveOf(c) /\ live # cap[q]) BY <1>4, <1>6, <2>2 DEF Kept
    <3>2. CASE Backed(c) BY <1>2, <1>3, <3>2, BackedKept
    <3>3. CASE LiveOf(c) /\ live # cap[q] /\ ~Backed(c)
      BY <1>2, <1>3, <1>6, <2>2, <3>3, LiveKept DEF LiveOf
    <3> QED BY <3>1, <3>2, <3>3
  <2> QED BY <1>2, <1>3, <2>1, <2>2, ManagedBefore
<1>7. CASE q # p BY <1>6, <1>7, OthersStay
<1>8. CASE q = p
  <2>1. CASE Lock(p) BY <1>6, <1>8, <2>1 DEF Lock
  <2>2. CASE CaptureSet(p) /\ pc'[p] = "Lock"
    <3>1. cap'[p] = cap[p] BY <2>2 DEF CaptureSet, GoOn, End, work, TypeInv, TypeOK
    <3> QED BY <1>2, <1>3, <1>8, <2>2, <3>1, Stores DEF Backed
  <2>3. CASE CaptureFails(p)
    <3>1. cap'[p] = cap[p] /\ For(c, "fault") \in [Accounts -> SUBSET Whys]
          /\ Note(For(c, "fault"))
      BY <1>8, <2>3 DEF CaptureFails, work, For, Whys
    <3> QED BY <1>2, <1>3, <3>1, NotedStays DEF For, Good
  <2>4. CASE Capture(p) /\ pc'[p] = "Lock"
    <3>1. cap'[p] = live /\ ~Capturable /\ cmd[p] = "swap"
      BY <2>4 DEF Capture, Goto, End, AfterCapture, TypeInv, TypeOK
    <3>2. live \in Blob /\ live.id = c /\ Held(live)
      BY <1>8, <3>1 DEF Held, TypeInv, TypeOK, MaybeBlob
    <3>3. CASE registry[c] = "absent"
      <4>1. /\ Unmanaged(p) = For(c, "unmanaged")
            /\ For(c, "unmanaged") \in [Accounts -> SUBSET Whys]
        BY <3>1, <3>2, <3>3, Constants DEF Unmanaged, For, Whys
      <4> QED BY <1>2, <1>3, <2>4, <4>1, NotedStays DEF Capture, For, Good
    <3>4. CASE live.tok = None
      <4>1. None \in valid[c] BY <1>4, <3>2, <3>4 DEF HeldValid
      <4>2. None \in 1 .. issued[c] /\ issued[c] \in Nat
        BY <1>2, <4>1 DEF TypeInv, TypeOK, Keyed, Token
      <4> QED BY <4>2 DEF None
    <3> QED BY <3>1, <3>2, <3>3, <3>4, Constants DEF Capturable, Poorer
  <2> QED BY <1>8, <2>1, <2>2, <2>3, <2>4, Into
<1> QED BY <1>7, <1>8

LEMMA WrittenKept ==
    ASSUME TokenInv, NEW p \in Procs, Step(p), NEW q \in Procs PROVE Written(q)'
<1> USE DEF TokenInv
<1>1. TypeInv' BY TypeNext DEF Next
<1> SUFFICES ASSUME pc'[q] \in Swapping, NEW a \in Accounts, acct'[q] = a, Good(a)', Managed(a)'
             PROVE  Backed(a)' \/ live' # mem'[q] \/ live' = back'[q]
  <2>1. pc'[q] \in Swapping => acct'[q] \in Accounts
    BY <1>1 DEF TypeInv, Shape, LoadShape, Nowhere, Swapping
  <2> QED BY <2>1 DEF Written, Swapping, Good, Managed, Registered, Backed, Flying, Usable
<1>2. a \in Accounts OBVIOUS
<1>3. Good(a)' /\ Managed(a)' OBVIOUS
<1>4. Good(a) BY <1>2, <1>3, GoodBefore
<1>6. CASE Import(p) /\ acct[p] = a BY <1>2, <1>3, <1>6, Stores DEF Backed
<1>7. CASE Managed(a)
  <2>1. ASSUME acct[q] = a, pc[q] \in Swapping, mem'[q] = mem[q], back'[q] = back[q], live' = live
        PROVE  Backed(a)' \/ live' # mem'[q] \/ live' = back'[q]
    <3>1. Backed(a) \/ live # mem[q] \/ live = back[q]
      BY <1>4, <1>7, <2>1 DEF Written, Swapping
    <3> QED BY <1>2, <1>3, <2>1, <3>1, BackedKept
  <2>2. CASE q # p
    <3>1. /\ acct[q] = a /\ pc[q] \in Swapping /\ mem'[q] = mem[q] /\ back'[q] = back[q]
      BY <2>2, OthersStay
    <3>2. flock = q BY <3>1 DEF TypeInv, Shape, FileShape
    <3>3. pc[p] \notin Swapping BY <2>2, <3>2 DEF TypeInv, Shape, FileShape
    <3>4. live' = live
      BY <3>2, <3>3, FileSteps, Constants DEF Write, Commit, SwapFails, RmLock, Swapping
    <3> QED BY <2>1, <3>1, <3>4
  <2>3. CASE q = p
    <3>1. CASE Lock(p) BY <2>3, <3>1 DEF Lock, TypeInv, TypeOK
    <3>2. CASE Commit(p)
      <4>1. /\ acct'[p] = acct[p] /\ pc[p] = "Commit" /\ mem' = mem /\ back' = back /\ live' = live
        BY <2>3, <3>2 DEF Commit, Rollback, End, Goto, Swapping, TypeInv, TypeOK
      <4> QED BY <2>1, <2>3, <4>1 DEF Swapping
    <3>3. CASE Write(p)
      <4>1. acct[p] = a /\ pc[p] = "Write" BY <2>3, <3>3 DEF Write, Goto
      <4>2. cmd[p] = "swap" BY <4>1 DEF TypeInv, Shape, CommandShape
      <4>3. store[a] # NoBlob BY <1>4, <4>1, <4>2 DEF SwapStored
      <4>4. LiveOf(a) \/ Backed(a) BY <1>2, <1>4, <1>7, <4>3 DEF Healthy
      <4>5. Backed(a) BY <1>2, <1>3, <1>7, <3>3, <4>4, LiveKept
      <4> QED BY <1>2, <1>3, <4>5, BackedKept
    <3> QED BY <2>3, <3>1, <3>2, <3>3, Into DEF Swapping
  <2> QED BY <2>2, <2>3
<1> QED BY <1>2, <1>3, <1>6, <1>7, ManagedBefore

LEMMA TokenStep == ASSUME TokenInv, NEW p \in Procs, Step(p) PROVE TokenInv'
<1>1. TypeInv' BY TypeNext DEF TokenInv, Next
<1> QED BY <1>1, HeldValidKept, OnlyStartedKept, AbsentKept, SwapStoredKept, KeptKept, WrittenKept,
           HealthyKept DEF TokenInv

\* What the official client does, it does to the live file alone.
NativeStep == NativeRefresh \/ NativeStrip \/ \E a \in Accounts : NativeLogin(a)

LEMMA NativeGood ==
    ASSUME NativeStep, NEW a \in Accounts, Good(a)'
    PROVE  /\ Good(a) /\ ~Divided(a)' /\ ~Contended(a)'
           /\ \/ NativeRefresh
              \/ NativeStrip /\ ~LiveOf(a)
              \/ \E b \in Accounts : NativeLogin(b) /\ (LiveOf(a) => a = b)
<1>1. clobbered' = clobbered BY DEF NativeStep, NativeRefresh, NativeStrip, NativeLogin, Native
<1>2. Nothing \in [Accounts -> SUBSET Whys] BY DEF Nothing
<1>3. For(live.id, "stripped") \in [Accounts -> SUBSET Whys] BY DEF For, Whys
<1>4. CASE NativeRefresh BY <1>1, <1>2, <1>4, NotedStays DEF NativeRefresh, Good
<1>5. CASE NativeStrip
  <2>1. For(live.id, "stripped")[a] = {} BY <1>3, <1>5, NotedStays DEF NativeStrip, Good
  <2>2. ~LiveOf(a) BY <2>1 DEF For, LiveOf
  <2> QED BY <1>1, <1>3, <1>5, <2>2, NotedStays DEF NativeStrip, Good
<1>6. ASSUME NEW b \in Accounts, NativeLogin(b)
      PROVE  Good(a) /\ ~Divided(a)' /\ ~Contended(a)' /\ (LiveOf(a) => a = b)
  <2>1. CASE live # NoBlob /\ live.id # b
    <3>1. For(live.id, "stripped")[a] = {}
      BY <1>3, <1>6, <2>1, NotedStays DEF NativeLogin, Good
    <3>2. ~LiveOf(a) BY <3>1 DEF For, LiveOf
    <3> QED BY <1>1, <1>3, <1>6, <2>1, <3>2, NotedStays DEF NativeLogin, Good
  <2>2. CASE ~(live # NoBlob /\ live.id # b)
    BY <1>1, <1>2, <1>6, <2>2, NotedStays DEF NativeLogin, Good, LiveOf
  <2> QED BY <2>1, <2>2
<1> QED BY <1>4, <1>5, <1>6 DEF NativeStep

\* The tokens before and after, for an account that stays good.
LEMMA NativeTokens ==
    ASSUME TypeInv, HeldValid, NativeStep, NEW a \in Accounts, Good(a)'
    PROVE  \/ /\ LiveOf(a)' /\ live' \in Blob /\ live'.tok \in valid'[a]
              /\ live'.tok = issued[a] + 1
           \/ valid'[a] = valid[a] /\ ~LiveOf(a) /\ ~LiveOf(a)'
<1> USE Constants
<1>1. CASE NativeRefresh
  <2>1. live \in Blob /\ live.id \in Accounts /\ live.tok \in Token /\ Rotate(live.id, live.tok)
    BY <1>1 DEF NativeRefresh, Usable, TypeInv, TypeOK, MaybeBlob, Blob
  <2>2. live' = Fresh(live.id) BY <1>1 DEF NativeRefresh
  <2> DEFINE c == live.id
             f == Fresh(live.id)
  <2>3. /\ f \in Blob /\ f.id = c /\ f.tok = issued[c] + 1 /\ f.tok \in valid'[c]
        /\ \A b \in Accounts \ {c} : valid'[b] = valid[b]
    BY <2>1, Rotation
  <2> QED BY <2>1, <2>2, <2>3 DEF LiveOf
<1>2. CASE NativeStrip /\ ~LiveOf(a)
  <2>1. valid' = valid /\ live \in Blob /\ live' \in {[live EXCEPT !.tok = None], NoBlob}
    BY <1>2 DEF NativeStrip, server, TypeInv, TypeOK, MaybeBlob
  <2>2. [live EXCEPT !.tok = None].id = live.id BY <2>1 DEF Blob
  <2> QED BY <1>2, <2>1, <2>2 DEF LiveOf
<1>3. ASSUME NEW b \in Accounts, NativeLogin(b), LiveOf(a) => a = b
      PROVE  \/ /\ LiveOf(a)' /\ live' \in Blob /\ live'.tok \in valid'[a]
                /\ live'.tok = issued[a] + 1
             \/ valid'[a] = valid[a] /\ ~LiveOf(a) /\ ~LiveOf(a)'
  <2>1. /\ valid' = [valid EXCEPT ![b] = @ \cup {issued[b] + 1}] /\ live' = Fresh(b)
        /\ issued[b] < MaxTokens
    BY <1>3 DEF NativeLogin
  <2>2. issued[b] + 1 \in Token BY <2>1 DEF TypeInv, TypeOK, Token
  <2>3. Fresh(b) \in Blob /\ Fresh(b).id = b /\ Fresh(b).tok = issued[b] + 1
    BY <2>2 DEF Fresh, Blob
  <2>4. CASE a = b BY <2>1, <2>3, <2>4 DEF LiveOf, TypeInv, TypeOK
  <2>5. CASE a # b BY <1>3, <2>1, <2>3, <2>5 DEF LiveOf, TypeInv, TypeOK
  <2> QED BY <2>4, <2>5
<1> QED BY <1>1, <1>2, <1>3, NativeGood

LEMMA NativeTokenStep == ASSUME TokenInv, NativeStep PROVE TokenInv'
<1> USE DEF TokenInv
<1>1. TypeInv' BY NativeKept DEF NativeStep
<1>2. /\ store' = store /\ keyring' = keyring /\ registry' = registry /\ flock' = flock
      /\ env' = env /\ pc' = pc /\ cmd' = cmd /\ acct' = acct /\ mem' = mem /\ cap' = cap
      /\ back' = back
  BY DEF NativeStep, NativeRefresh, NativeStrip, NativeLogin, Native, work
<1>3. \A a \in Accounts : Managed(a)' <=> Managed(a) BY <1>2 DEF Managed, Registered
<1>4. \A a \in Accounts : Flying(a)' <=> Flying(a) BY <1>2 DEF Flying, DirOf
<1>5. \A a \in Accounts : Good(a)' => Good(a) /\ ~Divided(a)' /\ ~Contended(a)' BY NativeGood
<1>6. \A a \in Accounts : Good(a)' =>
         \/ /\ LiveOf(a)' /\ live' \in Blob /\ live'.tok \in valid'[a]
            /\ live'.tok = issued[a] + 1
         \/ valid'[a] = valid[a] /\ ~LiveOf(a) /\ ~LiveOf(a)'
  BY NativeTokens
<1>7. ASSUME NEW a \in Accounts, valid'[a] = valid[a] PROVE Backed(a) => Backed(a)'
  <2>1. store[a] # NoBlob => store[a].id = a BY DEF TypeInv, Keyed
  <2> QED BY <1>2, <1>4, <1>7, <2>1 DEF Backed, Usable
<1>8. HeldValid'
  <2> SUFFICES ASSUME NEW b \in Blob, Held(b)', Good(b.id)' PROVE b.tok \in valid'[b.id]
    BY DEF HeldValid
  <2> DEFINE a == b.id
  <2>1. a \in Accounts BY DEF Blob
  <2>2. CASE /\ LiveOf(a)' /\ live' \in Blob /\ live'.tok \in valid'[a]
    <3>1. Held(live)' BY DEF Held
    <3> DEFINE c == live'
    <3>2. PICK d \in Blob : d = live' BY <2>2
    <3>3. d.id = a /\ d.tok \in valid'[d.id] /\ Held(d)' BY <2>2, <3>2 DEF LiveOf, Held
    <3> QED BY <1>5, <2>1, <3>3, Undivided
  <2>3. CASE valid'[a] = valid[a] /\ ~LiveOf(a) /\ ~LiveOf(a)'
    <3>1. b # live' BY <2>3, Constants DEF LiveOf
    <3>2. Held(b) BY <1>2, <3>1 DEF Held
    <3> QED BY <1>5, <2>1, <2>3, <3>2 DEF HeldValid
  <2> QED BY <1>6, <2>1, <2>2, <2>3
<1>9. OnlyStarted' BY <1>5 DEF OnlyStarted
<1>10. AbsentInv' BY <1>2, <1>5 DEF AbsentInv, Absent, Removed, Registered
<1>11. SwapStored'
  <2>1. \A q \in Procs :
          cmd[q] = "swap" /\ pc[q] \in {"Capture", "CaptureSet", "Lock", "Write", "Commit", "Save"}
                         => acct[q] \in Accounts
    BY DEF TypeInv, Shape, LoadShape, Nowhere
  <2>2. \A a \in Accounts : blame'[a] = {} /\ ~clobbered' => blame[a] = {} /\ ~clobbered
    BY <1>5 DEF Good
  <2> QED BY <1>2, <2>1, <2>2 DEF SwapStored, Good
\* Nobody holds the new token yet.
<1>12. ASSUME NEW b \in Blob, Held(b), Good(b.id) PROVE b.tok # issued[b.id] + 1
  <2>1. b.id \in Accounts BY DEF Blob
  <2>2. b.tok \in 1 .. issued[b.id] /\ issued[b.id] \in Nat
    BY <1>12, <2>1 DEF HeldValid, TypeInv, TypeOK, Keyed, Token
  <2> QED BY <2>2
<1>13. ASSUME NEW q \in Procs PROVE Kept(q)'
  <2> SUFFICES ASSUME pc'[q] \in {"Lock", "Write"}, cap'[q] # NoBlob,
                      NEW c \in Accounts, cap'[q].id = c, Good(c)', Managed(c)'
               PROVE  Backed(c)' \/ (LiveOf(c)' /\ live' # cap'[q])
    <3>1. cap'[q] # NoBlob => cap'[q].id \in Accounts
      BY <1>1 DEF TypeInv, TypeOK, MaybeBlob, Blob
    <3> QED BY <3>1 DEF Kept, Good, Managed, Registered, Backed, LiveOf, Flying, Usable
  <2>1. Good(c) /\ Managed(c) BY <1>3, <1>5
  <2>2. cap[q] \in Blob /\ cap[q].id = c /\ Held(cap[q])
    BY <1>2 DEF Held, TypeInv, TypeOK, MaybeBlob
  <2>3. CASE LiveOf(c)' /\ live'.tok = issued[c] + 1
    BY <1>2, <1>12, <2>1, <2>2, <2>3
  <2>4. CASE valid'[c] = valid[c] /\ ~LiveOf(c)
    <3>1. Kept(q) OBVIOUS
    <3>2. Backed(c) BY <1>2, <2>1, <2>4, <3>1 DEF Kept
    <3> QED BY <1>7, <2>4, <3>2
  <2> QED BY <1>6, <2>3, <2>4
<1>14. ASSUME NEW q \in Procs PROVE Written(q)'
  <2> SUFFICES ASSUME pc'[q] \in Swapping, NEW a \in Accounts, acct'[q] = a, Good(a)', Managed(a)'
               PROVE  live' # mem'[q]
    <3>1. pc'[q] \in Swapping => acct'[q] \in Accounts
      BY <1>1 DEF TypeInv, Shape, LoadShape, Nowhere, Swapping
    <3> QED BY <3>1 DEF Written, Swapping, Good, Managed, Registered
  <2>1. Good(a) BY <1>5
  <2>2. mem[q] \in Blob /\ mem[q].id = a /\ Held(mem[q])
    BY <1>2 DEF TypeInv, Shape, LoadShape, Laden, Swapping, Held
  <2>3. CASE LiveOf(a)' /\ live'.tok = issued[a] + 1
    BY <1>2, <1>12, <2>1, <2>2, <2>3
  <2>4. CASE ~LiveOf(a)' BY <1>2, <2>2, <2>4, Constants DEF LiveOf
  <2> QED BY <1>6, <2>3, <2>4
<1>15. ASSUME NEW a \in Accounts PROVE Healthy(a)'
  <2> SUFFICES ASSUME Good(a)', Managed(a)', ~LiveOf(a)'
               PROVE  Backed(a)' \/ (store'[a] = NoBlob /\ Usable(keyring[a])')
    BY DEF Healthy
  <2>1. Good(a) /\ Managed(a) /\ valid'[a] = valid[a] /\ ~LiveOf(a) BY <1>3, <1>5, <1>6
  <2>2. CASE Backed(a) BY <1>7, <2>1, <2>2
  <2>3. CASE store[a] = NoBlob /\ Usable(keyring[a])
    <3>1. keyring[a].id = a BY <2>3 DEF Usable, TypeInv, Keyed
    <3> QED BY <1>2, <2>1, <2>3, <3>1 DEF Usable
  <2> QED BY <2>1, <2>2, <2>3 DEF Healthy
<1> QED BY <1>1, <1>8, <1>9, <1>10, <1>11, <1>13, <1>14, <1>15

LEMMA TokenInit == Init => TokenInv
<1> SUFFICES ASSUME Init PROVE TokenInv OBVIOUS
<1> USE Constants
<1>1. TypeInv BY TypeInit
<1>2. /\ \A a \in Accounts : valid[a] = {1} /\ blame[a] = {} /\ registry[a] # "absent"
      /\ \E a \in Accounts : live = [id |-> a, tok |-> 1]
      /\ \A a \in Accounts : \/ store[a] = [id |-> a, tok |-> 1]
                             \/ store[a] = NoBlob /\ keyring[a] = [id |-> a, tok |-> 1]
      /\ \A d \in Dirs : env[d] = NoDir
      /\ \A q \in Procs : /\ pc[q] = "Idle" /\ cmd[q] = "none" /\ acct[q] = NoAccount
                          /\ mem[q] = NoBlob /\ cap[q] = NoBlob /\ back[q] = NoBlob
  BY DEF Init
<1>3. \A a \in Accounts : [id |-> a, tok |-> 1] # NoBlob
  BY DEF Blob, Token
<1>4. HeldValid BY <1>2 DEF HeldValid, Held, Blob
<1>5. OnlyStarted BY <1>2 DEF OnlyStarted, Contended
<1>6. AbsentInv BY <1>2 DEF AbsentInv, Registered, Removed
<1>7. SwapStored BY <1>2 DEF SwapStored
<1>8. \A q \in Procs : Kept(q) /\ Written(q) BY <1>2 DEF Kept, Written
<1>9. ASSUME NEW a \in Accounts PROVE Healthy(a)
  <2>1. ASSUME NEW b, b = [id |-> a, tok |-> 1] PROVE Usable(b)
    <3>1. b.tok = 1 /\ b.id = a /\ b # NoBlob BY <1>3, <2>1
    <3> QED BY <1>2, <3>1 DEF Usable
  <2>2. Usable(store[a]) \/ (store[a] = NoBlob /\ Usable(keyring[a])) BY <1>2, <2>1
  <2> QED BY <2>2 DEF Healthy, Backed
<1> QED BY <1>1, <1>4, <1>5, <1>6, <1>7, <1>8, <1>9 DEF TokenInv

LEMMA TokenNext == TokenInv /\ [Next]_vars => TokenInv'
<1> SUFFICES ASSUME TokenInv, [Next]_vars PROVE TokenInv' OBVIOUS
<1>1. CASE NativeStep BY <1>1, NativeTokenStep
<1>2. CASE UNCHANGED vars
  <2>1. TypeInv' BY TypeNext DEF TokenInv
  <2>2. HeldValid' BY <1>2 DEF TokenInv, HeldValid, Held, Good, vars, server, files, work, ghosts
  <2>3. OnlyStarted'
    BY <1>2 DEF TokenInv, OnlyStarted, Contended, Registered, Good, vars, files, work, ghosts
  <2>4. AbsentInv'
    BY <1>2 DEF TokenInv, AbsentInv, Absent, Removed, Registered, Good, vars, files, work, ghosts
  <2>5. SwapStored' BY <1>2 DEF TokenInv, SwapStored, Good, vars, files, ghosts
  <2>6. \A q \in Procs : Kept(q)' /\ Written(q)'
    BY <1>2 DEF TokenInv, Kept, Written, Backed, Flying, Usable, LiveOf, Managed, Registered, Good,
       DirOf, vars, server, files, work, ghosts
  <2>7. \A a \in Accounts : Healthy(a)'
    BY <1>2 DEF TokenInv, Healthy, Backed, Flying, Usable, LiveOf, Managed, Registered, Good,
       DirOf, vars, server, files, work, ghosts
  <2> QED BY <2>1, <2>2, <2>3, <2>4, <2>5, <2>6, <2>7 DEF TokenInv
<1> QED BY <1>1, <1>2, TokenStep DEF Next, NativeStep

\* What a token's safety rests on holds in every state.
LEMMA TokensKept == Spec => []TokenInv
BY TokenInit, TokenNext, PTL DEF Spec

\* The token of a registered account is never lost: one of the copies that are
\* used next, or are about to be stored, is accepted by the server (engine.rs).
THEOREM NoTokenLost == Spec => []NothingLost
<1>1. TokenInv => NothingLost
  <2> SUFFICES ASSUME TokenInv, NEW a \in Accounts,
                      registry[a] # "absent" /\ blame[a] = {} /\ ~clobbered,
                      ~\E p \in Procs : cmd[p] = "rm" /\ acct[p] = a
               PROVE  Usable(Used(a)) \/ \E b \in InFlight(a) : Usable(b)
    BY DEF NothingLost
  <2>1. Good(a) /\ Managed(a) BY DEF Good, Managed, Registered
  <2>2. CASE LiveOf(a)
    <3>1. live \in Blob /\ live.id = a /\ Held(live)
      BY <2>2 DEF LiveOf, Held, TokenInv, TypeInv, TypeOK, MaybeBlob
    <3> QED BY <2>1, <2>2, <3>1, Constants DEF Used, Usable, TokenInv, HeldValid
  <2>3. CASE Flying(a)
    <3>1. PICK b \in InFlight(a) : b \in Blob /\ b.id = a /\ Held(b)
      BY <2>3, FlyingHeld DEF Flying, TokenInv
    <3> QED BY <2>1, <3>1, Constants DEF Usable, TokenInv, HeldValid
  <2>4. CASE ~LiveOf(a) /\ (Usable(store[a]) \/ (store[a] = NoBlob /\ Usable(keyring[a])))
    BY <2>4 DEF Used, Usable
  <2> QED BY <2>1, <2>2, <2>3, <2>4 DEF TokenInv, Healthy, Backed
<1> QED BY <1>1, TokensKept, PTL

\* Nothing is kept of an account that was removed (rm.rs, store.rs).
THEOREM RemovedIsForgotten == Spec => []Forgotten
<1>1. TokenInv => Forgotten
  BY DEF TokenInv, Forgotten, AbsentInv, Absent, Removed, Registered, Good
<1> QED BY <1>1, TokensKept, PTL

-----------------------------------------------------------------------------
(* Marks                                                                      *)

\* Accounts that a command is about to mark as the only active one.
Marking == {acct[p] : p \in {p \in Procs : pc[p] \in {"MarkLoad", "MarkSave"}}}

MarkInv ==
    faults = 0 /\ ~clobbered =>
        \A a, b \in Accounts \ Marking : registry[a] = "active" /\ registry[b] = "active" => a = b

\* The credential's account is the active one.
Marked(b) == b # NoBlob => registry[b.id] = "active"

AgreeInv ==
    agree /\ ~clobbered =>
        /\ flock = NoProc => Marked(live)
        /\ \A p \in Procs : /\ flock = p => Marked(back[p])
                            /\ pc[p] = "Write" => Marked(live)

LEMMA Faults ==
    ASSUME NEW p \in Procs, Step(p)
    PROVE  faults' = faults \/ Kill(p) \/ SwapFails(p) \/ CaptureFails(p)
<1> USE DEF bounds
<1>1. CASE Start(p)
  BY <1>1 DEF Start, StartRead, StartSession, StartRemove, StartCapture, StartSync, StartLogin,
              StartCommand
<1>2. CASE Acquire(p) BY <1>2 DEF Acquire, Goto
<1>3. CASE Read(p) BY <1>3 DEF Read, Goto
<1>4. CASE Repair(p) BY <1>4 DEF Repair, Goto, End, Forget, AfterRead, StoreSet
<1>5. CASE Capture(p) BY <1>5 DEF Capture, Goto, End, Forget, AfterCapture, Capturable
<1>6. CASE CaptureSet(p) BY <1>6 DEF CaptureSet, Goto, GoOn, End, Forget, AfterCapture, StoreSet
<1>7. CASE Lock(p) BY <1>7 DEF Lock, Goto
<1>8. CASE Write(p) BY <1>8 DEF Write, Goto
<1>9. CASE Commit(p) BY <1>9 DEF Commit, Goto, Rollback, End, Forget
<1>10. CASE Save(p) BY <1>10 DEF Save, SaveRegistry, OnlyActive, End, Forget
<1>11. CASE RefreshNot(p) BY <1>11 DEF RefreshNot, End, Forget
<1>12. CASE Refresh(p) BY <1>12 DEF Refresh, Goto
<1>13. CASE Rotated(p) BY <1>13 DEF Rotated, StoreSet, End, Forget
<1>14. CASE Materialize(p) BY <1>14 DEF Materialize, Goto, DirOf
<1>15. CASE SessionRefresh(p) BY <1>15 DEF SessionRefresh, DirOf
<1>16. CASE SessionEnds(p) BY <1>16 DEF SessionEnds, Goto, DirOf
<1>17. CASE Absorb(p) BY <1>17 DEF Absorb, StoreSet, Goto
<1>18. CASE Drop(p) BY <1>18 DEF Drop, DirOf, End, Forget
<1>19. CASE SyncRead(p) BY <1>19 DEF SyncRead, End, Forget
<1>20. CASE Migrate(p) BY <1>20 DEF Migrate, StoreSet, Goto
<1>21. CASE Import(p) BY <1>21 DEF Import, StoreSet, Goto
<1>22. CASE LoadRegistry(p) BY <1>22 DEF LoadRegistry, LoadSteps, SaveOf, Goto, End, Forget
<1>23. CASE UpsertSave(p) BY <1>23 DEF UpsertSave, SaveStep, SaveRegistry, Goto, End, Forget
<1>24. CASE MarkSave(p)
  BY <1>24 DEF MarkSave, OnlyActive, SaveStep, SaveRegistry, Goto, End, Forget
<1>25. CASE SettleSave(p) BY <1>25 DEF SettleSave, SaveStep, SaveRegistry, Goto, End, Forget
<1>26. CASE RmCheck(p) BY <1>26 DEF RmCheck, Goto, LiveOf
<1>27. CASE RmLock(p) BY <1>27 DEF RmLock, Goto, LiveOf
<1>28. CASE RmSave(p) BY <1>28 DEF RmSave, SaveStep, SaveRegistry, Goto, End, Forget
<1>29. CASE RmDelete(p) BY <1>29 DEF RmDelete, StoreSet, Goto
<1>30. CASE RmKeyring(p) BY <1>30 DEF RmKeyring, End, Forget
<1> QED BY <1>1, <1>2, <1>3, <1>4, <1>5, <1>6, <1>7, <1>8, <1>9, <1>10, <1>11, <1>12, <1>13,
           <1>14, <1>15, <1>16, <1>17, <1>18, <1>19, <1>20, <1>21, <1>22, <1>23, <1>24, <1>25,
           <1>26, <1>27, <1>28, <1>29, <1>30 DEF Step, Start

LEMMA FaultsGrow ==
    ASSUME TypeInv, NEW p \in Procs, Step(p), faults' = 0
    PROVE  faults = 0 /\ ~Kill(p) /\ ~SwapFails(p) /\ ~CaptureFails(p)
<1>1. faults \in Nat BY DEF TypeInv, TypeOK
<1>2. Kill(p) \/ SwapFails(p) \/ CaptureFails(p) => faults' = faults + 1
  BY DEF Kill, SwapFails, CaptureFails
<1> QED BY <1>1, <1>2, Faults

LEMMA MarkStep == ASSUME TypeInv, MarkInv, NEW p \in Procs, Step(p) PROVE MarkInv'
<1> SUFFICES ASSUME faults' = 0, ~clobbered', NEW a \in Accounts, NEW b \in Accounts,
                    a \notin Marking', b \notin Marking',
                    registry'[a] = "active", registry'[b] = "active"
             PROVE  a = b
  BY DEF MarkInv
<1> USE DEF TypeInv, TypeOK
<1>1. faults = 0 /\ ~clobbered /\ ~Kill(p) BY FaultsGrow, ClobberedStays
<1>2. \A x, y \in Accounts \ Marking : registry[x] = "active" /\ registry[y] = "active" => x = y
  BY <1>1 DEF MarkInv
\* Who is no longer about to mark its account has done so, or found it gone.
<1>3. CASE Save(p) \/ MarkSave(p)
  <2>1. registry' = OnlyActive(reg[p], acct[p]) BY <1>3 DEF Save, MarkSave, SaveStep, SaveRegistry
  <2> QED BY <2>1 DEF OnlyActive
<1>4. CASE ~(Save(p) \/ MarkSave(p))
  <2>1. ASSUME NEW x \in Accounts, x \in Marking, x \notin Marking' PROVE registry'[x] # "active"
    <3>1. PICK q \in Procs : acct[q] = x /\ pc[q] \in {"MarkLoad", "MarkSave"} BY <2>1 DEF Marking
    <3>2. q = p BY <2>1, <3>1, OthersStay DEF Marking
    <3>3. LoadRegistry(p) /\ pc[p] = "MarkLoad"
      BY <1>1, <1>4, <3>1, <3>2, From DEF MarkSave, SaveStep, LoadRegistry, LoadSteps
    <3>4. registry[x] = "absent"
      <4> SUFFICES ASSUME registry[x] # "absent" PROVE FALSE OBVIOUS
      <4>1. acct'[p] = x /\ pc'[p] = "MarkSave"
        BY <3>1, <3>2, <3>3 DEF LoadRegistry, SaveOf, Goto
      <4> QED BY <2>1, <4>1 DEF Marking
    <3> QED BY <3>3, <3>4 DEF LoadRegistry, files
  <2>2. ASSUME NEW x \in Accounts, x \notin Marking', registry'[x] = "active"
        PROVE  registry[x] = "active"
    <3>1. CASE UpsertSave(p)
      <4>1. /\ registry' = [registry EXCEPT ![acct[p]] = "active"]
            /\ acct'[p] = acct[p] /\ pc'[p] = "MarkLoad"
        BY <1>1, <3>1, ClobberedStays DEF UpsertSave, SaveStep, SaveRegistry, Goto
      <4>2. x # acct[p] BY <2>2, <4>1 DEF Marking
      <4> QED BY <2>2, <4>1, <4>2 DEF Registry
    <3>2. CASE SettleSave(p)
      BY <1>1, <2>2, <3>2, ClobberedStays DEF SettleSave, SaveStep, SaveRegistry
    <3>3. CASE RmSave(p)
      <4>1. registry' = [registry EXCEPT ![acct[p]] = "absent"]
        BY <1>1, <3>3, ClobberedStays DEF RmSave, SaveStep, SaveRegistry
      <4> QED BY <2>2, <4>1 DEF Registry
    <3> QED BY <1>4, <2>2, <3>1, <3>2, <3>3, FileSteps
  <2> QED BY <1>2, <2>1, <2>2
<1> QED BY <1>3, <1>4

LEMMA MarkNext == TypeInv /\ MarkInv /\ [Next]_vars => MarkInv'
<1> SUFFICES ASSUME TypeInv, MarkInv, [Next]_vars PROVE MarkInv' OBVIOUS
<1>1. CASE NativeStep
  BY <1>1 DEF NativeStep, NativeRefresh, NativeStrip, NativeLogin, Native, MarkInv, Marking
<1>2. CASE UNCHANGED vars
  BY <1>2 DEF vars, files, bounds, ghosts, MarkInv, Marking
<1> QED BY <1>1, <1>2, MarkStep DEF Next, NativeStep

\* A set without two different members has at most one.
LEMMA Lone ==
    ASSUME NEW S, \A x, y \in S : x = y
    PROVE  Cardinality(S) <= 1
<1>1. CASE S = {} BY <1>1, FS_EmptySet
<1>2. CASE S # {}
  <2>1. PICK x : x \in S BY <1>2
  <2>2. S = {x} BY <2>1
  <2>3. Cardinality({x}) = 1 BY FS_Singleton
  <2> QED BY <2>2, <2>3
<1> QED BY <1>1, <1>2

\* No two accounts are marked active, but while one is being imported (engine.rs).
THEOREM OneIsMarked == Spec => []OneMarked
<1>1. Init => MarkInv BY DEF Init, MarkInv
<1>2. Spec => [](TypeInv /\ MarkInv)
  BY <1>1, TypeInit, TypeNext, MarkNext, PTL DEF Spec
<1>3. TypeInv /\ MarkInv => OneMarked
  <2> SUFFICES ASSUME TypeInv, MarkInv, faults = 0, ~clobbered,
                      ~\E p \in Procs : pc[p] \in {"MarkLoad", "MarkSave"}
               PROVE  Cardinality({a \in Accounts : registry[a] = "active"}) <= 1
    BY DEF OneMarked, TypeInv, TypeOK
  <2>1. Marking = {} BY DEF Marking
  <2>2. \A x, y \in {a \in Accounts : registry[a] = "active"} : x = y BY <2>1 DEF MarkInv
  <2> QED BY <2>2, Lone
<1> QED BY <1>2, <1>3, PTL

LEMMA SwapSteps ==
    ASSUME NEW p \in Procs, Step(p)
    PROVE  /\ agree' => agree \/ Save(p)
           /\ agree' => registry' = registry \/ Save(p)
           /\ \/ flock' = flock
              \/ Lock(p) \/ Commit(p) \/ Save(p) \/ SwapFails(p) \/ Kill(p)
           /\ pc[p] \in Swapping =>
                 Write(p) \/ Commit(p) \/ Save(p) \/ SwapFails(p) \/ Kill(p)
<1> USE DEF files, ghosts, Swapping
<1>1. CASE Start(p)
  BY <1>1 DEF Start, StartRead, StartSession, StartRemove, StartCapture, StartSync, StartLogin,
              StartCommand
<1>2. CASE Acquire(p) BY <1>2 DEF Acquire
<1>3. CASE Read(p) BY <1>3 DEF Read
<1>4. CASE Repair(p) BY <1>4 DEF Repair
<1>5. CASE Capture(p) BY <1>5 DEF Capture
<1>6. CASE CaptureSet(p) BY <1>6 DEF CaptureSet
<1>7. CASE CaptureFails(p) BY <1>7 DEF CaptureFails
<1>8. CASE Lock(p) BY <1>8 DEF Lock
<1>9. CASE Write(p) BY <1>9 DEF Write
<1>10. CASE Commit(p) BY <1>10 DEF Commit
<1>11. CASE Save(p) BY <1>11 DEF Save
<1>12. CASE SwapFails(p) BY <1>12 DEF SwapFails
<1>13. CASE RefreshNot(p) BY <1>13 DEF RefreshNot
<1>14. CASE Refresh(p) BY <1>14 DEF Refresh
<1>15. CASE Rotated(p) BY <1>15 DEF Rotated
<1>16. CASE Materialize(p) BY <1>16 DEF Materialize
<1>17. CASE SessionRefresh(p) BY <1>17 DEF SessionRefresh
<1>18. CASE SessionEnds(p) BY <1>18 DEF SessionEnds
<1>19. CASE Absorb(p) BY <1>19 DEF Absorb
<1>20. CASE Drop(p) BY <1>20 DEF Drop
<1>21. CASE SyncRead(p) BY <1>21 DEF SyncRead
<1>22. CASE Migrate(p) BY <1>22 DEF Migrate
<1>23. CASE Import(p) BY <1>23 DEF Import
<1>24. CASE LoadRegistry(p) BY <1>24 DEF LoadRegistry, LoadSteps
<1>25. CASE UpsertSave(p) BY <1>25 DEF UpsertSave, SaveStep
<1>26. CASE MarkSave(p) BY <1>26 DEF MarkSave, SaveStep
<1>27. CASE SettleSave(p) BY <1>27 DEF SettleSave, SaveStep
<1>28. CASE RmCheck(p) BY <1>28 DEF RmCheck
<1>29. CASE RmLock(p) BY <1>29 DEF RmLock
<1>30. CASE RmSave(p) BY <1>30 DEF RmSave, SaveStep
<1>31. CASE RmDelete(p) BY <1>31 DEF RmDelete
<1>32. CASE RmKeyring(p) BY <1>32 DEF RmKeyring
<1>33. CASE Kill(p) BY <1>33 DEF Kill
<1> QED BY <1>1, <1>2, <1>3, <1>4, <1>5, <1>6, <1>7, <1>8, <1>9, <1>10, <1>11, <1>12, <1>13,
           <1>14, <1>15, <1>16, <1>17, <1>18, <1>19, <1>20, <1>21, <1>22, <1>23, <1>24, <1>25,
           <1>26, <1>27, <1>28, <1>29, <1>30, <1>31, <1>32, <1>33 DEF Step, Start

LEMMA AgreeStep == ASSUME TypeInv, AgreeInv, NEW p \in Procs, Step(p) PROVE AgreeInv'
<1> USE DEF TypeInv, TypeOK
<1>1. SUFFICES ASSUME agree', ~clobbered'
               PROVE  /\ flock' = NoProc => Marked(live)'
                      /\ \A q \in Procs : /\ flock' = q => Marked(back[q])'
                                          /\ pc'[q] = "Write" => Marked(live)'
  BY DEF AgreeInv
<1>2. \A q \in Procs : pc[q] \in Swapping <=> flock = q BY DEF Shape, FileShape
<1>3. \A q \in Procs \ {p} : pc'[q] = pc[q] /\ back'[q] = back[q] BY OthersStay
<1>4. CASE Save(p)
  <2>1. /\ flock' = NoProc /\ live' = live /\ LiveOf(acct[p])
        /\ registry' = OnlyActive(reg[p], acct[p])
    BY <1>1, <1>4 DEF Save, SaveRegistry
  <2>2. live.id \in Accounts /\ live.id = acct[p] BY <2>1 DEF LiveOf, MaybeBlob, Blob
  <2>3. registry'[live.id] = "active" BY <2>1, <2>2 DEF OnlyActive
  <2>4. Marked(live)' BY <2>1, <2>3 DEF Marked
  <2> QED BY <2>1, <2>4, Constants
<1>5. CASE ~Save(p)
  <2>1. agree /\ ~clobbered /\ registry' = registry
    BY <1>1, <1>5, SwapSteps, ClobberedStays
  <2>2. /\ flock = NoProc => Marked(live)
        /\ \A q \in Procs : /\ flock = q => Marked(back[q])
                            /\ pc[q] = "Write" => Marked(live)
    BY <2>1 DEF AgreeInv
  <2>3. CASE Lock(p)
    <3>1. flock = NoProc /\ flock' = p /\ live' = live /\ back'[p] = live
      BY <2>3 DEF Lock
    <3> QED BY <2>1, <2>2, <3>1, Constants DEF Marked
  <2>4. CASE Write(p)
    <3>1. flock = p /\ flock' = p /\ pc'[p] = "Commit" /\ back'[p] = back[p]
      BY <1>2, <2>4 DEF Write, Goto, Swapping
    <3> QED BY <1>2, <1>3, <2>1, <2>2, <3>1, Constants DEF Marked, Swapping
  <2>5. CASE Commit(p) \/ SwapFails(p)
    <3>1. flock = p /\ \A q \in Procs \ {p} : pc'[q] # "Write"
      BY <1>2, <1>3, <2>5 DEF Commit, SwapFails, Swapping
    <3>2. \/ live' = back[p] /\ flock' = NoProc /\ pc'[p] = "Idle"
          \/ live' = live /\ flock' = p /\ pc'[p] = "Save" /\ back'[p] = back[p]
      BY <2>5, <3>1 DEF Commit, SwapFails, Rollback, End, Goto
    <3> QED BY <2>1, <2>2, <3>1, <3>2, Constants DEF Marked
  <2>6. CASE RmLock(p)
    <3>1. live' = live /\ flock = NoProc /\ flock' = NoProc BY <1>1, <2>6 DEF RmLock
    <3> QED BY <2>1, <2>2, <3>1, Constants DEF Marked
  <2>7. CASE Kill(p)
    <3>1. /\ live' = live /\ pc[p] \notin {"Commit", "Save"} /\ pc'[p] = "Idle"
          /\ flock' = IF flock = p THEN NoProc ELSE flock
      BY <1>1, <2>7 DEF Kill, End
    <3>2. flock = p => Marked(live) BY <1>2, <2>2, <3>1 DEF Swapping
    <3> QED BY <1>3, <2>1, <2>2, <3>1, <3>2, Constants DEF Marked
  <2>8. CASE ~(Lock(p) \/ Write(p) \/ Commit(p) \/ SwapFails(p) \/ RmLock(p) \/ Kill(p))
    <3>1. live' = live /\ flock' = flock /\ pc[p] \notin Swapping
      BY <1>5, <2>8, FileSteps, SwapSteps
    <3>2. flock # p /\ pc'[p] # "Write" BY <1>2, <2>8, <3>1, Into
    <3> QED BY <1>3, <2>1, <2>2, <3>1, <3>2 DEF Marked
  <2> QED BY <2>3, <2>4, <2>5, <2>6, <2>7, <2>8
<1> QED BY <1>4, <1>5

LEMMA AgreeNext == TypeInv /\ AgreeInv /\ [Next]_vars => AgreeInv'
<1> SUFFICES ASSUME TypeInv, AgreeInv, [Next]_vars PROVE AgreeInv' OBVIOUS
<1>1. CASE NativeRefresh
  <2>1. /\ live \in Blob /\ live' = Fresh(live.id)
        /\ UNCHANGED <<registry, flock, back, pc, clobbered, agree>>
    BY <1>1 DEF NativeRefresh, Native, Usable, work, TypeInv, TypeOK, MaybeBlob
  <2>2. live'.id = live.id BY <2>1 DEF Fresh
  <2>3. Marked(live) => Marked(live)' BY <2>1, <2>2, Constants DEF Marked
  <2> QED BY <2>1, <2>3 DEF AgreeInv, Marked
<1>2. CASE NativeStrip \/ \E a \in Accounts : NativeLogin(a)
  BY <1>2 DEF NativeStrip, NativeLogin, AgreeInv
<1>3. CASE UNCHANGED vars
  BY <1>3 DEF vars, files, work, ghosts, AgreeInv, Marked
<1> QED BY <1>1, <1>2, <1>3, AgreeStep DEF Next

\* As long as nobody but swaps has changed the owner of the live file or the
\* marks, the account marked active is the one that is signed in whenever no
\* swap is under way (swap.rs rollback and commit).
THEOREM SwapIsAtomic == Spec => []SwapAllOrNothing
<1>1. Init => AgreeInv
  <2> SUFFICES ASSUME Init PROVE AgreeInv OBVIOUS
  <2>1. PICK a \in Accounts :
           /\ live = [id |-> a, tok |-> 1]
           /\ registry = [b \in Accounts |-> IF b = a THEN "active" ELSE "parked"]
    BY DEF Init
  <2>2. Marked(live) BY <2>1 DEF Marked
  <2>3. flock = NoProc /\ back = [p \in Procs |-> NoBlob] BY DEF Init
  <2> QED BY <2>2, <2>3, Constants DEF AgreeInv
<1>2. Spec => [](TypeInv /\ AgreeInv)
  BY <1>1, TypeInit, TypeNext, AgreeNext, PTL DEF Spec
<1>3. TypeInv /\ AgreeInv => SwapAllOrNothing BY DEF AgreeInv, SwapAllOrNothing, Marked
<1> QED BY <1>2, <1>3, PTL
=============================================================================
