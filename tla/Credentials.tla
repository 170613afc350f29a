------------------------------ MODULE Credentials ------------------------------
(***************************************************************************)
(* The credentials of one file-based provider (Codex, Kimi, Command Code): *)
(* providers/common/src/engine.rs with the swap transaction (core/src/     *)
(* swap.rs), the registry (core/src/account_registry.rs), the credential   *)
(* store (core/src/store.rs), checkouts (core/src/checkout.rs) and the     *)
(* commands that use them (cli/src/cmd/{swap,login,rm,run,default}.rs).    *)
(*                                                                         *)
(* A credential is an account's id and its refresh token.  The server      *)
(* replaces a refresh token whenever it is used, after which the old one   *)
(* is refused.  Copies live in the client's live file, the store, the old  *)
(* keyring, private directories and the memory of running commands, and    *)
(* each step below lies between two accesses to one of these.              *)
(*                                                                         *)
(* Abstractions.  An account is known by its id alone (no second key to    *)
(* find duplicates by).  A credential that lacks a part a client needs     *)
(* has the token None.  The store's own lock makes every access to it one  *)
(* step.  The official client reads, rotates and writes in one step.       *)
(***************************************************************************)
EXTENDS Naturals, FiniteSets

CONSTANTS
    Accounts, Procs, NoProc, NoAccount, NoBlob,
    NoDir, Empty,    \* a private directory that does not exist, or has no credential
    Cmds,            \* the commands that are started in this instance
    MaxTokens,       \* bound: tokens the server issues per account
    MaxCommands,     \* bound: commands started
    MaxNative,       \* bound: what the official client does to the live file
    MaxFaults        \* bound: kills and failed writes

ASSUME CredentialsAssumption ==
    /\ NoProc \notin Procs /\ NoAccount \notin Accounts
    /\ Cmds \subseteq {"swap", "query", "auth", "capture", "sync", "login", "rm", "run", "env"}
    /\ MaxTokens \in Nat \ {0} /\ MaxCommands \in Nat /\ MaxNative \in Nat /\ MaxFaults \in Nat

VARIABLES
    valid,      \* the server: the refresh tokens it accepts, per account
    issued,     \* the server: how many it has issued, per account
    live,       \* the client's credential file
    store,      \* credentials.json, per account
    keyring,    \* the keyring that was used before, per account
    registry,   \* registry.toml: absent, parked or active, per account
    flock,      \* the holder of .subswap.lock
    env,        \* private directories: NoDir, Empty or a credential
    pc, cmd, acct,   \* a process' step, command and account
    parked,     \* whether the account was parked when the command looked
    mem,        \* the credential the command works with
    cap,        \* the live credential it stores; kept by a swap until it overwrites it
    back,       \* the live file it will restore
    reg,        \* the registry it has loaded
    commands, natives, faults,   \* bounded by Max...
    \* History, read by properties only:
    blame,      \* why an account's newest token may be lost
    clobbered,  \* a registry was saved over one it was not loaded from
    agree       \* the last to change live file or mark was an activation

server == <<valid, issued>>
files  == <<live, store, keyring, registry, flock, env>>
work   == <<mem, cap, back, reg, parked>>
bounds == <<commands, natives, faults>>
ghosts == <<blame, clobbered, agree>>
vars == <<server, files, pc, cmd, acct, work, bounds, ghosts>>

None == 0
Token == 0 .. MaxTokens
Blob == [id : Accounts, tok : Token]
MaybeBlob == Blob \cup {NoBlob}

ASSUME BlobAssumption == NoBlob \notin Blob /\ NoDir \notin Blob /\ Empty \notin Blob

Mark == {"absent", "parked", "active"}
Registry == [Accounts -> Mark]
\* Every process counts its checkouts from 0 and makes one.
FirstSeq == 0
Dirs == Accounts \X {FirstSeq}
DirOf(p) == <<acct[p], FirstSeq>>

Steps == {"Idle", "Acquire", "Read", "Repair", "Capture", "CaptureSet", "Lock",
          "Write", "Commit", "Save", "Refresh", "Rotated", "Materialize", "Session",
          "Absorb", "Drop", "SyncRead", "Migrate", "Import", "UpsertLoad", "UpsertSave",
          "MarkLoad", "MarkSave", "SettleLoad", "SettleSave",
          "RmCheck", "RmLock", "RmLoad", "RmSave", "RmDelete", "RmKeyring"}

TypeOK ==
    /\ valid \in [Accounts -> SUBSET Token] /\ issued \in [Accounts -> Token]
    /\ live \in MaybeBlob
    /\ store \in [Accounts -> MaybeBlob] /\ keyring \in [Accounts -> MaybeBlob]
    /\ registry \in Registry
    /\ flock \in Procs \cup {NoProc}
    /\ env \in [Dirs -> Blob \cup {NoDir, Empty}]
    /\ pc \in [Procs -> Steps]
    /\ cmd \in [Procs -> Cmds \cup {"none"}]
    /\ acct \in [Procs -> Accounts \cup {NoAccount}]
    /\ parked \in [Procs -> BOOLEAN]
    /\ mem \in [Procs -> MaybeBlob] /\ cap \in [Procs -> MaybeBlob]
    /\ back \in [Procs -> MaybeBlob]
    /\ reg \in [Procs -> Registry \cup {NoBlob}]
    /\ commands \in 0 .. MaxCommands /\ natives \in 0 .. MaxNative
    /\ faults \in 0 .. MaxFaults
    /\ blame \in [Accounts -> SUBSET {"divided", "contended", "overtaken", "fault", "stripped",
                                      "shared", "unmanaged"}]
    /\ clobbered \in BOOLEAN /\ agree \in BOOLEAN

\* Every account was imported once; one is signed in, and one may still be in
\* the old keyring.
Init ==
    /\ valid = [a \in Accounts |-> {1}] /\ issued = [a \in Accounts |-> 1]
    /\ \E a \in Accounts :
          /\ live = [id |-> a, tok |-> 1]
          /\ registry = [b \in Accounts |-> IF b = a THEN "active" ELSE "parked"]
    /\ \E old \in SUBSET Accounts :
          /\ keyring = [a \in Accounts |-> IF a \in old THEN [id |-> a, tok |-> 1] ELSE NoBlob]
          /\ store = [a \in Accounts |-> IF a \in old THEN NoBlob ELSE [id |-> a, tok |-> 1]]
    /\ flock = NoProc
    /\ env = [d \in Dirs |-> NoDir]
    /\ pc = [p \in Procs |-> "Idle"] /\ cmd = [p \in Procs |-> "none"]
    /\ acct = [p \in Procs |-> NoAccount] /\ parked = [p \in Procs |-> FALSE]
    /\ mem = [p \in Procs |-> NoBlob] /\ cap = [p \in Procs |-> NoBlob]
    /\ back = [p \in Procs |-> NoBlob] /\ reg = [p \in Procs |-> NoBlob]
    /\ commands = 0 /\ natives = 0 /\ faults = 0
    /\ blame = [a \in Accounts |-> {}]
    /\ clobbered = FALSE /\ agree = TRUE

\* The store's file is replaced under its lock.
StoreSet(a, b) == store' = [store EXCEPT ![a] = b]

LiveOf(a) == live # NoBlob /\ live.id = a
Usable(b) == b # NoBlob /\ b.tok \in valid[b.id]

-----------------------------------------------------------------------------
(* Copies of an account that somebody goes on to use, and what is lost of  *)
(* them                                                                    *)

\* The live file, private directories, and what running commands will write.
Working(a) ==
    {b \in {live} \cup {env[d] : d \in {d \in Dirs : env[d] \notin {NoDir, Empty}}}
              \cup {mem[p] : p \in Procs} \cup {cap[p] : p \in Procs}
              \cup {back[p] : p \in Procs} :
        b # NoBlob /\ b.id = a}

\* Somebody works with the newest token while another has one that is dead.
Divided(a) ==
    /\ \E b \in Working(a) : b.tok \in valid[a]
    /\ \E b \in Working(a) : b.tok \notin valid[a]

\* Another command works on an account that one is removing, and may store its
\* credential again.
Contended(a) ==
    \E p, q \in Procs :
        /\ p # q /\ cmd[p] = "rm" /\ acct[p] = a
        /\ \/ acct[q] = a
           \/ \E b \in {mem[q], cap[q]} : b # NoBlob /\ b.id = a

\* Every step ends with it: what may cost an account its token is remembered.
Note(because) ==
    blame' = [a \in Accounts |->
                blame[a] \cup because[a]
                \cup (IF Divided(a)' THEN {"divided"} ELSE {})
                \cup (IF Contended(a)' THEN {"contended"} ELSE {})]

Nothing == [a \in Accounts |-> {}]
For(a, why) == [b \in Accounts |-> IF b = a THEN {why} ELSE {}]

\* Stays with the command until it ends.
Goto(p, step) ==
    pc' = [pc EXCEPT ![p] = step] /\ UNCHANGED <<cmd, acct, bounds>>

Forget(p) ==
    /\ mem' = [mem EXCEPT ![p] = NoBlob] /\ cap' = [cap EXCEPT ![p] = NoBlob]
    /\ back' = [back EXCEPT ![p] = NoBlob] /\ reg' = [reg EXCEPT ![p] = NoBlob]
    /\ parked' = [parked EXCEPT ![p] = FALSE]

End(p) ==
    /\ pc' = [pc EXCEPT ![p] = "Idle"]
    /\ cmd' = [cmd EXCEPT ![p] = "none"] /\ acct' = [acct EXCEPT ![p] = NoAccount]
    /\ Forget(p)

-----------------------------------------------------------------------------
(* Reading the credential of an account (raw_blob_for_account)             *)

\* A command is given a registered account ...
StartCommand(p, c, a, step, isParked) ==
    /\ pc[p] = "Idle" /\ c \in Cmds /\ commands < MaxCommands /\ commands' = commands + 1
    /\ cmd' = [cmd EXCEPT ![p] = c]
    /\ acct' = [acct EXCEPT ![p] = a]
    /\ parked' = [parked EXCEPT ![p] = isParked]
    /\ pc' = [pc EXCEPT ![p] = step]
    /\ UNCHANGED <<server, files, mem, cap, back, reg, natives, faults, ghosts>>

StartRead(p, c, a) ==
    /\ c \in {"swap", "query", "auth"} /\ registry[a] # "absent"
    /\ StartCommand(p, c, a, "Read", registry[a] = "parked")

StartSession(p, c, a) ==
    /\ c \in {"run", "env"} /\ registry[a] # "absent"
    /\ StartCommand(p, c, a, "Acquire", registry[a] = "parked")

StartRemove(p, a) ==
    /\ registry[a] # "absent"
    /\ StartCommand(p, "rm", a, "RmCheck", FALSE)

\* ... or looks at whoever is signed in.
StartCapture(p) ==
    /\ live # NoBlob
    /\ StartCommand(p, "capture", NoAccount, "Capture", FALSE)

StartSync(p) ==
    /\ live # NoBlob
    /\ StartCommand(p, "sync", NoAccount, "SyncRead", FALSE)

\* `login`, once the client's own login has succeeded.
StartLogin(p) ==
    /\ live # NoBlob
    /\ StartCommand(p, "login", NoAccount, "SyncRead", FALSE)

\* `Checkout::acquire` makes the directory and is content with one that exists.
Acquire(p) ==
    /\ pc[p] = "Acquire"
    /\ env' = [env EXCEPT ![DirOf(p)] = IF @ = NoDir THEN Empty ELSE @]
    /\ Goto(p, "Read")
    /\ UNCHANGED <<server, live, store, keyring, registry, flock, work, ghosts>>

AfterRead(p) ==
    CASE cmd[p] = "swap" -> "Capture"
      [] cmd[p] \in {"run", "env"} -> "Materialize"
      [] cmd[p] = "query" /\ parked[p] -> "Refresh"
      [] OTHER -> "Idle"

\* A failed read drops the checkout, a command without one is over.
AfterFailure(p) == IF cmd[p] \in {"run", "env"} THEN "Drop" ELSE "Idle"

\* Of the live file first, whatever the registry marks, else of the store; what
\* is only in the keyring moves to the store.
Read(p) ==
    LET a == acct[p]
        take(b, step) ==
            IF step = "Idle" THEN End(p) /\ UNCHANGED bounds
            ELSE mem' = [mem EXCEPT ![p] = b] /\ Goto(p, step)
                 /\ UNCHANGED <<cap, back, reg, parked>>
    IN /\ pc[p] = "Read"
       /\ \/ LiveOf(a) /\ take(live, "Repair")
          \/ ~LiveOf(a) /\ store[a] # NoBlob /\ take(store[a], AfterRead(p))
          \/ ~LiveOf(a) /\ store[a] = NoBlob /\ keyring[a] # NoBlob
                /\ take(keyring[a], "Repair")
          \/ ~LiveOf(a) /\ store[a] = NoBlob /\ keyring[a] = NoBlob
                /\ take(NoBlob, AfterFailure(p))
       /\ UNCHANGED <<server, files, clobbered, agree>>
       /\ Note(Nothing)

\* The store is given what was read elsewhere.
Repair(p) ==
    /\ pc[p] = "Repair"
    /\ StoreSet(acct[p], mem[p])
    /\ IF AfterRead(p) = "Idle" THEN End(p) /\ UNCHANGED bounds
       ELSE Goto(p, AfterRead(p)) /\ UNCHANGED work
    /\ UNCHANGED <<server, live, keyring, registry, flock, env, clobbered, agree>>
    /\ Note(Nothing)

-----------------------------------------------------------------------------
(* The swap: capture on leave, and the transaction                         *)

AfterCapture(p) == IF cmd[p] = "swap" THEN "Lock" ELSE "Idle"

GoOn(p, step) ==
    IF step = "Idle" THEN End(p) /\ UNCHANGED bounds
    ELSE Goto(p, step) /\ UNCHANGED work

\* What the client cannot use must not replace what it can.
Poorer(b) == b.tok = None /\ store[b.id] # NoBlob /\ store[b.id].tok # None

Capturable == live # NoBlob /\ registry[live.id] # "absent" /\ ~Poorer(live)

\* A swap leaves a credential behind whose account is not in the registry.
Unmanaged(p) ==
    IF cmd[p] = "swap" /\ live # NoBlob /\ registry[live.id] = "absent"
    THEN For(live.id, "unmanaged") ELSE Nothing

\* The live credential belongs into the store of its owner, if it has one.
Capture(p) ==
    /\ pc[p] = "Capture"
    /\ IF ~Capturable /\ AfterCapture(p) = "Idle" THEN End(p) /\ UNCHANGED bounds
       ELSE /\ cap' = [cap EXCEPT ![p] = live]
            /\ Goto(p, IF Capturable THEN "CaptureSet" ELSE AfterCapture(p))
            /\ UNCHANGED <<mem, back, reg, parked>>
    /\ UNCHANGED <<server, files, clobbered, agree>>
    /\ Note(Unmanaged(p))

\* Mutant of CaptureSet: an account whose credential is stored is left alone.
CaptureSetOnce(p) ==
    /\ pc[p] = "CaptureSet"
    /\ StoreSet(cap[p].id, IF store[cap[p].id] = NoBlob THEN cap[p] ELSE store[cap[p].id])
    /\ GoOn(p, AfterCapture(p))
    /\ UNCHANGED <<server, live, keyring, registry, flock, env, clobbered, agree>>
    /\ Note(Nothing)

CaptureSet(p) ==
    /\ pc[p] = "CaptureSet"
    /\ StoreSet(cap[p].id, cap[p])
    /\ GoOn(p, AfterCapture(p))
    /\ UNCHANGED <<server, live, keyring, registry, flock, env, clobbered, agree>>
    /\ Note(Nothing)

\* The backup is made under the lock.
Lock(p) ==
    /\ pc[p] = "Lock" /\ flock = NoProc
    /\ flock' = p
    /\ back' = [back EXCEPT ![p] = live]
    /\ Goto(p, "Write")
    /\ UNCHANGED <<server, live, store, keyring, registry, env, mem, cap, reg, parked,
                   clobbered, agree>>
    /\ Note(Nothing)

\* The live file has changed since the swap captured it.
Overtaken(p) ==
    IF live # NoBlob /\ live # cap[p]
    THEN For(live.id, "overtaken") ELSE Nothing

\* It has changed since the swap wrote it, and is rolled back.
Undone(p) ==
    IF live # NoBlob /\ live \notin {mem[p], back[p]}
    THEN For(live.id, "overtaken") ELSE Nothing

Write(p) ==
    /\ pc[p] = "Write"
    /\ live' = mem[p]
    /\ cap' = [cap EXCEPT ![p] = NoBlob]
    /\ Goto(p, "Commit")
    /\ UNCHANGED <<server, store, keyring, registry, flock, env, mem, back, reg, parked,
                   clobbered, agree>>
    /\ Note(Overtaken(p))

\* `rollback` writes the backup over whatever is there by now.
Rollback(p) ==
    /\ live' = back[p]
    /\ flock' = NoProc
    /\ End(p)
    /\ UNCHANGED bounds

\* The commit is `set_active`, which fails for an account that is gone.
Commit(p) ==
    /\ pc[p] = "Commit"
    /\ \/ /\ registry[acct[p]] # "absent"
          /\ reg' = [reg EXCEPT ![p] = registry]
          /\ Goto(p, "Save")
          /\ UNCHANGED <<live, flock, mem, cap, back, parked>>
       \/ registry[acct[p]] = "absent" /\ Rollback(p)
    /\ UNCHANGED <<server, store, keyring, registry, env, clobbered, agree>>
    /\ Note(IF pc'[p] = "Idle" THEN Undone(p) ELSE Nothing)

\* Mutant of OnlyActive: the account that was active before keeps its mark.
AlsoActive(r, a) == [r EXCEPT ![a] = "active"]

OnlyActive(r, a) ==
    [b \in Accounts |->
        IF b = a THEN "active" ELSE IF r[b] = "absent" THEN "absent" ELSE "parked"]

\* A registry is saved as a whole: changes made since it was loaded are lost.
SaveRegistry(p, new) ==
    /\ registry' = new
    /\ clobbered' = (clobbered \/ registry # reg[p])

Save(p) ==
    /\ pc[p] = "Save"
    /\ SaveRegistry(p, OnlyActive(reg[p], acct[p]))
    /\ flock' = NoProc
    /\ agree' = (LiveOf(acct[p]) /\ ~clobbered')
    /\ End(p)
    /\ UNCHANGED <<server, live, store, keyring, env, bounds>>
    /\ Note(Nothing)

\* Mutant of SwapFails: what was written stays.
SwapFailsHalfway(p) ==
    /\ pc[p] \in {"Write", "Commit", "Save"} /\ faults < MaxFaults
    /\ faults' = faults + 1
    /\ flock' = NoProc
    /\ End(p)
    /\ UNCHANGED <<server, live, store, keyring, registry, env, commands, natives,
                   clobbered, agree>>
    /\ Note(Undone(p))

\* A failed write or commit: what was written is rolled back.
SwapFails(p) ==
    /\ pc[p] \in {"Write", "Commit", "Save"} /\ faults < MaxFaults
    /\ faults' = faults + 1
    /\ live' = back[p]
    /\ flock' = NoProc
    /\ End(p)
    /\ UNCHANGED <<server, store, keyring, registry, env, commands, natives, clobbered, agree>>
    /\ Note(Undone(p))

-----------------------------------------------------------------------------
(* Querying a parked account refreshes its token                           *)

\* The server gives a new token for one that it accepts.
Rotate(a, t) ==
    /\ issued[a] < MaxTokens
    /\ issued' = [issued EXCEPT ![a] = @ + 1]
    /\ valid' = [valid EXCEPT ![a] = (@ \ {t}) \cup {issued[a] + 1}]

Fresh(a) == [id |-> a, tok |-> issued[a] + 1]

\* Not due, refused, or the endpoint does not answer: the query goes on.
RefreshNot(p) ==
    /\ pc[p] = "Refresh"
    /\ End(p)
    /\ UNCHANGED <<server, files, bounds, clobbered, agree>>
    /\ Note(Nothing)

Refresh(p) ==
    /\ pc[p] = "Refresh" /\ Usable(mem[p])
    /\ Rotate(acct[p], mem[p].tok)
    /\ mem' = [mem EXCEPT ![p] = Fresh(acct[p])]
    /\ Goto(p, "Rotated")
    /\ UNCHANGED <<files, cap, back, reg, parked, clobbered, agree>>
    /\ Note(Nothing)

Rotated(p) ==
    /\ pc[p] = "Rotated"
    /\ StoreSet(acct[p], mem[p])
    /\ End(p)
    /\ UNCHANGED <<server, live, keyring, registry, flock, env, bounds, clobbered, agree>>
    /\ Note(Nothing)

-----------------------------------------------------------------------------
(* Private directories: run, env                                           *)

\* Another command works in the same directory.
Shared(p) ==
    IF \E q \in Procs \ {p} : cmd[q] \in {"run", "env"} /\ DirOf(q) = DirOf(p)
    THEN For(acct[p], "shared") ELSE Nothing

Materialize(p) ==
    /\ pc[p] = "Materialize"
    /\ env' = [env EXCEPT ![DirOf(p)] = mem[p]]
    /\ mem' = [mem EXCEPT ![p] = NoBlob]
    /\ Goto(p, IF cmd[p] = "run" THEN "Session" ELSE "Drop")
    /\ UNCHANGED <<server, live, store, keyring, registry, flock, cap, back, reg, parked,
                   clobbered, agree>>
    /\ Note(Shared(p))

\* The client in the directory rotates its token there.
SessionRefresh(p) ==
    LET d == DirOf(p) IN
    /\ pc[p] = "Session" /\ env[d] \in Blob /\ Usable(env[d])
    /\ Rotate(acct[p], env[d].tok)
    /\ env' = [env EXCEPT ![d] = Fresh(acct[p])]
    /\ UNCHANGED <<live, store, keyring, registry, flock, pc, cmd, acct, work, bounds,
                   clobbered, agree>>
    /\ Note(Nothing)

\* The session is over and its credential is read back, if there is one.
SessionEnds(p) ==
    LET d == DirOf(p) IN
    /\ pc[p] = "Session"
    /\ \/ env[d] \in Blob /\ mem' = [mem EXCEPT ![p] = env[d]] /\ Goto(p, "Absorb")
       \/ env[d] \notin Blob /\ UNCHANGED mem /\ Goto(p, "Drop")
    /\ UNCHANGED <<server, files, cap, back, reg, parked, clobbered, agree>>
    /\ Note(Nothing)

Absorb(p) ==
    /\ pc[p] = "Absorb"
    /\ StoreSet(acct[p], mem[p])
    /\ Goto(p, "Drop")
    /\ UNCHANGED <<server, live, keyring, registry, flock, env, work, clobbered, agree>>
    /\ Note(Nothing)

\* Mutant of Drop: an emptied directory stands for none.
DropEmpties(p) ==
    /\ pc[p] = "Drop"
    /\ env' = [env EXCEPT ![DirOf(p)] = NoBlob]
    /\ End(p)
    /\ UNCHANGED <<server, live, store, keyring, registry, flock, bounds, clobbered, agree>>
    /\ Note(Shared(p))

Drop(p) ==
    /\ pc[p] = "Drop"
    /\ env' = [env EXCEPT ![DirOf(p)] = NoDir]
    /\ End(p)
    /\ UNCHANGED <<server, live, store, keyring, registry, flock, bounds, clobbered, agree>>
    /\ Note(Shared(p))

-----------------------------------------------------------------------------
(* The entries find out who is signed in: the default entry only marks the *)
(* account if its credential is known, a login stores it anew              *)

SyncRead(p) ==
    LET known == cmd[p] = "sync" /\ store[live.id] # NoBlob
        old   == cmd[p] = "sync" /\ store[live.id] = NoBlob /\ keyring[live.id] # NoBlob
    IN /\ pc[p] = "SyncRead"
       /\ IF live = NoBlob THEN End(p) /\ UNCHANGED bounds
          ELSE /\ acct' = [acct EXCEPT ![p] = live.id]
               /\ \/ known /\ UNCHANGED mem
                  \/ old /\ mem' = [mem EXCEPT ![p] = keyring[live.id]]
                  \/ ~known /\ ~old /\ mem' = [mem EXCEPT ![p] = live]
               /\ pc' = [pc EXCEPT ![p] = IF known THEN "MarkLoad"
                                          ELSE IF old THEN "Migrate" ELSE "Import"]
               /\ UNCHANGED <<cmd, bounds, cap, back, reg, parked>>
       /\ UNCHANGED <<server, files, clobbered, agree>>
       /\ Note(Nothing)

\* Asking the store whether it has the account moves it out of the keyring.
Migrate(p) ==
    /\ pc[p] = "Migrate"
    /\ StoreSet(acct[p], mem[p])
    /\ mem' = [mem EXCEPT ![p] = NoBlob]
    /\ Goto(p, "MarkLoad")
    /\ UNCHANGED <<server, live, keyring, registry, flock, env, cap, back, reg, parked,
                   clobbered, agree>>
    /\ Note(Nothing)

\* `store_account`: the credential first, then the registry's entry, marked
\* active while another may be marked as well.
Import(p) ==
    /\ pc[p] = "Import"
    /\ StoreSet(acct[p], mem[p])
    /\ mem' = [mem EXCEPT ![p] = NoBlob]
    /\ Goto(p, "UpsertLoad")
    /\ UNCHANGED <<server, live, keyring, registry, flock, env, cap, back, reg, parked,
                   clobbered, agree>>
    /\ Note(Nothing)

\* `upsert`, `set_active` and `clear_settled_marker` load the registry alike.
LoadSteps == {"UpsertLoad", "MarkLoad", "SettleLoad", "RmLoad"}

SaveOf(step) ==
    CASE step = "UpsertLoad" -> "UpsertSave" [] step = "MarkLoad" -> "MarkSave"
      [] step = "SettleLoad" -> "SettleSave" [] step = "RmLoad" -> "RmSave"

LoadRegistry(p) ==
    /\ pc[p] \in LoadSteps
    /\ IF pc[p] \in {"MarkLoad", "RmLoad"} /\ registry[acct[p]] = "absent"
       THEN End(p) /\ UNCHANGED bounds
       ELSE /\ reg' = [reg EXCEPT ![p] = registry]
            /\ Goto(p, SaveOf(pc[p]))
            /\ UNCHANGED <<mem, cap, back, parked>>
    /\ UNCHANGED <<server, files, clobbered, agree>>
    /\ Note(Nothing)

SaveStep(p, step, new, next) ==
    /\ pc[p] = step
    /\ SaveRegistry(p, new)
    /\ agree' = FALSE
    /\ IF next = "Idle" THEN End(p) /\ UNCHANGED bounds
       ELSE /\ Goto(p, next) /\ reg' = [reg EXCEPT ![p] = NoBlob]
            /\ UNCHANGED <<mem, cap, back, parked>>
    /\ UNCHANGED <<server, live, store, keyring, flock, env>>
    /\ Note(Nothing)

UpsertSave(p) == SaveStep(p, "UpsertSave", [reg[p] EXCEPT ![acct[p]] = "active"], "MarkLoad")

MarkSave(p) == SaveStep(p, "MarkSave", OnlyActive(reg[p], acct[p]),
                        IF cmd[p] = "sync" THEN "SettleLoad" ELSE "Idle")

\* The default entry clears the time of the last use, and saves all again.
SettleSave(p) == SaveStep(p, "SettleSave", reg[p], "Idle")

-----------------------------------------------------------------------------
(* Removing an account                                                     *)

RmCheck(p) ==
    /\ pc[p] = "RmCheck"
    /\ Goto(p, IF LiveOf(acct[p]) THEN "RmLock" ELSE "RmLoad")
    /\ UNCHANGED <<server, files, work, clobbered, agree>>
    /\ Note(Nothing)

\* Signs the client out, if it is still the account's under the lock.
RmLock(p) ==
    /\ pc[p] = "RmLock" /\ flock = NoProc
    /\ live' = IF LiveOf(acct[p]) THEN NoBlob ELSE live
    /\ agree' = (agree /\ ~LiveOf(acct[p]))
    /\ Goto(p, "RmLoad")
    /\ UNCHANGED <<server, store, keyring, registry, flock, env, work, clobbered>>
    /\ Note(Nothing)

RmSave(p) == SaveStep(p, "RmSave", [reg[p] EXCEPT ![acct[p]] = "absent"], "RmDelete")

RmDelete(p) ==
    /\ pc[p] = "RmDelete"
    /\ StoreSet(acct[p], NoBlob)
    /\ Goto(p, "RmKeyring")
    /\ UNCHANGED <<server, live, keyring, registry, flock, env, work, clobbered, agree>>
    /\ Note(Nothing)

\* Mutant of RmKeyring: the old copy in the keyring stays.
RmKeyringSkipped(p) ==
    /\ pc[p] = "RmKeyring"
    /\ End(p)
    /\ UNCHANGED <<server, live, store, keyring, registry, flock, env, bounds, clobbered,
                   agree>>
    /\ Note(Nothing)

RmKeyring(p) ==
    /\ pc[p] = "RmKeyring"
    /\ keyring' = [keyring EXCEPT ![acct[p]] = NoBlob]
    /\ End(p)
    /\ UNCHANGED <<server, live, store, registry, flock, env, bounds, clobbered, agree>>
    /\ Note(Nothing)

-----------------------------------------------------------------------------
(* The official client, and failures                                       *)

Native ==
    /\ natives < MaxNative /\ natives' = natives + 1
    /\ UNCHANGED <<store, keyring, registry, flock, env, pc, cmd, acct, work, commands,
                   faults, clobbered>>

NativeRefresh ==
    /\ Native /\ Usable(live)
    /\ Rotate(live.id, live.tok)
    /\ live' = Fresh(live.id)
    /\ UNCHANGED agree
    /\ Note(Nothing)

\* A login is a grant of its own: older tokens stay good.
NativeLogin(a) ==
    /\ Native /\ issued[a] < MaxTokens
    /\ issued' = [issued EXCEPT ![a] = @ + 1]
    /\ valid' = [valid EXCEPT ![a] = @ \cup {issued[a] + 1}]
    /\ live' = Fresh(a)
    /\ agree' = FALSE
    /\ Note(IF live # NoBlob /\ live.id # a THEN For(live.id, "stripped") ELSE Nothing)

\* The client rewrites its file without a refresh token, or removes it.
NativeStrip ==
    /\ Native /\ live # NoBlob
    /\ live' \in {[live EXCEPT !.tok = None], NoBlob}
    /\ agree' = FALSE
    /\ UNCHANGED server
    /\ Note(For(live.id, "stripped"))

Holds(p) == {a \in Accounts : \/ acct[p] = a
                              \/ \E b \in {mem[p], cap[p], back[p]} : b # NoBlob /\ b.id = a}

\* A killed process leaves its files as they are; the lock is released.
Kill(p) ==
    /\ pc[p] # "Idle" /\ faults < MaxFaults /\ faults' = faults + 1
    /\ flock' = IF flock = p THEN NoProc ELSE flock
    /\ agree' = (agree /\ pc[p] \notin {"Commit", "Save"})
    /\ End(p)
    /\ UNCHANGED <<server, live, store, keyring, registry, env, commands, natives, clobbered>>
    /\ Note([a \in Accounts |-> IF a \in Holds(p) THEN {"fault"} ELSE {}])

\* The capture on leave fails, and the swap goes on without it.
CaptureFails(p) ==
    /\ pc[p] = "CaptureSet" /\ cmd[p] = "swap"
    /\ faults < MaxFaults /\ faults' = faults + 1
    /\ pc' = [pc EXCEPT ![p] = "Lock"]
    /\ UNCHANGED <<server, files, cmd, acct, work, commands, natives, clobbered, agree>>
    /\ Note(For(cap[p].id, "fault"))

Step(p) ==
    \/ \E c \in Cmds, a \in Accounts : StartRead(p, c, a) \/ StartSession(p, c, a)
    \/ \E a \in Accounts : StartRemove(p, a)
    \/ StartCapture(p) \/ StartSync(p) \/ StartLogin(p)
    \/ Acquire(p) \/ Read(p) \/ Repair(p)
    \/ Capture(p) \/ CaptureSet(p) \/ CaptureFails(p)
    \/ Lock(p) \/ Write(p) \/ Commit(p) \/ Save(p) \/ SwapFails(p)
    \/ RefreshNot(p) \/ Refresh(p) \/ Rotated(p)
    \/ Materialize(p) \/ SessionRefresh(p) \/ SessionEnds(p) \/ Absorb(p) \/ Drop(p)
    \/ SyncRead(p) \/ Migrate(p) \/ Import(p) \/ LoadRegistry(p)
    \/ UpsertSave(p) \/ MarkSave(p) \/ SettleSave(p)
    \/ RmCheck(p) \/ RmLock(p) \/ RmSave(p) \/ RmDelete(p) \/ RmKeyring(p)
    \/ Kill(p)

Next ==
    \/ \E p \in Procs : Step(p)
    \/ NativeRefresh \/ NativeStrip \/ \E a \in Accounts : NativeLogin(a)

Spec == Init /\ [][Next]_vars

-----------------------------------------------------------------------------
(* Properties                                                              *)

\* The copy of the account's credential that is used next: the live file's if
\* it is the account's, the store's or the keyring's otherwise.
Used(a) ==
    IF LiveOf(a) THEN live
    ELSE IF store[a] # NoBlob THEN store[a] ELSE keyring[a]

\* What a session or a running command is about to store.
InFlight(a) ==
    {b \in {mem[p] : p \in {p \in Procs : pc[p] \in {"Rotated", "Absorb", "Import"}}}
             \cup {env[DirOf(p)] : p \in {p \in Procs : pc[p] = "Session"}} :
        b \in Blob /\ b.id = a}

\* The token of a registered account is never lost: of every account the copy
\* that is used next, or one that is about to be stored, is accepted by the
\* server, whatever sequence of swaps, captures, refreshes, sessions and logins
\* went before (engine.rs: capture on leave, repair on read, absorb).  Excepted
\* are accounts under removal; accounts that two parties worked with at once,
\* one of them with a token the other had replaced; that a swap found signed in
\* while their import had not registered them yet; whose holder was killed or
\* could not store; or whose token the client has dropped.
NothingLost ==
    \A a \in Accounts :
        /\ registry[a] # "absent" /\ blame[a] = {} /\ ~clobbered
        /\ ~\E p \in Procs : cmd[p] = "rm" /\ acct[p] = a
        =>  \/ Usable(Used(a))
            \/ \E b \in InFlight(a) : Usable(b)

\* A swap is all or nothing: as long as nobody but swaps has changed the live
\* file's owner or the marks, the account marked active is the one that is
\* signed in whenever no swap is under way, failed swaps included (swap.rs
\* rolls back, set_active is the commit).
SwapAllOrNothing ==
    agree /\ ~clobbered /\ flock = NoProc /\ live # NoBlob =>
        registry[live.id] = "active"

\* At most one account is marked as active, but for an import that has not yet
\* unmarked the other, or was killed before (engine.rs store_account, then
\* set_active), or whose registry was saved over another's.
OneMarked ==
    \/ Cardinality({a \in Accounts : registry[a] = "active"}) <= 1
    \/ \E p \in Procs : pc[p] \in {"MarkLoad", "MarkSave"}
    \/ faults > 0 \/ clobbered

\* Nothing is kept of a removed account, neither in the store nor in the old
\* keyring from which the store would take it again, unless a command had it
\* in memory when it was removed (rm.rs, store.rs delete).
Forgotten ==
    \A a \in Accounts :
        /\ registry[a] = "absent" /\ blame[a] = {} /\ ~clobbered
        /\ ~\E p \in Procs : acct[p] = a
        => store[a] = NoBlob /\ keyring[a] = NoBlob

\* "Each call returns a different env_dir" (checkout.rs): two sessions of an
\* account never share a directory.
OwnDirectory ==
    \A p, q \in Procs :
        p # q /\ pc[p] = "Session" /\ pc[q] = "Session" => DirOf(p) # DirOf(q)
=============================================================================
