------------------------------- MODULE ClaudeApi -------------------------------
(***************************************************************************)
(* The API mode of Claude Code: an API key of Claude or of Volcengine in   *)
(* the environment of settings.json, and the sentinel .subswap-api.json    *)
(* that says whose key it is and what the user had there before            *)
(* (claude/src/lib.rs, claude_files.rs, volcengine/src/lib.rs).            *)
(*                                                                         *)
(* Both files are read before .subswap.lock is taken and written under it, *)
(* one after the other; a transaction that fails is rolled back.  What     *)
(* leaves the mode after a login in Claude Code, or when the account of    *)
(* the key is removed from Claude, writes both without the lock.           *)
(*                                                                         *)
(* settings.json is the value of the managed keys: the user's, or those of *)
(* an account, which replace each other as a whole.                        *)
(***************************************************************************)
EXTENDS Naturals, FiniteSets

CONSTANTS
    ClaudeKeys, ArkKeys,   \* the accounts with a key, of Claude and of Volcengine
    Logins, NoOne,         \* the accounts of Claude that one signs in with
    Agents,
    UserEnv, NoState,
    MaxCommands,           \* bound: commands started
    MaxSignIns,            \* bound: what the user does in Claude Code
    MaxFaults              \* bound: kills and failed writes

Keys == ClaudeKeys \cup ArkKeys

ClaudeApiAssumption ==
    /\ UserEnv \notin Keys /\ NoOne \notin Logins /\ ClaudeKeys \cap ArkKeys = {}
    /\ NoState \notin [account : Keys, email : Logins \cup {NoOne}, restore : Keys \cup {UserEnv}]
    /\ MaxCommands \in Nat /\ MaxSignIns \in Nat /\ MaxFaults \in Nat

VARIABLES
    env, sentinel,         \* settings.json and .subswap-api.json
    mail,                  \* the account that Claude Code is signed in with
    fileLock,              \* the holder of .subswap.lock
    step, task,            \* a command's step, and what it does
    found,                 \* the sentinel it has read
    plan,                  \* what it writes: environment and sentinel
    backup,                \* what it restores
    commands, signIns, faults,   \* bounded by Max...
    \* History, read by properties only:
    torn                   \* one read or wrote both files while another wrote them

apiVars == <<env, sentinel, mail, fileLock, step, task, found, plan, backup,
             commands, signIns, faults, torn>>

Env == Keys \cup {UserEnv}
Sentinel == [account : Keys, email : Logins \cup {NoOne}, restore : Env] \cup {NoState}
Files == [env : Env, sentinel : Sentinel]
Unwritten == [env |-> UserEnv, sentinel |-> NoState]
Task == [kind : {"key", "oauth", "login", "rm"}, account : Keys \cup Logins \cup {NoOne}]
NoTask == [kind |-> "oauth", account |-> NoOne]
ApiSteps == {"Idle", "State", "Env", "Mail", "Lock", "Ident", "Settings", "Sentinel", "Commit",
             "UndoSettings", "UndoSentinel", "Compare", "FreeSettings", "FreeSentinel"}

ApiTypeOK ==
    /\ env \in Env /\ sentinel \in Sentinel /\ mail \in Logins \cup {NoOne}
    /\ fileLock \in Agents \cup {NoOne}
    /\ step \in [Agents -> ApiSteps] /\ task \in [Agents -> Task]
    /\ found \in [Agents -> Sentinel]
    /\ plan \in [Agents -> Files]
    /\ backup \in [Agents -> [env : Env, sentinel : Sentinel, mail : Logins \cup {NoOne}]]
    /\ commands \in 0 .. MaxCommands /\ signIns \in 0 .. MaxSignIns /\ faults \in 0 .. MaxFaults
    /\ torn \in BOOLEAN

NoBackup == [env |-> UserEnv, sentinel |-> NoState, mail |-> NoOne]

Init ==
    /\ env = UserEnv /\ sentinel = NoState /\ mail \in Logins /\ fileLock = NoOne
    /\ step = [p \in Agents |-> "Idle"] /\ task = [p \in Agents |-> NoTask]
    /\ found = [p \in Agents |-> NoState] /\ plan = [p \in Agents |-> Unwritten]
    /\ backup = [p \in Agents |-> NoBackup]
    /\ commands = 0 /\ signIns = 0 /\ faults = 0 /\ torn = FALSE

-----------------------------------------------------------------------------
(* Who is in the middle of what                                            *)

\* From the first of the two writes, or the snapshot they are undone with.
WritesFiles(p) ==
    \/ step[p] \in {"Ident", "Settings", "Sentinel", "Commit", "UndoSettings", "UndoSentinel"}
    \/ step[p] \in {"FreeSettings", "FreeSentinel"}

\* Between the sentinel and the environment.
ReadsFiles(p) == step[p] = "Env"

Tears ==
    \E p, q \in Agents : p # q /\ WritesFiles(p) /\ (WritesFiles(q) \/ ReadsFiles(q))

To(p, s) == step' = [step EXCEPT ![p] = s] /\ torn' = (torn \/ Tears')

Done(p) ==
    /\ To(p, "Idle")
    /\ task' = [task EXCEPT ![p] = NoTask] /\ found' = [found EXCEPT ![p] = NoState]
    /\ plan' = [plan EXCEPT ![p] = Unwritten] /\ backup' = [backup EXCEPT ![p] = NoBackup]
    /\ fileLock' = IF fileLock = p THEN NoOne ELSE fileLock

local == <<fileLock, task, found, plan, backup>>
live == <<env, sentinel, mail>>
limits == <<commands, signIns, faults>>

Belongs(s, provider) == s # NoState /\ s.account \in provider

-----------------------------------------------------------------------------
(* Commands, and what they read before the lock                            *)

Command(p, kind, a) ==
    /\ step[p] = "Idle" /\ commands < MaxCommands /\ commands' = commands + 1
    /\ task' = [task EXCEPT ![p] = [kind |-> kind, account |-> a]]
    /\ To(p, "State")
    /\ UNCHANGED <<live, fileLock, found, plan, backup, signIns, faults>>

\* `read_api_state`
ReadState(p) ==
    LET k == task[p].kind  a == task[p].account
        Go(s) == To(p, s) /\ found' = [found EXCEPT ![p] = sentinel]
                 /\ UNCHANGED <<fileLock, task, backup>>
    IN
    /\ step[p] = "State"
    /\ \/ /\ k = "key" /\ sentinel = NoState /\ Go("Env") /\ UNCHANGED plan
       \/ /\ k = "key" /\ sentinel # NoState /\ Go("Mail")
          /\ plan' = [plan EXCEPT ![p] = [env |-> a, sentinel |-> [sentinel EXCEPT !.account = a]]]
       \/ /\ k = "oauth" /\ ~(sentinel = NoState /\ mail = a) /\ Go("Lock")
          /\ plan' = [plan EXCEPT ![p].env = IF sentinel = NoState THEN UserEnv ELSE sentinel.restore]
       \/ /\ k = "login" /\ Belongs(sentinel, ClaudeKeys) /\ sentinel.email # NoOne
          /\ Go("Compare") /\ UNCHANGED plan
       \/ /\ k = "rm" /\ sentinel # NoState /\ sentinel.account = a
          /\ Go(IF a \in ArkKeys THEN "Lock" ELSE "FreeSettings")
          /\ plan' = [plan EXCEPT ![p].env = sentinel.restore]
       \/ /\ k = "login" /\ ~(Belongs(sentinel, ClaudeKeys) /\ sentinel.email # NoOne)
          /\ Done(p)
       \/ /\ k = "rm" /\ ~(sentinel # NoState /\ sentinel.account = a)
          /\ Done(p)
       \/ /\ k = "oauth" /\ sentinel = NoState /\ mail = a   \* signed in already
          /\ Done(p)
    /\ UNCHANGED <<live, limits>>

\* `capture_managed_env`: what the user had.
ReadEnv(p) ==
    /\ step[p] = "Env"
    /\ plan' = [plan EXCEPT ![p] =
                   [env |-> task[p].account,
                    sentinel |-> [account |-> task[p].account, email |-> NoOne, restore |-> env]]]
    /\ To(p, "Mail")
    /\ UNCHANGED <<live, fileLock, task, found, backup, limits>>

\* The login that the mode was entered with stays the one it is compared with.
ReadMail(p) ==
    /\ step[p] = "Mail"
    /\ plan' = [plan EXCEPT ![p].sentinel.email = IF @ = NoOne THEN mail ELSE @]
    /\ To(p, "Lock")
    /\ UNCHANGED <<live, fileLock, task, found, backup, limits>>

-----------------------------------------------------------------------------
(* swap_with_snapshot                                                      *)

\* Entering the mode leaves the account alone; leaving it by a swap writes it first.
Locked(p) ==
    /\ step[p] = "Lock" /\ fileLock = NoOne
    /\ fileLock' = p
    /\ backup' = [backup EXCEPT ![p] = [env |-> env, sentinel |-> sentinel, mail |-> mail]]
    /\ To(p, IF task[p].kind = "oauth" THEN "Ident" ELSE "Settings")
    /\ UNCHANGED <<live, task, found, plan, limits>>

\* Without a sentinel the settings are not among the files of the swap.
SetIdent(p) ==
    /\ step[p] = "Ident"
    /\ mail' = task[p].account
    /\ To(p, IF found[p] = NoState THEN "Commit" ELSE "Settings")
    /\ UNCHANGED <<env, sentinel, local, limits>>

SetEnv(p) ==
    /\ step[p] = "Settings"
    /\ env' = plan[p].env
    /\ To(p, "Sentinel")
    /\ UNCHANGED <<sentinel, mail, local, limits>>

SetSentinel(p) ==
    /\ step[p] = "Sentinel"
    /\ sentinel' = plan[p].sentinel
    /\ To(p, "Commit")
    /\ UNCHANGED <<env, mail, local, limits>>

\* `set_active` of the provider; see Credentials for the registry.
Committed(p) ==
    /\ step[p] = "Commit"
    /\ Done(p)
    /\ UNCHANGED <<live, limits>>

\* A write or the commit fails.
Fails(p) ==
    /\ step[p] \in {"Ident", "Settings", "Sentinel", "Commit"} /\ faults < MaxFaults
    /\ faults' = faults + 1
    /\ mail' = IF task[p].kind = "oauth" THEN backup[p].mail ELSE mail
    /\ IF task[p].kind = "oauth" /\ found[p] = NoState THEN Done(p)
       ELSE To(p, "UndoSettings") /\ UNCHANGED local
    /\ UNCHANGED <<env, sentinel, commands, signIns>>

UndoEnv(p) ==
    /\ step[p] = "UndoSettings"
    /\ env' = backup[p].env
    /\ To(p, "UndoSentinel")
    /\ UNCHANGED <<sentinel, mail, local, limits>>

\* Mutant of UndoSentinel: a file that was not there stays.
UndoSentinelKept(p) ==
    /\ step[p] = "UndoSentinel"
    /\ sentinel' = IF backup[p].sentinel = NoState THEN sentinel ELSE backup[p].sentinel
    /\ Done(p)
    /\ UNCHANGED <<env, mail, limits>>

UndoSentinel(p) ==
    /\ step[p] = "UndoSentinel"
    /\ sentinel' = backup[p].sentinel
    /\ Done(p)
    /\ UNCHANGED <<env, mail, limits>>

-----------------------------------------------------------------------------
(* Without the lock: reconcile_api_external_login, exit_api_mode_for_account *)

Compare(p) ==
    /\ step[p] = "Compare"
    /\ IF mail \in {NoOne, found[p].email} THEN Done(p)
       ELSE /\ plan' = [plan EXCEPT ![p].env = found[p].restore]
            /\ To(p, "FreeSettings") /\ UNCHANGED <<fileLock, task, found, backup>>
    /\ UNCHANGED <<live, limits>>

FreeEnv(p) ==
    /\ step[p] = "FreeSettings"
    /\ env' = plan[p].env
    /\ To(p, "FreeSentinel")
    /\ UNCHANGED <<sentinel, mail, local, limits>>

FreeSentinel(p) ==
    /\ step[p] = "FreeSentinel"
    /\ sentinel' = NoState
    /\ Done(p)
    /\ UNCHANGED <<env, mail, limits>>

-----------------------------------------------------------------------------
(* The user, and death                                                     *)

SignIn(a) ==
    /\ signIns < MaxSignIns /\ a # mail
    /\ signIns' = signIns + 1 /\ mail' = a
    /\ UNCHANGED <<env, sentinel, local, step, commands, faults, torn>>

\* Between the two writes it leaves one file without the other.
Killed(p) ==
    /\ step[p] # "Idle" /\ faults < MaxFaults /\ faults' = faults + 1
    /\ step' = [step EXCEPT ![p] = "Idle"]
    /\ task' = [task EXCEPT ![p] = NoTask] /\ found' = [found EXCEPT ![p] = NoState]
    /\ plan' = [plan EXCEPT ![p] = Unwritten] /\ backup' = [backup EXCEPT ![p] = NoBackup]
    /\ fileLock' = IF fileLock = p THEN NoOne ELSE fileLock
    /\ torn' = (torn \/ step[p] \in {"Sentinel", "UndoSettings", "UndoSentinel", "FreeSentinel"})
    /\ UNCHANGED <<live, commands, signIns>>

Command1(p) ==
    \/ \E a \in Keys : Command(p, "key", a) \/ Command(p, "rm", a)
    \/ \E a \in Logins : Command(p, "oauth", a)
    \/ Command(p, "login", NoOne)

Acts(p) ==
    \/ Command1(p) \/ ReadState(p) \/ ReadEnv(p) \/ ReadMail(p)
    \/ Locked(p) \/ SetIdent(p) \/ SetEnv(p) \/ SetSentinel(p) \/ Committed(p)
    \/ Fails(p) \/ UndoEnv(p) \/ UndoSentinel(p)
    \/ Compare(p) \/ FreeEnv(p) \/ FreeSentinel(p) \/ Killed(p)

Next == (\E p \in Agents : Acts(p)) \/ \E a \in Logins \cup {NoOne} : SignIn(a)

Spec == Init /\ [][Next]_apiVars

-----------------------------------------------------------------------------
(* Properties                                                              *)

\* What the user had in settings.json comes back: as long as there is a
\* sentinel it holds it, and once there is none it is in place; the
\* environment is never that of another account than the sentinel's.  So it
\* is after any sequence of activations of Claude's and Volcengine's keys on
\* top of each other, swaps back, removals and logins, with failed writes and
\* overlapping commands, unless one was killed between its two writes, read
\* between those of another, or wrote without the lock while another wrote.
UserEnvComesBack ==
    ~torn =>
        /\ sentinel # NoState => sentinel.restore = UserEnv
        /\ (\A p \in Agents : ~WritesFiles(p)) =>
               env = IF sentinel = NoState THEN UserEnv ELSE sentinel.account

\* What it rests on.  The environment and the sentinel that fit each other: what
\* was read, what is to be written and what is to be restored all do.
Restores(s) == s # NoState => s.restore = UserEnv
Fits(e, s) == Restores(s) /\ e = IF s = NoState THEN UserEnv ELSE s.account

\* A command's task and what it has read go with its step, torn or not.
TasksKept ==
    \A p \in Agents :
        /\ task[p].kind \in {"key", "rm"} => task[p].account \in Keys
        /\ task[p].kind = "oauth" => task[p].account \in Logins \cup {NoOne}
        /\ step[p] = "Env" => task[p].kind = "key"
        /\ step[p] = "Mail" => plan[p].sentinel # NoState
        /\ step[p] = "Ident" => task[p].kind = "oauth"
        /\ step[p] = "Compare" => found[p] # NoState
        /\ step[p] \in {"Idle", "State", "Compare"} => plan[p] = Unwritten
        /\ step[p] \in {"Lock", "Settings", "Sentinel"} /\ task[p].kind = "oauth"
              /\ found[p] = NoState => step[p] = "Lock"

\* What a command has read, writes and would restore fits, and at a step between
\* its two writes it is known what the first of them has left.
WorkKept(p) ==
    /\ Restores(found[p])
    /\ step[p] = "Env" => sentinel = NoState /\ env = UserEnv
    /\ step[p] \in {"Mail", "Lock", "Ident", "Settings", "Sentinel", "FreeSettings"} =>
          Fits(plan[p].env, plan[p].sentinel)
    /\ step[p] = "FreeSettings" => plan[p].sentinel = NoState
    /\ step[p] \in {"Ident", "Settings", "Sentinel", "Commit", "UndoSettings", "UndoSentinel"} =>
          Fits(backup[p].env, backup[p].sentinel)
    /\ step[p] = "Sentinel" => env = plan[p].env
    /\ step[p] = "UndoSentinel" => env = backup[p].env
    /\ step[p] = "FreeSentinel" => env = UserEnv

\* As long as nothing was torn, what is live fits unless one is between its two
\* writes.
FilesKept ==
    ~torn =>
        /\ ~Tears /\ Restores(sentinel)
        /\ \/ Fits(env, sentinel)
           \/ \E p \in Agents :
                 step[p] \in {"Sentinel", "UndoSettings", "UndoSentinel", "FreeSentinel"}
        /\ \A p \in Agents : WorkKept(p)
=============================================================================
