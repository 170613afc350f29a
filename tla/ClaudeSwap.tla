------------------------------- MODULE ClaudeSwap -------------------------------
(***************************************************************************)
(* The sign-in of Claude Code (providers/claude/src/lib.rs and             *)
(* active_refresh.rs).  Unlike other clients it keeps the secret and the   *)
(* account it belongs to in two places: tokens in the keychain (macOS) or  *)
(* .credentials.json, the e-mail address in .claude.json.  Whoever changes *)
(* the account writes both, one after the other; whoever stores the live   *)
(* secret reads both.                                                      *)
(*                                                                         *)
(* A secret is the account that the server issued it for and the           *)
(* generation of its refresh token, which the server replaces when it is   *)
(* used.  On macOS the secret is written before .subswap.lock is taken,    *)
(* elsewhere under it.  The two lock directories of the official refresh   *)
(* are one lock here (see ClientLock).                                     *)
(***************************************************************************)
EXTENDS Naturals, FiniteSets

CONSTANTS
    Accounts, Agents, NoOne, NoSecret,
    MacOptions,      \* the platforms: whether the secret is in the keychain
    MaxGeneration,   \* bound: refresh tokens issued per account
    MaxJobs,         \* bound: commands started
    MaxLogins,       \* bound: what the user does in Claude Code
    MaxBreaks        \* bound: kills and failed commits

ClaudeSwapAssumption ==
    /\ NoOne \notin Accounts \cup Agents
    /\ NoSecret \notin [of : Accounts, gen : 0 .. MaxGeneration]
    /\ MacOptions \subseteq BOOLEAN
    /\ MaxGeneration \in Nat \ {0} /\ MaxJobs \in Nat /\ MaxLogins \in Nat /\ MaxBreaks \in Nat

VARIABLES
    mac,                  \* the platform
    good, newest,         \* the server: accepted generations, and the last one
    secret, ident,        \* what Claude Code uses: its secret, and whose it is said to be
    vault,                \* credentials.json of subswap, per account
    swapLock, oauthLock, parkLock,   \* holders of .subswap.lock, the official lock, *.refresh.lock
    at, job, target,      \* a command's step, kind and account
    held, seen, was, wasIdent,       \* its secret, the live one it stores, and what it restores
    login,                \* the account whose login in Claude Code is half written
    jobs, logins, breaks, \* bounded by Max...
    \* History, read by properties only:
    crossed,              \* one party wrote while another was reading or writing both
    blamed                \* accounts of which two parties used a token at once, or one was killed

locks == <<swapLock, oauthLock, parkLock>>
mine == <<job, target, held, seen, was, wasIdent>>
swapVars == <<mac, good, newest, secret, ident, vault, locks, at, mine, login,
              jobs, logins, breaks, crossed, blamed>>

Generation == 0 .. MaxGeneration
Secret == [of : Accounts, gen : Generation]
MaybeSecret == Secret \cup {NoSecret}
Somebody == Accounts \cup {NoOne}
JobKinds == {"swap", "capture", "renew", "park", "rm"}
SwapSteps == {"Idle", "PreRefresh", "SaveFresh", "CapRead", "CapIdent", "CapStore", "KeyWrite",
              "Lock", "Secret", "Ident", "Commit", "KeyRestore",
              "RenewLock", "RenewRead", "RenewPost", "RenewCompare", "RenewWrite",
              "ParkLock", "ParkPost", "ParkSave", "RmLock", "RmIdent"}

SwapTypeOK ==
    /\ mac \in BOOLEAN
    /\ good \in [Accounts -> SUBSET Generation] /\ newest \in [Accounts -> Generation]
    /\ secret \in MaybeSecret /\ ident \in Somebody
    /\ vault \in [Accounts -> MaybeSecret]
    /\ swapLock \in Agents \cup {NoOne} /\ oauthLock \in Agents \cup {NoOne}
    /\ parkLock \in [Accounts -> Agents \cup {NoOne}]
    /\ at \in [Agents -> SwapSteps] /\ job \in [Agents -> JobKinds \cup {"none"}]
    /\ target \in [Agents -> Somebody]
    /\ held \in [Agents -> MaybeSecret] /\ seen \in [Agents -> MaybeSecret]
    /\ was \in [Agents -> MaybeSecret] /\ wasIdent \in [Agents -> Somebody]
    /\ login \in Somebody
    /\ jobs \in 0 .. MaxJobs /\ logins \in 0 .. MaxLogins /\ breaks \in 0 .. MaxBreaks
    /\ crossed \in BOOLEAN /\ blamed \subseteq Accounts

\* Every account was imported; one is signed in.
Init ==
    /\ mac \in MacOptions
    /\ good = [a \in Accounts |-> {1}] /\ newest = [a \in Accounts |-> 1]
    /\ \E a \in Accounts : secret = [of |-> a, gen |-> 1] /\ ident = a
    /\ vault = [a \in Accounts |-> [of |-> a, gen |-> 1]]
    /\ swapLock = NoOne /\ oauthLock = NoOne /\ parkLock = [a \in Accounts |-> NoOne]
    /\ at = [p \in Agents |-> "Idle"] /\ job = [p \in Agents |-> "none"]
    /\ target = [p \in Agents |-> NoOne]
    /\ held = [p \in Agents |-> NoSecret] /\ seen = [p \in Agents |-> NoSecret]
    /\ was = [p \in Agents |-> NoSecret] /\ wasIdent = [p \in Agents |-> NoOne]
    /\ login = NoOne
    /\ jobs = 0 /\ logins = 0 /\ breaks = 0
    /\ crossed = FALSE /\ blamed = {}

Accepted(s) == s # NoSecret /\ s.gen \in good[s.of]

-----------------------------------------------------------------------------
(* Who is in the middle of what                                            *)

\* From its snapshot or comparison of secret and account to its last write.
Writing(p) ==
    \/ at[p] \in {"Secret", "Ident", "Commit", "KeyRestore", "RenewWrite", "RmIdent"}
    \/ mac /\ at[p] = "Lock"

\* Between reading the one, the other, and storing the result.
Reading(p) == at[p] \in {"CapIdent", "CapStore"}

Crossing ==
    \/ \E p, q \in Agents : p # q /\ Writing(p) /\ (Writing(q) \/ Reading(q))
    \/ login # NoOne /\ \E p \in Agents : Writing(p) \/ Reading(p)

\* A renewal has posted the token was[p] and is about to replace it.
Spent(p) == at[p] \in {"RenewCompare", "RenewWrite"}

\* The copies of an account's token that somebody goes on to use.
InUse(a) ==
    {s \in ({secret} \ {was[p] : p \in {q \in Agents : Spent(q)}})
            \cup {held[p] : p \in Agents} \cup {seen[p] : p \in Agents}
            \cup {was[p] : p \in {q \in Agents : ~Spent(q)}} : s # NoSecret /\ s.of = a}

Divided(a) == \E s, t \in InUse(a) : Accepted(s) /\ ~Accepted(t)

\* Every step ends with it.
Note(because) ==
    /\ crossed' = (crossed \/ Crossing')
    /\ blamed' = blamed \cup because \cup {a \in Accounts : Divided(a)'}

Goto(p, s) == at' = [at EXCEPT ![p] = s]

\* The locks a command holds are released when it ends.
End(p) ==
    /\ Goto(p, "Idle")
    /\ job' = [job EXCEPT ![p] = "none"] /\ target' = [target EXCEPT ![p] = NoOne]
    /\ held' = [held EXCEPT ![p] = NoSecret] /\ seen' = [seen EXCEPT ![p] = NoSecret]
    /\ was' = [was EXCEPT ![p] = NoSecret] /\ wasIdent' = [wasIdent EXCEPT ![p] = NoOne]
    /\ swapLock' = IF swapLock = p THEN NoOne ELSE swapLock
    /\ oauthLock' = IF oauthLock = p THEN NoOne ELSE oauthLock
    /\ parkLock' = [a \in Accounts |-> IF parkLock[a] = p THEN NoOne ELSE parkLock[a]]

server == <<good, newest>>
files == <<secret, ident, vault>>
bounds == <<mac, login, jobs, logins, breaks>>

\* The server accepts a token once and answers with the next one.
Rotate(s) ==
    /\ newest[s.of] < MaxGeneration
    /\ newest' = [newest EXCEPT ![s.of] = @ + 1]
    /\ good' = [good EXCEPT ![s.of] = (@ \ {s.gen}) \cup {newest[s.of] + 1}]

Renewed(s) == [s EXCEPT !.gen = newest[s.of] + 1]

-----------------------------------------------------------------------------
(* activate                                                                *)

Begin(p, j, a, s, h) ==
    /\ at[p] = "Idle" /\ jobs < MaxJobs /\ jobs' = jobs + 1
    /\ job' = [job EXCEPT ![p] = j] /\ target' = [target EXCEPT ![p] = a]
    /\ held' = [held EXCEPT ![p] = h]
    /\ Goto(p, s)
    /\ UNCHANGED <<mac, server, files, locks, seen, was, wasIdent, login, logins, breaks>>
    /\ Note({})

\* The account that is signed in already is only captured.
Activate(p, a) ==
    IF ident = a THEN Begin(p, "capture", a, "CapRead", NoSecret)
    ELSE vault[a] # NoSecret /\ Begin(p, "swap", a, "PreRefresh", vault[a])

\* Only a token near its expiry is refreshed, and the swap goes on without.
PreRefresh(p) ==
    /\ at[p] = "PreRefresh"
    /\ \/ Goto(p, "CapRead") /\ UNCHANGED <<server, held>>
       \/ /\ Accepted(held[p]) /\ held[p].gen # 0
          /\ Rotate(held[p]) /\ held' = [held EXCEPT ![p] = Renewed(held[p])]
          /\ Goto(p, "SaveFresh")
    /\ UNCHANGED <<files, locks, job, target, seen, was, wasIdent, bounds>>
    /\ Note({})

SaveFresh(p) ==
    /\ at[p] = "SaveFresh"
    /\ vault' = [vault EXCEPT ![target[p]] = held[p]]
    /\ Goto(p, "CapRead")
    /\ UNCHANGED <<server, secret, ident, locks, mine, bounds>>
    /\ Note({})

-----------------------------------------------------------------------------
(* capture_live_into_store: at the start of a swap, and by the daemon      *)

AfterCapture(p) == IF job[p] = "swap" THEN IF mac THEN "KeyWrite" ELSE "Lock" ELSE "Idle"

GoOn(p, s) == IF s = "Idle" THEN End(p) ELSE Goto(p, s) /\ UNCHANGED <<locks, mine>>

CapRead(p) ==
    /\ at[p] = "CapRead"
    /\ IF secret = NoSecret THEN GoOn(p, AfterCapture(p))
       ELSE /\ seen' = [seen EXCEPT ![p] = secret] /\ Goto(p, "CapIdent")
            /\ UNCHANGED <<locks, job, target, held, was, wasIdent>>
    /\ UNCHANGED <<server, files, bounds>>
    /\ Note({})

CapIdent(p) ==
    /\ at[p] = "CapIdent"
    /\ IF ident = NoOne THEN GoOn(p, AfterCapture(p))
       ELSE /\ wasIdent' = [wasIdent EXCEPT ![p] = ident] /\ Goto(p, "CapStore")
            /\ UNCHANGED <<locks, job, target, held, seen, was>>
    /\ UNCHANGED <<server, files, bounds>>
    /\ Note({})

\* Mutant of Captured: what is live is stored as it is.
CapturedAsIs(old, new) == new

\* A secret without a refresh token keeps the one that is stored.
Captured(old, new) == IF new.gen = 0 /\ old # NoSecret THEN old ELSE new

CapStore(p) ==
    /\ at[p] = "CapStore"
    /\ vault' = [vault EXCEPT ![wasIdent[p]] = Captured(@, seen[p])]
    /\ IF AfterCapture(p) = "Idle" THEN End(p)
       ELSE /\ Goto(p, AfterCapture(p)) /\ seen' = [seen EXCEPT ![p] = NoSecret]
            /\ UNCHANGED <<locks, job, target, held, was, wasIdent>>
    /\ UNCHANGED <<server, secret, ident, bounds>>
    /\ Note({})

-----------------------------------------------------------------------------
(* The transaction                                                         *)

\* What is live by now and is in nobody's hands is lost by overwriting it.
Overwriting(p) == IF Accepted(secret) /\ vault[secret.of] # secret THEN {secret.of} ELSE {}

\* macOS: the keychain is written before the lock is taken.
KeyWrite(p) ==
    /\ at[p] = "KeyWrite"
    /\ was' = [was EXCEPT ![p] = secret]
    /\ secret' = held[p]
    /\ Goto(p, "Lock")
    /\ UNCHANGED <<server, ident, vault, locks, job, target, held, seen, wasIdent, bounds>>
    /\ Note(Overwriting(p))

Lock(p) ==
    /\ at[p] = "Lock" /\ swapLock = NoOne
    /\ swapLock' = p
    /\ was' = [was EXCEPT ![p] = IF mac THEN @ ELSE secret]
    /\ wasIdent' = [wasIdent EXCEPT ![p] = ident]
    /\ Goto(p, "Secret")
    /\ UNCHANGED <<server, files, oauthLock, parkLock, job, target, held, seen, bounds>>
    /\ Note({})

\* On macOS .credentials.json is a copy that nobody reads.
WriteSecret(p) ==
    /\ at[p] = "Secret"
    /\ secret' = IF mac THEN secret ELSE held[p]
    /\ Goto(p, "Ident")
    /\ UNCHANGED <<server, ident, vault, locks, mine, bounds>>
    /\ Note(IF mac THEN {} ELSE Overwriting(p))

WriteIdent(p) ==
    /\ at[p] = "Ident"
    /\ ident' = target[p]
    /\ Goto(p, "Commit")
    /\ UNCHANGED <<server, secret, vault, locks, mine, bounds>>
    /\ Note({})

\* `set_active`; see Credentials for the registry.
Commit(p) ==
    /\ at[p] = "Commit"
    /\ End(p)
    /\ UNCHANGED <<server, files, bounds>>
    /\ Note({})

\* A write or the commit fails: the files are rolled back under the lock, the
\* keychain after it.
Fail(p) ==
    /\ at[p] \in {"Secret", "Ident", "Commit"} /\ breaks < MaxBreaks /\ breaks' = breaks + 1
    /\ ident' = wasIdent[p]
    /\ IF mac THEN Goto(p, "KeyRestore") /\ swapLock' = NoOne
                   /\ UNCHANGED <<secret, mine, oauthLock, parkLock>>
       ELSE End(p) /\ secret' = was[p]
    /\ UNCHANGED <<server, vault, mac, login, jobs, logins>>
    /\ Note({})

KeyRestore(p) ==
    /\ at[p] = "KeyRestore"
    /\ secret' = was[p]
    /\ End(p)
    /\ UNCHANGED <<server, ident, vault, bounds>>
    /\ Note({})

-----------------------------------------------------------------------------
(* renew_blocking: the active secret, under the official lock              *)

RenewBegin(p) ==
    ident # NoOne /\ secret # NoSecret /\ Begin(p, "renew", ident, "RenewLock", secret)

\* Who waits too long adopts what is there, which changes nothing.
RenewLock(p) ==
    /\ at[p] = "RenewLock"
    /\ \/ oauthLock = NoOne /\ oauthLock' = p /\ Goto(p, "RenewRead")
             /\ UNCHANGED <<swapLock, parkLock, mine>>
       \/ oauthLock # NoOne /\ End(p)
    /\ UNCHANGED <<server, files, bounds>>
    /\ Note({})

\* The account is checked and the secret read again.
RenewRead(p) ==
    /\ at[p] = "RenewRead"
    /\ IF ident = target[p] /\ secret # NoSecret /\ secret.gen # 0 /\ secret = held[p]
       THEN Goto(p, "RenewPost") /\ UNCHANGED <<locks, mine>>
       ELSE End(p)
    /\ UNCHANGED <<server, files, bounds>>
    /\ Note({})

RenewPost(p) ==
    /\ at[p] = "RenewPost"
    /\ \/ /\ Accepted(held[p]) /\ Rotate(held[p])
          /\ was' = [was EXCEPT ![p] = held[p]]
          /\ held' = [held EXCEPT ![p] = Renewed(held[p])]
          /\ Goto(p, "RenewCompare")
          /\ UNCHANGED <<locks, job, target, seen, wasIdent>>
       \/ ~Accepted(held[p]) /\ End(p) /\ UNCHANGED server
    /\ UNCHANGED <<files, bounds>>
    /\ Note({})

\* Mutant of RenewCompare: the answer is written whatever has become of the secret.
RenewCompareNot(p) ==
    /\ at[p] = "RenewCompare"
    /\ Goto(p, "RenewWrite")
    /\ UNCHANGED <<server, files, locks, mine, bounds>>
    /\ Note({})

\* The answer is written only over the token that was posted.
RenewCompare(p) ==
    /\ at[p] = "RenewCompare"
    /\ IF secret = was[p] THEN Goto(p, "RenewWrite") /\ UNCHANGED <<locks, mine>> ELSE End(p)
    /\ UNCHANGED <<server, files, bounds>>
    /\ Note(IF secret = was[p] THEN {} ELSE {held[p].of})

RenewWrite(p) ==
    /\ at[p] = "RenewWrite"
    /\ secret' = held[p]
    /\ End(p)
    /\ UNCHANGED <<server, ident, vault, bounds>>
    /\ Note({})

-----------------------------------------------------------------------------
(* refresh_parked_for_usage: a stored secret, under the account's lock     *)

ParkBegin(p, a) == vault[a] # NoSecret /\ Begin(p, "park", a, "ParkLock", NoSecret)

\* An account that became active is left to Claude Code.
ParkLock(p) ==
    /\ at[p] = "ParkLock"
    /\ IF parkLock[target[p]] = NoOne /\ ident # target[p] /\ vault[target[p]] # NoSecret
       THEN /\ parkLock' = [parkLock EXCEPT ![target[p]] = p]
            /\ held' = [held EXCEPT ![p] = vault[target[p]]]
            /\ Goto(p, "ParkPost")
            /\ UNCHANGED <<swapLock, oauthLock, job, target, seen, was, wasIdent>>
       ELSE End(p)
    /\ UNCHANGED <<server, files, bounds>>
    /\ Note({})

ParkPost(p) ==
    /\ at[p] = "ParkPost"
    /\ \/ /\ Accepted(held[p]) /\ held[p].gen # 0 /\ Rotate(held[p])
          /\ held' = [held EXCEPT ![p] = Renewed(held[p])]
          /\ Goto(p, "ParkSave") /\ UNCHANGED <<locks, job, target, seen, was, wasIdent>>
       \/ End(p) /\ UNCHANGED server
    /\ UNCHANGED <<files, bounds>>
    /\ Note({})

ParkSave(p) ==
    /\ at[p] = "ParkSave"
    /\ vault' = [vault EXCEPT ![target[p]] = held[p]]
    /\ End(p)
    /\ UNCHANGED <<server, secret, ident, bounds>>
    /\ Note({})

-----------------------------------------------------------------------------
(* disconnect_oauth_live: signing out, under the lock                      *)

RmLock(p) ==
    /\ at[p] = "RmLock" /\ swapLock = NoOne
    /\ IF ident = target[p]
       THEN /\ swapLock' = p /\ secret' = NoSecret
            /\ Goto(p, "RmIdent") /\ UNCHANGED <<mine, oauthLock, parkLock>>
       ELSE End(p) /\ UNCHANGED secret
    /\ UNCHANGED <<server, ident, vault, bounds>>
    /\ Note({target[p]})

RmIdent(p) ==
    /\ at[p] = "RmIdent"
    /\ ident' = NoOne
    /\ End(p)
    /\ UNCHANGED <<server, secret, vault, bounds>>
    /\ Note({})

-----------------------------------------------------------------------------
(* Claude Code, and death                                                  *)

UserStep == logins < MaxLogins /\ logins' = logins + 1

NativeRefresh ==
    /\ UserStep /\ oauthLock = NoOne /\ Accepted(secret) /\ secret.gen # 0
    /\ Rotate(secret) /\ secret' = Renewed(secret)
    /\ UNCHANGED <<mac, ident, vault, locks, at, mine, login, jobs, breaks>>
    /\ Note({})

\* The tokens are dropped, in the middle of a refresh or for good.
NativeStrip ==
    /\ UserStep /\ secret # NoSecret
    /\ secret' = [secret EXCEPT !.gen = 0]
    /\ UNCHANGED <<mac, server, ident, vault, locks, at, mine, login, jobs, breaks>>
    /\ Note(IF Accepted(secret) /\ vault[secret.of] # secret THEN {secret.of} ELSE {})

\* A login writes the secret, then the account.
NativeLogin(a) ==
    /\ UserStep /\ login = NoOne /\ newest[a] < MaxGeneration
    /\ newest' = [newest EXCEPT ![a] = @ + 1] /\ good' = [good EXCEPT ![a] = @ \cup {newest[a] + 1}]
    /\ secret' = [of |-> a, gen |-> newest[a] + 1]
    /\ login' = a
    /\ UNCHANGED <<mac, ident, vault, locks, at, mine, jobs, breaks>>
    /\ Note({b \in Accounts : secret # NoSecret /\ secret.of = b})

NativeLoginEnds ==
    /\ login # NoOne
    /\ ident' = login /\ login' = NoOne
    /\ UNCHANGED <<mac, server, secret, vault, locks, at, mine, jobs, logins, breaks>>
    /\ Note({})

\* A killed command leaves its files as they are; its locks are released.
Kill(p) ==
    /\ at[p] # "Idle" /\ breaks < MaxBreaks /\ breaks' = breaks + 1
    /\ End(p)
    /\ UNCHANGED <<server, files, mac, login, jobs, logins>>
    /\ crossed' = (crossed \/ Writing(p))
    /\ blamed' = blamed \cup {a \in Accounts : target[p] = a \/ (held[p] # NoSecret /\ held[p].of = a)}

Step(p) ==
    \/ \E a \in Accounts : Activate(p, a) \/ ParkBegin(p, a) \/ Begin(p, "rm", a, "RmLock", NoSecret)
    \/ Begin(p, "capture", NoOne, "CapRead", NoSecret) \/ RenewBegin(p)
    \/ PreRefresh(p) \/ SaveFresh(p) \/ CapRead(p) \/ CapIdent(p) \/ CapStore(p)
    \/ KeyWrite(p) \/ Lock(p) \/ WriteSecret(p) \/ WriteIdent(p) \/ Commit(p) \/ Fail(p)
    \/ KeyRestore(p)
    \/ RenewLock(p) \/ RenewRead(p) \/ RenewPost(p) \/ RenewCompare(p) \/ RenewWrite(p)
    \/ ParkLock(p) \/ ParkPost(p) \/ ParkSave(p) \/ RmLock(p) \/ RmIdent(p) \/ Kill(p)

Next ==
    \/ \E p \in Agents : Step(p)
    \/ NativeRefresh \/ NativeStrip \/ NativeLoginEnds \/ \E a \in Accounts : NativeLogin(a)

Spec == Init /\ [][Next]_swapVars

-----------------------------------------------------------------------------
(* Properties                                                              *)

Quiet == login = NoOne /\ \A p \in Agents : ~Writing(p)

\* The secret that Claude Code uses is of the account that it is said to be
\* of, and subswap has stored every secret under its own account, after any
\* sequence of swaps, failed ones included, captures, renewals and logins, as
\* long as nobody wrote while another was between its two accesses
\* (lib.rs: flock, snapshot, secret, account; rollback if a step fails).
SecretIsOfItsAccount ==
    ~crossed =>
        /\ Quiet /\ secret # NoSecret => secret.of = ident
        /\ \A a \in Accounts : vault[a] # NoSecret => vault[a].of = a

\* What is used next of an account is accepted by the server: the live secret
\* if the account is signed in, the stored one otherwise.  Excepted are
\* accounts with whose token two parties worked at once (activate refreshes
\* without the account's lock), or whose holder was killed or signed out
\* (lib.rs: capture on leave, guards of the capture, compare-and-swap).
TokenKept ==
    Quiet /\ ~crossed =>
        \A a \in Accounts \ blamed :
            \/ Accepted(IF ident = a /\ secret # NoSecret /\ secret.gen # 0 THEN secret ELSE vault[a])
            \/ \E p \in Agents : Accepted(held[p]) /\ held[p].of = a

\* What the first of them rests on.  What a command works on goes with its step,
\* crossed or not.
JobsKept ==
    \A p \in Agents :
        /\ at[p] \in {"PreRefresh", "SaveFresh", "KeyWrite", "Lock", "Secret", "Ident", "Commit",
                     "KeyRestore"} =>
              job[p] = "swap"
        /\ at[p] = "KeyWrite" => mac
        /\ job[p] = "swap" => at[p] # "Idle" /\ target[p] \in Accounts /\ held[p] # NoSecret
        /\ at[p] \in {"RenewLock", "RenewRead", "RenewPost", "RenewCompare", "RenewWrite"} =>
              target[p] \in Accounts /\ held[p] # NoSecret
        /\ at[p] \in {"ParkLock", "ParkPost", "ParkSave", "RmLock", "RmIdent"} => target[p] \in Accounts
        /\ at[p] \in {"ParkPost", "ParkSave"} => held[p] # NoSecret
        /\ at[p] \in {"CapIdent", "CapStore"} => seen[p] # NoSecret
        /\ at[p] = "CapStore" => wasIdent[p] \in Accounts
        /\ at[p] = "RenewCompare" => was[p] # NoSecret

\* Whose secret it is that a command is about to store, write or restore.
Of(s, a) == s # NoSecret => s.of = a
OwnersKept(p) ==
    /\ job[p] = "swap" \/ at[p] \in {"ParkPost", "ParkSave"} => held[p].of = target[p]
    /\ at[p] = "CapIdent" => seen[p].of = ident
    /\ at[p] = "CapStore" => seen[p].of = wasIdent[p]
    /\ at[p] \in {"RenewCompare", "RenewWrite"} => held[p].of = was[p].of
    /\ at[p] = "RenewWrite" => held[p].of = ident
    /\ (mac /\ at[p] = "Lock") \/ at[p] = "KeyRestore" => Of(was[p], ident)
    /\ at[p] \in {"Secret", "Ident", "Commit"} => Of(was[p], wasIdent[p])
    /\ (mac /\ at[p] \in {"Lock", "Secret"}) \/ at[p] \in {"Ident", "Commit"} => Of(secret, target[p])
    /\ at[p] = "Commit" => ident = target[p]
    /\ at[p] = "RmIdent" => secret = NoSecret

\* Who has written one of the two and not the other.
HalfWritten(p) == (mac /\ at[p] \in {"Lock", "Secret"}) \/ at[p] \in {"Ident", "KeyRestore"}

SignInKept ==
    ~crossed =>
        /\ ~Crossing
        /\ \A a \in Accounts : Of(vault[a], a)
        /\ \A p \in Agents : OwnersKept(p)
        /\ login # NoOne => secret # NoSecret /\ secret.of = login
        /\ login = NoOne /\ (\A p \in Agents : ~HalfWritten(p)) => Of(secret, ident)

\* What the second rests on.  Who has an answer of the server that is written
\* nowhere yet, and that the server never accepts a token again.
Fresh(p) == at[p] \in {"SaveFresh", "RenewCompare", "RenewWrite", "ParkSave"}
TokensCount ==
    /\ \A a \in Accounts : \A g \in good[a] : g # 0 /\ g <= newest[a]
    /\ \A p \in Agents : Fresh(p) => held[p] # NoSecret /\ held[p].gen # 0
    /\ \A p \in Agents : Spent(p) =>
          was[p] # NoSecret /\ was[p].gen <= newest[was[p].of] /\ ~Accepted(was[p])

\* A secret that may be used next, and an account that subswap can go back to.
Sound(s) == s = NoSecret \/ s.gen = 0 \/ s.of \in blamed \/ Accepted(s)
HasFresh(p, a) == Fresh(p) /\ Accepted(held[p]) /\ held[p].of = a
Stored(a) == Accepted(vault[a]) \/ \E p \in Agents : HasFresh(p, a)

\* Who has put its account's secret in place of the one that it may restore;
\* one that was renewed since is of an account blamed.
Replaced(p) == (mac /\ at[p] \in {"Lock", "Secret"}) \/ at[p] \in {"Ident", "Commit", "KeyRestore"}
StillThere(s) == secret = s \/ secret = NoSecret \/ secret.gen = 0
RestoreLosesNothing(p) ==
    /\ ~mac /\ at[p] = "Secret" => StillThere(was[p]) \/ secret.of \in blamed
    /\ Replaced(p) =>
          /\ Of(secret, target[p])
          /\ target[p] \in blamed \/ (StillThere(held[p]) /\ Stored(target[p]))

LiveKept ==
    ~crossed =>
        /\ \A a \in Accounts \ blamed : ~Divided(a)
        /\ \A p \in Agents : Sound(held[p]) /\ Sound(seen[p]) /\ (Spent(p) \/ Sound(was[p]))
        /\ Sound(secret) \/ \E p \in Agents : Spent(p) /\ was[p] = secret
        /\ \A a \in Accounts \ blamed : Stored(a) \/ (Accepted(secret) /\ secret.of = a)
        /\ \A p \in Agents : RestoreLosesNothing(p)
=============================================================================
