----------------------------- MODULE OpencodeSwap -----------------------------
(***************************************************************************)
(* The accounts of OpenCode (providers/opencode/src/lib.rs, console.rs).   *)
(* subswap keeps no secret of them: the client's database is the source,   *)
(* the command `opencode` selects and signs out, and subswap reads the     *)
(* database again to see whether it did, without any lock.                 *)
(*                                                                         *)
(* One module for its two providers: Console accounts, of which the        *)
(* registry records a credential, and Go API keys, which are looked up in  *)
(* the database.  A new sign-in adds a credential beside the old ones of   *)
(* the account.  In the layout of version 1 there is one credential only,  *)
(* and only the slot of a Go key can be written: its switch is that of the *)
(* common engine (Credentials).                                            *)
(***************************************************************************)
EXTENDS Naturals

CONSTANTS
    Hands,               \* commands and the daemon
    OpencodeAccounts,
    NoOwner,             \* "no account"
    MaxCredentials,      \* bound: credentials that were ever in the database
    MaxOpencodeJobs,     \* bound: jobs of all processes
    MaxOpencodeFaults    \* bound: commands without effect and kills

OpencodeAssumption ==
    /\ NoOwner \notin OpencodeAccounts
    /\ {MaxCredentials, MaxOpencodeJobs, MaxOpencodeFaults} \subseteq Nat

VARIABLES
    console, second,     \* Console accounts, not Go keys; the layout of version 2
    owner, selected,     \* the database: whose each credential is, and the active one
    recorded,            \* the registry: each listed account's credential_id, or None
    chosen,              \* the account it marks as active
    doing, whom,         \* the step of each process and the account it is about
    plan, before, saw,   \* the credential to use, the one selected before, a reading
    credentials, opencodeJobs, opencodeFaults,   \* bounded
    \* History, read by properties only:
    alone,               \* nothing else was done since the process began
    said                 \* what the last job that ended well said, until more is done

opencodeVars == <<console, second, owner, selected, recorded, chosen, doing, whom, plan, before,
                  saw, credentials, opencodeJobs, opencodeFaults, alone, said>>

Ids == 1 .. MaxCredentials
None == 0
Unlisted == MaxCredentials + 1     \* recorded[a] of an account that is not listed
Nothing == [kind |-> "nothing", of |-> NoOwner]

Listed == {a \in OpencodeAccounts : recorded[a] # Unlisted}
Owners == OpencodeAccounts \cup {NoOwner}

\* What `read_console_accounts` and `read_v2_go_keys` return: the credentials,
\* the active one first.
Reading == [owner |-> owner, selected |-> selected]
Of(r, a) == {c \in Ids : r.owner[c] = a}
First(r, a) == IF r.selected \in Of(r, a) THEN r.selected
               ELSE CHOOSE c \in Of(r, a) : \A d \in Of(r, a) : c <= d
Last(r, a) == IF Of(r, a) = {r.selected} THEN r.selected
              ELSE CHOOSE c \in Of(r, a) \ {r.selected} :
                       \A d \in Of(r, a) \ {r.selected} : d <= c
SelectedOwner(r) == IF r.selected = None THEN NoOwner ELSE r.owner[r.selected]

Database == <<owner, selected, credentials>>
Registry == <<recorded, chosen>>
Layout == <<console, second>>
Work == <<whom, plan, before, saw>>
History == <<alone, said>>

Init ==
    /\ console \in BOOLEAN /\ second \in BOOLEAN
    /\ owner = [c \in Ids |-> NoOwner] /\ selected = None
    /\ recorded = [a \in OpencodeAccounts |-> Unlisted] /\ chosen = NoOwner
    /\ doing = [p \in Hands |-> "Idle"] /\ whom = [p \in Hands |-> NoOwner]
    /\ plan = [p \in Hands |-> None] /\ before = [p \in Hands |-> None]
    /\ saw = [p \in Hands |-> Reading]
    /\ credentials = 0 /\ opencodeJobs = 0 /\ opencodeFaults = 0
    /\ alone = [p \in Hands |-> FALSE] /\ said = Nothing

Blunder == opencodeFaults < MaxOpencodeFaults /\ opencodeFaults' = opencodeFaults + 1
Fine == UNCHANGED opencodeFaults
Goto(p, step) == doing' = [doing EXCEPT ![p] = step]

-----------------------------------------------------------------------------
(* The user, in OpenCode                                                   *)

Disturb == alone' = [p \in Hands |-> FALSE] /\ said' = Nothing

\* A new credential, which becomes the active one; version 1 keeps no other.
OpencodeSignIn(a) ==
    LET c == credentials + 1
    IN /\ credentials < MaxCredentials /\ credentials' = c
       /\ owner' = IF second THEN [owner EXCEPT ![c] = a]
                   ELSE [d \in Ids |-> IF d = c THEN a ELSE NoOwner]
       /\ selected' = c
       /\ Disturb
       /\ UNCHANGED <<Layout, Registry, doing, Work, opencodeJobs, opencodeFaults>>

-----------------------------------------------------------------------------
(* Processes                                                               *)

\* A job of p begins: whatever else is under way is not alone any more.
Begin(p, a, step) ==
    /\ doing[p] = "Idle" /\ Goto(p, step)
    /\ opencodeJobs < MaxOpencodeJobs /\ opencodeJobs' = opencodeJobs + 1
    /\ whom' = [whom EXCEPT ![p] = a]
    /\ alone' = [q \in Hands |-> q = p /\ \A o \in Hands : doing[o] = "Idle"]
    /\ said' = Nothing
    /\ UNCHANGED <<Layout, Database, Registry, opencodeFaults>>

Forget(p) ==
    /\ whom' = [whom EXCEPT ![p] = NoOwner] /\ plan' = [plan EXCEPT ![p] = None]
    /\ before' = [before EXCEPT ![p] = None]
    /\ saw' = [saw EXCEPT ![p] = [owner |-> [c \in Ids |-> NoOwner], selected |-> None]]

\* It ends, and has said something or failed.
Say(p, kind) ==
    /\ Goto(p, "Idle") /\ Forget(p) /\ UNCHANGED alone
    /\ said' = IF alone[p] /\ kind # "nothing" THEN [kind |-> kind, of |-> whom[p]] ELSE said
Go(p, step) == Goto(p, step) /\ UNCHANGED <<Work, History>>
Beside == <<Layout, opencodeJobs>>

-----------------------------------------------------------------------------
(* `sync_console_accounts`, `sync_accounts`: login, default entry, daemon  *)

Sync(p) ==
    /\ Begin(p, NoOwner, "Sync") /\ saw' = [saw EXCEPT ![p] = Reading]
    /\ UNCHANGED <<plan, before>>

\* Every account that was read is listed, each credential over the one before.
\* Without an active credential the key pool is unmarked; of Console accounts
\* only those that were read are.
Recorded(r) == [a \in OpencodeAccounts |->
    IF Of(r, a) = {} THEN recorded[a] ELSE IF console THEN Last(r, a) ELSE None]
Marked(r) ==
    IF SelectedOwner(r) # NoOwner THEN SelectedOwner(r)
    ELSE IF console /\ Of(r, chosen) = {} THEN chosen ELSE NoOwner

SyncWrite(p) ==
    /\ doing[p] = "Sync"
    /\ recorded' = Recorded(saw[p]) /\ chosen' = Marked(saw[p])
    /\ Say(p, IF SelectedOwner(saw[p]) # NoOwner \/ ~console THEN "synced" ELSE "nothing")
    /\ UNCHANGED <<Beside, Database, opencodeFaults>>

-----------------------------------------------------------------------------
(* `activate`, `activate_console`                                          *)

\* The recorded credential of a Console account, the key's own of a Go key.
ToUse(a) == IF console THEN recorded[a] ELSE First(Reading, a)

\* An account without credential is refused, and so is every switch of a
\* Console account in version 1.
Switch(p, a) ==
    /\ a \in Listed /\ second
    /\ console \/ Of(Reading, a) # {}
    /\ Begin(p, a, "Switch")
    /\ plan' = [plan EXCEPT ![p] = ToUse(a)] /\ before' = [before EXCEPT ![p] = selected]
    /\ UNCHANGED saw

\* `opencode auth switch` selects a credential that is there.
CanSelect(c) == c # None /\ owner[c] # NoOwner

SwitchRun(p) ==
    /\ doing[p] = "Switch"
    /\ \/ /\ CanSelect(plan[p]) /\ selected' = plan[p] /\ Fine /\ Go(p, "Check")
       \/ /\ IF CanSelect(plan[p]) THEN Blunder ELSE Fine
          /\ UNCHANGED selected /\ Go(p, "Restore")
       \/ Blunder /\ UNCHANGED selected /\ Go(p, "Check")
    /\ UNCHANGED <<Beside, owner, credentials, Registry>>

\* Mutant of Check: the command is taken at its word.
CheckNot(p) ==
    /\ doing[p] = "Check" /\ Go(p, "Commit")
    /\ UNCHANGED <<Beside, Database, Registry, opencodeFaults>>

\* The database says whether the account was selected.
Check(p) ==
    /\ doing[p] = "Check"
    /\ Go(p, IF SelectedOwner(Reading) = whom[p] THEN "Commit" ELSE "Restore")
    /\ UNCHANGED <<Beside, Database, Registry, opencodeFaults>>

\* Otherwise what was selected before is selected again.
Restore(p) ==
    /\ doing[p] = "Restore" /\ Say(p, "nothing")
    /\ IF before[p] # plan[p] /\ CanSelect(before[p])
       THEN \/ selected' = before[p] /\ Fine
            \/ UNCHANGED selected /\ Blunder
       ELSE UNCHANGED selected /\ Fine
    /\ UNCHANGED <<Beside, owner, credentials, Registry>>

\* `set_active` fails for an account that was removed: nothing is restored.
Commit(p) ==
    /\ doing[p] = "Commit"
    /\ \/ /\ whom[p] \in Listed /\ chosen' = whom[p] /\ Fine /\ Say(p, "active")
       \/ /\ IF whom[p] \in Listed THEN Blunder ELSE Fine
          /\ UNCHANGED chosen /\ Say(p, "nothing")
    /\ UNCHANGED <<Beside, Database, recorded>>

-----------------------------------------------------------------------------
(* `subswap rm`: `disconnect_official`, then the registry                  *)

\* Only the command of version 2 can sign out.
Way(a) ==
    IF Of(Reading, a) = {} THEN "Gone"
    ELSE IF second THEN "Logout" ELSE IF console THEN "Unsure" ELSE "Slot"

Remove(p, a) ==
    /\ a \in Listed /\ Begin(p, a, Way(a))
    /\ plan' = [plan EXCEPT ![p] = IF Of(Reading, a) = {} THEN None ELSE ToUse(a)]
    /\ UNCHANGED <<before, saw>>

\* `opencode auth logout` deletes one credential; what is active then is the
\* client's choice.  If it fails, the command warns and goes on.
Logout(p) ==
    LET left == [owner EXCEPT ![plan[p]] = NoOwner]
    IN /\ doing[p] = "Logout"
       /\ \/ /\ CanSelect(plan[p]) /\ Fine /\ Go(p, "Still")
             /\ owner' = left
             /\ IF selected = plan[p]
                THEN selected' \in {None} \cup {c \in Ids : left[c] # NoOwner}
                ELSE UNCHANGED selected
          \/ /\ UNCHANGED <<owner, selected>>
             /\ IF CanSelect(plan[p]) THEN Blunder ELSE Fine
             /\ Go(p, "Unsure")
          \/ UNCHANGED <<owner, selected>> /\ Blunder /\ Go(p, "Still")
       /\ UNCHANGED <<Beside, credentials, Registry>>

\* A second credential of the account may still be there.
Still(p) ==
    /\ doing[p] = "Still"
    /\ Go(p, IF Of(Reading, whom[p]) = {} THEN "Gone" ELSE "Unsure")
    /\ UNCHANGED <<Beside, Database, Registry, opencodeFaults>>

\* Version 1: the slot is looked at again under the lock, and then removed.
Slot(p) ==
    /\ doing[p] = "Slot" /\ Go(p, "Gone")
    /\ IF SelectedOwner(Reading) = whom[p]
       THEN owner' = [owner EXCEPT ![selected] = NoOwner] /\ selected' = None
       ELSE UNCHANGED <<owner, selected>>
    /\ UNCHANGED <<Beside, credentials, Registry, opencodeFaults>>

\* The account leaves the registry, whether or not the client has let it go.
Unregister(p) ==
    /\ doing[p] \in {"Gone", "Unsure"}
    /\ Say(p, IF doing[p] = "Gone" /\ whom[p] \in Listed THEN "gone" ELSE "nothing")
    /\ recorded' = [recorded EXCEPT ![whom[p]] = Unlisted]
    /\ chosen' = IF chosen = whom[p] THEN NoOwner ELSE chosen
    /\ UNCHANGED <<Beside, Database, opencodeFaults>>

OpencodeKill(p) ==
    /\ doing[p] # "Idle" /\ Blunder /\ Say(p, "nothing")
    /\ UNCHANGED <<Beside, Database, Registry>>

Next ==
    \/ \E a \in OpencodeAccounts : OpencodeSignIn(a)
    \/ \E p \in Hands :
          \/ Sync(p) \/ SyncWrite(p)
          \/ \E a \in OpencodeAccounts : Switch(p, a) \/ Remove(p, a)
          \/ SwitchRun(p) \/ Check(p) \/ Restore(p) \/ Commit(p)
          \/ Logout(p) \/ Still(p) \/ Slot(p) \/ Unregister(p) \/ OpencodeKill(p)

-----------------------------------------------------------------------------
(* `query_console_quota`                                                   *)

\* order_console_candidates: the recorded credential, then as they are read.
Rank(a, c) == IF c = recorded[a] THEN 0 ELSE IF c = selected THEN 1 ELSE c + 1

\* What the server says of one credential; only a token it refuses (401, 403) is
\* a reason to try the next.
Answers == {"quotas", "denied", "limited", "failed"}
Refused(answer) == answer = "denied"

\* Mutant of Verdict: only the first credential is asked.
VerdictOfFirst(a, answer) ==
    LET mine == Of(Reading, a)
        best == CHOOSE c \in mine : \A d \in mine : Rank(a, c) <= Rank(a, d)
    IN IF mine = {} THEN "relogin"
       ELSE IF ~Refused(answer[best]) THEN answer[best]
       ELSE IF chosen = a THEN "soft" ELSE "relogin"

\* The credentials of an account are asked in their order, one after a refusal.
Verdict(a, answer) ==
    LET mine == Of(Reading, a)
        heard == {c \in mine : ~Refused(answer[c])}
        best == CHOOSE c \in heard : \A d \in heard : Rank(a, c) <= Rank(a, d)
    IN IF mine = {} THEN "relogin"
       ELSE IF heard # {} THEN answer[best]
       ELSE IF chosen = a THEN "soft" ELSE "relogin"

-----------------------------------------------------------------------------
(* Properties                                                              *)

OpencodeSteps == {"Idle", "Sync", "Switch", "Check", "Restore", "Commit", "Logout", "Still",
                  "Slot", "Gone", "Unsure"}

OpencodeTypeOK ==
    /\ console \in BOOLEAN /\ second \in BOOLEAN
    /\ owner \in [Ids -> Owners] /\ selected \in Ids \cup {None}
    /\ recorded \in [OpencodeAccounts -> 0 .. Unlisted] /\ chosen \in Listed \cup {NoOwner}
    /\ doing \in [Hands -> OpencodeSteps] /\ whom \in [Hands -> Owners]
    /\ plan \in [Hands -> Ids \cup {None}] /\ before \in [Hands -> Ids \cup {None}]
    /\ saw \in [Hands -> [owner : [Ids -> Owners], selected : Ids \cup {None}]]
    /\ credentials \in 0 .. MaxCredentials /\ opencodeJobs \in 0 .. MaxOpencodeJobs
    /\ opencodeFaults \in 0 .. MaxOpencodeFaults
    /\ alone \in [Hands -> BOOLEAN]
    /\ said \in [kind : {"active", "gone", "synced"}, of : Owners] \cup {Nothing}

\* What a command says when nothing else happens meanwhile is so: the client
\* uses the account that was switched to; of a removed account it has no other
\* credential that the next sync would find; and the mark is on the account
\* that a sync found in use.
OpencodeAsSaid ==
    /\ said.kind = "active" => SelectedOwner(Reading) = said.of /\ chosen = said.of
    /\ said.kind = "gone" => Of(Reading, said.of) = {} /\ said.of \notin Listed
    /\ said.kind = "synced" => chosen = SelectedOwner(Reading)

\* What makes it so: in the layout of version 1 there is one credential at most,
\* and no switch; a process that is alone is the only one at work, and what it
\* has found out is still true.
AloneKept ==
    /\ ~second => \A c \in Ids : c # selected => owner[c] = NoOwner
    /\ said # Nothing => \A p \in Hands : doing[p] = "Idle"
    /\ \A p \in Hands :
          /\ doing[p] \in {"Switch", "Check", "Restore", "Commit", "Logout", "Still"} => second
          /\ doing[p] = "Slot" => ~second
          /\ doing[p] \notin {"Idle", "Sync"} => whom[p] \in OpencodeAccounts
          /\ alone[p] =>
                /\ \A q \in Hands \ {p} : doing[q] = "Idle"
                /\ doing[p] = "Sync" => saw[p] = Reading
                /\ doing[p] = "Commit" => SelectedOwner(Reading) = whom[p]
                /\ doing[p] = "Gone" => Of(Reading, whom[p]) = {}

\* An account of which some credential is not refused is never reported as one
\* that must be signed in to again, whichever of them the registry has recorded;
\* nor is the active one, whose token the client may be renewing.
LivingNeedsNoLogin ==
    \A a \in OpencodeAccounts : \A answer \in [Ids -> Answers] :
        Of(Reading, a) # {} /\ Verdict(a, answer) = "relogin"
            => chosen # a /\ \A c \in Of(Reading, a) : answer[c] = "denied"
=============================================================================
