----------------------------- MODULE KimiRecovery -----------------------------
(***************************************************************************)
(* The recovery of Kimi's live token (providers/kimi/src/oauth.rs).  A     *)
(* usage query that is answered 401 takes the lock that the installed kimi *)
(* client takes for its own refreshes, a flock or a directory, reads the   *)
(* credential file again, and refreshes at most once.  A refresh token     *)
(* works once.  Swaps write the same file without this lock.               *)
(*                                                                         *)
(* A process is a subswap or a native client: both follow the protocol.    *)
(* Time is left out: a directory is stale when nobody renews it for long   *)
(* enough, which takes a dead or a suspended holder.                       *)
(***************************************************************************)
EXTENDS Naturals

CONSTANTS
    Kimis, KimiAccounts,
    NoLock, NoMark,
    Protocols,       \* the lock protocols to explore, of {"file", "directory"}
    MaxKimiTokens,   \* bound: refreshes of an account
    MaxRecoveries,   \* bound: queries answered 401
    MaxKimiSwaps,    \* bound: swaps
    MaxKimiFaults    \* bound: processes killed or suspended, answers lost

KimiAssumption ==
    /\ Protocols \subseteq {"file", "directory"}
    /\ NoLock \notin [id : Nat, stale : BOOLEAN] /\ NoMark \notin [of : KimiAccounts, token : Nat]
    /\ {MaxKimiTokens, MaxRecoveries, MaxKimiSwaps, MaxKimiFaults} \subseteq Nat

VARIABLES
    protocol,    \* of the installed client
    kimiFile,    \* credentials/kimi-code.json: an account and its token
    kimiVault,   \* the token subswap keeps of each account
    chosen,      \* the account marked active
    newest,      \* the only token of an account that the server accepts
    deadMark,    \* the fingerprint of the last refused token
    kimiLock,    \* the lock: NoLock, or its identity, and whether it is stale
    made,        \* how often it was made or renewed: each has another mtime
    kimiAt,      \* the step of a process
    tried,       \* the credential its query was made with
    rotated,     \* the token it has got
    candidate,   \* the mtime it has found stale, or 0
    retried,     \* the credential its second query is made with
    recoveries, kimiSwaps, kimiFaults,   \* bounded
    \* History, read by properties only:
    hijacked,    \* a directory was taken away from a living holder
    crossed,     \* a swap came between the read and the write of a recovery
    cut          \* the accounts of which a new token got lost on its way

kimiVars == <<protocol, kimiFile, kimiVault, chosen, newest, deadMark, kimiLock, made, kimiAt,
              tried, rotated, candidate, retried, recoveries, kimiSwaps, kimiFaults,
              hijacked, crossed, cut>>

Token == 0 .. MaxKimiTokens
Cred == [of : KimiAccounts, token : Token]
Stamps == 0 .. MaxRecoveries + MaxKimiFaults
Inside == {"Read", "Post", "Write", "Clear", "Mark", "Leave"}
KimiSteps == Inside \cup {"Idle", "Try", "Look", "Recheck", "Rename"}

Init ==
    /\ protocol \in Protocols
    /\ \E a \in KimiAccounts : kimiFile = [of |-> a, token |-> 0] /\ chosen = a
    /\ kimiVault = [a \in KimiAccounts |-> 0] /\ newest = [a \in KimiAccounts |-> 0]
    /\ deadMark = NoMark /\ kimiLock = NoLock /\ made = 0
    /\ kimiAt = [k \in Kimis |-> "Idle"] /\ tried = [k \in Kimis |-> NoMark]
    /\ rotated = [k \in Kimis |-> 0] /\ candidate = [k \in Kimis |-> 0]
    /\ retried = [k \in Kimis |-> NoMark]
    /\ recoveries = 0 /\ kimiSwaps = 0 /\ kimiFaults = 0
    /\ hijacked = FALSE /\ crossed = FALSE /\ cut = {}

Goto(k, step) == kimiAt' = [kimiAt EXCEPT ![k] = step]
Holding(k) == kimiAt[k] \in Inside
Held == \E k \in Kimis : Holding(k)
Lock(n) == [id |-> n, stale |-> FALSE]

Stores == <<kimiFile, kimiVault, chosen, newest, deadMark>>
Locking == <<kimiLock, made, candidate>>
Own == <<tried, rotated, retried>>
Bounds == <<protocol, recoveries, kimiSwaps, kimiFaults>>
History == <<hijacked, crossed, cut>>

-----------------------------------------------------------------------------
(* `fetch_quota_with_active_recovery`                                      *)

\* The query of the active account was answered 401: its token was read from
\* the file some time before.
Unauthorized(k) ==
    /\ kimiAt[k] = "Idle" /\ recoveries < MaxRecoveries
    /\ tried' = [tried EXCEPT ![k] = kimiFile]
    /\ recoveries' = recoveries + 1
    /\ Goto(k, "Try")
    /\ UNCHANGED <<Stores, Locking, rotated, retried, protocol, kimiSwaps, kimiFaults, History>>

\* The query is made again, once, with what the recovery returns.
Retry(k, cred) == retried' = [retried EXCEPT ![k] = cred]

Forget(k) ==
    /\ tried' = [tried EXCEPT ![k] = NoMark] /\ rotated' = [rotated EXCEPT ![k] = 0]
    /\ retried' = [retried EXCEPT ![k] = NoMark]

-----------------------------------------------------------------------------
(* `acquire_and_read_with_timeout`                                         *)

\* flock, or mkdir: taken, or somebody has it; the wait ends after 15 seconds.
Try(k) ==
    /\ kimiAt[k] = "Try"
    /\ \/ /\ kimiLock = NoLock
          /\ made' = made + 1 /\ kimiLock' = Lock(made + 1)
          /\ Goto(k, "Read")
       \/ /\ kimiLock # NoLock
          /\ Goto(k, IF protocol = "directory" THEN "Look" ELSE "Idle")
          /\ UNCHANGED <<kimiLock, made>>
    /\ UNCHANGED <<Stores, candidate, Own, Bounds, History>>

Again(k) == \E step \in {"Try", "Idle"} : Goto(k, step)
Note(k, n) == candidate' = [candidate EXCEPT ![k] = n]

\* `try_reap_stale_directory`: stale twice, with the same mtime.
Look(k) ==
    /\ kimiAt[k] = "Look"
    /\ CASE kimiLock = NoLock -> Goto(k, "Try") /\ UNCHANGED candidate
         [] kimiLock # NoLock /\ ~kimiLock.stale -> Note(k, 0) /\ Again(k)
         [] kimiLock # NoLock /\ kimiLock.stale /\ candidate[k] # kimiLock.id ->
              Note(k, kimiLock.id) /\ Again(k)
         [] OTHER -> (Goto(k, "Recheck") \/ Again(k)) /\ UNCHANGED candidate
    /\ UNCHANGED <<Stores, kimiLock, made, Own, Bounds, History>>

Recheck(k) ==
    /\ kimiAt[k] = "Recheck"
    /\ CASE kimiLock = NoLock -> Goto(k, "Idle") /\ UNCHANGED candidate
         [] kimiLock # NoLock /\ kimiLock.id # candidate[k] -> Note(k, 0) /\ Again(k)
         [] OTHER -> Goto(k, "Rename") /\ UNCHANGED candidate
    /\ UNCHANGED <<Stores, kimiLock, made, Own, Bounds, History>>

\* Whatever has the name by now is renamed away.
Rename(k) ==
    /\ kimiAt[k] = "Rename"
    /\ kimiLock' = NoLock /\ Note(k, 0)
    /\ IF kimiLock = NoLock THEN Again(k) ELSE Goto(k, "Try")
    /\ hijacked' = (hijacked \/ (kimiLock # NoLock /\ Held))
    /\ UNCHANGED <<Stores, made, Own, Bounds, crossed, cut>>

-----------------------------------------------------------------------------
(* `recover_active_401_at`, under the lock                                 *)

\* Mutant of Read: whoever the file belongs to by now.
ReadAny(k) ==
    /\ kimiAt[k] = "Read"
    /\ CASE kimiFile # tried[k] -> Goto(k, "Leave") /\ Retry(k, kimiFile)
         [] kimiFile = tried[k] /\ deadMark = kimiFile -> Goto(k, "Leave") /\ UNCHANGED retried
         [] OTHER -> Goto(k, "Post") /\ UNCHANGED retried
    /\ UNCHANGED <<Stores, Locking, tried, rotated, Bounds, History>>

\* Of another account: nothing is done.  A token that is newer than the query's
\* is taken as it is.  A token known to be refused is not tried again.
Read(k) ==
    /\ kimiAt[k] = "Read"
    /\ CASE kimiFile.of # tried[k].of -> Goto(k, "Leave") /\ UNCHANGED retried
         [] kimiFile.of = tried[k].of /\ kimiFile # tried[k] ->
              Goto(k, "Leave") /\ Retry(k, kimiFile)
         [] kimiFile = tried[k] /\ deadMark = kimiFile -> Goto(k, "Leave") /\ UNCHANGED retried
         [] OTHER -> Goto(k, "Post") /\ UNCHANGED retried
    /\ UNCHANGED <<Stores, Locking, tried, rotated, Bounds, History>>

\* Mutant of Post: the guard is dropped before the answer is written.
PostUnlocked(k) ==
    LET a == tried[k].of
    IN  /\ kimiAt[k] = "Post"
        /\ IF tried[k].token = newest[a]
           THEN /\ newest[a] < MaxKimiTokens
                /\ newest' = [newest EXCEPT ![a] = @ + 1]
                /\ rotated' = [rotated EXCEPT ![k] = newest[a] + 1]
                /\ kimiLock' = NoLock
                /\ Goto(k, "Write")
           ELSE Goto(k, "Mark") /\ UNCHANGED <<newest, rotated, kimiLock>>
        /\ UNCHANGED <<kimiFile, kimiVault, chosen, deadMark, made, candidate, tried, retried,
                       Bounds, History>>

\* `refresh_blob`: the server gives a new token for the newest one only.  It may
\* also fail.  The call may be dropped by the timeout of the collector, or its
\* answer lost: the guard is dropped too.
Post(k) ==
    LET a == tried[k].of
    IN  /\ kimiAt[k] = "Post"
        /\ \/ /\ tried[k].token = newest[a] /\ newest[a] < MaxKimiTokens
              /\ newest' = [newest EXCEPT ![a] = @ + 1]
              /\ \/ /\ rotated' = [rotated EXCEPT ![k] = newest[a] + 1]
                    /\ Goto(k, "Write") /\ UNCHANGED <<cut, kimiFaults>>
                 \/ /\ kimiFaults < MaxKimiFaults /\ kimiFaults' = kimiFaults + 1
                    /\ cut' = cut \cup {a}
                    /\ Goto(k, "Leave") /\ UNCHANGED rotated
           \/ /\ tried[k].token # newest[a] /\ Goto(k, "Mark")
              /\ UNCHANGED <<newest, rotated, cut, kimiFaults>>
           \/ Goto(k, "Leave") /\ UNCHANGED <<newest, rotated, cut, kimiFaults>>
        /\ UNCHANGED <<kimiFile, kimiVault, chosen, deadMark, Locking, tried, retried,
                       protocol, recoveries, kimiSwaps, hijacked, crossed>>

\* `write_credentials_and_release`: a new file is renamed over the old one, or
\* cannot be written and the new token is lost ...
Write(k) ==
    /\ kimiAt[k] = "Write"
    /\ \/ /\ kimiFile' = [of |-> tried[k].of, token |-> rotated[k]]
          /\ Retry(k, kimiFile') /\ Goto(k, "Clear")
          /\ UNCHANGED <<kimiFaults, cut>>
       \/ /\ kimiFaults < MaxKimiFaults /\ kimiFaults' = kimiFaults + 1
          /\ cut' = cut \cup {tried[k].of}
          /\ Goto(k, "Leave")
          /\ UNCHANGED <<kimiFile, retried>>
    /\ UNCHANGED <<kimiVault, chosen, newest, deadMark, Locking, tried, rotated,
                   protocol, recoveries, kimiSwaps, hijacked, crossed>>

\* ... and the mark goes.
Clear(k) ==
    /\ kimiAt[k] = "Clear" /\ deadMark' = NoMark /\ Goto(k, "Leave")
    /\ UNCHANGED <<kimiFile, kimiVault, chosen, newest, Locking, Own, Bounds, History>>

\* `write_dead_fingerprint_and_release`.
Mark(k) ==
    /\ kimiAt[k] = "Mark" /\ deadMark' = tried[k] /\ Goto(k, "Leave")
    /\ UNCHANGED <<kimiFile, kimiVault, chosen, newest, Locking, Own, Bounds, History>>

\* `drop` of the guard: the flock is the process's own; the directory that has
\* the name is removed, whoever made it.
Leave(k) ==
    /\ kimiAt[k] = "Leave" /\ Goto(k, "Idle")
    /\ kimiLock' = NoLock
    /\ hijacked' = (hijacked \/ \E l \in Kimis \ {k} : Holding(l))
    /\ Note(k, 0) /\ Forget(k)
    /\ UNCHANGED <<Stores, made, Bounds, crossed, cut>>

-----------------------------------------------------------------------------
(* What happens around it                                                  *)

\* The heartbeat of a holder renews whatever has the name.
Beat(k) ==
    /\ Holding(k) /\ kimiLock # NoLock /\ kimiLock.stale
    /\ made' = made + 1 /\ kimiLock' = Lock(made + 1)
    /\ UNCHANGED <<Stores, kimiAt, candidate, Own, Bounds, History>>

\* A directory grows stale when its maker is gone, or was asleep for too long.
GrowStale ==
    /\ protocol = "directory" /\ kimiLock # NoLock /\ ~kimiLock.stale
    /\ \/ ~Held /\ UNCHANGED kimiFaults
       \/ Held /\ kimiFaults < MaxKimiFaults /\ kimiFaults' = kimiFaults + 1
    /\ kimiLock' = [kimiLock EXCEPT !.stale = TRUE]
    /\ UNCHANGED <<Stores, made, kimiAt, candidate, Own, protocol, recoveries, kimiSwaps, History>>

\* A process ends: its flock goes with it, its directory stays.
Kill(k) ==
    /\ Holding(k) /\ kimiFaults < MaxKimiFaults /\ kimiFaults' = kimiFaults + 1
    /\ Goto(k, "Idle") /\ Note(k, 0) /\ Forget(k)
    /\ kimiLock' = IF protocol = "file" THEN NoLock ELSE kimiLock
    /\ cut' = IF kimiAt[k] = "Write" THEN cut \cup {tried[k].of} ELSE cut
    /\ UNCHANGED <<Stores, made, protocol, recoveries, kimiSwaps, hijacked, crossed>>

\* subswap activates another account: it keeps what the file holds, and writes
\* it, all without this lock (engine.rs; its steps are those of Credentials).
KimiSwap(a) ==
    /\ kimiSwaps < MaxKimiSwaps /\ kimiSwaps' = kimiSwaps + 1
    /\ chosen # a /\ chosen' = a
    /\ kimiVault' = [kimiVault EXCEPT ![kimiFile.of] = kimiFile.token]
    /\ kimiFile' = [of |-> a, token |-> kimiVault'[a]]
    /\ crossed' = (crossed \/ \E k \in Kimis : kimiAt[k] \in {"Post", "Write"})
    /\ UNCHANGED <<newest, deadMark, Locking, kimiAt, Own, protocol, recoveries, kimiFaults,
                   hijacked, cut>>

\* The token of a parked account is refreshed out of the vault.
RefreshParked(a) ==
    /\ chosen # a /\ kimiVault[a] = newest[a] /\ newest[a] < MaxKimiTokens
    /\ newest' = [newest EXCEPT ![a] = @ + 1] /\ kimiVault' = [kimiVault EXCEPT ![a] = newest[a] + 1]
    /\ UNCHANGED <<kimiFile, chosen, deadMark, Locking, kimiAt, Own, Bounds, History>>

Next ==
    \/ \E k \in Kimis :
        \/ Unauthorized(k) \/ Try(k) \/ Look(k) \/ Recheck(k) \/ Rename(k)
        \/ Read(k) \/ Post(k) \/ Write(k) \/ Clear(k) \/ Mark(k) \/ Leave(k)
        \/ Beat(k) \/ Kill(k)
    \/ GrowStale
    \/ \E a \in KimiAccounts : KimiSwap(a) \/ RefreshParked(a)

Spec == Init /\ [][Next]_kimiVars

-----------------------------------------------------------------------------
(* Properties                                                              *)

KimiTypeOK ==
    /\ protocol \in Protocols /\ kimiFile \in Cred /\ chosen \in KimiAccounts
    /\ kimiVault \in [KimiAccounts -> Token] /\ newest \in [KimiAccounts -> Token]
    /\ deadMark \in Cred \cup {NoMark}
    /\ kimiLock \in [id : Stamps, stale : BOOLEAN] \cup {NoLock} /\ made \in Stamps
    /\ kimiAt \in [Kimis -> KimiSteps] /\ tried \in [Kimis -> Cred \cup {NoMark}]
    /\ rotated \in [Kimis -> Token] /\ candidate \in [Kimis -> Stamps]
    /\ retried \in [Kimis -> Cred \cup {NoMark}]
    /\ recoveries \in 0 .. MaxRecoveries /\ kimiSwaps \in 0 .. MaxKimiSwaps
    /\ kimiFaults \in 0 .. MaxKimiFaults
    /\ hijacked \in BOOLEAN /\ crossed \in BOOLEAN /\ cut \subseteq KimiAccounts

\* The token that is used next of an account.
NextToken(a) == IF kimiFile.of = a THEN kimiFile.token ELSE kimiVault[a]

\* The token used next of an account is the one the server accepts, or a
\* recovery is about to write it; and the file is of the account marked active
\* (oauth.rs:289: the file is read again under the lock, a newer token is
\* adopted, and only the account of the query is touched).  Not so after a new
\* token was lost on its way, nor when the directory was taken from a living
\* holder; a swap in the middle of a recovery loses no token, but is undone.
KimiTokenKept ==
    ~hijacked =>
        /\ \A a \in KimiAccounts \ cut :
            \/ NextToken(a) = newest[a]
            \/ \E k \in Kimis : kimiAt[k] = "Write" /\ tried[k].of = a /\ rotated[k] = newest[a]
        /\ crossed \/ kimiFile.of = chosen

\* The second query of an account is made with a token of that account.
RetryIsOurs ==
    \A k \in Kimis : retried[k] # NoMark => retried[k].of = tried[k].of

\* A process that is in is alone, unless the directory was taken from it; it
\* recovers a credential that it has read, and returns one at its end only.
RecoveryFits(k) ==
    /\ kimiAt[k] # "Idle" => tried[k] # NoMark
    /\ retried[k] # NoMark => kimiAt[k] \in {"Clear", "Leave"} /\ retried[k].of = tried[k].of
RecoveriesKept == \A k \in Kimis : RecoveryFits(k)
InsideAlone ==
    ~hijacked => \A k \in Kimis : Holding(k) => kimiLock # NoLock /\ \A l \in Kimis \ {k} : ~Holding(l)

\* No token is newer than the one the server accepts; and a recovery writes that
\* one, over a file that is of its account, or else in the vault too.
NoneNewer ==
    /\ \A a \in KimiAccounts : kimiVault[a] <= newest[a]
    /\ kimiFile.token <= newest[kimiFile.of]
    /\ \A k \in Kimis : kimiAt[k] = "Write" => rotated[k] <= newest[tried[k].of]
WritesNewest(k) ==
    /\ kimiAt[k] \in {"Post", "Write"} /\ kimiFile.of # tried[k].of =>
          crossed /\ kimiFile.of = chosen /\ kimiFile.token = kimiVault[kimiFile.of]
    /\ kimiAt[k] = "Write" =>
          /\ rotated[k] = newest[tried[k].of] /\ kimiVault[tried[k].of] < newest[tried[k].of]
          /\ kimiFile.of = tried[k].of => kimiFile.token < newest[tried[k].of]
WritesKept ==
    ~hijacked =>
        /\ \A k \in Kimis : WritesNewest(k)
        /\ kimiFile.of # chosen /\ kimiFile.of \notin cut =>
              kimiVault[kimiFile.of] # newest[kimiFile.of]
=============================================================================
