---------------------------- MODULE AntigravitySwap ----------------------------
(***************************************************************************)
(* The accounts of Antigravity (providers/antigravity/src/lib.rs).  The    *)
(* login of the client agy is one item of the macOS keychain; subswap      *)
(* keeps a copy of each account's login and a mark on the active account.  *)
(* Swaps, queries, keep-alives, imports and removals of several processes  *)
(* meet there: a swap takes the lock .subswap.lock only after its writes.  *)
(*                                                                         *)
(* A login is an account and the number of its sign-in: a refresh changes  *)
(* the access token only, for Google's refresh tokens stay.  Which tokens  *)
(* a process knows to be refused, and logins without access token or       *)
(* identity, are left out; elsewhere than on macOS no login is ever found. *)
(* The account registry changes in one step here; Credentials splits it.   *)
(***************************************************************************)
EXTENDS Integers

CONSTANTS
    Holders,         \* processes: commands and the daemon
    GoogleAccounts,
    NoLogin,
    MaxSignIns,      \* bound: sign-ins in agy
    MaxGoogleJobs,   \* bound: jobs of all processes
    MaxGoogleFaults  \* bound: failed writes and killed processes

AntigravityAssumption ==
    /\ NoLogin \notin Holders \cup GoogleAccounts \cup [of : GoogleAccounts, nr : Nat]
    /\ {MaxSignIns, MaxGoogleJobs, MaxGoogleFaults} \subseteq Nat

VARIABLES
    keychain,      \* the login of agy, or NoLogin
    copies,        \* the sign-in of which subswap has a copy, or 0
    known, marked, \* the accounts of the registry, and those marked active
    signedIn,      \* the last sign-in of each account
    flock,         \* who has .subswap.lock
    stepOf, job,   \* the step of a process, and what it does to which account
    blob,          \* the sign-in of that account it works with
    live,          \* the login it has read to copy or import it
    kept,          \* the login it would restore
    signIns, googleJobs, googleFaults,   \* bounded
    \* History, read by properties only:
    lone,          \* no other swap, import or sign-in came between
    inEffect,      \* the account of the last swap that ended well, if lone
    missed,        \* accounts of which a sign-in was not, or wrongly, copied
    robbed         \* a removal deleted the login of another account

antigravityVars == <<keychain, copies, known, marked, signedIn, flock, stepOf, job, blob, live,
                     kept, signIns, googleJobs, googleFaults, lone, inEffect, missed, robbed>>

SignIn == 0 .. MaxSignIns + 1
Login == [of : GoogleAccounts, nr : SignIn]
NoJob == [kind |-> "none", of |-> NoLogin]
Kinds == {"swap", "query", "keep", "capture", "import", "remove"}
Swapping == {"Blob", "Fix", "Refresh", "Same", "Capture", "Store", "Snapshot", "Write", "Mark",
             "Restore", "Flock"}
Removing == {"Disconnect", "Lock", "Confirm", "Delete", "Unregister", "Forget"}
Steps == Swapping \cup Removing \cup {"Idle", "Import", "Upsert"}

Account(p) == job[p].of
IsSwap(p) == job[p].kind = "swap"
IsOf(login, a) == login # NoLogin /\ login.of = a
Goto(p, step) == stepOf' = [stepOf EXCEPT ![p] = step]
Fail == googleFaults < MaxGoogleFaults /\ googleFaults' = googleFaults + 1
Fine == UNCHANGED googleFaults

Registry == <<known, marked>>
Own == <<job, blob, live, kept>>
Counts == <<signedIn, signIns, googleJobs>>
History == <<lone, inEffect, missed, robbed>>

End(p) ==
    /\ Goto(p, "Idle") /\ job' = [job EXCEPT ![p] = NoJob]
    /\ blob' = [blob EXCEPT ![p] = 0] /\ live' = [live EXCEPT ![p] = NoLogin]
    /\ kept' = [kept EXCEPT ![p] = NoLogin]
Continue(p, step) == Goto(p, step) /\ UNCHANGED Own

Init ==
    /\ \E a \in GoogleAccounts : keychain = [of |-> a, nr |-> 1] /\ marked = {a}
    /\ known = GoogleAccounts
    /\ copies = [a \in GoogleAccounts |-> 1] /\ signedIn = [a \in GoogleAccounts |-> 1]
    /\ flock = NoLogin /\ stepOf = [p \in Holders |-> "Idle"]
    /\ job = [p \in Holders |-> NoJob] /\ blob = [p \in Holders |-> 0]
    /\ live = [p \in Holders |-> NoLogin] /\ kept = [p \in Holders |-> NoLogin]
    /\ signIns = 0 /\ googleJobs = 0 /\ googleFaults = 0
    /\ lone = [p \in Holders |-> FALSE] /\ inEffect = keychain.of /\ missed = {}
    /\ robbed = FALSE

\* A swap past its copy of agy's login overwrites what comes now.
AboutToWrite(p) == IsSwap(p) /\ stepOf[p] \in {"Store", "Snapshot", "Write"}

\* The user signs in to agy, over the login that was there.
SignInNatively(a) ==
    /\ signIns < MaxSignIns /\ signIns' = signIns + 1
    /\ signedIn' = [signedIn EXCEPT ![a] = @ + 1]
    /\ keychain' = [of |-> a, nr |-> signedIn[a] + 1]
    /\ missed' = (IF \E p \in Holders : AboutToWrite(p) THEN missed \cup {a} ELSE missed \ {a})
          \cup {b \in GoogleAccounts \ {a} : IsOf(keychain, b) /\ copies[b] # keychain.nr}
    /\ lone' = [p \in Holders |-> FALSE] /\ inEffect' = NoLogin
    /\ UNCHANGED <<copies, Registry, flock, stepOf, Own, googleJobs, googleFaults, robbed>>

\* A process starts: a swap and an import are in the way of each other.
Start(p, kind, a, step) ==
    /\ stepOf[p] = "Idle" /\ googleJobs < MaxGoogleJobs /\ googleJobs' = googleJobs + 1
    /\ job' = [job EXCEPT ![p] = [kind |-> kind, of |-> a]] /\ Goto(p, step)
    /\ LET Disturbs(q) == \/ job[q].kind \in {"swap", "import"} /\ kind \in {"swap", "import"}
                          \/ a = Account(q) /\ "remove" \in {kind, job[q].kind}
       IN  /\ lone' = [q \in Holders |->
                 IF q = p THEN kind = "swap" /\ \A r \in Holders : ~Disturbs(r)
                 ELSE lone[q] /\ ~Disturbs(q)]
           /\ inEffect' = IF kind = "remove" /\ a = inEffect THEN NoLogin ELSE inEffect
    /\ UNCHANGED <<keychain, copies, Registry, flock, blob, live, kept, signedIn, signIns,
                   googleFaults, missed, robbed>>

-----------------------------------------------------------------------------
(* `blob_for_account`, and the refreshes                                   *)

\* The active account's login is agy's, if that is its own.
Blob(p) ==
    /\ stepOf[p] = "Blob"
    /\ LET a == Account(p)
       IN  IF a \in marked /\ IsOf(keychain, a)
           THEN /\ blob' = [blob EXCEPT ![p] = keychain.nr] /\ Goto(p, "Fix")
                /\ UNCHANGED <<job, live, kept>>
           ELSE IF copies[a] # 0
           THEN /\ blob' = [blob EXCEPT ![p] = copies[a]] /\ Goto(p, "Refresh")
                /\ UNCHANGED <<job, live, kept>>
           ELSE End(p)
    /\ UNCHANGED <<keychain, copies, Registry, flock, Counts, googleFaults, History>>

\* What is copied was read before: it may be older than the copy by now.
Copy(a, nr) ==
    /\ copies' = [copies EXCEPT ![a] = nr]
    /\ missed' = IF nr < copies[a] THEN missed \cup {a}
                 ELSE IF nr = signedIn[a] THEN missed \ {a} ELSE missed
NoCopy == UNCHANGED <<copies, missed>>

\* The copy of the active account is corrected; failures are ignored.  A query
\* of the active account does not refresh.
Fix(p) ==
    /\ stepOf[p] = "Fix"
    /\ \/ Copy(Account(p), blob[p]) /\ Fine
       \/ Fail /\ NoCopy
    /\ IF IsSwap(p) THEN Continue(p, "Refresh") ELSE End(p)
    /\ UNCHANGED <<keychain, Registry, flock, Counts, lone, inEffect, robbed>>

\* `refresh_blob`: not due or refused, or the refreshed login is copied.  The
\* account is not looked at again.
Refresh(p) ==
    /\ stepOf[p] = "Refresh"
    /\ \/ Copy(Account(p), blob[p]) /\ Fine
       \/ NoCopy /\ (Fine \/ Fail)
    /\ IF IsSwap(p) THEN Continue(p, "Same") ELSE End(p)
    /\ UNCHANGED <<keychain, Registry, flock, Counts, lone, inEffect, robbed>>

\* `query_quota`, and `refresh_if_near_expiry` of the daemon.
Query(p, a) == a \in known /\ Start(p, "query", a, "Blob")
KeepAlive(p, a) ==
    /\ stepOf[p] = "Idle" /\ a \in known \ marked /\ copies[a] # 0
    /\ googleJobs < MaxGoogleJobs /\ googleJobs' = googleJobs + 1
    /\ job' = [job EXCEPT ![p] = [kind |-> "keep", of |-> a]] /\ Goto(p, "Refresh")
    /\ blob' = [blob EXCEPT ![p] = copies[a]]
    /\ UNCHANGED <<keychain, copies, Registry, flock, live, kept, signedIn, signIns,
                   googleFaults, History>>

-----------------------------------------------------------------------------
(* `activate`                                                              *)

Swap(p, a) == a \in known /\ Start(p, "swap", a, "Blob")

\* What agy uses already is copied only, and the mark stays where it is.
Same(p) ==
    /\ stepOf[p] = "Same" /\ Goto(p, "Capture")
    /\ job' = IF IsOf(keychain, Account(p)) THEN [job EXCEPT ![p].kind = "capture"] ELSE job
    /\ UNCHANGED <<keychain, copies, Registry, flock, blob, live, kept, Counts, googleFaults,
                   History>>

\* Mutant of Capture: the copy on leaving is left out.
CaptureNot(p) ==
    /\ stepOf[p] = "Capture"
    /\ IF IsSwap(p) THEN Continue(p, "Snapshot") ELSE End(p)
    /\ UNCHANGED <<keychain, copies, Registry, flock, Counts, googleFaults, History>>

\* `capture_live_into_store`: agy's login is copied if the registry knows its
\* account.
Capture(p) ==
    /\ stepOf[p] = "Capture"
    /\ IF keychain # NoLogin /\ keychain.of \in known
       THEN /\ live' = [live EXCEPT ![p] = keychain] /\ Goto(p, "Store")
            /\ UNCHANGED <<job, blob, kept, missed>>
       ELSE /\ IF IsSwap(p) THEN Continue(p, "Snapshot") ELSE End(p)
            /\ missed' = missed \cup {a \in GoogleAccounts : IsOf(keychain, a)}
    /\ UNCHANGED <<keychain, copies, Registry, flock, Counts, googleFaults, lone, inEffect,
                   robbed>>

\* A swap goes on when the copy fails.
Store(p) ==
    /\ stepOf[p] = "Store"
    /\ \/ Copy(live[p].of, live[p].nr) /\ Fine
       \/ Fail /\ UNCHANGED copies /\ missed' = missed \cup {live[p].of}
    /\ IF IsSwap(p) THEN Continue(p, "Snapshot") ELSE End(p)
    /\ UNCHANGED <<keychain, Registry, flock, Counts, lone, inEffect, robbed>>

Snapshot(p) ==
    /\ stepOf[p] = "Snapshot"
    /\ kept' = [kept EXCEPT ![p] = keychain] /\ Goto(p, "Write")
    /\ UNCHANGED <<keychain, copies, Registry, flock, job, blob, live, Counts, googleFaults,
                   History>>

\* `set_password` updates the item; if that fails it deletes it and adds it anew,
\* which may fail as well.
Write(p) ==
    /\ stepOf[p] = "Write"
    /\ \/ /\ keychain' = [of |-> Account(p), nr |-> blob[p]]
          /\ Fine /\ Continue(p, "Mark")
          /\ inEffect' = IF lone[p] THEN inEffect ELSE NoLogin
       \/ /\ Fail /\ keychain' = NoLogin /\ End(p)
          /\ inEffect' = NoLogin
    /\ UNCHANGED <<copies, Registry, flock, Counts, lone, missed, robbed>>

\* `registry.set_active`: fails for an account that was removed meanwhile.
Mark(p) ==
    /\ stepOf[p] = "Mark"
    /\ \/ /\ Account(p) \in known /\ marked' = {Account(p)} /\ Fine
          /\ IF IsSwap(p) THEN Continue(p, "Flock") ELSE End(p)
       \/ /\ IF Account(p) \in known THEN Fail ELSE Fine
          /\ UNCHANGED marked
          /\ IF IsSwap(p) THEN Continue(p, "Restore") ELSE End(p)
    /\ UNCHANGED <<keychain, copies, known, flock, Counts, History>>

\* Mutant of Restore: the failed swap leaves its login behind.
RestoreNot(p) ==
    /\ stepOf[p] = "Restore" /\ End(p)
    /\ UNCHANGED <<keychain, copies, Registry, flock, Counts, googleFaults, History>>

\* `keychain::restore`, after which the swap has failed.
Restore(p) ==
    /\ stepOf[p] = "Restore" /\ End(p)
    /\ \/ Fine /\ keychain' = kept[p]
          /\ inEffect' = IF lone[p] THEN inEffect ELSE NoLogin
       \/ Fail /\ inEffect' = NoLogin /\ keychain' \in {keychain, NoLogin}
    /\ missed' = missed \cup {a \in GoogleAccounts : IsOf(keychain, a) /\ copies[a] # keychain.nr}
    /\ UNCHANGED <<copies, Registry, flock, Counts, lone, robbed>>

\* The lock is taken, and given back at once.
Flock(p) ==
    /\ stepOf[p] = "Flock" /\ flock = NoLogin /\ End(p)
    /\ inEffect' = IF lone[p] THEN Account(p) ELSE NoLogin
    /\ UNCHANGED <<keychain, copies, Registry, flock, Counts, googleFaults, lone, missed, robbed>>

-----------------------------------------------------------------------------
(* `reconcile_active_from_live`, `import_active`, `sync_active_metadata`   *)

Reconcile(p) == keychain # NoLogin /\ Start(p, "capture", NoLogin, "Capture")

\* `subswap login` copies agy's login; the default entry copies it if there is
\* no copy yet.
ImportLive(p) ==
    /\ keychain # NoLogin
    /\ \E step \in {"Import"} \cup (IF copies[keychain.of] # 0 THEN {"Mark"} ELSE {}) :
          /\ stepOf[p] = "Idle" /\ googleJobs < MaxGoogleJobs /\ googleJobs' = googleJobs + 1
          /\ job' = [job EXCEPT ![p] = [kind |-> "import", of |-> keychain.of]]
          /\ live' = [live EXCEPT ![p] = keychain] /\ Goto(p, step)
    /\ lone' = [p2 \in Holders |-> FALSE]
    /\ inEffect' = IF \E q \in Holders : IsSwap(q) THEN NoLogin ELSE inEffect
    /\ UNCHANGED <<keychain, copies, Registry, flock, blob, kept, signedIn, signIns,
                   googleFaults, missed, robbed>>

Import(p) ==
    /\ stepOf[p] = "Import" /\ Copy(live[p].of, live[p].nr) /\ Continue(p, "Upsert")
    /\ UNCHANGED <<keychain, Registry, flock, Counts, googleFaults, lone, inEffect, robbed>>
Upsert(p) ==
    /\ stepOf[p] = "Upsert"
    /\ known' = known \cup {Account(p)} /\ marked' = marked \cup {Account(p)}
    /\ Continue(p, "Mark")
    /\ UNCHANGED <<keychain, copies, flock, Counts, googleFaults, History>>

-----------------------------------------------------------------------------
(* `subswap rm`: `disconnect_official`, then the registry and the copy     *)

Remove(p, a) == a \in known /\ Start(p, "remove", a, "Disconnect")

RmStep(p, at, mine) ==
    /\ stepOf[p] = at
    /\ Continue(p, IF IsOf(keychain, Account(p)) THEN mine ELSE "Unregister")
    /\ UNCHANGED <<keychain, copies, Registry, Counts, googleFaults, History>>
Disconnect(p) == RmStep(p, "Disconnect", "Lock") /\ UNCHANGED flock
Lock(p) ==
    /\ stepOf[p] = "Lock" /\ flock = NoLogin /\ flock' = p /\ Continue(p, "Confirm")
    /\ UNCHANGED <<keychain, copies, Registry, Counts, googleFaults, History>>
\* The login is looked at again under the lock.
Confirm(p) ==
    /\ RmStep(p, "Confirm", "Delete")
    /\ flock' = IF IsOf(keychain, Account(p)) THEN flock ELSE NoLogin

\* Mutant of Delete: the copy goes instead.
DeleteCopy(p) ==
    /\ stepOf[p] = "Delete" /\ flock' = NoLogin /\ Continue(p, "Unregister")
    /\ copies' = [a \in GoogleAccounts |-> IF IsOf(keychain, a) THEN 0 ELSE copies[a]]
    /\ keychain' = NoLogin
    /\ UNCHANGED <<Registry, Counts, googleFaults, History>>

\* Whatever login is there is deleted.  If the account is signed in again right
\* after, the command warns and goes on.
Delete(p) ==
    /\ stepOf[p] = "Delete" /\ flock' = NoLogin /\ Continue(p, "Unregister")
    /\ keychain' = NoLogin
    /\ robbed' = (robbed \/ (keychain # NoLogin /\ keychain.of # Account(p)))
    /\ missed' = missed \cup {a \in GoogleAccounts : IsOf(keychain, a) /\ copies[a] # keychain.nr}
    /\ UNCHANGED <<copies, Registry, Counts, googleFaults, lone, inEffect>>

Unregister(p) ==
    /\ stepOf[p] = "Unregister"
    /\ known' = known \ {Account(p)} /\ marked' = marked \ {Account(p)}
    /\ IF Account(p) \in known THEN Continue(p, "Forget") ELSE End(p)
    /\ UNCHANGED <<keychain, copies, flock, Counts, googleFaults, History>>
Forget(p) ==
    /\ stepOf[p] = "Forget" /\ End(p)
    /\ copies' = [copies EXCEPT ![Account(p)] = 0] /\ missed' = missed \cup {Account(p)}
    /\ UNCHANGED <<keychain, Registry, flock, Counts, googleFaults, lone, inEffect, robbed>>

\* A process is killed; its lock goes with it.
Kill(p) ==
    /\ stepOf[p] # "Idle" /\ Fail /\ End(p)
    /\ flock' = IF flock = p THEN NoLogin ELSE flock
    /\ inEffect' = IF stepOf[p] \in {"Mark", "Restore", "Flock"} THEN NoLogin ELSE inEffect
    /\ UNCHANGED <<keychain, copies, Registry, Counts, lone, missed, robbed>>

Next ==
    \/ \E a \in GoogleAccounts : SignInNatively(a)
    \/ \E p \in Holders :
          \/ \E a \in GoogleAccounts : Swap(p, a) \/ Query(p, a) \/ KeepAlive(p, a) \/ Remove(p, a)
          \/ Reconcile(p) \/ ImportLive(p)
          \/ Blob(p) \/ Fix(p) \/ Refresh(p) \/ Same(p) \/ Capture(p) \/ Store(p)
          \/ Snapshot(p) \/ Write(p) \/ Mark(p) \/ Restore(p) \/ Flock(p)
          \/ Import(p) \/ Upsert(p)
          \/ Disconnect(p) \/ Lock(p) \/ Confirm(p) \/ Delete(p) \/ Unregister(p) \/ Forget(p)
          \/ Kill(p)

Spec == Init /\ [][Next]_antigravityVars

-----------------------------------------------------------------------------
(* Properties                                                              *)

AntigravityTypeOK ==
    /\ keychain \in Login \cup {NoLogin} /\ copies \in [GoogleAccounts -> SignIn]
    /\ known \subseteq GoogleAccounts /\ marked \subseteq known
    /\ signedIn \in [GoogleAccounts -> SignIn]
    /\ flock \in Holders \cup {NoLogin} /\ stepOf \in [Holders -> Steps]
    /\ job \in [Holders -> [kind : Kinds, of : GoogleAccounts \cup {NoLogin}] \cup {NoJob}]
    /\ blob \in [Holders -> SignIn] /\ live \in [Holders -> Login \cup {NoLogin}]
    /\ kept \in [Holders -> Login \cup {NoLogin}]
    /\ <<signIns, googleJobs, googleFaults>> \in
          (0 .. MaxSignIns) \X (0 .. MaxGoogleJobs) \X (0 .. MaxGoogleFaults)
    /\ lone \in [Holders -> BOOLEAN] /\ inEffect \in GoogleAccounts \cup {NoLogin}
    /\ missed \subseteq GoogleAccounts /\ robbed \in BOOLEAN

SwapUnderWay == \E p \in Holders : IsSwap(p)

\* A swap that ended well, with no other swap, import or sign-in beside it,
\* stays in effect, in agy and in the registry, through queries, keep-alives,
\* removals of other accounts and swaps that fail: unless a removal deleted the
\* login that the swap had just written (lib.rs:348).
AntigravityInEffect ==
    inEffect # NoLogin /\ ~SwapUnderWay /\ ~robbed =>
        IsOf(keychain, inEffect) /\ marked = {inEffect}

\* The last sign-in of a registered account is agy's, or there is a copy of it,
\* when no copy failed, was made of an older login, or was due before the
\* sign-in or before the registry knew the account.
SignInKept ==
    \A a \in known \ missed :
        \/ copies[a] = signedIn[a]
        \/ keychain = [of |-> a, nr |-> signedIn[a]]

\* What a process does in which step.
JobFits(p) ==
    /\ stepOf[p] = "Idle" => /\ job[p] = NoJob /\ blob[p] = 0
                            /\ live[p] = NoLogin /\ kept[p] = NoLogin
    /\ stepOf[p] # "Idle" => job[p] # NoJob
    /\ stepOf[p] # "Idle" /\ job[p].kind # "capture" => Account(p) \in GoogleAccounts
    /\ stepOf[p] \in {"Same", "Snapshot", "Write", "Restore", "Flock"} => IsSwap(p)
    /\ stepOf[p] \in {"Blob", "Fix"} => job[p].kind \in {"swap", "query"}
    /\ stepOf[p] = "Refresh" => job[p].kind \in {"swap", "query", "keep"}
    /\ stepOf[p] \in {"Capture", "Store"} => job[p].kind \in {"swap", "capture"}
    /\ stepOf[p] = "Mark" => job[p].kind \in {"swap", "import"}
    /\ stepOf[p] \in {"Import", "Upsert"} => job[p].kind = "import"
    /\ stepOf[p] \in Removing => job[p].kind = "remove"
    /\ stepOf[p] \in {"Store", "Import"} => live[p] # NoLogin
JobsKept == \A p \in Holders : JobFits(p)

\* No login is of a sign-in that has not been.
NoneNewer(a) ==
    /\ copies[a] <= signedIn[a] /\ signedIn[a] <= signIns + 1
    /\ IsOf(keychain, a) => keychain.nr <= signedIn[a]
    /\ \A p \in Holders : /\ IsOf(live[p], a) => live[p].nr <= signedIn[a]
                          /\ IsOf(kept[p], a) => kept[p].nr <= signedIn[a]
                          /\ Account(p) = a => blob[p] <= signedIn[a]

\* A sign-in that SignInKept does not except is in the copy, or will be before
\* the swap that has read it writes.
LastKept(a) ==
    /\ copies[a] = signedIn[a] \/ keychain = [of |-> a, nr |-> signedIn[a]]
    /\ \A p \in Holders : AboutToWrite(p) =>
          \/ copies[a] = signedIn[a]
          \/ stepOf[p] = "Store" /\ live[p] = [of |-> a, nr |-> signedIn[a]]
CopiesKept == \A a \in GoogleAccounts : NoneNewer(a) /\ (a \notin missed => LastKept(a))

\* What keeps a swap in effect: beside one that is alone there is no other, no
\* import, and no removal of its account.
SwapsAlone ==
    /\ \A p, q \in Holders : lone[p] /\ IsSwap(p) /\ IsSwap(q) => p = q
    /\ \A p, q \in Holders : job[p].kind = "import" => ~lone[q]
    /\ \A p \in Holders : job[p].kind = "remove" =>
          /\ inEffect # Account(p)
          /\ \A q \in Holders : IsSwap(q) /\ Account(q) = Account(p) => ~lone[q]

\* From its write on agy's login is its own, and until its mark it can go back
\* to the account that was in effect.
Written(p) == IsSwap(p) /\ stepOf[p] \in {"Mark", "Restore", "Flock"}
InUse(a) == IsOf(keychain, a) /\ marked = {a}
StaysInUse ==
    inEffect # NoLogin =>
        /\ (\A p \in Holders : ~Written(p)) => InUse(inEffect)
        /\ \A p \in Holders : job[p].kind = "import" => Account(p) = inEffect
SwapsGoOn ==
    \A p \in Holders : lone[p] /\ IsSwap(p) =>
        /\ Written(p) => IsOf(keychain, Account(p))
        /\ stepOf[p] = "Flock" => marked = {Account(p)}
        /\ inEffect # NoLogin /\ stepOf[p] \in {"Write", "Mark", "Restore"} =>
              IsOf(kept[p], inEffect) /\ marked = {inEffect}
EffectKept == SwapsAlone /\ (~robbed => StaysInUse /\ SwapsGoOn)

\* What the comment in `disconnect_official` says: a removal does not delete the
\* login of an account that was activated meanwhile.
RemovalTakesItsOwn == ~robbed
=============================================================================
