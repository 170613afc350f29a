------------------------------- MODULE ClientLock -------------------------------
(***************************************************************************)
(* The directory lock that subswap shares with the native clients          *)
(* (providers/common/src/proper_lock.rs): mkdir takes it, a heartbeat      *)
(* keeps its mtime fresh, and a directory that nobody has renewed for      *)
(* StaleAfter is renamed away by whoever waits for it.                     *)
(*                                                                         *)
(* A step of a process lies between two of its accesses to the path.  One  *)
(* tick of the clock is a heartbeat interval: nobody who is awake misses   *)
(* one, but a process may be suspended, with its machine or by a signal.   *)
(***************************************************************************)
EXTENDS Naturals, FiniteSets

CONSTANTS
    Clients, NoDir,
    StaleAfter,      \* ticks without a renewal after which a lock is stale
    MaxLockTime,     \* bound: the clock
    MaxDirs,         \* bound: directories made
    MaxStops         \* bound: processes killed or suspended

LockAssumption ==
    /\ NoDir \notin [id : Nat, mtime : Nat]
    /\ StaleAfter \in Nat \ {0} /\ MaxLockTime \in Nat /\ MaxDirs \in Nat /\ MaxStops \in Nat

VARIABLES
    dir,        \* the lock directory: NoDir, or its identity and mtime
    made,       \* how many directories were ever made: each has a new identity
    lockTime,   \* the clock
    lockPc,     \* the step of a client
    own,        \* the identity of the directory it has made, then opened, or 0
    seen,       \* the mtime it has found stale once, or NoDir
    beat,       \* when it last renewed its directory, by making it or a heartbeat
    lost,       \* its heartbeat found the directory gone
    asleep,     \* the clients that are suspended
    stops,      \* bounded by MaxStops
    \* History, read by properties only:
    hijacked    \* a directory that was not stale was taken away, or another's opened

lockVars == <<dir, made, lockTime, lockPc, own, seen, beat, lost, asleep, stops, hijacked>>

Ids == 1 .. MaxDirs
Times == 0 .. MaxLockTime
Directory == [id : Ids, mtime : Times]
LockSteps == {"Out", "Try", "Look", "Recheck", "Rename", "Open", "Held", "Check", "Remove", "Dead"}

LockTypeOK ==
    /\ dir \in Directory \cup {NoDir} /\ made \in 0 .. MaxDirs /\ lockTime \in Times
    /\ lockPc \in [Clients -> LockSteps]
    /\ own \in [Clients -> Ids \cup {0}]
    /\ seen \in [Clients -> Times \cup {NoDir}]
    /\ beat \in [Clients -> Times] /\ lost \in [Clients -> BOOLEAN]
    /\ asleep \subseteq Clients /\ stops \in 0 .. MaxStops
    /\ hijacked \in BOOLEAN

Init ==
    /\ dir = NoDir /\ made = 0 /\ lockTime = 0
    /\ lockPc = [c \in Clients |-> "Out"] /\ own = [c \in Clients |-> 0]
    /\ seen = [c \in Clients |-> NoDir] /\ beat = [c \in Clients |-> 0]
    /\ lost = [c \in Clients |-> FALSE]
    /\ asleep = {} /\ stops = 0 /\ hijacked = FALSE

Age(d) == lockTime - d.mtime
\* Mutant of Stale: a heartbeat too early.
StaleEarly(d) == Age(d) >= StaleAfter

Stale(d) == Age(d) > StaleAfter
Owns(c) == dir # NoDir /\ dir.id = own[c]

Goto(c, s) == lockPc' = [lockPc EXCEPT ![c] = s]
At(c, s) == lockPc[c] = s /\ c \notin asleep
Saw(c, m) == seen' = [seen EXCEPT ![c] = m]

\* What every step of the loop but the last leaves alone.
Holding == <<own, beat, lost>>
Rest == <<lockTime, asleep, stops>>

-----------------------------------------------------------------------------
(* acquire                                                                 *)

Begin(c) ==
    /\ At(c, "Out") /\ made < MaxDirs
    /\ Goto(c, "Try")
    /\ UNCHANGED <<dir, made, seen, Holding, Rest, hijacked>>

\* `create_dir`: made, or it exists.
Make(c) ==
    /\ At(c, "Try")
    /\ \/ /\ dir = NoDir /\ made < MaxDirs
          /\ made' = made + 1 /\ dir' = [id |-> made + 1, mtime |-> lockTime]
          /\ own' = [own EXCEPT ![c] = made + 1]
          /\ beat' = [beat EXCEPT ![c] = lockTime]
          /\ Goto(c, "Open")
       \/ dir # NoDir /\ Goto(c, "Look") /\ UNCHANGED <<dir, made, own, beat>>
    /\ UNCHANGED <<seen, lost, Rest, hijacked>>

\* Another try after a pause, or the end of the wait.
Retry(c) == \E s \in {"Try", "Out"} : Goto(c, s)

\* `try_reap_stale`: it has to look stale twice, with the same mtime and some
\* time in between, which may or may not have passed.
Look(c) ==
    /\ At(c, "Look")
    /\ CASE dir = NoDir -> Goto(c, "Try") /\ UNCHANGED seen
         [] dir # NoDir /\ ~Stale(dir) -> Saw(c, NoDir) /\ Retry(c)
         [] dir # NoDir /\ Stale(dir) /\ seen[c] # dir.mtime -> Saw(c, dir.mtime) /\ Retry(c)
         [] OTHER -> (Goto(c, "Recheck") \/ Retry(c)) /\ UNCHANGED seen
    /\ UNCHANGED <<dir, made, Holding, Rest, hijacked>>

\* A last look; the error of a directory that is gone ends the wait.
Recheck(c) ==
    /\ At(c, "Recheck")
    /\ CASE dir = NoDir -> Goto(c, "Out") /\ Saw(c, NoDir)
         [] dir # NoDir /\ dir.mtime # seen[c] -> Saw(c, NoDir) /\ Retry(c)
         [] OTHER -> Goto(c, "Rename") /\ UNCHANGED seen
    /\ UNCHANGED <<dir, made, Holding, Rest, hijacked>>

\* The rename takes whatever has the name by now.
Rename(c) ==
    /\ At(c, "Rename")
    /\ dir' = NoDir
    /\ IF dir = NoDir THEN Retry(c) ELSE Goto(c, "Try")
    /\ Saw(c, NoDir)
    /\ hijacked' = (hijacked \/ (dir # NoDir /\ ~Stale(dir)))
    /\ UNCHANGED <<made, Holding, Rest>>

\* `hold_directory` opens the path, and starts the heartbeat.
Open(c) ==
    /\ At(c, "Open")
    /\ IF dir = NoDir
       THEN Goto(c, "Out") /\ own' = [own EXCEPT ![c] = 0] /\ UNCHANGED lost
       ELSE /\ own' = [own EXCEPT ![c] = dir.id]
            /\ lost' = [lost EXCEPT ![c] = FALSE]
            /\ Goto(c, "Held")
    /\ Saw(c, NoDir)
    /\ hijacked' = (hijacked \/ (dir # NoDir /\ ~Owns(c)))
    /\ UNCHANGED <<dir, made, beat, Rest>>

-----------------------------------------------------------------------------
(* Holding and releasing                                                   *)

\* The heartbeat renews the directory as long as it is the client's own.
Heartbeat(c) ==
    /\ At(c, "Held") /\ beat[c] < lockTime /\ ~lost[c]
    /\ beat' = [beat EXCEPT ![c] = lockTime]
    /\ IF Owns(c) THEN dir' = [dir EXCEPT !.mtime = lockTime] /\ UNCHANGED lost
       ELSE lost' = [lost EXCEPT ![c] = TRUE] /\ UNCHANGED dir
    /\ UNCHANGED <<made, lockPc, own, seen, Rest, hijacked>>

\* `drop` stops the heartbeat ...
Leave(c) ==
    /\ At(c, "Held") /\ Goto(c, "Check")
    /\ UNCHANGED <<dir, made, seen, Holding, Rest, hijacked>>

\* ... and looks whether the directory is still its own before it removes it.
Check(c) ==
    /\ At(c, "Check") /\ Goto(c, IF Owns(c) THEN "Remove" ELSE "Out")
    /\ own' = [own EXCEPT ![c] = IF Owns(c) THEN @ ELSE 0]
    /\ UNCHANGED <<dir, made, seen, beat, lost, Rest, hijacked>>

Remove(c) ==
    /\ At(c, "Remove") /\ Goto(c, "Out")
    /\ dir' = NoDir
    /\ own' = [own EXCEPT ![c] = 0]
    /\ hijacked' = (hijacked \/ (dir # NoDir /\ ~Owns(c)))
    /\ UNCHANGED <<made, seen, beat, lost, Rest>>

-----------------------------------------------------------------------------
(* Time, suspension and death                                              *)

Beating(c) == At(c, "Held") /\ ~lost[c]

\* Nobody who is awake takes longer than a tick to open what it has made, or
\* from one heartbeat to the next.
LockTick ==
    /\ lockTime < MaxLockTime
    /\ \A c \in Clients : ~At(c, "Open") /\ (Beating(c) => beat[c] = lockTime)
    /\ lockTime' = lockTime + 1
    /\ UNCHANGED <<dir, made, lockPc, seen, Holding, asleep, stops, hijacked>>

Suspend(c) ==
    /\ lockPc[c] \notin {"Out", "Dead"} /\ c \notin asleep /\ stops < MaxStops
    /\ asleep' = asleep \cup {c} /\ stops' = stops + 1
    /\ UNCHANGED <<dir, made, lockTime, lockPc, seen, Holding, hijacked>>

Resume(c) ==
    /\ c \in asleep /\ asleep' = asleep \ {c}
    /\ UNCHANGED <<dir, made, lockTime, lockPc, seen, Holding, stops, hijacked>>

\* The directory stays.
Die(c) ==
    /\ lockPc[c] \notin {"Out", "Dead"} /\ c \notin asleep /\ stops < MaxStops
    /\ stops' = stops + 1
    /\ Goto(c, "Dead") /\ own' = [own EXCEPT ![c] = 0]
    /\ UNCHANGED <<dir, made, lockTime, seen, beat, lost, asleep, hijacked>>

Step(c) ==
    \/ Begin(c) \/ Make(c) \/ Look(c) \/ Recheck(c) \/ Rename(c) \/ Open(c)
    \/ Heartbeat(c) \/ Leave(c) \/ Check(c) \/ Remove(c)
    \/ Suspend(c) \/ Resume(c) \/ Die(c)

Next == LockTick \/ \E c \in Clients : Step(c)

Spec == Init /\ [][Next]_lockVars

-----------------------------------------------------------------------------
(* Properties                                                              *)

\* What it rests on: no two clients have made the same directory; what one has
\* made and still has is as old as its last heartbeat; who holds the lock without
\* having it has lost it, knowingly or by being late.
LockKept ==
    /\ dir # NoDir => dir.id <= made
    /\ \A c \in Clients : own[c] <= made
    /\ ~hijacked =>
          /\ \A c, d \in Clients : c # d /\ own[c] = own[d] => own[c] = 0
          /\ \A c \in Clients :
                /\ Owns(c) => dir.mtime = beat[c]
                /\ lockPc[c] = "Held" => Owns(c) \/ lost[c] \/ lockTime - beat[c] > StaleAfter

\* Two clients hold the lock only if one of them has missed its heartbeats for
\* StaleAfter, and then knows at its next one, as long as every directory
\* that was taken away was stale: with killed and suspended holders, waiters
\* that time out, and any number of reapings (proper_lock.rs: stale twice with
\* the same mtime; the owner is checked before a renewal or a removal).
HoldersExclude ==
    ~hijacked =>
        \A c, d \in Clients :
            c # d /\ lockPc[c] = "Held" /\ lockPc[d] = "Held" =>
                \/ lockTime - beat[c] > StaleAfter \/ lockTime - beat[d] > StaleAfter
                \/ lost[c] \/ lost[d]
=============================================================================
