------------------------------ MODULE DaemonLife ------------------------------
(***************************************************************************)
(* The one daemon (daemon/unix.rs: run; cli/daemon_spawn.rs): a daemon     *)
(* holds a flock on the PID file as long as it lives, and removes the file *)
(* when it is stopped.  `subswap` without arguments starts one when it can *)
(* take that lock itself, which it does for a moment to find out.          *)
(*                                                                         *)
(* A lock is on a file (an inode), not on its name: who has opened the     *)
(* file before it was removed locks a file that nobody else will find.     *)
(***************************************************************************)
EXTENDS Naturals, FiniteSets

CONSTANTS
    Daemons, Commands,   \* processes
    Nobody,
    MaxInvocations,      \* bound: commands run
    MaxEnds              \* bound: daemons stopped, processes killed, failed starts

NoFile == 0
Inodes == 1 .. Cardinality(Daemons) + Cardinality(Commands) + 1

DaemonAssumption ==
    /\ IsFiniteSet(Daemons) /\ IsFiniteSet(Commands)
    /\ Daemons \cap Commands = {} /\ Nobody \notin Daemons \cup Commands
    /\ MaxInvocations \in Nat /\ MaxEnds \in Nat

VARIABLES
    pidPath,      \* the file that has the name, or NoFile
    pid,          \* whose number is in a file
    flock,        \* who has locked it
    lifeAt,       \* the step of a process
    handle,       \* the file it has opened, or NoFile
    invocations, ends,   \* bounded
    \* History, read by properties only:
    orphaned,     \* a daemon has locked a file that had lost the name
    ensured       \* a command has seen to a daemon, and none has ended since

daemonVars == <<pidPath, pid, flock, lifeAt, handle, invocations, ends, orphaned, ensured>>

Processes == Daemons \cup Commands
Starting == {"Open", "Lock", "Write"}
LifeSteps == Starting \cup {"Off", "Loop", "Unlink", "Exit", "Look", "Probe", "Unlock", "Spawn", "Rest"}

Init ==
    /\ pidPath = NoFile
    /\ pid = [i \in Inodes |-> Nobody] /\ flock = [i \in Inodes |-> Nobody]
    /\ lifeAt = [p \in Processes |-> "Off"] /\ handle = [p \in Processes |-> NoFile]
    /\ invocations = 0 /\ ends = 0 /\ orphaned = FALSE /\ ensured = FALSE

Goto(p, step) == lifeAt' = [lifeAt EXCEPT ![p] = step]
Files == <<pidPath, pid, flock>>
Bounds == <<invocations, ends>>

\* The end of a process closes its file, and unlocks it.
Closed(p) ==
    /\ handle' = [handle EXCEPT ![p] = NoFile]
    /\ flock' = [i \in Inodes |-> IF flock[i] = p THEN Nobody ELSE flock[i]]
Over(p) == Closed(p) /\ Goto(p, "Off")

\* A new file gets the name; one that nobody has open is gone.
NewFile(i) == i # pidPath /\ \A p \in Processes : handle[p] # i

-----------------------------------------------------------------------------
(* `ensure_daemon_running`, and `daemon_alive` in it                       *)

\* Without the file there is no daemon.
Run(c) ==
    /\ lifeAt[c] = "Off" /\ invocations < MaxInvocations /\ invocations' = invocations + 1
    /\ Goto(c, IF pidPath = NoFile THEN "Spawn" ELSE "Look")
    /\ UNCHANGED <<Files, handle, ends, orphaned, ensured>>

\* It opens the file, and never makes one: gone by now, it gives up.
Look(c) ==
    /\ lifeAt[c] = "Look"
    /\ IF pidPath = NoFile THEN Goto(c, "Rest") /\ UNCHANGED handle
       ELSE Goto(c, "Probe") /\ handle' = [handle EXCEPT ![c] = pidPath]
    /\ UNCHANGED <<Files, Bounds, orphaned, ensured>>

\* Locked by a daemon, or by a command that does the same.
Probe(c) ==
    /\ lifeAt[c] = "Probe"
    /\ IF flock[handle[c]] = Nobody
       THEN /\ flock' = [flock EXCEPT ![handle[c]] = c]
            /\ Goto(c, "Unlock") /\ UNCHANGED <<handle, ensured>>
       ELSE Closed(c) /\ Goto(c, "Rest") /\ ensured' = TRUE
    /\ UNCHANGED <<pidPath, pid, Bounds, orphaned>>

\* Mutant of Unlock: kept open for the rest of the command.
UnlockNot(c) ==
    /\ lifeAt[c] = "Unlock" /\ Goto(c, "Spawn")
    /\ UNCHANGED <<Files, handle, Bounds, orphaned, ensured>>

Unlock(c) ==
    /\ lifeAt[c] = "Unlock" /\ Closed(c) /\ Goto(c, "Spawn")
    /\ UNCHANGED <<pidPath, pid, Bounds, orphaned, ensured>>

\* `spawn_detached_daemon`: it is not waited for; it may fail.
Spawn(c) ==
    /\ lifeAt[c] = "Spawn"
    /\ \/ \E d \in Daemons :
            /\ lifeAt[d] = "Off"
            /\ lifeAt' = [lifeAt EXCEPT ![c] = "Rest", ![d] = "Open"]
            /\ ensured' = TRUE /\ UNCHANGED ends
       \/ /\ ends < MaxEnds /\ ends' = ends + 1
          /\ Goto(c, "Rest") /\ ensured' = FALSE
    /\ UNCHANGED <<Files, handle, invocations, orphaned>>

\* The rest of the command, which does not touch the file.
Rest(c) ==
    /\ lifeAt[c] = "Rest" /\ Over(c)
    /\ UNCHANGED <<pidPath, pid, Bounds, orphaned, ensured>>

-----------------------------------------------------------------------------
(* `run` of the daemon                                                     *)

\* `open_pid_lock` makes the file when there is none.
Open(d) ==
    /\ lifeAt[d] = "Open" /\ Goto(d, "Lock")
    /\ IF pidPath # NoFile
       THEN handle' = [handle EXCEPT ![d] = pidPath] /\ UNCHANGED <<pidPath, pid>>
       ELSE \E i \in Inodes :
            /\ NewFile(i) /\ \A j \in Inodes : NewFile(j) => i <= j
            /\ pidPath' = i /\ pid' = [pid EXCEPT ![i] = Nobody]
            /\ handle' = [handle EXCEPT ![d] = i]
    /\ UNCHANGED <<flock, Bounds, orphaned, ensured>>

\* Mutant of Lock: another daemon is not minded.
LockNot(d) ==
    /\ lifeAt[d] = "Lock" /\ Goto(d, "Write")
    /\ flock' = [flock EXCEPT ![handle[d]] = d]
    /\ UNCHANGED <<pidPath, pid, handle, Bounds, orphaned, ensured>>

\* Locked by somebody, it exits.
Lock(d) ==
    /\ lifeAt[d] = "Lock"
    /\ IF flock[handle[d]] # Nobody THEN Over(d) /\ UNCHANGED orphaned
       ELSE /\ flock' = [flock EXCEPT ![handle[d]] = d]
            /\ orphaned' = (orphaned \/ handle[d] # pidPath)
            /\ Goto(d, "Write") /\ UNCHANGED handle
    /\ UNCHANGED <<pidPath, pid, Bounds, ensured>>

\* `write_pid`: to the file of that name, which it makes when there is none.
WritePid(d) ==
    /\ lifeAt[d] = "Write" /\ Goto(d, "Loop")
    /\ \E i \in Inodes :
        /\ IF pidPath # NoFile THEN i = pidPath
           ELSE NewFile(i) /\ \A j \in Inodes : NewFile(j) => i <= j
        /\ pidPath' = i /\ pid' = [pid EXCEPT ![i] = d]
    /\ UNCHANGED <<flock, handle, Bounds, orphaned, ensured>>

\* SIGTERM or SIGINT, between two cycles: the file is removed, whosever it is ...
Stop(d) ==
    /\ lifeAt[d] = "Loop" /\ ends < MaxEnds /\ ends' = ends + 1
    /\ Goto(d, "Unlink") /\ ensured' = FALSE
    /\ UNCHANGED <<Files, handle, invocations, orphaned>>

Unlink(d) ==
    /\ lifeAt[d] = "Unlink" /\ Goto(d, "Exit")
    /\ pidPath' = NoFile
    /\ UNCHANGED <<pid, flock, handle, Bounds, orphaned, ensured>>

\* ... and unlocked only by the end of the process.
Exit(d) ==
    /\ lifeAt[d] = "Exit" /\ Over(d) /\ ensured' = FALSE
    /\ UNCHANGED <<pidPath, pid, Bounds, orphaned>>

\* A process is killed, or fails to start: the file stays.
Kill(p) ==
    /\ lifeAt[p] # "Off" /\ ends < MaxEnds /\ ends' = ends + 1
    /\ Over(p) /\ ensured' = FALSE
    /\ UNCHANGED <<pidPath, pid, invocations, orphaned>>

Next ==
    \/ \E c \in Commands : Run(c) \/ Look(c) \/ Probe(c) \/ Unlock(c) \/ Spawn(c) \/ Rest(c)
    \/ \E d \in Daemons :
        Open(d) \/ Lock(d) \/ WritePid(d) \/ Stop(d) \/ Unlink(d) \/ Exit(d)
    \/ \E p \in Processes : Kill(p)

Spec == Init /\ [][Next]_daemonVars

-----------------------------------------------------------------------------
(* Properties                                                              *)

DaemonTypeOK ==
    /\ pidPath \in Inodes \cup {NoFile}
    /\ pid \in [Inodes -> Daemons \cup {Nobody}] /\ flock \in [Inodes -> Processes \cup {Nobody}]
    /\ lifeAt \in [Processes -> LifeSteps] /\ handle \in [Processes -> Inodes \cup {NoFile}]
    /\ invocations \in 0 .. MaxInvocations /\ ends \in 0 .. MaxEnds
    /\ orphaned \in BOOLEAN /\ ensured \in BOOLEAN

Looping == {d \in Daemons : lifeAt[d] = "Loop"}

\* At most one daemon works, and the PID file, by which `subswap status` and
\* the next command know it, is its own and locked (unix.rs:107: the only
\* instance alive).  Not so once a daemon had opened the file that the one
\* before it was about to remove: it locks a file without a name, and a third
\* may lock the next one.
OneDaemon ==
    ~orphaned =>
        \A d \in Looping : Looping = {d} /\ pidPath # NoFile /\ pid[pidPath] = d /\ flock[pidPath] = d

\* Commands that look for a daemon at the same time, each of which locks the
\* file for a moment and so turns a starting daemon away, leave a daemon behind
\* (daemon_spawn.rs:1), unless one was stopped or killed, or could not start.
DaemonComesUp ==
    /\ ensured
    /\ \A c \in Commands : lifeAt[c] \in {"Off", "Rest"}
    /\ \A d \in Daemons : lifeAt[d] \in {"Off", "Loop"}
    => Looping # {}

\* What they rest on: who has locked a file is at a step that goes with it; a
\* daemon that has locked the named file keeps it until it removes the name; and
\* since a command has seen to a daemon there is one, or a command will start it.
LifeKept ==
    /\ \A i \in Inodes : flock[i] # Nobody =>
          \/ flock[i] \in Daemons /\ lifeAt[flock[i]] \in {"Write", "Loop", "Unlink", "Exit"}
          \/ flock[i] \in Commands /\ lifeAt[flock[i]] = "Unlock"
    /\ \A d \in Daemons : lifeAt[d] = "Lock" => handle[d] \in Inodes
    /\ \A c \in Commands : lifeAt[c] = "Probe" => handle[c] \in Inodes
    /\ ~orphaned => \A d \in Daemons :
          /\ lifeAt[d] \in {"Write", "Loop", "Unlink"} =>
                pidPath # NoFile /\ handle[d] = pidPath /\ flock[pidPath] = d
          /\ lifeAt[d] \in {"Loop", "Unlink"} => pid[pidPath] = d
    /\ ensured =>
          \/ \E d \in Daemons : lifeAt[d] # "Off"
          \/ \E c \in Commands : lifeAt[c] \in {"Unlock", "Spawn"}
=============================================================================
