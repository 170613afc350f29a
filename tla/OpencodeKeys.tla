----------------------------- MODULE OpencodeKeys -----------------------------
(***************************************************************************)
(* OpenCode's API keys were listed under "opencode" once.  Whatever starts *)
(* moves them to "opencode-api-key" first (migrate_legacy_api_keys in      *)
(* providers/opencode/src/lib.rs): every command and the daemon, several   *)
(* at a time, and any of them may be killed on the way.                    *)
(*                                                                         *)
(* An import or a removal meanwhile meets the registry without lock, which *)
(* is the subject of Credentials.                                          *)
(***************************************************************************)
EXTENDS Naturals

CONSTANTS
    Movers,           \* the processes that start
    Keys,             \* the API keys
    MaxMoves,         \* bound: starts
    MaxMoveFaults     \* bound: kills and failed writes

MovesAssumption == {MaxMoves, MaxMoveFaults} \subseteq Nat

VARIABLES
    old, new,         \* accounts.toml: the keys listed in either place
    oldSecret, newSecret,   \* credentials: the keys whose secret is in either place
    moving,           \* the step of each process
    readOld, readNew, \* the lists it has read
    todo,             \* the keys it has yet to copy, or then to delete
    moves, moveFaults \* bounded

keyVars == <<old, new, oldSecret, newSecret, moving, readOld, readNew, todo, moves, moveFaults>>

Init ==
    /\ old \in SUBSET Keys /\ new = Keys \ old
    /\ oldSecret = old /\ newSecret = new
    /\ moving = [p \in Movers |-> "Idle"]
    /\ readOld = [p \in Movers |-> {}] /\ readNew = [p \in Movers |-> {}]
    /\ todo = [p \in Movers |-> {}]
    /\ moves = 0 /\ moveFaults = 0

Step(p, from, to) == moving[p] = from /\ moving' = [moving EXCEPT ![p] = to]
Left(p, k) == todo' = [todo EXCEPT ![p] = @ \ {k}]
Lists == <<old, new>>
Secrets == <<oldSecret, newSecret>>
Bounds == <<moves, moveFaults>>
Read == <<readOld, readNew>>

\* Without a key in the old place there is nothing to do.
Load(p) ==
    /\ old # {} /\ Step(p, "Idle", "Copy")
    /\ moves < MaxMoves /\ moves' = moves + 1
    /\ readOld' = [readOld EXCEPT ![p] = old] /\ readNew' = [readNew EXCEPT ![p] = new]
    /\ todo' = [todo EXCEPT ![p] = old \ new]
    /\ UNCHANGED <<Lists, Secrets, moveFaults>>

\* A secret that is gone already is not copied.
CopySecret(p, k) ==
    /\ Step(p, "Copy", "Copy") /\ k \in todo[p] /\ Left(p, k)
    /\ newSecret' = IF k \in oldSecret THEN newSecret \cup {k} ELSE newSecret
    /\ UNCHANGED <<Lists, oldSecret, Read, Bounds>>

\* Mutant of SaveLists: the lists are saved before the secrets are copied.
SaveListsFirst(p) ==
    /\ Step(p, "Copy", "Delete")
    /\ old' = {} /\ new' = readNew[p] \cup readOld[p]
    /\ todo' = [todo EXCEPT ![p] = readOld[p]]
    /\ UNCHANGED <<Secrets, Read, Bounds>>

\* The lists that were read are written over whatever is there.
SaveLists(p) ==
    /\ Step(p, "Copy", "Delete") /\ todo[p] = {}
    /\ old' = {} /\ new' = readNew[p] \cup readOld[p]
    /\ todo' = [todo EXCEPT ![p] = readOld[p]]
    /\ UNCHANGED <<Secrets, Read, Bounds>>

DeleteSecret(p, k) ==
    /\ Step(p, "Delete", IF todo[p] = {k} THEN "Idle" ELSE "Delete")
    /\ k \in todo[p] /\ Left(p, k)
    /\ oldSecret' = oldSecret \ {k}
    /\ UNCHANGED <<Lists, newSecret, Read, Bounds>>

\* A write fails, which ends the process, or it is killed.
StopMoving(p) ==
    /\ moving[p] # "Idle" /\ Step(p, moving[p], "Idle")
    /\ moveFaults < MaxMoveFaults /\ moveFaults' = moveFaults + 1
    /\ todo' = [todo EXCEPT ![p] = {}]
    /\ UNCHANGED <<Lists, Secrets, Read, moves>>

Next ==
    \E p \in Movers :
        \/ Load(p) \/ SaveLists(p) \/ StopMoving(p)
        \/ \E k \in Keys : CopySecret(p, k) \/ DeleteSecret(p, k)

Spec == Init /\ [][Next]_keyVars

-----------------------------------------------------------------------------
(* Properties                                                              *)

\* Wherever a start is stopped, and whatever starts beside it: every key is
\* listed in a place that has its secret.
KeysKept == \A k \in Keys : (k \in old /\ k \in oldSecret) \/ (k \in new /\ k \in newSecret)

KeysTypeOK == old \subseteq Keys /\ new \subseteq Keys /\ old \cap new = {}
=============================================================================
