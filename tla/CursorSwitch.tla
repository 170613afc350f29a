------------------------------ MODULE CursorSwitch ------------------------------
(***************************************************************************)
(* The Cursor provider (providers/cursor/src/lib.rs): one signed-in        *)
(* account, in the desktop client's database or in the files of            *)
(* cursor-agent.  A running desktop client has the credential in memory    *)
(* and writes it back when it ends, so a switch stops it first and starts  *)
(* it again; whatever fails is undone.                                     *)
(*                                                                         *)
(* A token names its account (JWT), so that the e-mail address next to it  *)
(* is only shown.  A token is its account and the generation of its        *)
(* refresh token, 0 if it has none.  Switches exclude each other; reading  *)
(* the live token and storing it, done by every query, has no lock.        *)
(***************************************************************************)
EXTENDS Naturals, FiniteSets

CONSTANTS
    People, Agents, NoOne, NoToken,
    Layouts,            \* TRUE: the desktop client, FALSE: cursor-agent
    MaxTokens,          \* bound: refresh tokens issued per account
    MaxCalls,           \* bound: commands
    MaxUserSteps,       \* bound: what the user does in Cursor
    MaxCursorFaults     \* bound: kills, failed writes, failed starts, lost answers

CursorSwitchAssumption ==
    /\ NoOne \notin People \cup Agents /\ NoToken \notin [of : People, gen : Nat]
    /\ Layouts \subseteq BOOLEAN
    /\ MaxTokens \in Nat \ {0} /\ MaxCalls \in Nat /\ MaxUserSteps \in Nat /\ MaxCursorFaults \in Nat

VARIABLES
    desktop,            \* the layout
    valid, issued,      \* the server: accepted generations, and the last one
    disk,               \* the live token: state.vscdb, or auth.json and cli-config.json
    running, memory,    \* the desktop client, and the token it has loaded
    known, mark, stored,   \* accounts.toml: accounts and the active one; credentials.json
    switchLock, refreshLock, dead,   \* cursor-switch.lock; per account: .lock and .dead
    stage, call, whom,  \* a command's step, kind and account
    held, seen, before, \* its token, the live one it stores, and what it undoes
    reopen,             \* it has stopped the client
    calls, userSteps, cursorFaults,
    \* History, read by properties only:
    shared,             \* accounts whose token was replaced while another had a copy, or lost
    alone,              \* the switch in progress, if nothing else was done since it began
    chosen              \* the account of the last such switch, until something else is done

token == <<held, seen, before, reopen>>
cursorVars == <<desktop, valid, issued, disk, running, memory, known, mark, stored, switchLock,
                refreshLock, dead, stage, call, whom, token, calls, userSteps, cursorFaults,
                shared, alone, chosen>>

Gens == 0 .. MaxTokens
Tokens == [of : People, gen : Gens]
MaybeToken == Tokens \cup {NoToken}
Calls == {"switch", "sync", "query", "rm"}
Stages == {"Idle", "SwitchLock", "Stop", "Read", "Store", "Target", "Write", "Mark", "Start",
           "UndoToken", "UndoMark", "Reopen", "Fetch", "RefreshLock", "Post", "Save", "RmWrite"}

CursorTypeOK ==
    /\ desktop \in BOOLEAN /\ running \in BOOLEAN
    /\ valid \in [People -> SUBSET Gens] /\ issued \in [People -> Gens]
    /\ disk \in MaybeToken /\ memory \in MaybeToken
    /\ known \subseteq People /\ mark \in People \cup {NoOne} /\ stored \in [People -> MaybeToken]
    /\ switchLock \in Agents \cup {NoOne} /\ refreshLock \in [People -> Agents \cup {NoOne}]
    /\ dead \in [People -> Gens]
    /\ stage \in [Agents -> Stages] /\ call \in [Agents -> Calls \cup {"none"}]
    /\ whom \in [Agents -> People \cup {NoOne}]
    /\ held \in [Agents -> MaybeToken] /\ seen \in [Agents -> MaybeToken]
    /\ before \in [Agents -> [disk : MaybeToken, mark : People \cup {NoOne}, known : SUBSET People]]
    /\ reopen \in [Agents -> BOOLEAN]
    /\ calls \in 0 .. MaxCalls /\ userSteps \in 0 .. MaxUserSteps
    /\ cursorFaults \in 0 .. MaxCursorFaults
    /\ shared \subseteq People /\ alone \in Agents \cup {NoOne} /\ chosen \in People \cup {NoOne}

Nothing == [disk |-> NoToken, mark |-> NoOne, known |-> {}]

\* One account is signed in; every other one was, and was imported.
Init ==
    /\ desktop \in Layouts /\ running \in IF desktop THEN BOOLEAN ELSE {FALSE}
    /\ valid = [a \in People |-> {1}] /\ issued = [a \in People |-> 1]
    /\ \E a \in People :
          disk = [of |-> a, gen |-> 1] /\ mark = a /\ memory = IF running THEN disk ELSE NoToken
    /\ known = People /\ stored = [a \in People |-> [of |-> a, gen |-> 1]]
    /\ switchLock = NoOne /\ refreshLock = [a \in People |-> NoOne] /\ dead = [a \in People |-> 0]
    /\ stage = [p \in Agents |-> "Idle"] /\ call = [p \in Agents |-> "none"]
    /\ whom = [p \in Agents |-> NoOne]
    /\ held = [p \in Agents |-> NoToken] /\ seen = [p \in Agents |-> NoToken]
    /\ before = [p \in Agents |-> Nothing] /\ reopen = [p \in Agents |-> FALSE]
    /\ calls = 0 /\ userSteps = 0 /\ cursorFaults = 0 /\ shared = {} /\ alone = NoOne /\ chosen = NoOne

Live(t) == t # NoToken /\ t.gen \in valid[t.of]
Renewable(t) == Live(t) /\ t.gen # 0
Rotated(t) == [t EXCEPT !.gen = issued[t.of] + 1]

Rotate(t) ==
    /\ issued[t.of] < MaxTokens
    /\ issued' = [issued EXCEPT ![t.of] = @ + 1]
    /\ valid' = [valid EXCEPT ![t.of] = (@ \ {t.gen}) \cup {issued[t.of] + 1}]

\* Who else goes on to use the token: the client, and commands but p; a switch
\* may have stored its copy already.
Copied(t, p) == \E q \in Agents \ {p} :
    t \in {held[q], seen[q], before[q].disk} \/ (stage[q] = "Target" /\ stored[t.of] = t)
Loaded(t) == disk = t \/ memory = t

Move(p, s) == stage' = [stage EXCEPT ![p] = s]

Over(p) ==
    /\ Move(p, "Idle")
    /\ call' = [call EXCEPT ![p] = "none"] /\ whom' = [whom EXCEPT ![p] = NoOne]
    /\ held' = [held EXCEPT ![p] = NoToken] /\ seen' = [seen EXCEPT ![p] = NoToken]
    /\ before' = [before EXCEPT ![p] = Nothing] /\ reopen' = [reopen EXCEPT ![p] = FALSE]
    /\ switchLock' = IF switchLock = p THEN NoOne ELSE switchLock
    /\ refreshLock' = [a \in People |-> IF refreshLock[a] = p THEN NoOne ELSE refreshLock[a]]

server == <<valid, issued>>
client == <<disk, running, memory>>
ours == <<known, mark, stored>>
lockings == <<switchLock, refreshLock>>
command == <<call, whom>>
caps == <<desktop, calls, userSteps, cursorFaults>>
lately == <<alone, chosen>>
past == <<shared, lately>>

SomethingElse == alone' = NoOne /\ chosen' = NoOne
EndsWell(p) == alone' = NoOne /\ chosen' = IF alone = p THEN whom[p] ELSE NoOne

Faulty == cursorFaults < MaxCursorFaults /\ cursorFaults' = cursorFaults + 1
NoFault == UNCHANGED cursorFaults
capsButFaults == <<desktop, calls, userSteps>>

Call(p, k, a, s) ==
    /\ stage[p] = "Idle" /\ calls < MaxCalls /\ calls' = calls + 1
    /\ call' = [call EXCEPT ![p] = k] /\ whom' = [whom EXCEPT ![p] = a]
    /\ Move(p, s)
    /\ UNCHANGED <<desktop, server, client, ours, lockings, dead, token, userSteps, cursorFaults, past>>

-----------------------------------------------------------------------------
(* activate_desktop_blocking, activate_agent_blocking: up to the write      *)

\* Whoever waits too long for the lock gives up.
LockSwitch(p) ==
    /\ stage[p] = "SwitchLock"
    /\ \/ /\ switchLock = NoOne /\ switchLock' = p
          /\ alone' = IF call[p] = "switch" THEN p ELSE alone
          /\ Move(p, IF running THEN "Stop" ELSE IF call[p] = "rm" THEN "RmWrite" ELSE "Read")
          /\ UNCHANGED <<refreshLock, command, token>>
       \/ switchLock # NoOne /\ Over(p) /\ UNCHANGED alone
    /\ UNCHANGED <<server, client, ours, dead, caps, shared, chosen>>

\* Mutant of StopClient: the client is written behind its back.
StopClientNot(p) ==
    /\ stage[p] = "Stop"
    /\ Move(p, IF call[p] = "rm" THEN "RmWrite" ELSE "Read")
    /\ UNCHANGED <<server, client, ours, lockings, dead, command, token, caps, past>>

\* The client writes its token when it ends; if it does not end in time,
\* nothing is done.
StopClient(p) ==
    /\ stage[p] = "Stop"
    /\ \/ /\ running /\ disk' = memory /\ running' = FALSE /\ memory' = NoToken
          /\ reopen' = [reopen EXCEPT ![p] = call[p] = "switch"]
          /\ Move(p, IF call[p] = "rm" THEN "RmWrite" ELSE "Read") /\ NoFault
          /\ UNCHANGED <<lockings, command, held, seen, before>>
       \/ ~running /\ Move(p, IF call[p] = "rm" THEN "RmWrite" ELSE "Read") /\ NoFault
          /\ UNCHANGED <<client, lockings, command, token>>
       \/ Faulty /\ Over(p) /\ UNCHANGED client
    /\ UNCHANGED <<server, ours, dead, capsButFaults, past>>

\* The live token, read for a switch, a sync or a query.  Without one a switch
\* of the desktop client ends, one of the agent goes on.
ReadLive(p) ==
    /\ stage[p] = "Read"
    /\ CASE disk # NoToken /\ call[p] = "query" /\ disk.of # whom[p] ->
              /\ held' = [held EXCEPT ![p] = stored[whom[p]]] /\ Move(p, "Fetch")
              /\ UNCHANGED <<lockings, command, seen, before, reopen>>
         [] disk # NoToken /\ ~(call[p] = "query" /\ disk.of # whom[p]) ->
              /\ seen' = [seen EXCEPT ![p] = disk] /\ Move(p, "Store")
              /\ UNCHANGED <<lockings, command, held, before, reopen>>
         [] disk = NoToken /\ call[p] = "switch" ->
              Move(p, IF desktop THEN "Reopen" ELSE "Target") /\ UNCHANGED <<lockings, command, token>>
         [] OTHER -> Over(p)
    /\ UNCHANGED <<server, client, ours, dead, caps, past>>

\* Mutant of Kept: a live token without a refresh token is stored too.
KeptNot(old, new) == new

\* A live token without a refresh token does not replace one that has it.
Kept(old, new) == IF new.gen = 0 /\ old # NoToken /\ old.gen # 0 THEN old ELSE new

\* capture_live_into_store: under the account that the token names, if it is
\* known.  A sync imports an account that is not, and marks it.  A query and a
\* sync take no lock: what they store may have been replaced since.
StoreLive(p) ==
    LET a == seen[p].of  sync == call[p] = "sync" IN
    /\ stage[p] = "Store"
    /\ stored' = [stored EXCEPT ![a] = IF a \in known THEN Kept(@, seen[p])
                                       ELSE IF sync THEN seen[p] ELSE @]
    /\ known' = IF sync THEN known \cup {a} ELSE known
    /\ CASE call[p] = "switch" -> Move(p, "Target") /\ seen' = [seen EXCEPT ![p] = NoToken]
                                  /\ UNCHANGED <<lockings, command, held, before, reopen>>
         [] sync -> Move(p, "Mark") /\ UNCHANGED <<lockings, command, token>>
         [] OTHER -> Over(p)
    /\ shared' = IF call[p] # "switch" /\ Live(stored[a]) /\ ~Live(seen[p]) THEN shared \cup {a} ELSE shared
    /\ UNCHANGED <<server, client, mark, dead, caps, lately>>

\* The target is read after the live token is stored, which may be its own.
\* Without a stored credential the switch ends.  A refresh of the target, under
\* another lock, is not noticed.
TakeTarget(p) ==
    /\ stage[p] = "Target"
    /\ IF whom[p] \in known /\ stored[whom[p]] # NoToken
       THEN /\ held' = [held EXCEPT ![p] = stored[whom[p]]]
            /\ before' = [before EXCEPT ![p] = [disk |-> disk, mark |-> mark, known |-> known]]
            /\ Move(p, "Write")
       ELSE Move(p, "Reopen") /\ UNCHANGED <<held, before>>
    /\ shared' = IF refreshLock[whom[p]] # NoOne THEN shared \cup {whom[p]} ELSE shared
    /\ UNCHANGED <<server, client, ours, lockings, dead, command, seen, reopen, caps, lately>>

-----------------------------------------------------------------------------
(* ... and from there on                                                    *)

\* What is live by now and stored nowhere is lost.
Discarded(t) == IF Live(t) /\ stored[t.of] # t THEN {t.of} ELSE {}

WriteToken(p) ==
    /\ stage[p] = "Write"
    /\ disk' = held[p] /\ Move(p, "Mark")
    /\ shared' = shared \cup Discarded(disk)
    /\ UNCHANGED <<server, running, memory, ours, lockings, dead, command, token, caps, lately>>

\* set_active: a switch its target, a sync the account that it has read.
MarkActive(p) ==
    /\ stage[p] = "Mark"
    /\ IF call[p] = "sync"
       THEN /\ mark' = IF seen[p].of \in known THEN seen[p].of ELSE mark
            /\ (IF alone = NoOne /\ seen[p].of = chosen THEN UNCHANGED lately ELSE SomethingElse)
            /\ Over(p)
       ELSE /\ mark' = whom[p]
            /\ IF reopen[p] THEN Move(p, "Start") /\ UNCHANGED <<lockings, command, token, lately>>
               ELSE Over(p) /\ EndsWell(p)
    /\ UNCHANGED <<server, client, known, stored, dead, caps, shared>>

\* The client that was stopped is started again with the new token.
StartClient(p) ==
    /\ stage[p] = "Start"
    /\ \/ /\ running' = TRUE /\ memory' = (IF running THEN memory ELSE disk)
          /\ Over(p) /\ EndsWell(p) /\ NoFault
       \/ Faulty /\ Move(p, "UndoToken") /\ UNCHANGED <<running, memory, lockings, command, token, lately>>
    /\ UNCHANGED <<server, disk, ours, dead, capsButFaults, shared>>

\* A write fails.
Break(p) ==
    /\ stage[p] \in {"Write", "Mark"} /\ call[p] = "switch" /\ Faulty
    /\ Move(p, "UndoToken")
    /\ UNCHANGED <<server, client, ours, lockings, dead, command, token, capsButFaults, past>>

UndoToken(p) ==
    /\ stage[p] = "UndoToken"
    /\ disk' = before[p].disk /\ Move(p, "UndoMark")
    /\ shared' = shared \cup (IF disk # held[p] THEN Discarded(disk) ELSE {})
    /\ UNCHANGED <<server, running, memory, ours, lockings, dead, command, token, caps, lately>>

\* Mutant of UndoMark: accounts.toml is left as it is.
UndoMarkNot(p) ==
    /\ stage[p] = "UndoMark"
    /\ Move(p, "Reopen")
    /\ UNCHANGED <<server, client, ours, lockings, dead, command, token, caps, past>>

\* accounts.toml is restored as a whole.
UndoMark(p) ==
    /\ stage[p] = "UndoMark"
    /\ mark' = before[p].mark /\ known' = before[p].known
    /\ Move(p, "Reopen")
    /\ UNCHANGED <<server, client, stored, lockings, dead, command, token, caps, past>>

\* The session that was stopped is opened again, or that fails, too.
Reopen(p) ==
    /\ stage[p] = "Reopen"
    /\ \/ /\ reopen[p] /\ ~running /\ running' = TRUE /\ memory' = disk /\ NoFault
       \/ (~reopen[p] \/ running) /\ UNCHANGED <<running, memory>> /\ NoFault
       \/ reopen[p] /\ Faulty /\ UNCHANGED <<running, memory>>
    /\ Over(p)
    /\ UNCHANGED <<server, disk, ours, dead, capsButFaults, past>>

-----------------------------------------------------------------------------
(* query_quota of an account that is not signed in: refresh_parked          *)

\* The marked account is never refreshed, even if another one is signed in.
FetchUsage(p) ==
    /\ stage[p] = "Fetch"
    /\ \/ held[p] # NoToken /\ mark # whom[p] /\ Move(p, "RefreshLock")   \* refused
          /\ UNCHANGED <<lockings, command, token>>
       \/ Over(p)
    /\ UNCHANGED <<server, client, ours, dead, caps, past>>

\* The stored token is read again: another process may have replaced it.
LockRefresh(p) ==
    LET a == whom[p] IN
    /\ stage[p] = "RefreshLock"
    /\ \/ /\ refreshLock[a] = NoOne /\ a \in known /\ stored[a] = held[p]
          /\ held[p].gen \notin {0, dead[a]}
          /\ refreshLock' = [refreshLock EXCEPT ![a] = p] /\ Move(p, "Post")
          /\ UNCHANGED <<switchLock, command, token>>
       \/ Over(p)
    /\ UNCHANGED <<server, client, ours, dead, caps, past>>

\* The answer may be lost, and the new token with it.
Post(p) ==
    /\ stage[p] = "Post"
    /\ \/ /\ Renewable(held[p]) /\ Rotate(held[p])
          /\ shared' = IF Copied(held[p], p) \/ Loaded(held[p]) THEN shared \cup {whom[p]} ELSE shared
          /\ held' = [held EXCEPT ![p] = Rotated(held[p])] /\ Move(p, "Save")
          /\ NoFault /\ UNCHANGED <<dead, lockings, command, seen, before, reopen>>
       \/ /\ Renewable(held[p]) /\ Rotate(held[p]) /\ Faulty
          /\ shared' = shared \cup {whom[p]} /\ Over(p) /\ UNCHANGED dead
       \/ /\ ~Renewable(held[p]) /\ dead' = [dead EXCEPT ![whom[p]] = held[p].gen]
          /\ Over(p) /\ NoFault /\ UNCHANGED <<server, shared>>
    /\ UNCHANGED <<client, ours, capsButFaults, lately>>

SaveRefreshed(p) ==
    /\ stage[p] = "Save"
    /\ stored' = [stored EXCEPT ![whom[p]] = held[p]] /\ dead' = [dead EXCEPT ![whom[p]] = 0]
    /\ Over(p)
    /\ UNCHANGED <<server, client, known, mark, caps, past>>

-----------------------------------------------------------------------------
(* rm: disconnect_official, then the account and its credential are removed *)

Disconnect(p, a) ==
    Call(p, "rm", a, IF disk # NoToken /\ disk.of = a
                     THEN IF desktop THEN "SwitchLock" ELSE "RmWrite" ELSE "RmWrite")

\* Only what is still this account's is signed out.
SignOut(p) ==
    LET a == whom[p] IN
    /\ stage[p] = "RmWrite"
    /\ disk' = IF disk # NoToken /\ disk.of = a /\ (desktop => switchLock = p) THEN NoToken ELSE disk
    /\ known' = known \ {a} /\ stored' = [stored EXCEPT ![a] = NoToken]
    /\ mark' = IF mark = a THEN NoOne ELSE mark
    /\ shared' = shared \cup {a} /\ SomethingElse
    /\ Over(p)
    /\ UNCHANGED <<server, running, memory, dead, caps>>

-----------------------------------------------------------------------------
(* Cursor and the user                                                      *)

UserStep == userSteps < MaxUserSteps /\ userSteps' = userSteps + 1
Current == IF running THEN memory ELSE disk
SetCurrent(t) == IF running THEN memory' = t /\ (disk' = t \/ UNCHANGED disk)
                 ELSE disk' = t /\ UNCHANGED memory
InHand(a) == IF \E p \in Agents : stage[p] # "Idle" THEN {a} ELSE {}
theirs == <<desktop, ours, lockings, dead, stage, command, token, calls, cursorFaults>>

NativeRefresh ==
    /\ UserStep /\ Renewable(Current) /\ Rotate(Current) /\ SetCurrent(Rotated(Current))
    /\ shared' = IF Copied(Current, NoOne) THEN shared \cup {Current.of} ELSE shared
    /\ UNCHANGED <<running, theirs, lately>>

\* The refresh token is dropped.
NativeStrip ==
    /\ UserStep /\ Current # NoToken /\ Current.gen # 0 /\ SetCurrent([Current EXCEPT !.gen = 0])
    /\ shared' = shared \cup Discarded(Current)
    /\ UNCHANGED <<server, running, theirs, lately>>

NativeLogin(a) ==
    /\ UserStep /\ issued[a] < MaxTokens
    /\ issued' = [issued EXCEPT ![a] = @ + 1] /\ valid' = [valid EXCEPT ![a] = @ \cup {issued[a] + 1}]
    /\ SetCurrent([of |-> a, gen |-> issued[a] + 1])
    /\ shared' = shared \cup (IF Current = NoToken THEN {} ELSE Discarded(Current)) \cup InHand(a)
    /\ SomethingElse
    /\ UNCHANGED <<running, theirs>>

\* Opened in the middle of a switch, Cursor has the old token or the new one.
UserOpens ==
    /\ UserStep /\ desktop /\ ~running /\ running' = TRUE /\ memory' = disk
    /\ shared' = IF switchLock # NoOne THEN People ELSE shared
    /\ (IF switchLock # NoOne THEN SomethingElse ELSE UNCHANGED lately)
    /\ UNCHANGED <<server, disk, theirs>>

UserQuits ==
    /\ UserStep /\ running /\ disk' = memory /\ running' = FALSE /\ memory' = NoToken
    /\ UNCHANGED <<server, theirs, past>>

Die(p) ==
    /\ stage[p] # "Idle" /\ Faulty
    /\ Over(p)
    /\ shared' = shared \cup (IF held[p] # NoToken THEN {held[p].of} ELSE {})
    /\ SomethingElse
    /\ UNCHANGED <<server, client, ours, dead, capsButFaults>>

Steps(p) ==
    \/ \E a \in known : Call(p, "switch", a, "SwitchLock") \/ Call(p, "query", a, "Read") \/ Disconnect(p, a)
    \/ Call(p, "sync", NoOne, "Read")
    \/ LockSwitch(p) \/ StopClient(p) \/ ReadLive(p) \/ StoreLive(p) \/ TakeTarget(p)
    \/ WriteToken(p) \/ MarkActive(p) \/ StartClient(p) \/ Break(p) \/ UndoToken(p) \/ UndoMark(p)
    \/ Reopen(p) \/ FetchUsage(p) \/ LockRefresh(p) \/ Post(p) \/ SaveRefreshed(p) \/ SignOut(p)
    \/ Die(p)

Next ==
    \/ \E p \in Agents : Steps(p)
    \/ NativeRefresh \/ NativeStrip \/ UserOpens \/ UserQuits \/ \E a \in People : NativeLogin(a)

Spec == Init /\ [][Next]_cursorVars

-----------------------------------------------------------------------------
(* Properties                                                               *)

Switching == \E p \in Agents : call[p] = "switch" /\ stage[p] # "Idle"

\* Every token is stored under the account that it names, whatever
\* interleaves; and what is used next of an account is accepted by the
\* server: the live token if it is signed in, the stored one otherwise.
\* Excepted are accounts whose token was replaced while another party went on
\* to use its copy, that an unlocked capture put an outdated token under, or
\* whose token was lost with a killed command or an answer (lib.rs: capture
\* before the write, the guard of the capture, the client is stopped before
\* its database is read).
StoredAsNamed == \A a \in People : stored[a] # NoToken => stored[a].of = a
CursorTokenKept ==
    /\ StoredAsNamed
    /\ (\A p \in Agents : stage[p] = "Idle") =>
          \A a \in known \ shared :
              Live(IF Current # NoToken /\ Current.of = a /\ Current.gen # 0 THEN Current ELSE stored[a])

\* A switch that ended well is in effect, with the client closed or open,
\* until something else is done: neither the client's end nor a later switch
\* that fails brings another account back, and the marked account is the one
\* that is signed in (lib.rs: stop, write, mark, start; both are undone).
SwitchTakesEffect ==
    chosen # NoOne /\ ~Switching =>
        /\ Current # NoToken /\ Current.of = chosen
        /\ mark = chosen

\* What a command does at which stage, and with which tokens.
InSwitch(p) == call[p] = "switch" /\ stage[p] \notin {"Idle", "SwitchLock"}
CommandFits(p) ==
    /\ stage[p] = "Idle" => call[p] = "none" /\ held[p] = NoToken
    /\ stage[p] \in {"SwitchLock", "Stop"} => call[p] \in {"switch", "rm"}
    /\ stage[p] \in {"Read", "Store"} => call[p] \in {"switch", "sync", "query"}
    /\ stage[p] \in {"Target", "Write", "Start", "UndoToken", "UndoMark", "Reopen"} =>
          call[p] = "switch"
    /\ stage[p] = "Mark" => call[p] \in {"switch", "sync"}
    /\ stage[p] \in {"Fetch", "RefreshLock", "Post", "Save"} => call[p] = "query"
    /\ stage[p] = "RmWrite" => call[p] = "rm"
    /\ call[p] \in {"switch", "query", "rm"} => whom[p] \in People
    /\ stage[p] = "Store" \/ (stage[p] = "Mark" /\ call[p] = "sync") => seen[p] # NoToken
    /\ stage[p] \in {"Write", "RefreshLock", "Post", "Save"} => held[p] # NoToken
    /\ held[p] # NoToken => held[p].of = whom[p]
    /\ InSwitch(p) => switchLock = p
CommandsKept == StoredAsNamed /\ \A p \in Agents : CommandFits(p)

\* What keeps the chosen account: a switch that leaves it chosen is alone, with
\* the client closed since it was stopped; until its tokens are undone it can go
\* back to that account, and from its write on its own is signed in.
IsFor(t, a) == t # NoToken /\ t.of = a
InEffect == IsFor(Current, chosen) /\ mark = chosen
Unfinished(p) == InSwitch(p) /\ stage[p] \in {"Mark", "Start", "UndoToken", "UndoMark"}
SwitchKept(p) ==
    /\ InSwitch(p) /\ chosen # NoOne => alone = p
    /\ InSwitch(p) /\ alone = p =>
          /\ stage[p] # "Stop" => ~running
          /\ stage[p] \in {"Mark", "Start"} => IsFor(disk, whom[p])
          /\ stage[p] = "Start" => mark = whom[p]
          /\ chosen # NoOne =>
                /\ stage[p] \in {"Write", "Mark", "Start", "UndoToken"} => IsFor(before[p].disk, chosen)
                /\ stage[p] = "UndoMark" => IsFor(disk, chosen)
                /\ stage[p] \in {"Write", "Mark", "Start", "UndoToken", "UndoMark"} =>
                      before[p].mark = chosen
ChosenKept ==
    /\ chosen # NoOne /\ (\A p \in Agents : ~Unfinished(p)) => InEffect
    /\ \A p \in Agents : SwitchKept(p)

\* Why a live token remains.  A copy that may be used next is the server's, or
\* has no refresh token, or its account is shared; who has renewed a token
\* stores it under its lock.
Sound(t) == t = NoToken \/ t.gen = 0 \/ t.of \in shared \/ t.gen \in valid[t.of]
Settled(t) == t = NoToken \/ t.gen = 0 \/ t.of \in shared
Renews(p, a) == stage[p] = "Save" /\ whom[p] = a /\ Live(held[p])
HasLive(a) == Live(stored[a]) \/ \E p \in Agents : Renews(p, a)
RefreshKept(p) ==
    /\ stage[p] \in {"Post", "Save"} => refreshLock[whom[p]] = p
    /\ stage[p] = "Save" => Sound(held[p]) /\ held[p].gen # 0

\* A switch from its reading on: the client is closed, what it has read is
\* stored before the target is taken, and the target stays live until it is
\* written or undone.
Taken(p) == stage[p] \in {"Write", "Mark", "Start", "UndoToken"}
TokensKept(p) ==
    InSwitch(p) =>
        /\ stage[p] # "Stop" /\ running => shared = People
        /\ stage[p] = "Store" => Sound(seen[p]) /\ (disk = seen[p] \/ Settled(disk))
        /\ stage[p] = "Target" => Settled(disk) \/ HasLive(disk.of)
        /\ Taken(p) =>
              /\ Sound(held[p]) /\ Sound(before[p].disk)
              /\ whom[p] \in shared \/ HasLive(whom[p])
              /\ disk \in {held[p], before[p].disk} \/ Settled(disk)
        /\ Taken(p) \/ stage[p] = "UndoMark" => People \ shared \subseteq before[p].known
LiveKept ==
    /\ \A a \in People : 0 \notin valid[a]
    /\ People \ shared \subseteq known
    /\ Sound(Current)
    /\ \A a \in People \ shared : HasLive(a) \/ (IsFor(Current, a) /\ Current.gen # 0)
    /\ \A p \in Agents : RefreshKept(p) /\ TokensKept(p)
=============================================================================
