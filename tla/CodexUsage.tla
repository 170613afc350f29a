------------------------------ MODULE CodexUsage ------------------------------
(***************************************************************************)
(* How the usage of the active Codex account is asked for                  *)
(* (providers/codex/src: quota.rs, app_server.rs, control_socket.rs): over *)
(* the control socket of a resident app-server, else from an app-server of *)
(* its own, else directly with the access token.  The official programs    *)
(* refresh tokens by themselves, and a refresh token works once: subswap's *)
(* own app-server may do so only when no codex runs.                       *)
(***************************************************************************)
EXTENDS Naturals

CONSTANTS
    Askers, CodexAccounts,
    User, Resident,   \* the official programs: a codex of the user, and the
                      \* app-server behind the control socket
    NoCred,
    MaxCodexTokens, MaxCodexAsks, MaxCodexStarts, MaxCodexSwaps, MaxCodexFaults   \* bounds

CodexAssumption ==
    /\ User # Resident
    /\ NoCred \notin CodexAccounts /\ NoCred \notin [of : CodexAccounts, token : Nat]
    /\ {MaxCodexTokens, MaxCodexAsks, MaxCodexStarts, MaxCodexSwaps, MaxCodexFaults} \subseteq Nat

VARIABLES
    authFile,     \* auth.json: an account and its token
    codexVault,   \* the token subswap keeps of each account
    newest,       \* the only refresh token of an account that the server accepts
    memory,       \* what each official program has loaded, or NoCred: not running
    codexAt,      \* the step of an asker
    expected,     \* the account it asks about, with the token it has read
    child,        \* what its app-server has loaded, or NoCred: none
    mayRefresh,   \* no other codex was seen
    answer,       \* the account its answer is about, or NoCred: none
    codexAsks, codexStarts, codexSwaps, codexFaults,   \* bounded
    \* History, read by properties only:
    raced,        \* a codex was started after an asker had looked for one
    refused,      \* an official program has presented a token that was spent
    cut           \* the accounts of which a new token got lost on its way

codexVars == <<authFile, codexVault, newest, memory, codexAt, expected, child, mayRefresh, answer,
               codexAsks, codexStarts, codexSwaps, codexFaults, raced, refused, cut>>

Programs == {User, Resident}
Token == 0 .. MaxCodexTokens
Cred == [of : CodexAccounts, token : Token]
CodexSteps == {"Idle", "Socket", "Check", "Spawn", "Query", "Refresh", "Save", "Direct", "Done"}

Init ==
    /\ \E a \in CodexAccounts : authFile = [of |-> a, token |-> 0]
    /\ codexVault = [a \in CodexAccounts |-> 0] /\ newest = [a \in CodexAccounts |-> 0]
    /\ memory = [c \in Programs |-> NoCred]
    /\ codexAt = [k \in Askers |-> "Idle"] /\ expected = [k \in Askers |-> NoCred]
    /\ child = [k \in Askers |-> NoCred] /\ mayRefresh = [k \in Askers |-> FALSE]
    /\ answer = [k \in Askers |-> NoCred]
    /\ codexAsks = 0 /\ codexStarts = 0 /\ codexSwaps = 0 /\ codexFaults = 0
    /\ raced = FALSE /\ refused = FALSE /\ cut = {}

Goto(k, step) == codexAt' = [codexAt EXCEPT ![k] = step]
Tokens == <<authFile, codexVault, newest>>
Bounds == <<codexAsks, codexStarts, codexSwaps, codexFaults>>
History == <<raced, refused, cut>>

-----------------------------------------------------------------------------
(* `fetch_codex_quota` and `fetch_usage`                                   *)

\* The engine has read the credential of the active account, which one process
\* at a time asks about (QuotaCollection).
Ask(k) ==
    /\ codexAt[k] = "Idle" /\ codexAsks < MaxCodexAsks /\ codexAsks' = codexAsks + 1
    /\ \A l \in Askers : expected[l] # NoCred => expected[l].of # authFile.of
    /\ expected' = [expected EXCEPT ![k] = authFile]
    /\ Goto(k, "Socket")
    /\ UNCHANGED <<Tokens, memory, child, mayRefresh, answer,
                   codexStarts, codexSwaps, codexFaults, History>>

\* Mutant of Attributed: whatever is answered is taken.
AttributedAny(of, account) == TRUE

\* `rate_limits_to_usage`: the answer names its account.
Attributed(of, account) == of = account

\* The end of a query that was answered about of: kept, or done again with
\* the access token (`AccountMismatch` allows the fallback).
Answered(k, of) ==
    IF Attributed(of, expected[k].of)
    THEN Goto(k, "Done") /\ answer' = [answer EXCEPT ![k] = of]
    ELSE Goto(k, "Direct") /\ UNCHANGED answer

\* `allows_compat_fallback`: an error of the service is returned as it is; one
\* of the channel, of authentication or an unknown method leads to the fallback.
Failed(k, fallback) ==
    \E step \in {"Done", fallback} : Goto(k, step) /\ UNCHANGED answer

\* The control socket.  The resident program may still be signed in as before
\* the last swap; a mismatch does not lead to an app-server of our own.
Socket(k) ==
    /\ codexAt[k] = "Socket"
    /\ IF memory[Resident] = NoCred THEN Goto(k, "Check") /\ UNCHANGED answer
       ELSE Answered(k, memory[Resident].of) \/ Failed(k, "Check")
    /\ UNCHANGED <<Tokens, memory, expected, child, mayRefresh, Bounds, History>>

\* Mutant of Check: not looked for.
CheckNot(k) ==
    /\ codexAt[k] = "Check"
    /\ mayRefresh' = [mayRefresh EXCEPT ![k] = TRUE]
    /\ Goto(k, "Spawn")
    /\ UNCHANGED <<Tokens, memory, expected, child, answer, Bounds, History>>

\* `no_codex_process_running`: of the user's, the resident one, and those of
\* other askers, which have the same name; a failed search finds one.
Check(k) ==
    /\ codexAt[k] = "Check"
    /\ \E found \in BOOLEAN :
        /\ (\E c \in Programs : memory[c] # NoCred) \/ (\E l \in Askers : child[l] # NoCred) => found
        /\ mayRefresh' = [mayRefresh EXCEPT ![k] = ~found]
    /\ Goto(k, "Spawn")
    /\ UNCHANGED <<Tokens, memory, expected, child, answer, Bounds, History>>

\* The app-server is closed, killed, or was not started.
Closed(k) == child' = [child EXCEPT ![k] = NoCred] /\ mayRefresh' = [mayRefresh EXCEPT ![k] = FALSE]

\* An app-server on the live home, or on a copy without the refresh token: it
\* loads whatever auth.json holds by now.
Spawn(k) ==
    /\ codexAt[k] = "Spawn"
    /\ \/ child' = [child EXCEPT ![k] = authFile] /\ Goto(k, "Query") /\ UNCHANGED mayRefresh
       \/ Closed(k) /\ Goto(k, "Direct")
    /\ raced' = (raced \/ (mayRefresh[k] /\ \E l \in Askers \ {k} : mayRefresh[l]))
    /\ UNCHANGED <<Tokens, memory, expected, answer, Bounds, refused, cut>>

\* `query_rate_limits`: answered, failed, or not authenticated, when it may be
\* refreshed once.
Query(k) ==
    /\ codexAt[k] = "Query"
    /\ \/ (Answered(k, child[k].of) \/ Failed(k, "Direct")) /\ Closed(k)
       \/ mayRefresh[k] /\ Goto(k, "Refresh") /\ UNCHANGED <<child, mayRefresh, answer>>
    /\ UNCHANGED <<Tokens, memory, expected, Bounds, History>>

\* `account/read` with refreshToken: the server gives a new token for the newest
\* one.  The session may time out, and its app-server be killed, before it has
\* saved it.
Refresh(k) ==
    LET a == child[k].of
    IN  /\ codexAt[k] = "Refresh"
        /\ \/ /\ child[k].token = newest[a] /\ newest[a] < MaxCodexTokens
              /\ newest' = [newest EXCEPT ![a] = @ + 1]
              /\ \/ /\ child' = [child EXCEPT ![k].token = @ + 1] /\ Goto(k, "Save")
                    /\ UNCHANGED <<mayRefresh, codexFaults, cut>>
                 \/ /\ codexFaults < MaxCodexFaults /\ codexFaults' = codexFaults + 1
                    /\ cut' = cut \cup {a}
                    /\ Closed(k) /\ Goto(k, "Direct")
           \/ /\ Closed(k) /\ Goto(k, "Direct") /\ UNCHANGED <<newest, codexFaults, cut>>
        /\ UNCHANGED <<authFile, codexVault, memory, expected, answer,
                       codexAsks, codexStarts, codexSwaps, raced, refused>>

\* It saves the token, and is asked once more.
Save(k) ==
    /\ codexAt[k] = "Save"
    /\ authFile' = child[k]
    /\ mayRefresh' = [mayRefresh EXCEPT ![k] = FALSE]
    /\ Goto(k, "Query")
    /\ UNCHANGED <<codexVault, newest, memory, expected, child, answer, Bounds, History>>

\* `fetch_usage_raw`: with the access token that was read at the start.
Direct(k) ==
    /\ codexAt[k] = "Direct"
    /\ \/ Goto(k, "Done") /\ answer' = [answer EXCEPT ![k] = expected[k].of]
       \/ Goto(k, "Done") /\ UNCHANGED answer
    /\ UNCHANGED <<Tokens, memory, expected, child, mayRefresh, Bounds, History>>

\* The usage, or an error, is returned for the account asked about.
Done(k) ==
    /\ codexAt[k] = "Done" /\ Goto(k, "Idle")
    /\ expected' = [expected EXCEPT ![k] = NoCred] /\ answer' = [answer EXCEPT ![k] = NoCred]
    /\ UNCHANGED <<Tokens, memory, child, mayRefresh, Bounds, History>>

-----------------------------------------------------------------------------
(* The official programs, and swaps                                        *)

\* A program starts with what the file holds, or ends.
Starts(c) ==
    /\ memory[c] = NoCred /\ codexStarts < MaxCodexStarts /\ codexStarts' = codexStarts + 1
    /\ memory' = [memory EXCEPT ![c] = authFile]
    /\ raced' = (raced \/ \E k \in Askers : mayRefresh[k])
    /\ UNCHANGED <<Tokens, codexAt, expected, child, mayRefresh, answer,
                   codexAsks, codexSwaps, codexFaults, refused, cut>>

Ends(c) ==
    /\ memory[c] # NoCred /\ memory' = [memory EXCEPT ![c] = NoCred]
    /\ UNCHANGED <<Tokens, codexAt, expected, child, mayRefresh, answer, Bounds, History>>

\* It refreshes its token, and saves it; of a program that was left behind by a
\* swap nothing is assumed.
Refreshes(c) ==
    LET a == memory[c].of
    IN  /\ memory[c] # NoCred /\ authFile.of = a
        /\ \A d \in Programs \ {c} : memory[d] # NoCred => memory[d].of # a
        /\ IF memory[c].token = newest[a]
           THEN /\ newest[a] < MaxCodexTokens
                /\ newest' = [newest EXCEPT ![a] = @ + 1]
                /\ memory' = [memory EXCEPT ![c].token = @ + 1]
                /\ authFile' = memory'[c]
                /\ UNCHANGED refused
           ELSE refused' = TRUE /\ UNCHANGED <<newest, memory, authFile>>
        /\ UNCHANGED <<codexVault, codexAt, expected, child, mayRefresh, answer, Bounds, raced, cut>>

\* subswap activates another account (engine.rs, see Credentials).
CodexSwap(a) ==
    /\ authFile.of # a /\ codexSwaps < MaxCodexSwaps /\ codexSwaps' = codexSwaps + 1
    /\ codexVault' = [codexVault EXCEPT ![authFile.of] = authFile.token]
    /\ authFile' = [of |-> a, token |-> codexVault'[a]]
    /\ UNCHANGED <<newest, memory, codexAt, expected, child, mayRefresh, answer,
                   codexAsks, codexStarts, codexFaults, History>>

Next ==
    \/ \E k \in Askers :
        \/ Ask(k) \/ Socket(k) \/ Check(k) \/ Spawn(k) \/ Query(k) \/ Refresh(k) \/ Save(k)
        \/ Direct(k) \/ Done(k)
    \/ \E c \in Programs : Starts(c) \/ Ends(c) \/ Refreshes(c)
    \/ \E a \in CodexAccounts : CodexSwap(a)

Spec == Init /\ [][Next]_codexVars

-----------------------------------------------------------------------------
(* Properties                                                              *)

CodexTypeOK ==
    /\ authFile \in Cred
    /\ codexVault \in [CodexAccounts -> Token] /\ newest \in [CodexAccounts -> Token]
    /\ memory \in [Programs -> Cred \cup {NoCred}] /\ codexAt \in [Askers -> CodexSteps]
    /\ expected \in [Askers -> Cred \cup {NoCred}] /\ child \in [Askers -> Cred \cup {NoCred}]
    /\ mayRefresh \in [Askers -> BOOLEAN] /\ answer \in [Askers -> CodexAccounts \cup {NoCred}]
    /\ codexAsks \in 0 .. MaxCodexAsks /\ codexStarts \in 0 .. MaxCodexStarts
    /\ codexSwaps \in 0 .. MaxCodexSwaps /\ codexFaults \in 0 .. MaxCodexFaults
    /\ raced \in BOOLEAN /\ refused \in BOOLEAN /\ cut \subseteq CodexAccounts

NextToken(a) == IF authFile.of = a THEN authFile.token ELSE codexVault[a]

\* As long as no codex is started between subswap's look for one and the end
\* of its own app-server: the token used next of an account is the one the
\* server accepts, or an app-server is about to save it; and no official program
\* presents a token that subswap has spent (app_server.rs:48, :174: refreshed
\* only when no codex runs, else in a home without the refresh token).  Not so
\* for a token lost with a session that was killed.
CodexTokenKept ==
    ~raced =>
        /\ refused => cut # {}
        /\ \A a \in CodexAccounts \ cut :
            \/ NextToken(a) = newest[a]
            \/ \E k \in Askers : codexAt[k] = "Save" /\ child[k] = [of |-> a, token |-> newest[a]]

\* The usage returned for an account is of that account, whatever the resident
\* program is signed in as, and whatever was swapped since the question
\* (app_server.rs:462: an answer without its account is not used).
AnswerIsOurs == \A k \in Askers : answer[k] # NoCred => answer[k] = expected[k].of

\* An asker has an app-server from Spawn to the end of its query, and an answer
\* only to return it.
AskerFits(k) ==
    /\ codexAt[k] # "Idle" => expected[k] # NoCred
    /\ child[k] # NoCred <=> codexAt[k] \in {"Query", "Refresh", "Save"}
    /\ codexAt[k] \in {"Refresh", "Save"} => mayRefresh[k]
    /\ mayRefresh[k] => codexAt[k] \in {"Spawn", "Query", "Refresh", "Save"}
    /\ answer[k] # NoCred => codexAt[k] = "Done" /\ answer[k] = expected[k].of
AskersKept == \A k \in Askers : AskerFits(k)

\* Unless a codex was started in between: who may refresh is the only codex that
\* runs.  It saves the newest token, over one that is in the vault, too, if it is
\* of another account.
Alone(k) ==
    /\ mayRefresh[k] => \A c \in Programs : memory[c] = NoCred
    /\ mayRefresh[k] /\ child[k] # NoCred =>
          /\ \A l \in Askers \ {k} : ~mayRefresh[l]
          /\ authFile.of # child[k].of => authFile.token = codexVault[authFile.of]
          /\ codexAt[k] = "Save" => child[k].token = newest[child[k].of]
LoadedNewest(c) ==
    memory[c] # NoCred /\ memory[c].of \notin cut => memory[c].token = newest[memory[c].of]
AloneKept ==
    ~raced => /\ \A k \in Askers : Alone(k)
              /\ \A c \in Programs : LoadedNewest(c)
=============================================================================
