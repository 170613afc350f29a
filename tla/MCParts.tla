-------------------------------- MODULE MCParts --------------------------------
\* Instances of parts that do not meet, explored side by side: the initial
\* state chooses one.  They share the variables, under names of their own: the
\* n-th variable of each part is v_n, and those a part does not need are "none".
EXTENDS ClaudeParts, ClientParts, Integers, TLC

CONSTANTS
    Clients,         \* of a lock
    \* ClientLock
    StaleAfter, MaxLockTime, MaxDirs, MaxStops, NoDir,
    \* PiPool
    PoolAccounts, ActiveAccount, NoAccount, AuthCooldown, DefaultCooldown, MaxCooldown,
    Margin, RenewalPause, MaxPoolTime, MaxLeases,
    \* DaemonLife
    MaxInvocations, MaxEnds,
    \* QuotaSchedule
    Scheduled, Priority, ManualOnly, Hash, Semantics, Intervals, MinRefresh, DecisionMaxAge,
    CandidateLimit, JitterPct, ResetDelay, ActivePoll, IdlePoll, AskBackoff, Windows,
    MaxClock, MaxAsks, MaxOutside

Symmetry == Permutations(People) \cup Permutations(Agents) \cup Permutations(Clients)

MCIntervals == "active" :> 2 @@ "parked" :> 4 @@ "exhausted" :> 4
Window(w, l, t) == [window |-> w, level |-> l, left |-> t]
MCPriority == <<0, 0>>
MCHash == <<0, 1>>
MCWindows == {{Window("FiveHour", "near", 2)}, {Window("FiveHour", "low", 1), Window("SevenDay", "low", 3)}}

Bucket(g, i, w, d, r, n) ==
    [group |-> g, id |-> i, weekly |-> w, disabled |-> d, resets |-> r, left |-> n]
MCBuckets == {Bucket("Claude", "5h", FALSE, FALSE, TRUE, 1),
              Bucket("Claude", "5h", FALSE, FALSE, TRUE, Unsaid),
              Bucket("Claude", "7d", TRUE, TRUE, TRUE, Unsaid),
              Bucket("Gemini", "5h", FALSE, TRUE, TRUE, Unsaid),
              Bucket("Gemini", "7d", TRUE, FALSE, TRUE, 2)}
MCModels == {[family |-> f, left |-> n] : f \in {"Gemini", "other"}, n \in {0, 2}}

Lk == INSTANCE ClientLock WITH
    dir <- v1, made <- v2, lockTime <- v3, lockPc <- v4, own <- v5, seen <- v6,
    beat <- v7, lost <- v8, asleep <- v9, stops <- v10, hijacked <- v11
ASSUME LockConstants == Lk!LockAssumption

Qs == INSTANCE QuotaSchedule WITH
    Accounts <- Scheduled, Interval <- Intervals, Poll <- ActivePoll, Backoff <- AskBackoff,
    Answers <- Windows,
    now <- v1, active <- v2, record <- v3, cached <- v4, failure <- v5, phase <- v6,
    seen <- v7, listed <- v8, jobs <- v9, answered <- v10, snapshot <- v11,
    handled <- v12, wakeAt <- v13, asks <- v14, outside <- v15, asked <- v16,
    planned <- v17, woken <- v18, repeated <- v19
ASSUME ScheduleConstants == Qs!ScheduleAssumption

Pi == INSTANCE PiPool WITH
    Requests <- Agents,
    poolTime <- v1, cooldowns <- v2, lastHealthy <- v3, expiry <- v4, cache <- v5,
    renewal <- v6, renewed <- v7, piAt <- v8, attempted <- v9, account <- v10,
    secret <- v11, output <- v12, rejected <- v13, seenBy <- v14, ended <- v15
ASSUME PoolConstants == Pi!PoolAssumption

Da == INSTANCE DaemonLife WITH
    Daemons <- Clients, Commands <- Agents, Nobody <- NoOne,
    pidPath <- v1, pid <- v2, flock <- v3, lifeAt <- v4, handle <- v5, invocations <- v6,
    ends <- v7, orphaned <- v8, ensured <- v9
ASSUME DaemonConstants == Da!DaemonAssumption

\* The variables from the n-th on are not used.
Spare25 == v25 = "none"
Spare24 == v24 = "none" /\ Spare25
Spare23 == v23 = "none" /\ Spare24
Spare22 == v22 = "none" /\ Spare23
Spare21 == v21 = "none" /\ Spare22
Spare20 == v20 = "none" /\ Spare21
Spare19 == v19 = "none" /\ Spare20
Spare18 == v18 = "none" /\ Spare19
Spare17 == v17 = "none" /\ Spare18
Spare16 == v16 = "none" /\ Spare17
Spare15 == v15 = "none" /\ Spare16
Spare14 == v14 = "none" /\ Spare15
Spare13 == v13 = "none" /\ Spare14
Spare12 == v12 = "none" /\ Spare13
Spare11 == v11 = "none" /\ Spare12
Spare10 == v10 = "none" /\ Spare11

Init ==
    \/ scene = "lock" /\ Lk!Init /\ Spare12
    \/ scene = "swap" /\ Sw!Init /\ Spare23
    \/ scene = "api" /\ Api!Init /\ Spare14
    \/ scene = "usage" /\ Us!Init /\ Spare13
    \/ scene = "cursor" /\ Cu!Init
    \/ scene = "schedule" /\ Qs!Init /\ Spare20
    \/ scene = "metrics" /\ Rm!Init /\ Spare11
    \/ scene = "kimi" /\ Ki!Init /\ Spare20
    \/ scene = "codex" /\ Co!Init /\ Spare17
    \/ scene = "pool" /\ Pi!Init /\ Spare16
    \/ scene = "daemon" /\ Da!Init /\ Spare10
    \/ scene = "google" /\ Ag!Init /\ Spare19
    \/ scene = "answer" /\ Aq!Init /\ Spare10
    \/ scene = "opencode" /\ Oc!Init /\ Spare17
    \/ scene = "keys" /\ Ke!Init /\ Spare11

Next ==
    /\ UNCHANGED scene
    /\ \/ scene = "lock" /\ Lk!Next /\ UNCHANGED <<v12, v13, v14, v15, v16, v17, v18, v19, v20, v21, v22, v23, v24, v25>>
       \/ scene = "swap" /\ Sw!Next /\ UNCHANGED <<v23, v24, v25>>
       \/ scene = "api" /\ Api!Next /\ UNCHANGED <<v14, v15, v16, v17, v18, v19, v20, v21, v22, v23, v24, v25>>
       \/ scene = "usage" /\ Us!Next /\ UNCHANGED <<v13, v14, v15, v16, v17, v18, v19, v20, v21, v22, v23, v24, v25>>
       \/ scene = "cursor" /\ Cu!Next
       \/ scene = "schedule" /\ Qs!Next /\ UNCHANGED <<v20, v21, v22, v23, v24, v25>>
       \/ scene = "metrics" /\ Rm!Next /\ UNCHANGED <<v11, v12, v13, v14, v15, v16, v17, v18, v19, v20, v21, v22, v23, v24, v25>>
       \/ scene = "kimi" /\ Ki!Next /\ UNCHANGED <<v20, v21, v22, v23, v24, v25>>
       \/ scene = "codex" /\ Co!Next /\ UNCHANGED <<v17, v18, v19, v20, v21, v22, v23, v24, v25>>
       \/ scene = "pool" /\ Pi!Next /\ UNCHANGED <<v16, v17, v18, v19, v20, v21, v22, v23, v24, v25>>
       \/ scene = "daemon" /\ Da!Next /\ UNCHANGED <<v10, v11, v12, v13, v14, v15, v16, v17, v18, v19, v20, v21, v22, v23, v24, v25>>
       \/ scene = "google" /\ Ag!Next /\ UNCHANGED <<v19, v20, v21, v22, v23, v24, v25>>
       \/ scene = "opencode" /\ Oc!Next /\ UNCHANGED <<v17, v18, v19, v20, v21, v22, v23, v24, v25>>
       \/ scene = "keys" /\ Ke!Next /\ UNCHANGED <<v11, v12, v13, v14, v15, v16, v17, v18, v19, v20, v21, v22, v23, v24, v25>>
       \/ scene = "answer" /\ Aq!Next /\ UNCHANGED <<v10, v11, v12, v13, v14, v15, v16, v17, v18, v19, v20, v21, v22, v23, v24, v25>>

Spec == Init /\ [][Next]_allVars

\* The properties of the parts, each for its own states.

\* Every variable of a part stays in its range: among them that no deadline of
\* the usage poll is further away than its cap or what the server said, that
\* the daemon collects listed accounts only, and that the request counters stay
\* within the caps of their file.
TypesOK ==
    /\ scene = "lock" => Lk!LockTypeOK
    /\ scene = "swap" => Sw!SwapTypeOK
    /\ scene = "api" => Api!ApiTypeOK
    /\ scene = "usage" => Us!PollTypeOK
    /\ scene = "cursor" => Cu!CursorTypeOK
    /\ scene = "schedule" => Qs!ScheduleTypeOK
    /\ scene = "metrics" => Rm!MetricsTypeOK
    /\ scene = "kimi" => Ki!KimiTypeOK
    /\ scene = "codex" => Co!CodexTypeOK
    /\ scene = "pool" => Pi!PoolTypeOK
    /\ scene = "daemon" => Da!DaemonTypeOK
    /\ scene = "google" => Ag!AntigravityTypeOK
    /\ scene = "answer" => Aq!QuotaQueryTypeOK
    /\ scene = "opencode" => Oc!OpencodeTypeOK
    /\ scene = "keys" => Ke!KeysTypeOK

\* Two clients hold the directory lock only after missed heartbeats, and two
\* daemons work only after one locked a PID file that was being removed.
HoldersExclude ==
    /\ scene = "lock" => Lk!HoldersExclude
    /\ scene = "daemon" => Da!OneDaemon

\* Commands that look for a daemon at the same time leave one behind.
DaemonComesUp == scene = "daemon" => Da!DaemonComesUp

\* Claude Code's secret is of the account it is said to be of.
SecretIsOfItsAccount == scene = "swap" => Sw!SecretIsOfItsAccount

\* The token used next of an account is accepted by the server: of Claude,
\* Cursor, Kimi and Codex, whose clients rotate tokens beside subswap.  Of the
\* last sign-in of an account of Antigravity there is a copy, or it is agy's, and
\* OpenCode's API keys are listed where their secret is while they are moved.
TokenKept ==
    /\ scene = "swap" => Sw!TokenKept
    /\ scene = "cursor" => Cu!CursorTokenKept
    /\ scene = "kimi" => Ki!KimiTokenKept
    /\ scene = "codex" => Co!CodexTokenKept
    /\ scene = "google" => Ag!SignInKept
    /\ scene = "keys" => Ke!KeysKept

\* What the user had in settings.json comes back after the API mode.
UserEnvComesBack == scene = "api" => Api!UserEnvComesBack

\* Claude's usage is asked for at the pace that the last answer allows, after
\* whatever kills: ClaudeUsage implements RequestPace.
KeepsThePace == Pace!Spec

\* The usage of an account was asked for with its own credential: what is kept
\* for a Claude account, what is returned for a Codex account, and with what
\* token a query of a Kimi account is made again.
UsageIsOurs ==
    /\ [][scene = "usage" => Us!AnswerIsOurs]_allVars
    /\ [](scene = "codex" => Co!AnswerIsOurs)
    /\ [](scene = "kimi" => Ki!RetryIsOurs)

\* A switch of Cursor or Antigravity that ended well stays in effect, and what a
\* command for OpenCode says is so in its database.
SwitchTakesEffect ==
    /\ scene = "cursor" => Cu!SwitchTakesEffect
    /\ scene = "google" => Ag!AntigravityInEffect
    /\ scene = "opencode" => Oc!OpencodeAsSaid

\* Antigravity's endpoints together give the quotas that each gave, and a
\* throttled account is not reported as one without login; nor is one of OpenCode
\* that has an accepted credential beside a dead one.
AnswerFits ==
    /\ scene = "answer" => Aq!AnswerFits
    /\ scene = "opencode" => Oc!LivingNeedsNoLogin

\* Each due reset is followed by a request for its account, and only one, and
\* the daemon pauses between cycles.
ResetHandled ==
    scene = "schedule" => Qs!ResetFollowed /\ Qs!OncePerReset /\ Qs!Pauses

\* What the policy takes for current is young, and nothing later doubts it.
ReadyIsCurrent == [][scene = "schedule" => Qs!MergesCurrent]_allVars

\* The request counters count every event that was written, once.
EventsCounted == scene = "metrics" => Rm!EventsCounted

\* A pooled request of Pi tries every account and shows the output of one.
PoolServes == scene = "pool" => Pi!PoolServes

\* A pooled request of Pi calls with a secret that has not expired.
SecretFresh == [][scene = "pool" => Pi!SecretFresh]_allVars
=============================================================================
