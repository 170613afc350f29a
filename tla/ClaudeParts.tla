------------------------------ MODULE ClaudeParts ------------------------------
\* The parts about Claude Code: its sign-in, its API mode, and the poll of its
\* usage; and the counters of the requests, of which the polls are some.
EXTENDS PartsBase

CONSTANTS
    \* ClaudeSwap
    MacOptions, NoSecret, MaxGeneration, MaxJobs, MaxLogins, MaxBreaks,
    \* ClaudeApi
    ClaudeKeys, ArkKeys, NoState, UserEnv, MaxCommands, MaxFaults,
    \* ClaudeUsage
    UsageInterval, BackoffCap, LimitBackoff, RetryAfter, MaxFailures,
    MaxPollTime, MaxVersions, MaxChanges, MaxPollFaults,
    \* RequestMetrics
    MetricAccounts, Codes, MaxMinutes, MaxAccounts, MaxStatuses, MaxMinute, MaxEvents, MaxMetricFaults

Sw == INSTANCE ClaudeSwap WITH
    Accounts <- People,
    mac <- v1, good <- v2, newest <- v3, secret <- v4, ident <- v5, vault <- v6,
    swapLock <- v7, oauthLock <- v8, parkLock <- v9, at <- v10, job <- v11,
    target <- v12, held <- v13, seen <- v14, was <- v15, wasIdent <- v16, login <- v17,
    jobs <- v18, logins <- v19, breaks <- v20, crossed <- v21, blamed <- v22
ASSUME SwapConstants == Sw!ClaudeSwapAssumption

Api == INSTANCE ClaudeApi WITH
    Logins <- People,
    env <- v1, sentinel <- v2, mail <- v3, fileLock <- v4, step <- v5, task <- v6,
    found <- v7, plan <- v8, backup <- v9, commands <- v10, signIns <- v11,
    faults <- v12, torn <- v13
ASSUME ApiConstants == Api!ClaudeApiAssumption

Us == INSTANCE ClaudeUsage WITH
    Pollers <- Agents, Interval <- UsageInterval, Us <- us, Others <- others,
    pollTime <- v1, poll <- v2, pollLock <- v3, pollAt <- v4, token <- v5, asked <- v6,
    liveToken <- v7, liveName <- v8, changing <- v9, changes <- v10, pollFaults <- v11,
    doubtful <- v12
ASSUME UsageConstants == Us!ClaudeUsageAssumption

\* Of the poll of Claude's usage, and in the other scenes of nothing at all.
Polled(value, idle) == IF scene = "usage" THEN value ELSE idle
Pace == INSTANCE RequestPace WITH
    Credentials <- Us!Token, NoCredential <- Us!Nothing, Pause <- Us!Backoff,
    Interval <- UsageInterval, LimitPause <- LimitBackoff, Waits <- RetryAfter,
    time <- Polled(v1, 0), until <- Polled(v2.next, 0), barred <- Polled(Us!Barred, Us!Token),
    failures <- Polled(v2.failures, 0), asking <- Polled(Us!Asking, Us!Nothing),
    said <- Polled(Us!Said, 0)

Rm == INSTANCE RequestMetrics WITH
    Writers <- Agents,
    minute <- v1, file <- v2, corrupt <- v3, metricLock <- v4, doing <- v5, event <- v6,
    copy <- v7, events <- v8, metricFaults <- v9, counted <- v10
ASSUME MetricsConstants == Rm!MetricsAssumption
=============================================================================
