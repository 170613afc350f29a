------------------------------ MODULE ClientParts ------------------------------
\* The parts about the other clients: Antigravity, OpenCode, Codex, Kimi and Cursor.
EXTENDS PartsBase

CONSTANTS
    \* AntigravitySwap, AntigravityQuota
    MaxGoogleJobs, MaxGoogleFaults, Bases, Buckets, Models, Whole, Unsaid,
    \* OpencodeSwap, OpencodeKeys
    MaxCredentials, MaxOpencodeJobs, MaxOpencodeFaults, ListedKeys, MaxMoves, MaxMoveFaults,
    \* CodexUsage, KimiRecovery
    MaxCodexTokens, MaxCodexAsks, MaxCodexStarts, MaxCodexSwaps, MaxCodexFaults,
    MaxKimiTokens, MaxRecoveries, MaxKimiSwaps, MaxKimiFaults,
    \* CursorSwitch
    Layouts, NoToken, MaxTokens, MaxCalls, MaxUserSteps, MaxCursorFaults

Ag == INSTANCE AntigravitySwap WITH
    Holders <- Agents, GoogleAccounts <- People, NoLogin <- NoOne,
    keychain <- v1, copies <- v2, known <- v3, marked <- v4, signedIn <- v5, flock <- v6,
    stepOf <- v7, job <- v8, blob <- v9, live <- v10, kept <- v11, signIns <- v12,
    googleJobs <- v13, googleFaults <- v14, lone <- v15, inEffect <- v16, missed <- v17,
    robbed <- v18
ASSUME AntigravityConstants == Ag!AntigravityAssumption

Aq == INSTANCE AntigravityQuota WITH
    querying <- v1, base <- v2, merged <- v3, groups <- v4, throttled <- v5, status <- v6,
    result <- v7, listed <- v8, answers <- v9
ASSUME QuotaQueryConstants == Aq!QuotaQueryAssumption

Oc == INSTANCE OpencodeSwap WITH
    Hands <- Agents, OpencodeAccounts <- People, NoOwner <- NoOne,
    console <- v1, second <- v2, owner <- v3, selected <- v4, recorded <- v5, chosen <- v6,
    doing <- v7, whom <- v8, plan <- v9, before <- v10, saw <- v11, credentials <- v12,
    opencodeJobs <- v13, opencodeFaults <- v14, alone <- v15, said <- v16
ASSUME OpencodeConstants == Oc!OpencodeAssumption

Ke == INSTANCE OpencodeKeys WITH
    Movers <- Agents, Keys <- ListedKeys,
    old <- v1, new <- v2, oldSecret <- v3, newSecret <- v4, moving <- v5, readOld <- v6,
    readNew <- v7, todo <- v8, moves <- v9, moveFaults <- v10
ASSUME KeysConstants == Ke!MovesAssumption

Co == INSTANCE CodexUsage WITH
    Askers <- Agents, CodexAccounts <- People, User <- us, Resident <- others,
    NoCred <- NoOne,
    authFile <- v1, codexVault <- v2, newest <- v3, memory <- v4, codexAt <- v5,
    expected <- v6, child <- v7, mayRefresh <- v8, answer <- v9, codexAsks <- v10,
    codexStarts <- v11, codexSwaps <- v12, codexFaults <- v13, raced <- v14,
    refused <- v15, cut <- v16
ASSUME CodexConstants == Co!CodexAssumption

Ki == INSTANCE KimiRecovery WITH
    Kimis <- Agents, KimiAccounts <- People, NoLock <- NoOne, NoMark <- NoOne,
    Protocols <- {"file", "directory"},
    protocol <- v1, kimiFile <- v2, kimiVault <- v3, chosen <- v4, newest <- v5,
    deadMark <- v6, kimiLock <- v7, made <- v8, kimiAt <- v9, tried <- v10,
    rotated <- v11, candidate <- v12, retried <- v13, recoveries <- v14,
    kimiSwaps <- v15, kimiFaults <- v16, hijacked <- v17, crossed <- v18, cut <- v19
ASSUME KimiConstants == Ki!KimiAssumption

Cu == INSTANCE CursorSwitch WITH
    desktop <- v1, valid <- v2, issued <- v3, disk <- v4, running <- v5, memory <- v6,
    known <- v7, mark <- v8, stored <- v9, switchLock <- v10, refreshLock <- v11,
    dead <- v12, stage <- v13, call <- v14, whom <- v15, held <- v16, seen <- v17,
    before <- v18, reopen <- v19, calls <- v20, userSteps <- v21, cursorFaults <- v22,
    shared <- v23, alone <- v24, chosen <- v25
ASSUME CursorConstants == Cu!CursorSwitchAssumption
=============================================================================
