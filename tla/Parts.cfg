SPECIFICATION Spec
CONSTANTS
  People = {a1, a2}
  Agents = {p1, p2}
  Clients = {c1, c2, c3}
  us = us
  others = others
  NoOne = NoOne
  NoDir = NoDir
  NoSecret = NoSecret
  NoState = NoState
  NoToken = NoToken
  Unsaid = Unsaid
  UserEnv = UserEnv
  StaleAfter = 1
  MaxLockTime = 3
  MaxDirs = 3
  MaxStops = 1
  MacOptions = {TRUE, FALSE}
  MaxGeneration = 3
  MaxJobs = 2
  MaxLogins = 1
  MaxBreaks = 1
  ClaudeKeys = {k1}
  ArkKeys = {w1}
  MaxCommands = 3
  MaxSignIns = 1
  MaxFaults = 1
  PoolAccounts = {1, 2}
  ActiveAccount = 1
  NoAccount = 0
  AuthCooldown = 1
  DefaultCooldown = 2
  MaxCooldown = 2
  Margin = 1
  RenewalPause = 1
  MaxPoolTime = 2
  MaxLeases = 1
  MaxInvocations = 4
  MaxEnds = 2
  Layouts = {TRUE, FALSE}
  MaxTokens = 3
  MaxCalls = 2
  MaxUserSteps = 1
  MaxCursorFaults = 1
  MaxGoogleJobs = 3
  MaxGoogleFaults = 1
  Bases = 2
  Buckets <- MCBuckets
  Models <- MCModels
  Whole = 2
  MaxCredentials = 3
  MaxOpencodeJobs = 3
  MaxOpencodeFaults = 1
  ListedKeys = {1, 2}
  MaxMoves = 3
  MaxMoveFaults = 2
  MaxKimiTokens = 2
  MaxRecoveries = 3
  MaxKimiSwaps = 1
  MaxKimiFaults = 1
  MaxCodexTokens = 2
  MaxCodexAsks = 2
  MaxCodexStarts = 1
  MaxCodexSwaps = 1
  MaxCodexFaults = 1
  UsageInterval = 1
  BackoffCap = 3
  LimitBackoff = 2
  RetryAfter = {0, 3}
  MaxFailures = 3
  MaxPollTime = 3
  MaxVersions = 2
  MaxChanges = 1
  MaxPollFaults = 1
  Scheduled = {1, 2}
  Priority <- MCPriority
  ManualOnly = {}
  Hash <- MCHash
  Semantics = "stacked"
  Intervals <- MCIntervals
  MinRefresh = 1
  DecisionMaxAge = 2
  CandidateLimit = 1
  JitterPct = 50
  ResetDelay = 1
  ActivePoll = 1
  IdlePoll = 3
  AskBackoff = 2
  Windows <- MCWindows
  MaxClock = 4
  MaxAsks = 2
  MaxOutside = 1
  MetricAccounts = {1, 2}
  Codes = {200, 401}
  MaxMinutes = 2
  MaxAccounts = 1
  MaxStatuses = 2
  MaxMinute = 2
  MaxEvents = 3
  MaxMetricFaults = 1
SYMMETRY Symmetry
CHECK_DEADLOCK FALSE
INVARIANTS TypesOK  DaemonComesUp SecretIsOfItsAccount  UserEnvComesBack SwitchTakesEffect AnswerFits ResetHandled EventsCounted PoolServes
PROPERTIES KeepsThePace UsageIsOurs ReadyIsCurrent SecretFresh
