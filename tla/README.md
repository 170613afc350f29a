# A verification of subswap in TLA+

subswap keeps several accounts of AI coding clients (Claude, Codex, Kimi, Cursor, Antigravity,
OpenCode, ...) on one machine, watches their quotas, and switches the account a client uses when
it is exhausted. It has no server: short-lived CLI processes, a daemon (`subswapd`), the native
clients and editor extensions share nothing but files. This directory models the parts in which
that is hard to get right, checks them with TLC and proves what matters most with TLAPS.

    tlc -workers 2 -config QuotaCollection.cfg MCQuotaCollection     # one run
    tlapm QuotaCollectionProof.tla                                   # one module's proofs

`PROJECT.json` lists the components, the runs, a mutant for every checked property, the source
lines of every definition, the findings, the hazards and the theorems.

## 1. Inventory

| component | source (`src/crates/...`) | state | operations | what makes it correct |
|---|---|---|---|---|
| quota collector | `core/src/quota_collection.rs`, `quota_query.rs` | per account a flock file and a coordination record; slot files | `collect_quota`, `invalidate` for `rm`, `read_status` | one request at a time per account and never before a deadline on disk; answers are real measurements; every call ends |
| quota cache | `core/src/quota_cache.rs` | `quota_cache.json` and its flock | `set_at`, `record_failure`, `remove`, `save` with merge | no lost update, no resurrection, whatever the order of saves |
| quota schedule | `core/src/quota_schedule.rs`, `daemon/src/unix.rs` | `ResetTracker`, snapshots in the daemon's memory | classes, due times, reset wakes, merging, `next_sleep` | no reset slept through, no spinning, no old reading taken for current |
| switching policy | `core/src/auto_policy.rs`, `model.rs` | none | `decide` | a move is justified by confirmed facts and is the last one under them |
| default entry | `cli/src/cmd/default.rs` | the snapshot and progress of one invocation | show, query, decide after every answer, switch | no usable account missed, no going back |
| daemon switching | `daemon/src/unix.rs`, `state.rs` | cooldown, history and degraded window in memory | `run_cycle` | bounded switching; convergence; respect for the user |
| manual swap and hold | `cli/src/cmd/swap.rs`, `login.rs`, `core/src/manual_hold.rs` | a hold file per provider | `swap`, `login`, `hold_remaining_ms` | an explicit choice is not undone |
| daemon life cycle | `daemon/src/unix.rs`, `cli/src/daemon_spawn.rs` | PID file with flock | probe, spawn, start, stop | at most one daemon acts; one comes up |
| swap transaction | `core/src/swap.rs` | a client's files, `.subswap.lock`, snapshots | backup, write each, commit, roll back | all files of the old or of the new account |
| account registry | `core/src/account_registry.rs` | `accounts.toml` | `upsert`, `remove`, `set_active` | one active account per provider; no lost change |
| credential store | `core/src/store.rs` | `credentials.json`, its flock, the legacy keyring | `set`, `get`, `delete`, lazy migration | nothing deleted comes back from the keyring |
| credential engine | `providers/common/src/engine.rs` | live file, stored blob, registry | `activate`, capture, `refresh_parked_if_needed`, `absorb_blob` | the newest token of an account is never lost |
| checkout | `core/src/checkout.rs`, `cli/src/cmd/run.rs` | isolated environments | acquire, drop | a session's own token comes back; no shared directory |
| client lock | `providers/common/src/proper_lock.rs` | a lock directory with a heartbeat | acquire, renew, reap, release | one holder; a live one is not reaped |
| Claude | `providers/claude/src/*` | secret and account in two places; API mode in `settings.json` with a sentinel; poll record | `activate`, capture, renew, parked refresh, API mode in and out, usage query | secret and account belong together; no token lost; the user's settings come back; the pace of requests is kept |
| Cursor | `providers/cursor/src/lib.rs` | the running client's memory and its database | stop, capture, write, mark, restart, undo; sync; parked refresh; `rm` | a switch stays in effect; no token lost |
| Kimi, Codex | `providers/kimi/src/oauth.rs`, `providers/codex/src/app_server.rs` ... | live file shared with programs that refresh by themselves | recovery after a 401; query through an app server | a token is spent once; an answer is of the account asked about |
| Antigravity | `providers/antigravity/src/lib.rs`, `quota.rs` | one keychain item, copies, registry | swap, capture, import, keep-alive, `rm`; merging of endpoints | a switch stays in effect; a throttled account is not called logged out |
| request metrics | `core/src/request_metrics.rs` | a file of counters with caps | record, show | every written event counted once |
| Pi extension | `src/integrations/pi/src/*.ts` | cooldowns, cache of secrets | a pooled request | every account tried; one account's output; no expired secret |
| OpenCode | `providers/opencode/src/lib.rs`, `console.rs` | the client's database of credentials, the registry, two lists of API keys | sync, switch by the client's command, check, restore, `rm`, quota query; move of old keys | what a command says is so; a living account is not called logged out; no key loses its secret |
| Volcengine, audit, settings, rendering, command line | ... | logs, configuration, terminal | | formats and I/O |

Interactions. The default entry and the daemon both call the collector, which stores in its
records and in the cache; both build a snapshot of readings and ask the policy; both activate
through a provider, which runs the swap transaction and marks the registry. `swap` and `login`
activate too and then write the hold, which the policy reads. `rm` clears registry, store, records
and cache. The native clients refresh, replace and drop their tokens in the same files. Nothing is
notified: everybody reads files again.

Hard behaviours: processes interleave between any two file operations; a process is killed, or one
of its tokio tasks dropped at an await while a `spawn_blocking` write goes on; writes fail; files
are damaged or lost; requests fail, time out, are retried and are refused until a given time; a
refresh token works once and its successor exists only in an answer; the user changes accounts
while a decision made from older facts is being carried out. `PROJECT.json` lists each hazard at
its line with the properties that watch over it.

## 2. Modules

| module | models | checked in | proofs |
|---|---|---|---|
| `QuotaCollection` | the collector and its callers | `quota_collection`, `quota_live`, `quota_late_write` | `QuotaCollectionProof` |
| `QuotaCache` | the merging cache file | `cache_merge` | `QuotaCacheProof` |
| `AutoPolicy` | `decide`, as operators | through the next two | in `DefaultEntryProof` |
| `DefaultEntry` (extends `AutoPolicy`) | one `subswap` without arguments | `default_entry` | `DefaultEntryProof` |
| `AutoSwap` (extends `AutoPolicy`) | the daemon's cycle beside a user | `auto_swap`, `hold_race`, `cooldown_target` | `AutoSwapProof` |
| `Credentials` | engine, swap transaction, registry, store, checkout | `credentials`, `shared_env` | `CredentialsProof` |
| `RequestPace` | what the usage poll promises (abstract) | refined by `ClaudeUsage` | `ClaudeProof` |
| `ClaudeUsage` | the persisted usage poll | `parts` | `ClaudeProof` |
| `ClaudeSwap` | Claude's secret and account | `parts` | `ClaudeProof` |
| `ClaudeApi` | the API mode of Claude and Volcengine | `parts` | `ClaudeProof` |
| `CursorSwitch` | Cursor | `parts` | `ClientsProof` |
| `KimiRecovery`, `CodexUsage` | tokens that the client rotates | `parts` | `ClientsProof` |
| `AntigravitySwap`, `AntigravityQuota` | Antigravity | `parts`, `antigravity_removal` | `ClientsProof` |
| `QuotaSchedule` | when the daemon asks | `parts` | `PartsProof` |
| `ClientLock`, `DaemonLife` | the directory lock; the PID file | `parts` | `PartsProof` |
| `OpencodeSwap`, `OpencodeKeys` | OpenCode; the move of its keys | `parts` | `ClientsProof` |
| `RequestMetrics` | counters | `parts` | `ClaudeProof` |
| `PiPool` | Pi's pool | `parts` | `PartsProof` |
| `MC...` | instances for TLC; `MCParts` puts fifteen of the modules side by side | | `PartsProof` |
| `PartsBase`, `ClaudeParts`, `ClientParts` | the variables of `MCParts`, and the instances of the parts about Claude (and of the counters) and about the other clients | extended by `MCParts` | |

The system is composed through files, so a module composes what meets in the same files:
`Credentials` has engine, registry, store, keyring, live file, environments and the client in one
state; `AutoSwap` and `DefaultEntry` the policy with those who act on it; `QuotaSchedule` the
collector's records, the cache and the daemon's memory. Between these the interface is what the
next module assumes of it: the collector as `QuotaSchedule` sees it asks, reuses or refuses;
`ClaudeUsage` counts a renewal as part of the request, `ClaudeSwap` has its steps.

### The collector, the cache and the policy

**QuotaCollection.** A process is one task that asks for an account; `pc` says between which two
file operations of `collect_quota` it is. `CacheHit`, `CacheBackoff` and `CacheMiss` are the check
of the cache before anything else; `TakeLock` and `JoinHolder` the race for the account's flock;
`WaitRead...`, `WaitTakeover`, `Handover`, `WaitAgain` and `WaitTimeout` the loop of a late-comer;
`HeldAnswer` and `HeldReserve` what the holder concludes from the record it reads under the lock;
`ReserveLands` the reservation on disk; `TakeGlobal` ... `SlotTimeout` and `DeferLands` the slots;
`Query...` the request with its retries; `SaveLands` and `Persist` record and cache; `Rm...` the
invalidation. `Kill` ends a process anywhere, `Drop` one task at an await, in which case a write it
had started becomes a `late` one that lands at any later time; the flock is released in both.
`Damage` makes a record unreadable. The windows of a reading are one instant, their last reset.

**QuotaCache.** Jobs load the file without a lock, change their copy, and save under the flock by
merging only what they changed (`dirty`) into what is on disk then. Events are instants, and the
model keeps as history the newest event of each kind that was saved. `NewestReading` and
`NewestFailure` say that the file equals what that history amounts to: this is the abstract
specification of the cache, a last-writer-wins register by time of event, stated as an invariant.
Accounts do not influence each other in the merge, so that one key is enough for TLC; the proof
is for any number.

**AutoPolicy.** A translation of `decide`: sets of windows instead of lists; every ordering ends in
the account's id, so the result is a set of at most one account. `NoOp` and `Degraded` differ in
wording only and are the empty set. `allow_unknown` is false in every caller and left out.

**DefaultEntry.** The snapshot starts with whatever is cached, the accounts that are not fresh are
queried, and every answer is applied and followed by one evaluation of the policy, which may be
refused by `activated_targets` or `abandoned`. Within a provider the queries run one after the
other in the order of the listing; since the listing may have any order, answers may too.

**AutoSwap.** `Collect`, `Choose` or `Skip`, `Recheck`, `Activate` are the steps of `run_cycle`
between which files may change. `ManualSwap`, `OpenHold` and `RecordHold` are `subswap swap` or
`login`: the activation, the truncation of the hold file, its content. `NativeLogin` is a login in
the client that subswap has found, `CycleFails` a failed recheck or activation, `Restart` a new
daemon without memory. Instants are what is left of a window or the age of an event. The recheck
asks for the account only; the hold has been read in `Choose`.

**QuotaSchedule.** A cycle is `Asleep`, `Plan`, `Collect`, `Schedule`: the records and the cache
are read, the accounts chosen, each is collected (by an abstract collector that asks, reuses or
refuses, at one instant), the answers are merged, the next sleep computed. Other processes collect,
switch accounts and damage records in between. A millisecond is less than a unit of time, so that a
sleep of 1 ms would let a cycle follow the last one without a pause, which `ResetHandled` excludes:
a cycle begins later than the one before, unless somebody else has done something since.

**DaemonLife.** A file is an inode and the PID path a name for it: `Open` may open an inode that
`Unlink` takes the name from before `Lock`. `Probe` and `Unlock` are the moment in which a command
holds the lock to find out whether somebody else does.

### Credentials and clients

**Credentials.** A credential is an account's id and the number of its refresh token; the server
accepts the tokens in `valid` and replaces one when it is used. Copies are in the live file, the
store, the keyring, environments (`env`) and the memory of commands (`mem`), and each action lies
between two accesses to one of them. `pc` follows the commands of `cmd`; the steps of `activate`
under `.subswap.lock` are backup, write, registry load and save (the commit), and rollback.
`Refresh` is the server's answer, `Rotated` what a command then holds. `NativeRefresh` ... are
what the official client does to the live file. `blame` keeps, as history, why a token was lost
when two parties used it at once; the properties except those accounts only, and
`clobbered` marks registries that were saved over another's.

**ClaudeSwap.** Claude Code's secret is in the keychain or `.credentials.json`, the account it
belongs to in `.claude.json`. A swap captures, writes the one (on macOS before the lock), then the
other, and marks; a renewal compares and swaps; a login of the user is two steps as well.
`crossed` and `blamed` record when two parties were between their two accesses at once.
**ClaudeApi** has `settings.json` and the sentinel with the user's own values; both are read before
the lock and written under it, but for what leaves the mode after a login.
**ClaudeUsage** is `begin`, the request and `finish` around the poll record and its lock file,
beside a swap that has written the token and not yet the name.

**RequestPace and the refinement.** `RequestPace` is what the server may rely on: one request at a
time, reserved for an interval even if no answer comes; a doubling pause after failures, which
another credential need not keep; a pause that binds all credentials after a 429, as long as the
answer says. `ClaudeUsage` implements it: `until` is the record's deadline, `failures` its count,
`barred` the failed credential, or all of them after a 429 and for a reservation (`Barred`), `asking` the
credential of whoever holds the lock file (`Asking`), and `said` the instant its answer gave
(`Said`). Reading tokens, swaps, and everything the callers do without the lock are stuttering
steps; `Abandon`, a kill between reservation and answer, is `GiveUp`. `KeepsThePace` is checked by
TLC as a property of `parts` and proved for every instance.

**CursorSwitch.** `disk` is the client's database and `memory` what a running client will write
back when it ends. `LockSwitch` ... `StartClient` are a switch; `UndoToken`, `UndoMark`, `Reopen`
its undoing; `ReadLive` and `StoreLive` are also those of queries and syncs, which take no lock;
`FetchUsage`, `LockRefresh`, `Post`, `SaveRefreshed` are the refresh of a parked account.

**KimiRecovery, CodexUsage.** Both are about a live token that the client rotates by itself. In
Kimi's, a process that was answered 401 takes the client's own lock (a flock, or a directory that
is reaped when stale), reads the file again, posts at most once, and writes. In Codex's, a query
goes to the resident app server, to one of its own (which may refresh only if no codex runs), or
out directly, and compares the account of the answer.

**AntigravitySwap, AntigravityQuota.** The client's login is one keychain item. A swap takes the
flock after its writes only, a removal compares under it and deletes. The quota query merges what
each endpoint says.

**OpencodeSwap, OpencodeKeys.** Nothing of OpenCode's Console accounts is stored by subswap: a switch
runs the client's command, looks into its database whether it did, selects the old credential
again if not, and marks. `console` and `second` choose between the two providers and the two
layouts of the database. `said` is what the last command said that had no company, and
`OpencodeAsSaid` compares it with the database. The move of old API keys is another module: its
processes copy secrets, save both lists, and delete the old secrets, each a step.

**ClientLock.** `mkdir`, heartbeats, a look, a second look, a rename, with the identity of the
directory that each client believes to own; suspended and killed clients.
**RequestMetrics.** Bags of events against the counters of the file, which is capped, may be
damaged, or of a newer version. **PiPool.** One step per await of a pooled request.

## 3. Runs

| run | question | properties | bounds |
|---|---|---|---|
| `quota_collection` | callers of one account, with kills, failed writes, a damaged record, `Retry-After`, `rm`; from a second initial state, three callers of three accounts contend for slots | `TypeOK`, `OneCollectorPerAccount`, `RequestIsReserved`, `AnswersAreMeasurements`, `RemovedStaysRemoved`, `RequestsWithinSlots`, `NoEarlyCollection`, `ReuseIsCurrent` | 2 processes, 2 calls each, clock to 3, 1 fault; 3 processes, 2 global slots, 1 per provider |
| `quota_live` | does every call return | `EveryCallReturns` | 2 processes, 2 calls, clock to 2, 1 fault, late writes |
| `quota_late_write` | violated: writes that outlive their task | `NoEarlyCollection` | clock to 4, 3 calls, 1 fault, late writes, a clock that waits for writes |
| `cache_merge` | overlapping writers of the cache | `TypeOK`, `NewestReading`, `NewestFailure` | 3 jobs at a time, 4 events, 1 fault |
| `default_entry` | one invocation | `TypeOK`, `Settles`, `UpToDate`, `NeverReturns` | 3 accounts, 8 readings |
| `auto_swap` | the daemon and the user | `TypeOK`, `BrakeHolds`, `OneOverride`, `Converges` | 3 accounts, 1 manual change, 1 fault |
| `hold_race` | violated: "suspends all automatic switching" | `HoldSuspends` | as `auto_swap` |
| `cooldown_target` | violated: accounts "just switched away from" cool down | `LeftAccountsCool` | as `auto_swap` |
| `credentials` | any two commands beside the client: are tokens, marks and removals kept | `TypeOK`, `NothingLost`, `SwapAllOrNothing`, `OneMarked`, `Forgotten` | 2 processes, 2 accounts, 2 commands, 1 step of the client, 1 fault, 3 tokens |
| `shared_env` | violated: "each call returns a different `env_dir`" | `OwnDirectory` | two `run`, no fault |
| `parts` | fifteen parts, each from its own initial states | see below | see below |
| `antigravity_removal` | violated: a removal spares the login a swap has just written | `RemovalTakesItsOwn` | 2 processes, 2 jobs, no fault |

`parts` explores fifteen state spaces side by side: `scene` chooses one and never changes, and
each of its properties speaks of the scenes it names. They share nothing; one run for all
keeps the number of runs small.

| property of `parts` | scenes | what could go wrong |
|---|---|---|
| `TypesOK` | all | among the ranges: the caps of the counters, the cap of the poll's pause |
| `HoldersExclude` | lock, daemon | a lock taken from a living holder; two daemons |
| `DaemonComesUp` | daemon | commands that turn each other's daemon away |
| `SecretIsOfItsAccount` | swap | a secret stored or used under another account |
| `TokenKept` | swap, cursor, kimi, codex, google, keys | the only accepted token, or a key's secret, is in nobody's hands |
| `UserEnvComesBack` | api | the user's settings lost, or a key left behind |
| `KeepsThePace` | usage | a request before its time (refinement of `RequestPace`) |
| `UsageIsOurs` | usage, codex, kimi | an answer kept for the wrong account |
| `SwitchTakesEffect` | cursor, google, opencode | a switch undone by the client's end, an undo or a removal; a command of OpenCode that claims what is not so |
| `ResetHandled` | schedule | a reset slept through, collected twice, or a daemon that spins |
| `ReadyIsCurrent` | schedule | the policy decides on an old or doubtful reading |
| `EventsCounted` | metrics | an event lost or counted twice |
| `PoolServes`, `SecretFresh` | pool | an account untried, two outputs, an expired secret |
| `AnswerFits` | answer, opencode | a throttled account, or one with a living credential, reported as logged out |

Bounds of `parts`: 2 accounts and 2 processes everywhere (3 clients of the lock and 3 daemons, for
a reaper, a holder and a newcomer; 1 key of each kind in the API mode); clocks up to 4; 2 to 4
commands, 1 fault of each kind, 1 or 2 steps of the user. Two commands interleave at every step,
and a third or fourth begins after one has ended with or without a fault.

Why these bounds are enough. In `quota_collection` a process can hold, one wait, take over and
answer from the record, and a second call of either starts after the first result, with the clock
beyond a refresh interval (2) and up to a `Retry-After` of 3; one fault reaches every state a kill
or failed write leaves, and the mutants show that each property can fail within the bounds. In
`cache_merge` an event, one that overtakes it, and one that is saved between load and save are
three jobs; the fourth event reuses a job. In `default_entry` the readings are one of each class
the policy tells apart, three accounts are what a cycle A, B, A or an overlooked third one takes.
In `auto_swap` the windows keep the order of the real ones (cooldown and flap window 5 min,
oscillation 15, degraded 30) in the fewest ticks, and three targets reach the limit of three
switches. In `credentials` a token needs two successors for an outdated copy to be told from one
that is two behind, and every pair of the nine commands meets at every step. `MinRefresh` is not
0: `quota.min_refresh_interval_ms` has a positive default, and with 0 the collector would promise
nothing between two requests.

State spaces are finite because of named bounds in the guards (`Max...`) and of timers that stop
where they no longer matter. `Finished` and `Done` mark the states in which a bounded system has
nothing left to do. Deadlock is checked but in `parts` and `antigravity_removal`, whose systems
end when their bounds are used up.

Symmetry is used in `credentials` and `parts` for accounts and processes that no initial state or
action tells apart, and not with liveness: the properties of `parts` that are not invariants are
about single steps (`KeepsThePace` included, whose abstract specification has no fairness).

Fairness. `quota_live` assumes that time passes (`WF_vars(Tick)`) and that a process that can go
on does (`WF_vars(Advance(p))`): tokio and the kernel schedule it, and locks are polled, so that
weak fairness is all the code needs. Nothing is assumed of other processes' requests beyond their
timeout. `auto_swap` assumes that the daemon's loop goes on (`WF_vars(Cycle)`), which `run` does
after errors as well, and that time passes. It does not assume that an activation succeeds more
than finitely often fails: the number of failures is bounded, and `Converges` only speaks of
executions in which the readings stop changing.

Exceptions. Properties of tokens except accounts that history variables name (`blame`, `blamed`,
`shared`, `cut`, `crossed`, `hijacked`, `raced`, `torn`, `orphaned`, `robbed`, `missed`): each is
set by a definite interleaving that the code does not exclude, such as a refresh of an account
whose token another command has just read. The properties say that there is no other way to lose
something, and the exceptions list the ways there are. They are worth a reader's attention as much
as the findings: `activate` refreshes Claude's target without the account's lock; captures store
what they have read without a lock; a daemon that opened the PID file before the last one removed
it locks a file without a name, and a second daemon may run beside it (`unix.rs:246`).

## 4. Findings

* `quota_late_write`: `write_record_async` runs in `spawn_blocking`. When the task is dropped the
  flock is released while the write goes on, and it may overwrite the next holder's record, and its
  later deadline, contrary to the comments at `quota_collection.rs:5` and `:642`. Without such writes
  both properties hold for every instance (theorems below).
* `hold_race`: a switch decided just before a hold is recorded is carried out after it, contrary to
  `AUTO_SWAP_DESIGN.md:81`. `OneOverride` shows that it is at most one.
* `cooldown_target`: only the target of a switch cools down, contrary to the comment at
  `daemon/src/unix.rs:385`. `BrakeHolds` shows what bounds the switching nevertheless.
* `shared_env`: the sequence number of an isolated environment starts at 0 in every process, so that
  two `subswap run` of one account work in the same directory, which the first to end deletes,
  contrary to `checkout.rs:29`.
* `antigravity_removal`: a removal confirms the login's owner under a lock that swaps take only after
  they have written, and may delete the login of the account just switched to, contrary to the
  comment at `antigravity/src/lib.rs:314`.

Smaller differences met while modelling, without a run: a swap to the Antigravity account that is
signed in already returns before the registry is marked; the query of the active Antigravity
account may refresh its login; `antigravity/src/quota.rs:454` says "all endpoints 401/403" where the
last answer decides; a disabled 5-hour bucket without a number is left out, not shown as 0; Kimi's
release of a directory lock removes whatever has its name; of an OpenCode account with several
credentials the one that is recorded is the last that was read, never the selected one, so that a
switch back may select one that is dead; the restore of a failed OpenCode switch may undo another
command's switch that had succeeded; `rm` whose sign-out in OpenCode fails still removes the
account locally; a killed move of API keys leaves the old secrets in the store for ever.

## 5. Proofs

All constants are arbitrary within the named assumption of their module, which TLC evaluates for the
values of each run: any number of processes, accounts, slots, credentials, and any bounds. Most
assumptions say that a value that means "nothing" is no account, process, token or lock record, and
that a bound is a natural number. Those that say more are the code's: `OscillationWindow <
DegradedWindow` and `MaxFlap >= 2` (the constants of `AutoSwapAssumption` in `daemon/src/unix.rs`);
`AuthCooldown <= MaxCooldown` (`PoolAssumption`; `pool.ts:40`); the daemons and commands of
`DaemonAssumption` are finitely many, so that there is always an inode left; the accounts that
requests are counted for (`MetricsAssumption`) and the accounts of the schedule are finitely many
numbers, so that ties go by name. The fifteen parts are proved where TLC runs them, in `MCParts`,
whose constants are the parameters of the parts and have values in `Parts.cfg` only.

* `QuotaCollectionProof`
  * `TypeCorrect`: `TypeOK`, late writes included.
  * `CollectorsExclude`: from `LockInv`, "whoever is in a step under the flock is its holder".
    Mutual exclusion alone is not inductive: it needs who holds the lock.
  * `RequestsAreReserved`, `CollectionsHonourDeadlines`: assume `~LateWrites`, which the finding shows
    to be needed. The inductive invariant `Promises` says that a readable record on disk is at least
    as late as every promise made (`FloorInv`), and so is what a process is about to write
    (`DraftInv`). The drafts are what a bare statement about the disk lacks: the holder computes the
    next deadline one step before it reaches the disk.
  * `SlotsSuffice`: `SlotInv` says which steps hold which slot, and that nobody polls for a
    provider's slot with a global one in hand. The counting is that of the sets of holders.
  * `AnswersMeasured`: `MeasuredInv` says of every record, cache entry, draft, copy and late write
    that its numbers were measured at the instant it carries; late writes are allowed.
  * `RemovalsLast`: assumes `~LateWrites`. After a removal every file is either empty or younger than
    it (`FilesKnown`), and so is what any process under way carries (`CallsKnown`). `LockInv` is needed
    once more: a removal takes the flock, so that none comes between measuring and storing.
  * `ReusedIsCurrent`: late writes are allowed. `DatedInv` says of every record, draft and late write
    that a success' deadline is a refresh interval after it was measured, so that a deadline ahead
    makes the measurement young, and that a call that goes on has not been answered.
* `QuotaCacheProof`
  * `TypeCorrect`; `ReadingsAreNewest`; `FailuresAreNewest`. `CacheInv` relates the file to the newest
    saved events and says of every copy in memory that what it marks as changed is the event of its
    job, which is how a merge from an old copy keeps what others saved. `NewestFailure` holds as long
    as the file was never lost: a lost file forgets what had cleared a failure that comes late.
* `DefaultEntryProof`
  * `PolicySettles`: for any accounts, priorities, readings and pool semantics (parallel pools are not
    in the run), a decision that is carried out is the last one. It rests on `ViableStays`, that
    `is_viable_candidate` and `account_needs_swap` do not overlap, and, for the fallback among
    exhausted accounts, on the strict comparison of recovery times.
  * `TypeCorrect`, `LastDecisionIsCurrent`, `OnlyForward`: from `EntryInv`, which says where the
    accounts this invocation has left are remembered.
* `AutoSwapProof`
  * `HoldOverriddenOnce`: `OneOverride` is strengthened by "once the hold was overridden, no switch is
    under way while it lasts" (`HoldInv`).
  * `TypeCorrect`: `TypeInv` adds that a switch under way has a target.
  * `SwitchingIsBraked`: the switches made are not what the daemon counts: it forgets them when it
    marks the provider as degraded. `Remembered` says that every switch that still matters is in its
    history, or was made before a degraded window that lasts for as long as it matters, during which
    no switch is under way; this is where `OscillationWindow < DegradedWindow` is needed. The bound
    then carries over from a history that does not flap (`~Flaps`), by an injection of the one list
    into the other.
* `CredentialsProof`
  * `TypesHold`: `TypeInv` adds to `TypeOK` what each step of a command has in its hands (`Shape`) and
    that every stored copy is under its own account (`Keyed`).
  * `NoTokenLost`: that the newest token is somewhere does not suffice, because a command overwrites
    what it has captured long before. `TokenInv` says for every account without an excuse (`Good`):
    whatever copy anybody holds is accepted by the server (`HeldValid`); the token is in the live file,
    in the store, on its way there, or still in the keyring (`Healthy`); what a swap is about to
    overwrite is stored or is no longer what it captured (`Kept`); what a rollback would take away is
    stored or was there before (`Written`); a swap's target is stored (`SwapStored`); only commands on
    registered accounts race a removal (`OnlyStarted`), and of an account that is not registered there
    is only what is about to be registered or removed (`AbsentInv`).
  * `RemovedIsForgotten`: from the same invariant. `OneIsMarked` (`MarkInv`: of two marked
    accounts one is that of a command which is about to save its own mark as the only one) and
    `SwapIsAtomic` (`AgreeInv`: the account marked is that of the live file, or while a swap is at work
    that of its backup) need the types only.
  * The proof attempt showed `NothingLost` to be false beyond the bounds of the run: an account is
    removed, signed in again in the client, and imported by `login`; after its credential is stored and
    before it is registered, the client rotates the token, and a swap, whose capture leaves the
    credential of an unregistered account alone (`engine.rs:516`, as the test at `engine.rs:964` wants),
    overwrites it; then the account is registered with a token that is dead. `NothingLost` now excepts
    such accounts by name (`"unmanaged"` in `blame`).

The fifteen parts are proved in three modules, as an obligation of the prover carries every instance
in sight: `ClaudeProof` and `ClientsProof` show of each part that its invariant holds at first
and stays, and what it implies; `PartsProof` does so for the rest, and puts them together.

* `PartsProof`: `PartsKept` is one invariant for all scenes, since a step of `MCParts` is one of the
  scene's own (`Scenes`); the theorems about the properties of the run `parts` follow from it.
  * `TypesStay`: `TypesOK`, which bounds every counter, queue and record of every part.
  * `NoTwoHolders`, `CommandsLeaveADaemon`: `LockKept`: as long as no fresh directory was taken away, no two
    clients have made the same directory, one that is still its maker's is as old as the last heartbeat,
    and who holds the lock without it has lost it, knowingly or by being late. `LifeKept`: who has
    locked a file is at a step that goes with it, and a daemon that has locked the named file keeps it
    until it removes the name; since a command has seen to a daemon there is one, or a command will
    start it.
  * `PoolTriesEveryAccount`, `PoolSecretsAreFresh`: `PoolKept`: until a request calls, nothing of it has been
    seen; a call is seen as its account's once it is shown; who was refused had attempted every account.
    That a call begins with a fresh secret is then a matter of each single step.
  * `ResetsAreFollowed`, `PolicySeesTheCurrent`: none of the three parts of `ResetHandled` is inductive.
    `ReadingsKept`: collector's record and cache hold one reading of an account, and when a cycle has
    read the cache, a reset that appears there later is one that is still to come. `KeysKept`: a
    reset that an account was collected for is remembered for as long as any reading names it, which
    is why none is collected twice. `JobsKept`: whatever the cycle found due is in its jobs or has been
    asked for. `PausesKept`: within one instant every account either waits for its interval or has
    all its due resets marked, so that the next sleep is not nothing. The proof showed that the
    property had said too little (it allowed any cycle without a pause after a due reset, whoever
    caused it); it now allows none that nobody else caused.
* `ClaudeProof`: the scenes of Claude and of the counters.
  * `UsersSettingsComeBack`: API keys are activated on top of each other, each with a sentinel that knows
    what to restore. `TasksKept` says which command is at which step, and `FilesKept` that settings and
    sentinel fit unless a command is between its two writes, and so does what each command has read,
    plans, or has as a backup (`WorkKept`).
  * `SecretsStayWithTheirAccount`: `JobsKept` says which command is at which step, and `SignInKept`,
    as long as no two met between their two accesses, whose secret each command would write, restore
    or store (`OwnersKept`), and that secret and account fit unless one is between its two writes.
  * `ClaudeTokenStays`: `TokensCount` says that the server accepts no number again, `LiveKept` that
    every copy which may be used next is accepted (`Sound`), that each account is stored, is being
    stored or is live (`Stored`), and that what a failed swap would put back is what it found, or else
    nothing is lost by it (`RestoreLosesNothing`). The proof attempt showed that an earlier form of the
    model blamed an account for ever once anybody had renewed its token, so that the property said
    little about it: `Divided`, by which two work with different tokens of one account, took the
    token a renewal has just posted, and is about to replace, for one still in use.
  * `PollKeepsThePace`: `ClaudeUsage` implements `RequestPace` under the mapping of section 2. Each
    step maps to one of the abstract steps or to a stutter under `PaceInv`: who is between
    reservation and answer holds the lock file, and has said nothing yet. That the backoff never
    exceeds its cap (`TypesStay`) needs powers of two, which are natural numbers as the numbers of
    subsets of a finite set.
  * `UsagesAreOurs`, of Claude: `TokensAreOurs`: the token of a call about the account that is signed in
    is of it, or another one is signed in now, and a swap back would be the second one.
  * `EventsAreSummed`: `UpdatesKept` says that the flock has one holder and that the file is what the
    holder read until it writes; then each write adds its one event to the counts of its account and
    of the whole, whatever is merged, trimmed or evicted on the way. The caps of the file
    (minutes, accounts, status codes, in order and without doubles) are in `MetricsTypeOK`, for
    which the place where a bucket goes and the account seen longest ago must be shown to exist.
* `ClientsProof`: likewise for the scenes of the other clients.
  * `NoKeyIsLost`: that each key is listed where its secret is does not suffice, since a process writes
    lists it has read long ago. `KeysInv` adds that what a process has read is every key, that the
    secrets of what it need not copy are in the new place, and that nobody takes a saved list back.
  * `AnswersFit`: `AnswerInv` relates the merged quotas to the endpoints that have answered so far;
    that one of OpenCode's credentials is the last to be tried, or is accepted, needs the least and the
    greatest element of a set of numbers (`Smallest`, `Largest`).
  * `NoSignInIsLost`: what a command of Antigravity is about to store is the sign-in that it found, and if
    another one has come since, that one is agy's.
  * `SwitchesStay`, `TokensAreStoredAsNamed`: of Cursor, `CommandsKept` says what each step of a command
    has read, holds and would put back, and `ChosenKept` that an account chosen by a finished switch is
    in the database, and in the memory of a client that will write it back, unless someone else has
    taken over since. OpenCode's part needs that a command without company sees its own effect only.
  * `TokensStay`: `TokenKept` of all its scenes. Cursor's part was the last: `LiveKept` says that every
    copy that may be used next is accepted, and that a switch, which has closed the client, has
    stored what it read before it goes on to the target's token.
  * `CodexTokenStays`: `AskersKept` says who has an app-server, and `AloneKept` that, as long as no codex
    was started in between, the one who may refresh is the only codex that runs, and what any codex has
    loaded is the newest. It found a slip in the model: a look whose start failed kept the leave to
    refresh (`Spawn` now closes the look, as dropping the guard does).
  * `KimiTokenStays`: a process under the lock is alone (`InsideAlone`) as long as no directory was taken
    from its holder; it writes the newest token over a file of its account, or over one that a swap has
    put in the vault too (`WritesKept`), and no copy is newer than the server's (`NoneNewer`). The
    stamps of its lock are bounded by what is made: a recovery makes one directory at most, and a
    heartbeat renews it once for each time it grew stale (`MadeKept`).

Only model-checked:

* liveness (`EveryCallReturns`, `Converges`), which is out of the proof system's reach;
* of `EventsCounted`, that the last hour and the status codes add up: they are sums over buckets and
  bags of any size (induction over data). Its first part is `EventsAreSummed`.

## 6. Not modelled, and the plan

Left out for good, being formats, I/O or wording without a state of their own: parsing and HTTP of
the quota endpoints (Volcengine and Command Code consist of little else), the SQLite and JSON
layouts of the clients, the framing of Codex's control socket, rendering, the audit log, settings
(constants here), argument handling, the set-up of the Pi extension. How each `login` command
obtains its credential is a dialogue with the client; what it then stores is modelled.

Left out so far: the second key by which the engine finds duplicates of a Codex account.

Open: a wider `credentials` run with the second key of Codex.
