-------------------------------- MODULE PiPool --------------------------------
(***************************************************************************)
(* The account pool of the Pi extension (integrations/pi/src: pool.ts and  *)
(* subswap.ts).  The requests of a Pi session run side by side and share   *)
(* the cooldowns, the account that worked last, and a cache of secrets,    *)
(* which `subswap auth` fills and a run of `subswap` renews.               *)
(*                                                                         *)
(* A step lies between two awaits: JavaScript runs it whole.  A secret     *)
(* without an expiry, which is used for a minute, is left out.             *)
(***************************************************************************)
EXTENDS Integers, FiniteSets

CONSTANTS
    Requests, PoolAccounts, ActiveAccount, NoAccount,
    AuthCooldown, DefaultCooldown, MaxCooldown,  \* how long a failure is remembered
    Margin,           \* a secret that expires sooner is not cached
    RenewalPause,     \* between two renewals
    MaxPoolTime,      \* bound: the clock
    MaxLeases         \* bound: renewals of an account's token

PoolAssumption ==
    /\ ActiveAccount \in PoolAccounts /\ NoAccount \notin PoolAccounts
    /\ {AuthCooldown, DefaultCooldown, MaxCooldown, Margin, RenewalPause} \subseteq Nat \ {0}
    /\ AuthCooldown <= MaxCooldown /\ DefaultCooldown <= MaxCooldown
    /\ MaxPoolTime \in Nat /\ MaxLeases \in Nat

VARIABLES
    poolTime,     \* Date.now()
    cooldowns,    \* until when an account is passed over, 0: never
    lastHealthy,  \* the account that worked last, or NoAccount
    expiry,       \* when the token that subswap has of an account expires
    cache,        \* of an account: when the cached secret expires, and until
                  \* when it is used; or 0: not cached
    renewal,      \* a renewal is in flight
    renewed,      \* when the last one was started
    piAt,         \* the step of a request
    attempted,    \* the accounts it has tried
    account,      \* the one it tries now
    secret,       \* when the secret it calls with expires
    output,       \* it has shown output of an account
    rejected,     \* the account whose failure it would report
    seenBy,       \* the accounts whose events Pi has seen
    ended         \* how it has ended

poolVars == <<poolTime, cooldowns, lastHealthy, expiry, cache, renewal, renewed, piAt,
              attempted, account, secret, output, rejected, seenBy, ended>>

PiSteps == {"Idle", "Choose", "Project", "Renew", "Wait", "Again", "Call", "End"}

Init ==
    /\ poolTime = 0 /\ cooldowns = [a \in PoolAccounts |-> 0] /\ lastHealthy = NoAccount
    /\ expiry = [a \in PoolAccounts |-> IF a = ActiveAccount THEN 1 ELSE Margin + 1]
    /\ cache = [a \in PoolAccounts |-> 0] /\ renewal = FALSE /\ renewed = -RenewalPause
    /\ piAt = [r \in Requests |-> "Idle"] /\ attempted = [r \in Requests |-> {}]
    /\ account = [r \in Requests |-> NoAccount] /\ secret = [r \in Requests |-> 0]
    /\ output = [r \in Requests |-> FALSE] /\ rejected = [r \in Requests |-> NoAccount]
    /\ seenBy = [r \in Requests |-> {}] /\ ended = [r \in Requests |-> "not"]

Goto(r, step) == piAt' = [piAt EXCEPT ![r] = step]
Pool == <<poolTime, cooldowns, lastHealthy>>
Secrets == <<expiry, cache, renewal, renewed>>
Attempt == <<attempted, account, secret>>
Shown == <<output, rejected, seenBy, ended>>

-----------------------------------------------------------------------------
(* Choosing an account                                                     *)

\* Mutant of Candidates: an account that cools down is never tried.
CandidatesCool(tried) == {a \in PoolAccounts \ tried : cooldowns[a] <= poolTime}

\* `orderedAccounts`: those that do not cool down, or else any not yet tried.
Candidates(tried) ==
    LET remaining == PoolAccounts \ tried
        available == {a \in remaining : cooldowns[a] <= poolTime}
    IN  IF available # {} THEN available ELSE remaining

\* The order of two candidates: the one that worked last, the active one, the
\* one that cools down earlier.
Rank(a) == <<IF a = lastHealthy THEN 0 ELSE 1, IF a = ActiveAccount THEN 0 ELSE 1, cooldowns[a]>>

Before(x, y) ==
    \/ x[1] < y[1]
    \/ x[1] = y[1] /\ x[2] < y[2]
    \/ x[1] = y[1] /\ x[2] = y[2] /\ x[3] <= y[3]

Begin(r) ==
    /\ piAt[r] = "Idle" /\ Goto(r, "Choose")
    /\ UNCHANGED <<Pool, Secrets, Attempt, Shown>>

\* The call is over, and perhaps the request.
Hung(r) == secret' = [secret EXCEPT ![r] = 0] /\ UNCHANGED <<attempted, account>>
End(r, how) == Goto(r, "End") /\ ended' = [ended EXCEPT ![r] = how]
Sees(r, a) == seenBy' = [seenBy EXCEPT ![r] = @ \cup {a}]

\* The head of the loop.  Without a candidate the last refusal is reported, or
\* the error of the last secret.  A cached secret is used as it is.
Choose(r) ==
    /\ piAt[r] = "Choose"
    /\ IF Candidates(attempted[r]) = {}
       THEN /\ IF rejected[r] = NoAccount THEN UNCHANGED seenBy ELSE Sees(r, rejected[r])
            /\ End(r, "refused")
            /\ UNCHANGED Attempt
       ELSE \E a \in Candidates(attempted[r]) :
            /\ \A b \in Candidates(attempted[r]) : Before(Rank(a), Rank(b))
            /\ attempted' = [attempted EXCEPT ![r] = @ \cup {a}]
            /\ account' = [account EXCEPT ![r] = a]
            /\ IF cache[a] # 0 /\ cache[a] - Margin > poolTime
               THEN secret' = [secret EXCEPT ![r] = cache[a]] /\ Goto(r, "Call")
               ELSE UNCHANGED secret /\ Goto(r, "Project")
            /\ UNCHANGED <<seenBy, ended>>
    /\ UNCHANGED <<Pool, Secrets, output, rejected>>

-----------------------------------------------------------------------------
(* `requestSecret`                                                         *)

\* No secret: the account is passed over for a while.
NoSecretFor(r) ==
    /\ cooldowns' = [cooldowns EXCEPT ![account[r]] = poolTime + AuthCooldown]
    /\ Goto(r, "Choose")

\* Mutant of Usable: what `subswap auth` gives is used, expired or not.
UsableAlways(e) == TRUE
Usable(e) == e > poolTime

Use(r, e) ==
    /\ cache' = [cache EXCEPT ![account[r]] = e] /\ secret' = [secret EXCEPT ![r] = e]
    /\ Goto(r, "Call")

\* `subswap auth`; a secret that expires soon is renewed first.
Project(r) ==
    LET e == expiry[account[r]]
    IN  /\ piAt[r] = "Project"
        /\ \/ NoSecretFor(r) /\ UNCHANGED <<cache, secret>>
           \/ e <= poolTime + Margin /\ Goto(r, "Renew") /\ UNCHANGED <<cooldowns, cache, secret>>
           \/ e > poolTime + Margin /\ Use(r, e) /\ UNCHANGED cooldowns
        /\ UNCHANGED <<poolTime, lastHealthy, expiry, renewal, renewed, attempted, account, Shown>>

\* `renew`: one at a time, for whoever waits, and not again before the pause.
Renew(r) ==
    /\ piAt[r] = "Renew"
    /\ CASE renewal -> Goto(r, "Wait") /\ UNCHANGED <<renewal, renewed>>
         [] ~renewal /\ poolTime - renewed < RenewalPause ->
              Goto(r, "Again") /\ UNCHANGED <<renewal, renewed>>
         [] OTHER -> renewal' = TRUE /\ renewed' = poolTime /\ Goto(r, "Wait")
    /\ UNCHANGED <<Pool, expiry, cache, Attempt, Shown>>

Waiting == {r \in Requests : piAt[r] = "Wait"}

\* The run of `subswap` ends: it may have renewed any token.
RenewalEnds ==
    /\ renewal /\ renewal' = FALSE
    /\ \E renewedOnes \in SUBSET {a \in PoolAccounts : expiry[a] < MaxLeases * (Margin + 1)} :
        expiry' = [a \in PoolAccounts |->
                    IF a \in renewedOnes THEN expiry[a] + Margin + 1 ELSE expiry[a]]
    /\ piAt' = [r \in Requests |-> IF r \in Waiting THEN "Again" ELSE piAt[r]]
    /\ UNCHANGED <<Pool, cache, renewed, Attempt, Shown>>

\* It fails, or the request that has started it is aborted: for all who wait.
RenewalFails ==
    /\ renewal /\ renewal' = FALSE
    /\ cooldowns' = [a \in PoolAccounts |->
                        IF \E r \in Waiting : account[r] = a THEN poolTime + AuthCooldown
                        ELSE cooldowns[a]]
    /\ piAt' = [r \in Requests |-> IF r \in Waiting THEN "Choose" ELSE piAt[r]]
    /\ UNCHANGED <<poolTime, lastHealthy, expiry, cache, renewed, Attempt, Shown>>

\* `subswap auth` again: what has not expired is used, and cached.
Again(r) ==
    LET e == expiry[account[r]]
    IN  /\ piAt[r] = "Again"
        /\ \/ NoSecretFor(r) /\ UNCHANGED <<cache, secret>>
           \/ Usable(e) /\ Use(r, e) /\ UNCHANGED cooldowns
        /\ UNCHANGED <<poolTime, lastHealthy, expiry, renewal, renewed, attempted, account, Shown>>

-----------------------------------------------------------------------------
(* The events of a call                                                    *)

\* Output: shown at once, after the start that was held back.
Output(r) ==
    /\ piAt[r] = "Call"
    /\ output' = [output EXCEPT ![r] = TRUE] /\ Sees(r, account[r])
    /\ UNCHANGED <<Pool, Secrets, Attempt, piAt, rejected, ended>>

\* `done`: this account first the next time.
Finish(r) ==
    /\ piAt[r] = "Call"
    /\ lastHealthy' = account[r] /\ cooldowns' = [cooldowns EXCEPT ![account[r]] = 0]
    /\ Sees(r, account[r]) /\ Hung(r) /\ End(r, "done")
    /\ UNCHANGED <<poolTime, Secrets, output, rejected>>

\* `cooldownFor`: a minute, five, or what the server asks for up to a cap.
CooldownUntil == {poolTime + wait : wait \in {AuthCooldown, DefaultCooldown, MaxCooldown}}

\* `classifyAccountFailure`: by its status or text, any error may be of the kind
\* that another account can do without; but not after output.
Rejectable(r) == piAt[r] = "Call" /\ ~output[r]

\* This account cannot serve it: the next one is tried, and the secret is not
\* used again.
AccountFails(r) ==
    LET a == account[r]
    IN  /\ Rejectable(r)
        /\ \E until \in CooldownUntil : cooldowns' = [cooldowns EXCEPT ![a] = until]
        /\ cache' = [cache EXCEPT ![a] = 0] /\ Hung(r)
        /\ IF PoolAccounts \ attempted[r] # {}
           THEN rejected' = [rejected EXCEPT ![r] = a] /\ Goto(r, "Choose") /\ UNCHANGED <<seenBy, ended>>
           ELSE Sees(r, a) /\ End(r, "refused") /\ UNCHANGED rejected
        /\ UNCHANGED <<poolTime, lastHealthy, expiry, renewal, renewed, output>>

\* Mutant of Breaks: an interrupted answer is begun again with the next account.
BreaksAgain(r) ==
    /\ piAt[r] = "Call" /\ Hung(r)
    /\ IF PoolAccounts \ attempted[r] # {} THEN Goto(r, "Choose") /\ UNCHANGED <<seenBy, ended>>
       ELSE Sees(r, account[r]) /\ End(r, "broken")
    /\ UNCHANGED <<Pool, Secrets, output, rejected>>

\* Any other error, an abort, or a failure after output: reported as it is.
Breaks(r) ==
    /\ piAt[r] = "Call"
    /\ Sees(r, account[r]) /\ Hung(r) /\ End(r, "broken")
    /\ UNCHANGED <<Pool, Secrets, output, rejected>>

Tick ==
    /\ poolTime < MaxPoolTime /\ poolTime' = poolTime + 1
    /\ UNCHANGED <<cooldowns, lastHealthy, Secrets, piAt, Attempt, Shown>>

Next ==
    \/ Tick \/ RenewalEnds \/ RenewalFails
    \/ \E r \in Requests :
        \/ Begin(r) \/ Choose(r) \/ Project(r) \/ Renew(r) \/ Again(r)
        \/ Output(r) \/ Finish(r) \/ AccountFails(r) \/ Breaks(r)

Spec == Init /\ [][Next]_poolVars

-----------------------------------------------------------------------------
(* Properties                                                              *)

PoolTypeOK ==
    /\ poolTime \in 0 .. MaxPoolTime
    /\ cooldowns \in [PoolAccounts -> 0 .. MaxPoolTime + MaxCooldown]
    /\ lastHealthy \in PoolAccounts \cup {NoAccount}
    /\ expiry \in [PoolAccounts -> Nat] /\ cache \in [PoolAccounts -> Nat]
    /\ renewal \in BOOLEAN /\ renewed \in -RenewalPause .. MaxPoolTime
    /\ piAt \in [Requests -> PiSteps] /\ attempted \in [Requests -> SUBSET PoolAccounts]
    /\ account \in [Requests -> PoolAccounts \cup {NoAccount}] /\ secret \in [Requests -> Nat]
    /\ output \in [Requests -> BOOLEAN] /\ rejected \in [Requests -> PoolAccounts \cup {NoAccount}]
    /\ seenBy \in [Requests -> SUBSET PoolAccounts]
    /\ ended \in [Requests -> {"not", "done", "refused", "broken"}]

\* A request that is refused has tried every account, whatever the requests
\* beside it have put in cooldown and however their renewals failed; and Pi sees
\* the events of one account only, however often the request was begun again
\* (pool.ts:70: cooling accounts are the last resort; :162: no other account
\* after output).
PoolServes ==
    \A r \in Requests :
        /\ ended[r] = "refused" => attempted[r] = PoolAccounts /\ ~output[r]
        /\ Cardinality(seenBy[r]) <= 1

\* What it rests on: until a request calls, nothing of it has been seen; a call
\* is seen as its account's only once it is shown; and who is refused was in no
\* call at the time, and had no account left to try.
PoolKept ==
    \A r \in Requests :
        /\ piAt[r] \in {"Project", "Renew", "Wait", "Again", "Call"} => account[r] \in PoolAccounts
        /\ piAt[r] \notin {"Call", "End"} => seenBy[r] = {} /\ ~output[r]
        /\ piAt[r] = "Call" => seenBy[r] = IF output[r] THEN {account[r]} ELSE {}
        /\ piAt[r] = "End" => \E a \in PoolAccounts : seenBy[r] \subseteq {a}
        /\ ended[r] # "not" => piAt[r] = "End"
        /\ ended[r] = "refused" => attempted[r] = PoolAccounts /\ ~output[r]

\* A call is begun with a secret that has not expired, out of the cache or from
\* subswap, renewed or not (subswap.ts:129, :135).
SecretFresh == \A r \in Requests : piAt[r] # "Call" /\ piAt'[r] = "Call" => secret'[r] > poolTime
=============================================================================
