------------------------------ MODULE ClaudeUsage ------------------------------
(***************************************************************************)
(* The usage query of one Claude account (claude/src/usage_poll.rs and     *)
(* query_quota in lib.rs).  A record per account, under a lock file,       *)
(* reserves a request before it is sent and keeps the answer, so that      *)
(* processes and restarts share one pace: an interval after a success, a   *)
(* doubling backoff after a failure, the server's instant after a 429.     *)
(*                                                                         *)
(* The account is the one signed in, or it is not.  If it is, its secret   *)
(* is read in one place and its name in another, while a swap, or a login, *)
(* writes both, one after the other.                                       *)
(***************************************************************************)
EXTENDS Naturals, FiniteSets

CONSTANTS
    Pollers,         \* processes that ask
    Us, Others,      \* the account that is asked about, and the one swapped with
    NoOne,
    Interval, BackoffCap, LimitBackoff,   \* ticks
    RetryAfter,      \* what a 429 may say, in ticks; 0: nothing
    MaxFailures,     \* from here on the backoff is the cap
    MaxPollTime, MaxVersions, MaxChanges, MaxPollFaults   \* bounds

ClaudeUsageAssumption ==
    /\ Us # Others /\ NoOne \notin Pollers \cup {Us, Others}
    /\ Interval \in Nat \ {0} /\ BackoffCap \in Nat /\ LimitBackoff \in Nat
    /\ MaxFailures \in Nat \ {0}
    /\ RetryAfter \subseteq Nat
    /\ MaxPollTime \in Nat /\ MaxVersions \in Nat \ {0} /\ MaxChanges \in Nat /\ MaxPollFaults \in Nat

VARIABLES
    pollTime,
    poll, pollLock,          \* the record, and who holds its lock file
    pollAt, token, asked,    \* a process: its step, its credential, the answer
    liveToken, liveName,     \* what Claude Code uses
    changing,                \* a swap that has written the token, not yet the name
    changes, pollFaults,     \* bounded by Max...
    doubtful                 \* history: processes that read the token of a half-written swap
                             \* that is not finished yet, or that two swaps have passed

pollVars == <<pollTime, poll, pollLock, pollAt, token, asked, liveToken, liveName, changing,
              changes, pollFaults, doubtful>>

Owners == {Us, Others}
Token == [of : Owners, ver : 0 .. MaxVersions]
Nothing == [of |-> Us, ver |-> 0]
PollTimes == UNION {0 .. MaxPollTime + d : d \in {Interval, BackoffCap, LimitBackoff} \cup RetryAfter}
Answers == {"none", "ok", "limited", "failed"}
PollSteps == {"Idle", "Token", "Begin", "Before", "Ask", "Finish"}

PollTypeOK ==
    /\ pollTime \in 0 .. MaxPollTime
    /\ poll \in [next : PollTimes, failures : 0 .. MaxFailures, owner : Owners \cup {NoOne},
                 failed : Token, limited : BOOLEAN]
    /\ pollLock \in Pollers \cup {NoOne}
    /\ pollAt \in [Pollers -> PollSteps] /\ token \in [Pollers -> Token]
    /\ asked \in [Pollers -> [answer : Answers, retry : PollTimes, live : BOOLEAN]]
    /\ liveToken \in Token /\ liveName \in Owners /\ changing \in Owners \cup {NoOne}
    /\ changes \in 0 .. MaxChanges /\ pollFaults \in 0 .. MaxPollFaults
    /\ doubtful \subseteq Pollers

NoAsk == [answer |-> "none", retry |-> 0, live |-> FALSE]

Init ==
    /\ pollTime = 0
    /\ poll = [next |-> 0, failures |-> 0, owner |-> NoOne,
               failed |-> Nothing, limited |-> FALSE]
    /\ pollLock = NoOne
    /\ pollAt = [p \in Pollers |-> "Idle"] /\ token = [p \in Pollers |-> Nothing]
    /\ asked = [p \in Pollers |-> NoAsk]
    /\ liveName \in Owners /\ liveToken = [of |-> liveName, ver |-> 1] /\ changing = NoOne
    /\ changes = 0 /\ pollFaults = 0
    /\ doubtful = {}

At(p, s) == pollAt' = [pollAt EXCEPT ![p] = s]
client == <<liveToken, liveName, changing, changes, pollFaults>>

Return(p) ==
    /\ At(p, "Idle")
    /\ token' = [token EXCEPT ![p] = Nothing] /\ asked' = [asked EXCEPT ![p] = NoAsk]
    /\ pollLock' = IF pollLock = p THEN NoOne ELSE pollLock
    /\ doubtful' = doubtful \ {p}

-----------------------------------------------------------------------------
(* query_quota: the credential                                             *)

\* The stored credential of an account that is not signed in; its versions are
\* those of parked refreshes.
Query(p) ==
    /\ pollAt[p] = "Idle"
    /\ IF liveName = Us THEN At(p, "Token") /\ UNCHANGED token
       ELSE /\ \E v \in 1 .. MaxVersions : token' = [token EXCEPT ![p] = [of |-> Us, ver |-> v]]
            /\ At(p, "Begin")
    /\ asked' = [asked EXCEPT ![p].live = liveName = Us]
    /\ UNCHANGED <<pollTime, poll, pollLock, client, doubtful>>

\* Claude Code's own reading, if it is fresh, is returned without a request.
ReadToken(p) ==
    /\ pollAt[p] = "Token"
    /\ \/ /\ token' = [token EXCEPT ![p] = liveToken] /\ At(p, "Begin")
          /\ doubtful' = IF changing # NoOne THEN doubtful \cup {p} ELSE doubtful
          /\ UNCHANGED <<asked, pollLock>>
       \/ Return(p)
    /\ UNCHANGED <<pollTime, poll, client>>

-----------------------------------------------------------------------------
(* begin                                                                   *)

\* Mutant of OtherCredential: a 429, too, is for the credential only.
OtherCredentialAlways(t) == poll.failed # Nothing /\ poll.failed # t

\* A failure is for the credential it came with, unless it was a 429.
OtherCredential(t) == ~poll.limited /\ poll.failed # Nothing /\ poll.failed # t

MayAsk(t) == poll.next <= pollTime \/ OtherCredential(t)

\* The reservation is on disk before the request is sent; if it cannot be
\* written, or the lock is taken, the call fails, and before the deadline it
\* returns the reading or the error.
BeginPoll(p) ==
    /\ pollAt[p] = "Begin"
    /\ \/ /\ pollLock = NoOne /\ MayAsk(token[p])
          /\ poll' = [poll EXCEPT !.next = pollTime + Interval,
                                  !.failed = Nothing, !.limited = FALSE]
          /\ pollLock' = p
          /\ At(p, IF asked[p].live THEN "Before" ELSE "Ask")
          /\ UNCHANGED <<token, asked, pollFaults, doubtful>>
       \/ /\ pollLock # NoOne \/ ~MayAsk(token[p])
          /\ Return(p) /\ UNCHANGED <<poll, pollFaults>>
       \/ /\ pollLock = NoOne /\ MayAsk(token[p])
          /\ pollFaults < MaxPollFaults /\ pollFaults' = pollFaults + 1
          /\ Return(p) /\ UNCHANGED <<poll>>
    /\ UNCHANGED <<pollTime, liveToken, liveName, changing, changes>>

-----------------------------------------------------------------------------
(* query_usage                                                             *)

\* The account is still the one signed in before the request.
Before(p) ==
    /\ pollAt[p] = "Before"
    /\ IF liveName = Us THEN At(p, "Ask") /\ UNCHANGED asked
       ELSE At(p, "Finish") /\ asked' = [asked EXCEPT ![p].answer = "failed"]
    /\ UNCHANGED <<pollTime, poll, pollLock, token, client, doubtful>>

\* The last answer counts: a refused credential may have been renewed, and the
\* request sent again (renew_active, refresh_parked_for_usage: see ClaudeSwap).
Ask(p) ==
    /\ pollAt[p] = "Ask" /\ At(p, "Finish")
    /\ \/ \E a \in {"ok", "failed"} : asked' = [asked EXCEPT ![p].answer = a]
       \/ \E r \in RetryAfter :
              asked' = [asked EXCEPT ![p].answer = "limited", ![p].retry = pollTime + r]
    /\ UNCHANGED <<pollTime, poll, pollLock, token, client, doubtful>>

-----------------------------------------------------------------------------
(* finish                                                                  *)

Smaller(a, b) == IF a < b THEN a ELSE b
Larger(a, b) == IF a > b THEN a ELSE b

\* Mutant of Backoff: it doubles for ever.
BackoffUncapped(n) == Interval * 2 ^ (n - 1)

\* After the n-th failure in a row.
Backoff(n) == Smaller(Interval * 2 ^ (n - 1), Larger(BackoffCap, Interval))

\* Mutant of Outcome: the account is not looked at again.
OutcomeUnchecked(p) == asked[p].answer

\* Neither has another account been signed in during the request.
Outcome(p) == IF asked[p].live /\ liveName # Us THEN "failed" ELSE asked[p].answer

\* The token is the one the call began with, not a renewed one.
Finished(p) ==
    LET n == Smaller(poll.failures + 1, MaxFailures)
        a == Outcome(p)
    IN  CASE a = "ok" ->
               [next |-> pollTime + Interval, failures |-> 0, owner |-> token[p].of,
                failed |-> Nothing, limited |-> FALSE]
          [] a = "limited" ->
               [next |-> Larger(pollTime + Larger(Backoff(n), LimitBackoff), asked[p].retry),
                failures |-> n, owner |-> NoOne, failed |-> token[p], limited |-> TRUE]
          [] OTHER ->
               [next |-> pollTime + Backoff(n), failures |-> n, owner |-> NoOne,
                failed |-> token[p], limited |-> FALSE]

Finish(p) ==
    /\ pollAt[p] = "Finish"
    /\ poll' = Finished(p)
    /\ Return(p)
    /\ UNCHANGED <<pollTime, client>>

\* A process is killed, or its call is dropped or cannot save: the reservation
\* stays, the lock is released.
Abandon(p) ==
    /\ pollLock = p /\ pollFaults < MaxPollFaults /\ pollFaults' = pollFaults + 1
    /\ Return(p)
    /\ UNCHANGED <<pollTime, poll, liveToken, liveName, changing, changes>>

-----------------------------------------------------------------------------
(* Claude Code and swaps                                                   *)

Busy == {p \in Pollers : pollAt[p] # "Idle"}

ChangeBegins ==
    /\ changing = NoOne /\ changes < MaxChanges /\ changes' = changes + 1
    /\ \E o \in Owners \ {liveName} : liveToken' = [of |-> o, ver |-> 1] /\ changing' = o
    /\ doubtful' = IF changes > 0 THEN doubtful \cup Busy ELSE doubtful
    /\ UNCHANGED <<pollTime, poll, pollLock, pollAt, token, asked, liveName, pollFaults>>

\* Written, which a query in flight notices, or rolled back, which it cannot.
ChangeEnds ==
    /\ changing # NoOne /\ changing' = NoOne
    /\ \/ /\ liveName' = changing /\ UNCHANGED liveToken
          /\ doubtful' = IF changes = 1 THEN {} ELSE doubtful
       \/ liveToken' = [of |-> liveName, ver |-> 1] /\ UNCHANGED <<liveName, doubtful>>
    /\ UNCHANGED <<pollTime, poll, pollLock, pollAt, token, asked, changes, pollFaults>>

Rotates ==
    /\ changing = NoOne /\ liveToken.ver < MaxVersions
    /\ liveToken' = [liveToken EXCEPT !.ver = @ + 1]
    /\ UNCHANGED <<pollTime, poll, pollLock, pollAt, token, asked, liveName, changing, changes,
                   pollFaults, doubtful>>

PollTick ==
    /\ pollTime < MaxPollTime /\ pollTime' = pollTime + 1
    /\ UNCHANGED <<poll, pollLock, pollAt, token, asked, client, doubtful>>

Polls(p) ==
    \/ Query(p) \/ ReadToken(p) \/ BeginPoll(p) \/ Before(p) \/ Ask(p) \/ Finish(p) \/ Abandon(p)

Next == (\E p \in Pollers : Polls(p)) \/ ChangeBegins \/ ChangeEnds \/ Rotates \/ PollTick

Spec == Init /\ [][Next]_pollVars

-----------------------------------------------------------------------------
(* Properties                                                              *)

AnswerIsOurs ==
    \A p \in Pollers : Finish(p) /\ Outcome(p) = "ok" /\ p \notin doubtful => poll'.owner = Us

\* What the record and its lock file mean to RequestPace.
Barred == IF poll.failed = Nothing \/ poll.limited THEN Token ELSE {poll.failed}
Asking == IF pollLock = NoOne THEN Nothing ELSE token[pollLock]
Said == IF pollLock = NoOne THEN 0 ELSE asked[pollLock].retry

Pace == INSTANCE RequestPace WITH
    Credentials <- Token, NoCredential <- Nothing, Pause <- Backoff,
    LimitPause <- LimitBackoff, Waits <- RetryAfter,
    time <- pollTime, until <- poll.next, barred <- Barred, failures <- poll.failures,
    asking <- Asking, said <- Said

\* Whoever asks, after whatever restarts: not before the instant that the last
\* answer allows.  A 429 binds every credential, for as long as it says; any
\* other failure the credential the call began with, for a time that doubles;
\* a request that nobody lived to answer everybody for one interval
\* (usage_poll.rs: saved before the request; 429 is for the account).
KeepsThePace == Pace!Spec

\* The reading kept for an account was asked for with its own credential,
\* though token and name are read apart: a swap in between is noticed, even one
\* that was half written when the token was read, unless it is not finished
\* when the answer has come, is rolled back, or is followed by another one
\* (lib.rs: the account is compared before and after the request).
UsageIsOurs == [][AnswerIsOurs]_pollVars

\* A call about the account that was signed in when it began.
AsLive(p) == pollAt[p] # "Idle" /\ asked[p].live

\* Its token is of the account, or another one is signed in now: if that is
\* followed by a swap back, it is the second one.
TokenIsOurs(p) ==
    /\ pollAt[p] = "Token" => asked[p].live
    /\ pollAt[p] \in {"Begin", "Before", "Ask", "Finish"} /\ token[p].of # Us =>
          asked[p].live /\ (p \in doubtful \/ liveName # Us)
SwapsNoticed ==
    /\ liveToken.of = IF changing = NoOne THEN liveName ELSE changing
    /\ changing # NoOne => changes > 0
    /\ changing = Us => \A p \in Pollers : AsLive(p) => p \in doubtful
    /\ liveName # Us /\ (changes = 0 \/ (changes = 1 /\ changing = Us)) =>
          \A p \in Pollers : ~AsLive(p)
TokensAreOurs == SwapsNoticed /\ \A p \in Pollers : TokenIsOurs(p)
=============================================================================
