--------------------------- MODULE AntigravityQuota ---------------------------
(***************************************************************************)
(* One quota query of Antigravity (providers/antigravity/src/quota.rs).    *)
(* Each endpoint may answer with some of the quota groups, and each may    *)
(* throttle, deny or fail: the groups are merged, a missing Gemini pool is *)
(* filled in from the list of models, and what remains decides whether the *)
(* account has quotas, is throttled, or needs a new login.                 *)
(*                                                                         *)
(* A bucket says what is left, of Whole, or nothing about it; of the list  *)
(* of models the smallest rest of each family counts.                      *)
(***************************************************************************)
EXTENDS Integers, FiniteSets

CONSTANTS
    Bases,     \* how many endpoints are tried
    Buckets,   \* the buckets they may list
    Models,    \* the models they may list, with what is left of each
    Whole, Unsaid

QuotaQueryAssumption ==
    /\ Bases \in Nat \ {0} /\ Whole \in Nat \ {0}
    /\ Buckets \subseteq [group : STRING, id : STRING, weekly : BOOLEAN, disabled : BOOLEAN,
                          resets : BOOLEAN, left : (0 .. Whole) \cup {Unsaid}]
    /\ Models \subseteq [family : {"Gemini", "Claude", "other"}, left : 0 .. Whole]

VARIABLES
    querying,   \* the stage of the query
    base,       \* the endpoint it turns to
    merged,     \* the buckets it has, and of which endpoint
    groups,     \* the groups it knows
    throttled,  \* an endpoint answered 429
    status,     \* the last answer: "none" before the first
    result,     \* what it returns
    \* History, read by properties only:
    listed,     \* the buckets of each endpoint
    answers     \* the answers to all requests

quotaQueryVars == <<querying, base, merged, groups, throttled, status, result, listed, answers>>

Statuses == {"ok", "junk", "throttled", "denied", "failed", "unreachable"}
Quotas == [group : {k.group : k \in Buckets} \cup {"Gemini", "Claude"},
           id : {k.id : k \in Buckets} \cup {"models"}, used : 0 .. Whole]
Pending == [kind |-> "pending", quotas |-> {}]
Limited == [kind |-> "limited", quotas |-> {}]
Relogin == [kind |-> "relogin", quotas |-> {}]
Found(quotas) == [kind |-> "ok", quotas |-> quotas]

Init ==
    /\ querying = "summary" /\ base = 1 /\ merged = {} /\ groups = {}
    /\ throttled = FALSE /\ status = "none" /\ result = Pending
    /\ listed = [b \in 1 .. Bases |-> {}] /\ answers = {}

\* A bucket without a number is used up if it has a reset to come.
Left(bucket) ==
    IF bucket.left # Unsaid THEN bucket.left
    ELSE IF bucket.resets /\ ~bucket.disabled THEN 0 ELSE Unsaid

\* A disabled weekly bucket does not count.
QuotasOf(bucket) ==
    IF (bucket.disabled /\ bucket.weekly) \/ Left(bucket) = Unsaid THEN {}
    ELSE {[group |-> bucket.group, id |-> bucket.id, used |-> Whole - Left(bucket)]}
Summary(buckets) == UNION {QuotasOf(m.bucket) : m \in buckets}

\* The smallest rest of each family.
Pools(models) ==
    {[group |-> f, id |-> "models",
      used |-> Whole - (CHOOSE n \in 0 .. Whole : \E m \in models : m = [family |-> f, left |-> n]
                          /\ \A k \in models : k.family = f => n <= k.left)]
       : f \in {"Gemini", "Claude"} \cap {m.family : m \in models}}

\* Mutant of Merge: whatever comes later is added as well.
MergeAll(old, b, buckets) == old \cup {[bucket |-> k, from |-> b] : k \in buckets}

\* The first endpoint that lists a bucket wins.
Merge(old, b, buckets) ==
    old \cup {[bucket |-> k, from |-> b] : k \in
        {k \in buckets : \A m \in old : <<m.bucket.group, m.bucket.id>> # <<k.group, k.id>>}}

Return(r) == querying' = "done" /\ result' = r
Try(s, first) == querying' = s /\ base' = first

\* An endpoint lists each bucket once.
Answer(buckets) == \A k, l \in buckets : <<k.group, k.id>> = <<l.group, l.id>> => k = l

\* One endpoint's summary: anything but groups sends the query to the next.
AskSummary ==
    /\ querying = "summary"
    /\ \E s \in Statuses, buckets \in {k \in SUBSET Buckets : Answer(k)} :
          /\ s = "ok" \/ buckets = {}
          /\ merged' = Merge(merged, base, buckets)
          /\ groups' = groups \cup {k.group : k \in buckets}
          /\ status' = IF s = "unreachable" THEN status ELSE s
          /\ throttled' = (throttled \/ s = "throttled")
          /\ listed' = [listed EXCEPT ![base] = buckets]
          /\ answers' = answers \cup {s}
    /\ IF base < Bases THEN Try("summary", base + 1)
       ELSE IF Summary(merged') = {} THEN Try("models", 1)
       ELSE IF "Gemini" \notin groups' THEN Try("gap", 1)
       ELSE Try("found", 1)
    /\ UNCHANGED result

Summarised == UNCHANGED <<merged, groups, throttled, status, listed>>
NextBase(s, last) ==
    IF base < Bases THEN Try(s, base + 1) /\ UNCHANGED result
    ELSE Return(last) /\ UNCHANGED base

ReturnFound ==
    /\ querying = "found" /\ Return(Found(Summary(merged)))
    /\ Summarised /\ UNCHANGED <<base, answers>>

\* Only the Gemini pool is taken from the models.
FillGap ==
    /\ querying = "gap"
    /\ \E s \in Statuses, models \in SUBSET Models :
          /\ s = "ok" \/ models = {}
          /\ answers' = answers \cup {s}
          /\ CASE s \in {"ok", "junk"} ->
                    /\ Return(Found(Summary(merged) \cup
                                    {q \in Pools(models) : q.group = "Gemini"}))
                    /\ UNCHANGED base
               [] s = "throttled" -> Return(Limited) /\ UNCHANGED base
               [] OTHER -> NextBase("gap", Found(Summary(merged)))
    /\ Summarised

\* Mutant of Verdict: the last answer first.
VerdictOfLast ==
    IF status = "denied" THEN Relogin
    ELSE IF throttled THEN Limited ELSE Found({})

\* Without any quota: throttled if an endpoint was, denied if the last one was.
Verdict ==
    IF throttled THEN Limited
    ELSE IF status = "denied" THEN Relogin ELSE Found({})

AskModels ==
    /\ querying = "models"
    /\ \E s \in Statuses, models \in SUBSET Models :
          /\ s = "ok" \/ models = {}
          /\ answers' = answers \cup {s}
          /\ CASE Pools(models) # {} -> Return(Found(Pools(models))) /\ UNCHANGED base
               [] s = "throttled" -> Return(Limited) /\ UNCHANGED base
               [] OTHER -> NextBase("models", Verdict)
    /\ Summarised

Next == AskSummary \/ ReturnFound \/ FillGap \/ AskModels

Spec == Init /\ [][Next]_quotaQueryVars

-----------------------------------------------------------------------------
(* Properties                                                              *)

QuotaQueryTypeOK ==
    /\ querying \in {"summary", "found", "gap", "models", "done"} /\ base \in 1 .. Bases
    /\ merged \subseteq [bucket : Buckets, from : 1 .. Bases]
    /\ groups \subseteq {k.group : k \in Buckets}
    /\ throttled \in BOOLEAN /\ status \in Statuses \cup {"none"}
    /\ result \in [kind : {"ok", "limited", "relogin"}, quotas : SUBSET Quotas] \cup {Pending}
    /\ listed \in [1 .. Bases -> SUBSET Buckets] /\ answers \subseteq Statuses

\* What the endpoints say first of each bucket.
SaidFirst ==
    UNION {{k \in listed[b] : \A c \in 1 .. b - 1 : \A l \in listed[c] :
                                 <<l.group, l.id>> # <<k.group, k.id>>} : b \in 1 .. Bases}

\* What is merged so far: of each bucket what the first endpoint said.
Key(k) == <<k.group, k.id>>
MergedKept ==
    /\ \A m \in merged :
          /\ m.bucket \in listed[m.from]
          /\ \A b \in 1 .. m.from - 1 : \A l \in listed[b] : Key(l) # Key(m.bucket)
    /\ \A b \in 1 .. Bases : \A k \in listed[b] :
          /\ k.group \in groups /\ \E m \in merged : Key(m.bucket) = Key(k)
          /\ \A l \in listed[b] : Key(l) = Key(k) => l = k
    /\ querying = "summary" => \A b \in base .. Bases : listed[b] = {}

\* What is known of the answers while the query goes on.
AnswersKept ==
    /\ querying # "done" => result = Pending /\ (throttled <=> "throttled" \in answers)
    /\ status = "denied" => "denied" \in answers
    /\ querying \in {"found", "gap"} => Summary(merged) # {}
    /\ querying = "gap" => "Gemini" \notin groups
    /\ querying = "models" => Summary(merged) = {}

\* A throttled account is never reported as one that needs a new login, nor as
\* one without quotas; each bucket is reported once, as the first endpoint said,
\* and none that an endpoint gave is left out.
AnswerFits ==
    /\ result.kind = "relogin" => "throttled" \notin answers /\ "denied" \in answers
    /\ result.kind = "limited" => "throttled" \in answers
    /\ result.kind = "ok" =>
          /\ UNION {QuotasOf(k) : k \in SaidFirst} \subseteq result.quotas
          /\ \A q, r \in result.quotas : <<q.group, q.id>> = <<r.group, r.id>> => q = r
          /\ result.quotas = {} => "throttled" \notin answers
=============================================================================
