------------------------------ MODULE RequestPace ------------------------------
(***************************************************************************)
(* What the usage query of a Claude account promises to the server, whoever *)
(* asks and however often a process dies: one request at a time, and after  *)
(* each a time in which there is none.  ClaudeUsage implements it with a    *)
(* record on disk and a lock file.                                          *)
(***************************************************************************)
EXTENDS Naturals

CONSTANTS
    Credentials, NoCredential,
    Interval,        \* between two requests, if nothing fails
    Pause(_),        \* after so many failures in a row
    LimitPause,      \* at least, after the server has refused for the rate
    Waits,           \* what the server may ask for
    MaxFailures

VARIABLES
    time,
    until, barred,   \* which credentials are not to be used before when
    failures,        \* in a row
    asking,          \* the credential of the request that is under way
    said             \* when the server wants to be asked again

paceVars == <<time, until, barred, failures, asking, said>>

Init ==
    /\ time = 0 /\ until = 0 /\ barred = Credentials /\ failures = 0
    /\ asking = NoCredential /\ said = 0

Later(a, b) == IF a > b THEN a ELSE b
OneMore == IF failures < MaxFailures THEN failures + 1 ELSE MaxFailures

Tick == time' = time + 1 /\ UNCHANGED <<until, barred, failures, asking, said>>

\* From here on nobody asks for an interval, though no answer comes.
Reserve(c) ==
    /\ asking = NoCredential /\ asking' = c
    /\ until <= time \/ c \notin barred
    /\ until' = time + Interval /\ barred' = Credentials
    /\ UNCHANGED <<time, failures, said>>

Hear ==
    /\ asking # NoCredential
    /\ \E w \in Waits : said' = time + w
    /\ UNCHANGED <<time, until, barred, failures, asking>>

Over == asking # NoCredential /\ asking' = NoCredential /\ said' = 0 /\ UNCHANGED time

Succeed == Over /\ until' = time + Interval /\ barred' = Credentials /\ failures' = 0

\* Another credential may do better.
Fail == Over /\ until' = time + Pause(OneMore) /\ barred' = {asking} /\ failures' = OneMore

\* Another credential will not.
Refused ==
    /\ Over
    /\ until' = Later(time + Later(Pause(OneMore), LimitPause), said)
    /\ barred' = Credentials /\ failures' = OneMore

GiveUp == Over /\ UNCHANGED <<until, barred, failures>>

Next ==
    \/ Tick \/ Hear \/ Succeed \/ Fail \/ Refused \/ GiveUp
    \/ \E c \in Credentials \ {NoCredential} : Reserve(c)

Spec == Init /\ [][Next]_paceVars
=============================================================================
