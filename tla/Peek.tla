-------------------------------- MODULE Peek --------------------------------
(***************************************************************************)
(* The public scan: api/peek/routes.py, limits.py and the fetch of         *)
(* service.py.  Nobody is signed in, so two Redis counters, one per        *)
(* visitor's address and one for everybody, are all that bounds it.  Each  *)
(* command of a claim is a step of its own, and a claim may die between    *)
(* any two of them.                                                        *)
(***************************************************************************)
EXTENDS Integers

CONSTANTS
    Addresses, Scans,           \* visitors' addresses, requests being served
    PerIp, PerIpWindow, Global, GlobalWindow,
    MaxRedirects,
    LastSecond                  \* how long the endpoint is watched for (bound)

All == "everybody"
Counters == Addresses \cup {All}
Limit(k) == IF k = All THEN Global ELSE PerIp
WindowOf(k) == IF k = All THEN GlobalWindow ELSE PerIpWindow
NoExpiry == -1

ASSUME PeekAssumption ==
    /\ {PerIp, PerIpWindow, Global, GlobalWindow} \subseteq Nat \ {0}
    /\ MaxRedirects \in Nat /\ LastSecond \in Nat /\ All \notin Addresses

VARIABLES
    second,
    used, expires,  \* the counters in Redis, and when each goes
    scanning,       \* each request: where it is, whose, how many hops it may still take
    granted,        \* history: how much each counter has granted in all,
    grantedBefore   \* and how much of it before each second

peekVars == <<second, used, expires, scanning, granted, grantedBefore>>

Quiet == [pc |-> "quiet", key |-> All, ip |-> All, reply |-> 0, hops |-> 0]

PeekInit ==
    /\ second = 0
    /\ used = [k \in Counters |-> 0] /\ expires = [k \in Counters |-> NoExpiry]
    /\ scanning = [s \in Scans |-> Quiet]
    /\ granted = [k \in Counters |-> 0]
    /\ grantedBefore = [k \in Counters |-> [t \in 0..LastSecond |-> 0]]

Is(s, pc) == scanning[s].pc = pc

-----------------------------------------------------------------------------
(* claim.                                                                   *)

\* The address is read behind the proxy; its counter comes first.
AskForScan(s, a) ==
    /\ Is(s, "quiet")
    /\ scanning' = [scanning EXCEPT ![s] = [Quiet EXCEPT !.pc = "counting", !.key = a, !.ip = a]]
    /\ UNCHANGED <<second, used, expires, granted, grantedBefore>>

\* MUTANT: the limit itself is let through once more.
TooMany_OffByOne(k, reply) == reply > Limit(k) + 1

TooMany(k, reply) == reply > Limit(k)

\* How far above its limit a counter is makes no difference: it is kept at two above.
Increment(s) ==
    /\ Is(s, "counting")
    /\ LET k == scanning[s].key
           n == IF used[k] > Limit(k) + 1 THEN used[k] ELSE used[k] + 1
       IN  /\ used' = [used EXCEPT ![k] = n]
           /\ granted' = IF TooMany(k, n) THEN granted
                         ELSE [granted EXCEPT ![k] = @ + 1]
           /\ scanning' = [scanning EXCEPT ![s] =
                  [@ EXCEPT !.reply = n, !.pc = IF n = 1 THEN "expiring" ELSE "judged"]]
    /\ UNCHANGED <<second, expires, grantedBefore>>

\* Only the first of a window sets the expiry; EXPIRE of a missing key does nothing.
Expire(s) ==
    /\ Is(s, "expiring")
    /\ LET k == scanning[s].key
       IN  expires' = [expires EXCEPT ![k] = IF used[k] > 0 THEN second + WindowOf(k) ELSE @]
    /\ scanning' = [scanning EXCEPT ![s].pc = "judged"]
    /\ UNCHANGED <<second, used, granted, grantedBefore>>

Refused(s) == TooMany(scanning[s].key, scanning[s].reply)

TurnAway(s) ==
    /\ Is(s, "judged") /\ Refused(s)
    /\ scanning' = [scanning EXCEPT ![s] = Quiet]
    /\ UNCHANGED <<second, used, expires, granted, grantedBefore>>

CountEverybody(s) ==
    /\ Is(s, "judged") /\ ~ Refused(s) /\ scanning[s].key # All
    /\ scanning' = [scanning EXCEPT ![s] = [@ EXCEPT !.pc = "counting", !.key = All]]
    /\ UNCHANGED <<second, used, expires, granted, grantedBefore>>

-----------------------------------------------------------------------------
(* The scan.                                                                *)

Begin(s) ==
    /\ Is(s, "judged") /\ ~ Refused(s) /\ scanning[s].key = All
    /\ scanning' = [scanning EXCEPT ![s] = [@ EXCEPT !.pc = "fetching", !.hops = MaxRedirects]]
    /\ UNCHANGED <<second, used, expires, granted, grantedBefore>>

\* Every hop is checked again, before it is asked for and before its body is read.
Redirected(s) ==
    /\ Is(s, "fetching") /\ scanning[s].hops > 0
    /\ scanning' = [scanning EXCEPT ![s].hops = @ - 1]
    /\ UNCHANGED <<second, used, expires, granted, grantedBefore>>

\* An answer, a refused address, too many redirects, a Redis error, a dropped request:
\* nothing of it is kept, and nothing that was counted is given back.
EndScan(s) ==
    /\ ~ Is(s, "quiet")
    /\ scanning' = [scanning EXCEPT ![s] = Quiet]
    /\ UNCHANGED <<second, used, expires, granted, grantedBefore>>

\* A second goes by, and with it the keys whose time has come.
Second ==
    /\ second < LastSecond
    /\ second' = second + 1
    /\ used' = [k \in Counters |-> IF expires[k] = second' THEN 0 ELSE used[k]]
    /\ expires' = [k \in Counters |-> IF expires[k] = second' THEN NoExpiry ELSE expires[k]]
    /\ grantedBefore' = [k \in Counters |-> [grantedBefore[k] EXCEPT ![second'] = granted[k]]]
    /\ UNCHANGED <<scanning, granted>>

PeekNext ==
    \/ \E s \in Scans :
           \/ \E a \in Addresses : AskForScan(s, a)
           \/ Increment(s) \/ Expire(s) \/ TurnAway(s) \/ CountEverybody(s)
           \/ Begin(s) \/ Redirected(s) \/ EndScan(s)
    \/ Second

PeekSpec == PeekInit /\ [][PeekNext]_peekVars

-----------------------------------------------------------------------------
PeekTypeOK ==
    /\ second \in 0..LastSecond
    /\ used \in [Counters -> Nat] /\ expires \in [Counters -> {NoExpiry} \cup Nat]
    /\ \A s \in Scans :
           /\ scanning[s].pc \in {"quiet", "counting", "expiring", "judged", "fetching"}
           /\ scanning[s].hops \in 0..MaxRedirects
    /\ granted \in [Counters -> Nat] /\ grantedBefore \in [Counters -> [0..LastSecond -> Nat]]

GrantedSince(k, t) == granted[k] - grantedBefore[k][t]

\* What limits.py can promise of its ceiling: the windows are fixed ones, so no span as
\* long as a window is ever granted more than two windows' worth of scans, for one visitor
\* or for everybody, however requests interleave and whichever of them die half way.
PeekBounded ==
    \A k \in Counters, t \in 0..second :
        t > second - WindowOf(k) => GrantedSince(k, t) <= 2 * Limit(k)
=============================================================================
