------------------------------ MODULE Fetching ------------------------------
(***************************************************************************)
(* How one crawl asks for what it reads: the limiter of                    *)
(* api/crawler/politeness.py, fetch.py, robots.py, the sitemaps of         *)
(* sitemaps.py and _seed and _read_sitemaps of runner.py.  The order of    *)
(* the pages is Crawl's; here a page is any page of the website, and what  *)
(* matters is when its host is asked for it.                               *)
(***************************************************************************)
EXTENDS Integers, SequencesExt

CONSTANTS
    Hosts, Origin,          \* hosts by name, and the one the crawl was asked for
    Covered,                \* those ScopeRule covers: the origin with and without www
    Robots,                 \* [delay, maps, blocks]: the files the origin may serve
    Conventional,           \* where sitemaps are looked for when robots.txt names none
    Maps,                   \* sitemap -> [host, index, maps, pages]
    DefaultDelay, MaxDelay, \* 1 and 30 seconds in the code
    Hints, NoHint, MaxHint, \* what Retry-After asks, what is taken without it, the most obeyed
    MaxSitemapFiles, MaxUrls,
    LastInstant             \* how long the crawl is watched for (bound)

Unasked == -1        \* an answer that is neither 429 nor 503, or none at all
NoFile == [delay |-> DefaultDelay, maps |-> <<>>, blocks |-> FALSE]

ASSUME FetchingAssumption ==
    /\ {DefaultDelay, MaxDelay, NoHint, MaxHint, MaxSitemapFiles, MaxUrls, LastInstant} \subseteq Nat
    /\ DefaultDelay <= MaxDelay /\ Hints \subseteq Nat
    /\ Origin \in Covered /\ Covered \subseteq Hosts /\ Unasked \notin Hints
    /\ Conventional \in Seq(DOMAIN Maps)
    /\ \A r \in Robots : DOMAIN r = DOMAIN NoFile /\ r.delay \in Nat /\ r.maps \in Seq(DOMAIN Maps)
    /\ \A m \in DOMAIN Maps : Maps[m].host \in Hosts /\ Maps[m].maps \in Seq(DOMAIN Maps)

VARIABLES
    instant,                    \* time.monotonic()
    delays, nextAllowed,        \* the limiter, by host
    stage, robots,              \* what the crawl is doing, and the policy it read
    request,                    \* the fetch under way
    sitemaps, readMaps, seeds,  \* the queue of _read_sitemaps, what it saw, what it queued
    quietUntil                  \* history: when each host may be asked again

fetchingVars == <<instant, delays, nextAllowed, stage, robots, request,
                  sitemaps, readMaps, seeds, quietUntil>>

NoRequest == [pc |-> "none", host |-> Origin, of |-> "none", sent |-> 0]

\* The most delay a robots.txt can ask for, and the least.
Clamp(delay) == IF delay < DefaultDelay THEN DefaultDelay
                ELSE IF delay > MaxDelay THEN MaxDelay ELSE delay

\* parse_robots: no file, an error or an unreachable host is a file without rules.
Policies == {NoFile} \cup {[r EXCEPT !.delay = Clamp(r.delay)] : r \in Robots}

FetchingInit ==
    /\ instant = 0
    /\ delays = [h \in Hosts |-> DefaultDelay] /\ nextAllowed = [h \in Hosts |-> 0]
    /\ stage = "robots" /\ robots = NoFile
    /\ request = NoRequest
    /\ sitemaps = <<>> /\ readMaps = {} /\ seeds = {}
    /\ quietUntil = [h \in Hosts |-> 0]

-----------------------------------------------------------------------------
(* HostLimiter and Fetcher.fetch.                                           *)

Acquire(h, of) ==
    /\ request = NoRequest
    /\ request' = [pc |-> "waiting", host |-> h, of |-> of, sent |-> 0]

\* The sleep of acquire ends.
Send ==
    /\ request.pc = "waiting" /\ instant >= nextAllowed[request.host]
    /\ request' = [request EXCEPT !.pc = "sent", !.sent = instant]
    /\ UNCHANGED <<instant, delays, nextAllowed, stage, robots, sitemaps, readMaps, seeds, quietUntil>>

\* What a 429 or a 503 asks for is obeyed up to five minutes.
Wait(hint) == IF hint > MaxHint THEN MaxHint ELSE hint

\* MUTANT: back_off sets the next instant and not the delay.
BackedOff_Once(h, hint) == delays[h]

BackedOff(h, hint) ==
    IF hint = Unasked \/ Wait(hint) <= delays[h] THEN delays[h] ELSE Wait(hint)

\* release comes last and writes the next instant over back_off's.
Heard(hint) ==
    /\ request.pc = "sent"
    /\ LET h == request.host
           asked == IF hint = Unasked THEN 0 ELSE Wait(hint)
           rests == IF stage = "pages" /\ h = Origin THEN robots.delay ELSE DefaultDelay
       IN  /\ delays' = [delays EXCEPT ![h] = BackedOff(h, hint)]
           /\ nextAllowed' = [nextAllowed EXCEPT ![h] = instant + delays'[h]]
           /\ quietUntil' = [quietUntil EXCEPT ![h] = instant + IF asked > rests THEN asked ELSE rests]
    /\ request' = NoRequest
    /\ UNCHANGED instant

Answers == {Unasked, NoHint} \cup Hints

-----------------------------------------------------------------------------
(* _seed.                                                                   *)

AskRobots ==
    /\ stage = "robots" /\ Acquire(Origin, "robots")
    /\ UNCHANGED <<instant, delays, nextAllowed, stage, robots, sitemaps, readMaps, seeds, quietUntil>>

\* With an error status there are no rules; the first of the candidates are queued.
ReadRobots(hint) ==
    /\ request.of = "robots" /\ Heard(hint)
    /\ robots' \in IF hint = Unasked THEN Policies ELSE {NoFile}
    /\ LET candidates == IF robots'.maps = <<>> THEN Conventional ELSE robots'.maps
       IN  sitemaps' = IF Len(candidates) <= MaxSitemapFiles THEN candidates
                       ELSE SubSeq(candidates, 1, MaxSitemapFiles)
    /\ stage' = "sitemaps"
    /\ UNCHANGED <<readMaps, seeds>>

Enough == Cardinality(readMaps) >= MaxSitemapFiles \/ Cardinality(seeds) >= MaxUrls

\* A sitemap may be of any host; one that was read is passed over.
AskSitemap ==
    /\ stage = "sitemaps" /\ sitemaps # <<>> /\ ~ Enough
    /\ IF Head(sitemaps) \in readMaps
       THEN request = NoRequest /\ UNCHANGED <<request, readMaps>>
       ELSE /\ Acquire(Maps[Head(sitemaps)].host, Head(sitemaps))
            /\ readMaps' = readMaps \cup {Head(sitemaps)}
    /\ sitemaps' = Tail(sitemaps)
    /\ UNCHANGED <<instant, delays, nextAllowed, stage, robots, seeds, quietUntil>>

\* A page is queued when it is of the website and not a trap (urls.py).
Seedable(page) == page.host \in Covered /\ ~ page.trap

\* An index lengthens the queue, a sitemap adds seeds, an error neither.
ReadSitemap(hint) ==
    /\ request.of \in DOMAIN Maps /\ Heard(hint)
    /\ LET file == Maps[request.of]
       IN  IF hint # Unasked THEN UNCHANGED <<sitemaps, seeds>>
           ELSE IF file.index THEN sitemaps' = sitemaps \o file.maps /\ UNCHANGED seeds
           ELSE seeds' = seeds \cup {p \in file.pages : Seedable(p)} /\ UNCHANGED sitemaps
    /\ UNCHANGED <<stage, robots, readMaps>>

\* set_delay is for the origin alone, and forgets what it backed off to.
SetDelay(policy) == [delays EXCEPT ![Origin] = policy.delay]

\* Robots that block everything are obeyed after the sitemaps have been read.
EndSeeding ==
    /\ stage = "sitemaps" /\ request = NoRequest
    /\ sitemaps = <<>> \/ Enough
    /\ stage' = IF robots.blocks THEN "over" ELSE "pages"
    /\ delays' = IF robots.blocks THEN delays ELSE SetDelay(robots)
    /\ UNCHANGED <<instant, nextAllowed, robots, request, sitemaps, readMaps, seeds, quietUntil>>

-----------------------------------------------------------------------------
(* The pages.                                                               *)

AskPage(h) ==
    /\ stage = "pages" /\ Acquire(h, "page")
    /\ UNCHANGED <<instant, delays, nextAllowed, stage, robots, sitemaps, readMaps, seeds, quietUntil>>

ReadPage(hint) ==
    /\ request.of = "page" /\ Heard(hint)
    /\ UNCHANGED <<stage, robots, sitemaps, readMaps, seeds>>

Instant ==
    /\ instant < LastInstant
    /\ instant' = instant + 1
    /\ UNCHANGED <<delays, nextAllowed, stage, robots, request, sitemaps, readMaps, seeds, quietUntil>>

FetchingNext ==
    \/ AskRobots \/ AskSitemap \/ EndSeeding \/ Send \/ Instant
    \/ \E h \in Covered : AskPage(h)
    \/ \E hint \in Answers : ReadRobots(hint) \/ ReadSitemap(hint) \/ ReadPage(hint)

FetchingSpec == FetchingInit /\ [][FetchingNext]_fetchingVars

-----------------------------------------------------------------------------
FetchingTypeOK ==
    /\ instant \in 0..LastInstant
    /\ delays \in [Hosts -> Nat] /\ nextAllowed \in [Hosts -> Nat]
    /\ stage \in {"robots", "sitemaps", "pages", "over"} /\ robots \in Policies
    /\ request.pc \in {"none", "waiting", "sent"} /\ request.host \in Hosts
    /\ ToSet(sitemaps) \subseteq DOMAIN Maps /\ readMaps \subseteq DOMAIN Maps
    /\ \A p \in seeds : Seedable(p)
    /\ quietUntil \in [Hosts -> Nat]

\* A site that goes down because we audited it is not a site that renews (politeness.py):
\* a host is not asked again before the delay since its last answer is over, nor, when
\* that answer was a 429 or a 503, before the time it asked for, whatever sets the delay
\* in between (back_off, the release after it, the set_delay after the seeding).
HostsRest == request.pc = "sent" => request.sent >= quietUntil[request.host]
=============================================================================
