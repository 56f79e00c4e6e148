-------------------------------- MODULE Crawl --------------------------------
(***************************************************************************)
(* One crawl of one website: api/crawler/runner.py over the frontier of    *)
(* api/crawler/frontier.py, as the job crawl_website (api/workers/jobs.py) *)
(* runs it: one runner per crawl, which makes the crawls row itself.       *)
(*                                                                         *)
(* Every statement commits on its own, so a runner that dies leaves what   *)
(* it had written.  Around it the web answers or fails as it likes, and    *)
(* the permission to crawl comes and goes.                                 *)
(***************************************************************************)
EXTENDS Integers, FiniteSets

CONSTANTS
    Pages,          \* the URLs in scope, normalised
    Home,
    Sites,          \* the websites there may be: see SitesAssumption
    BatchSize,      \* how many pages one lease takes
    NoPage

ASSUME PagesAssumption == Home \in Pages /\ NoPage \notin Pages /\ IsFiniteSet(Pages)
ASSUME SitesAssumption ==
    Sites \subseteq [links : [Pages -> SUBSET Pages], sitemap : SUBSET Pages,
                     disallowed : SUBSET Pages, max_pages : Nat]
ASSUME BatchAssumption == BatchSize \in Nat \ {0}

Attempts == 3       \* the attempts a page is given (Frontier.fail)

VARIABLES
    site,           \* the website and its max_pages_per_crawl, which stay as they are
    allowed,        \* what _permission_refusal would find
    crawl,          \* crawls.status
    recorded,       \* summary.stopped_reason, which _finish writes to the row
    state, depth, attempts,     \* crawl_frontier; `unknown' is no row
    snapshots,      \* how many page_snapshots the crawl has of each page
    pc, robots, batch, page, fetched    \* the runner

rowVars    == <<crawl, recorded>>
frontier   == <<state, depth, attempts>>
runnerVars == <<pc, robots, batch, page, fetched>>
vars == <<site, allowed, rowVars, frontier, snapshots, runnerVars>>

In(s) == {p \in Pages : state[p] = s}

Final == {"done", "failed", "skipped"}

Init ==
    /\ site \in Sites
    /\ allowed \in BOOLEAN
    /\ crawl = "queued"
    /\ recorded = "nothing"
    /\ state = [p \in Pages |-> "unknown"]
    /\ depth = [p \in Pages |-> 0]
    /\ attempts = [p \in Pages |-> 0]
    /\ snapshots = [p \in Pages |-> 0]
    /\ pc = "gate"
    /\ robots = {}
    /\ batch = {}
    /\ page = NoPage
    /\ fetched = 0

-----------------------------------------------------------------------------
(* The frontier.                                                            *)

\* MUTANT: on conflict do update, which queues a page each time it is linked.
Add_Upsert(S, d) ==
    /\ state' = [p \in Pages |-> IF p \in S THEN "pending" ELSE state[p]]
    /\ depth' = [p \in Pages |-> IF p \in S THEN d ELSE depth[p]]
    /\ UNCHANGED attempts

\* MUTANT: no more pages queued than the cap allows to visit.
Add_UpToCap(S, d) ==
    LET new == IF Cardinality(Pages \ In("unknown")) < site.max_pages
               THEN S \cap In("unknown") ELSE {}
    IN  /\ state' = [p \in Pages |-> IF p \in new THEN "pending" ELSE state[p]]
        /\ depth' = [p \in Pages |-> IF p \in new THEN d ELSE depth[p]]
        /\ UNCHANGED attempts

\* insert ... on conflict do nothing: a page linked from many is queued once.
Add(S, d) ==
    LET new == S \cap In("unknown")
    IN  /\ state' = [p \in Pages |-> IF p \in new THEN "pending" ELSE state[p]]
        /\ depth' = [p \in Pages |-> IF p \in new THEN d ELSE depth[p]]
        /\ UNCHANGED attempts

Mark(p, s) == state' = [state EXCEPT ![p] = s] /\ UNCHANGED <<depth, attempts>>

\* The shallowest pending pages, as many as the limit takes.
Front(S) ==
    /\ S \subseteq In("pending")
    /\ Cardinality(S) <= BatchSize
    /\ S # In("pending") => Cardinality(S) = BatchSize
    /\ \A p \in S, q \in In("pending") \ S : depth[p] <= depth[q]

\* MUTANT: retrying whatever the number of attempts.
AfterFailure_ForEver(p) == "pending"

\* MUTANT: an attempt counted twice.
AfterFailure_TooSoon(p) == IF attempts[p] + 1 < Attempts THEN "pending" ELSE "failed"

AfterFailure(p) == IF attempts[p] < Attempts THEN "pending" ELSE "failed"

-----------------------------------------------------------------------------
(* Before the first page.                                                   *)

Goto(from, to) == pc = from /\ pc' = to

\* _finish, and the return of run: the row gets its status and its summary.
Finish(status, reason) ==
    /\ crawl' = status
    /\ recorded' = reason
    /\ pc' = "ended"
    /\ batch' = {}
    /\ UNCHANGED <<site, allowed, frontier, snapshots, robots, page, fetched>>

\* The second gate: the permission is read again, not trusted from admission.
PassGate ==
    /\ Goto("gate", "starting")
    /\ allowed
    /\ UNCHANGED <<site, allowed, rowVars, frontier, snapshots, robots, batch, page, fetched>>

Refused == pc = "gate" /\ ~allowed /\ Finish("cancelled", "refused")

Start ==
    /\ Goto("starting", "robots")
    /\ crawl' = "running"
    /\ UNCHANGED <<site, allowed, recorded, frontier, snapshots, robots, batch, page, fetched>>

\* An unreachable robots.txt disallows nothing.
ReadRobots ==
    /\ Goto("robots", "sitemaps")
    /\ robots' \in {site.disallowed, {}}
    /\ UNCHANGED <<site, allowed, rowVars, frontier, snapshots, batch, page, fetched>>

\* Any of the sitemaps may be unreachable too.
ReadSitemaps ==
    /\ Goto("sitemaps", "home")
    /\ \E S \in SUBSET site.sitemap : Add(S, 0)
    /\ UNCHANGED <<site, allowed, rowVars, snapshots, robots, batch, page, fetched>>

SeedHome ==
    /\ Goto("home", "seeded")
    /\ Add({Home}, 0)
    /\ UNCHANGED <<site, allowed, rowVars, snapshots, robots, batch, page, fetched>>

BlocksEverything == Home \in robots

StopAtRobots == pc = "seeded" /\ BlocksEverything /\ Finish("completed", "robots")

Proceed ==
    /\ Goto("seeded", "top")
    /\ ~BlocksEverything
    /\ UNCHANGED <<site, allowed, rowVars, frontier, snapshots, robots, batch, page, fetched>>

-----------------------------------------------------------------------------
(* The loop: lease a batch, then take its pages one after the other, in any *)
(* order (`returning' promises none).                                       *)

\* MUTANT: one page more than the cap.
AtCap_OneMore == fetched > site.max_pages

AtCap == fetched >= site.max_pages

\* reclaim_expired: any lease still held at the top of the loop may be over.
Reclaim ==
    /\ Goto("top", "leasing")
    /\ ~AtCap
    /\ \E S \in SUBSET In("leased") :
          state' = [p \in Pages |-> IF p \in S THEN "pending" ELSE state[p]]
    /\ UNCHANGED <<site, allowed, rowVars, depth, attempts, snapshots, robots, batch, page,
                   fetched>>

Lease ==
    /\ Goto("leasing", "batch")
    /\ \E S \in SUBSET Pages \ {{}} :
          /\ Front(S)
          /\ batch' = S
          /\ state' = [p \in Pages |-> IF p \in S THEN "leased" ELSE state[p]]
          /\ attempts' = [p \in Pages |-> IF p \in S THEN attempts[p] + 1 ELSE attempts[p]]
    /\ UNCHANGED <<site, allowed, rowVars, depth, snapshots, robots, page, fetched>>

\* MUTANT: a failed page counted as outstanding.
Drained_NotFailed == In("pending") = {} /\ In("leased") = {} /\ In("failed") = {}

Drained == In("pending") = {} /\ In("leased") = {}

\* Nothing to lease: the end, unless a page is still leased to somebody.
LeaseNothing ==
    /\ pc = "leasing"
    /\ In("pending") = {}
    /\ IF Drained THEN Finish("completed", recorded)
       ELSE /\ pc' = "top"
            /\ UNCHANGED <<site, allowed, rowVars, frontier, snapshots, robots, batch,
                           page, fetched>>

FinishAtCap == pc = "top" /\ AtCap /\ Finish("completed", recorded)

\* The cap, met in the middle of a batch: the rest of it stays leased.
HitCap ==
    /\ Goto("batch", "top")
    /\ batch # {} /\ AtCap
    /\ recorded' = "page_cap"
    /\ batch' = {}
    /\ UNCHANGED <<site, allowed, crawl, frontier, snapshots, robots, page, fetched>>

EndBatch ==
    /\ Goto("batch", "top")
    /\ batch = {}
    /\ UNCHANGED <<site, allowed, rowVars, frontier, snapshots, robots, batch, page, fetched>>

Take(p) == p \in batch /\ ~AtCap /\ batch' = batch \ {p}

\* MUTANT: a page passed over but left leased.
Skip_NotMarked(p) ==
    /\ Goto("batch", "batch") /\ Take(p)
    /\ p \in robots
    /\ UNCHANGED <<site, allowed, rowVars, frontier, snapshots, robots, page, fetched>>

Skip(p) ==
    /\ Goto("batch", "batch") /\ Take(p)
    /\ p \in robots
    /\ Mark(p, "skipped")
    /\ UNCHANGED <<site, allowed, rowVars, snapshots, robots, page, fetched>>

FetchFails(p) ==
    /\ Goto("batch", "batch") /\ Take(p)
    /\ p \notin robots
    /\ Mark(p, AfterFailure(p))
    /\ UNCHANGED <<site, allowed, rowVars, snapshots, robots, page, fetched>>

\* Fetched, extracted and stored.
Persist(p) ==
    /\ Goto("batch", "persisted") /\ Take(p)
    /\ p \notin robots
    /\ snapshots' = [snapshots EXCEPT ![p] = @ + 1]
    /\ page' = p
    /\ UNCHANGED <<site, allowed, rowVars, frontier, robots, fetched>>

Complete ==
    /\ Goto("persisted", "linking")
    /\ fetched' = fetched + 1
    /\ Mark(page, "done")
    /\ UNCHANGED <<site, allowed, rowVars, snapshots, robots, batch, page>>

QueueLinks ==
    /\ Goto("linking", "batch")
    /\ Add(site.links[page], depth[page] + 1)
    /\ page' = NoPage
    /\ UNCHANGED <<site, allowed, rowVars, snapshots, robots, batch, fetched>>

-----------------------------------------------------------------------------
\* The process is killed or a statement raises.  Nothing runs the crawl again:
\* the next job makes a crawl of its own.
RunnerDies ==
    /\ pc \notin {"ended", "dead"}
    /\ pc' = "dead"
    /\ batch' = {}
    /\ page' = NoPage
    /\ UNCHANGED <<site, allowed, rowVars, frontier, snapshots, robots, fetched>>

PermissionChanges == allowed' = ~allowed /\ UNCHANGED
    <<site, rowVars, frontier, snapshots, runnerVars>>

RunnerNext ==
    \/ PassGate \/ Refused \/ Start \/ ReadRobots \/ ReadSitemaps \/ SeedHome
    \/ StopAtRobots \/ Proceed
    \/ Reclaim \/ Lease \/ LeaseNothing \/ FinishAtCap
    \/ HitCap \/ EndBatch
    \/ \E p \in Pages : Skip(p) \/ FetchFails(p) \/ Persist(p)
    \/ Complete \/ QueueLinks

Next == RunnerNext \/ RunnerDies \/ PermissionChanges

Spec == Init /\ [][Next]_vars

\* A runner that is alive goes on; whether the web answers is not assumed.
FairSpec == Spec /\ WF_vars(RunnerNext)

-----------------------------------------------------------------------------
\* The values each variable ranges over.
TypeOK ==
    /\ site \in Sites
    /\ allowed \in BOOLEAN
    /\ crawl \in {"queued", "running", "completed", "cancelled"}
    /\ recorded \in {"nothing", "refused", "robots", "page_cap"}
    /\ state \in [Pages -> {"unknown", "pending", "leased"} \cup Final]
    /\ depth \in [Pages -> Nat]
    /\ attempts \in [Pages -> 0 .. Attempts]
    /\ snapshots \in [Pages -> Nat]
    /\ pc \in {"gate", "starting", "robots", "sitemaps", "home", "seeded", "top",
              "leasing", "batch", "persisted", "linking", "ended", "dead"}
    /\ robots \subseteq Pages
    /\ batch \subseteq Pages
    /\ page \in Pages \cup {NoPage}
    /\ pc \in {"persisted", "linking"} <=> page # NoPage
    /\ fetched \in Nat

\* A crawl that was not cut short is whole: when it ends below its cap, every
\* page its start page, its sitemaps or a visited page leads to has been visited,
\* refused by robots.txt or tried three times, whatever failed, in whatever order
\* (run, _queue_links, is_drained).
Whole ==
    /\ \A p \in Pages : state[p] \in Final \cup {"unknown"}
    /\ state[Home] # "unknown"
    /\ \A p \in In("done") : \A q \in site.links[p] : state[q] # "unknown"
EndsWhole ==
    crawl = "completed" /\ recorded = "nothing" /\ fetched < site.max_pages => Whole

\* The cap bounds what is asked of the website and what is stored of it: a page
\* is stored once however often it is linked or retried, and the pages stored are
\* never more than the plan pays for (run, Frontier.add).
WithinCap ==
    /\ \A p \in Pages : snapshots[p] <= 1
    /\ Cardinality({p \in Pages : snapshots[p] > 0}) <= site.max_pages

\* A page is given up on after three attempts, no sooner and no later: neither a
\* batch, nor the cap, nor its being linked again adds or costs one (lease, fail).
ThreeAttempts ==
    \A p \in Pages : state[p] = "failed" => attempts[p] = Attempts /\ snapshots[p] = 0

\* At the top of its loop a runner holds nothing unless it is about to end:
\* its own leases are never what reclaim_expired takes back, however long a
\* batch took, so no page is fetched twice at once.
NothingHeld == pc = "leasing" => In("leased") = {}

\* What happened to a page is final, and what is known stays known (add, skip).
PagesSettle ==
    [][\A p \in Pages :
          /\ state[p] \in Final => state'[p] = state[p]
          /\ state[p] # "unknown" => state'[p] # "unknown"]_vars

\* A crawl ends, on any website and whatever fails, unless its runner dies (run).
Terminates == <>(pc \in {"ended", "dead"})

\* Being cut short shows: "Hitting the page cap is recorded and surfaced"
\* (runner.py), so a completed crawl that left pages unvisited says why.
CapRecorded == crawl = "completed" /\ recorded = "nothing" => Whole

\* "Worker death is a non-event": a leased page is taken back and finished, or
\* its crawl ends, although the runner that leased it never returns.
LeaseRecovered ==
    \A p \in Pages :
        state[p] = "leased" ~> (state[p] # "leased" \/ crawl \in {"completed", "cancelled"})

-----------------------------------------------------------------------------
(* What a crawl promises, without the leases.                               *)

Fate(p) == IF state[p] \in {"pending", "leased"} THEN "waiting" ELSE state[p]

Outcome ==
    IF crawl \notin {"completed", "cancelled"} THEN "none"
    ELSE IF recorded \in {"robots", "refused"} THEN recorded
    ELSE IF AtCap THEN "cut" ELSE "whole"

Walk == INSTANCE Traversal WITH fate <- [p \in Pages |-> Fate(p)], outcome <- Outcome

\* Leased, tried again, taken back and cut short, a crawl is a walk along the website's
\* links that settles each page once and ends for a reason that is so (run).
TraversalSpec == Walk!Spec

-----------------------------------------------------------------------------
(* Why it holds: the inductive invariant.                                   *)

\* The leased pages are the runner's: the rest of its batch and the page in its
\* hands.  Only the cap makes it drop a batch, and then it leases no more.
Held ==
    /\ pc \in {"gate", "starting", "robots", "sitemaps", "home", "seeded", "leasing"}
          => In("leased") = {}
    /\ pc = "top" => In("leased") = {} \/ AtCap
    /\ pc \in {"batch", "linking"} => In("leased") = batch
    /\ pc = "persisted" => In("leased") = batch \cup {page} /\ page \notin batch
    /\ pc = "linking" => state[page] = "done"

\* A page is stored once, and is then in the runner's hands or done.
StoredOnce ==
    /\ \A p \in Pages :
          /\ snapshots[p] \in {0, 1}
          /\ state[p] = "done" => snapshots[p] = 1
          /\ snapshots[p] = 1 => \/ state[p] = "done"
                                 \/ state[p] = "leased" /\ (p = page \/ pc = "dead")
    /\ pc = "persisted" => snapshots[page] = 1

\* The runner counts the pages that are done, and stores no more at its cap.
Counted ==
    /\ fetched = Cardinality(In("done"))
    /\ fetched <= site.max_pages
    /\ pc = "persisted" => ~AtCap

\* A page that can still be tried has not been tried three times.
Tried ==
    \A p \in Pages :
        /\ state[p] \in {"unknown", "pending"} => attempts[p] < Attempts
        /\ state[p] = "failed" => attempts[p] = Attempts

\* The links of what is done are known, but for the page in the runner's hands.
Followed ==
    /\ pc # "dead" => \A p \in In("done") \ {page} :
                          \A q \in site.links[p] : state[q] # "unknown"
    /\ pc \in {"seeded", "top", "leasing", "batch", "persisted", "linking"}
          => state[Home] # "unknown"

\* The row says how the crawl ended once it has, and not before.
Reports ==
    /\ crawl \in {"completed", "cancelled"} => pc = "ended"
    /\ recorded = "page_cap" => AtCap
    /\ recorded \in {"refused", "robots"} => pc = "ended"

Inductive == TypeOK /\ Held /\ StoredOnce /\ Counted /\ Tried /\ Followed /\ Reports

\* What is known of a crawl before its first page, and of the policy it obeys.
Begins ==
    /\ robots \subseteq site.disallowed
    /\ pc \in {"gate", "starting", "robots", "sitemaps"} => In("unknown") = Pages
    /\ pc \in {"home", "seeded"} => In("done") = {}
=============================================================================
