----------------------------- MODULE Traversal -----------------------------
(***************************************************************************)
(* What a crawl promises whoever reads its pages, without leases, batches, *)
(* attempts or a frontier (api/crawler/runner.py, docstring and run;       *)
(* db/migrations/0004_crawl.sql): it walks the website along its links, to *)
(* nothing it was not led to; what becomes of a page is decided once; only *)
(* what robots.txt refuses is passed over; no more is visited than the     *)
(* plan pays for; and it ends for a reason that is so.                     *)
(***************************************************************************)
EXTENDS FiniteSets

CONSTANTS Pages, Home, Sites

VARIABLES
    site,       \* its links, its sitemaps, what it disallows and how much is paid for
    fate,       \* what has become of each page
    outcome     \* how the crawl ended, once it has

walkVars == <<site, fate, outcome>>

Fates == {"unknown", "waiting", "done", "failed", "skipped"}

Being(f) == {p \in Pages : fate[p] = f}

Init ==
    /\ site \in Sites
    /\ fate = [p \in Pages |-> "unknown"]
    /\ outcome = "none"

\* What a page, a sitemap or the wish to crawl the website leads to.
Leads == {site.links[p] : p \in Being("done")} \cup {{Home}} \cup SUBSET site.sitemap

Find(S) ==
    /\ outcome = "none"
    /\ fate' = [p \in Pages |-> IF p \in S \cap Being("unknown") THEN "waiting" ELSE fate[p]]
    /\ UNCHANGED <<site, outcome>>

Settle(p, f) ==
    /\ outcome = "none" /\ fate[p] = "waiting"
    /\ fate' = [fate EXCEPT ![p] = f]
    /\ UNCHANGED <<site, outcome>>

Visit(p) == Settle(p, "done") /\ Cardinality(Being("done")) # site.max_pages

GiveUp(p) == Settle(p, "failed")

PassOver(p) == Settle(p, "skipped") /\ p \in site.disallowed

\* Nothing waits, and every page a visited one links to is known.
Covered ==
    /\ Home \notin Being("unknown") /\ Being("waiting") = {}
    /\ \A p \in Being("done") : site.links[p] \cap Being("unknown") = {}

End(why) ==
    /\ outcome = "none"
    /\ CASE why = "whole"   -> Covered
         [] why = "cut"     -> Cardinality(Being("done")) = site.max_pages
         [] why = "robots"  -> Being("done") = {} /\ Home \in site.disallowed
         [] why = "refused" -> Being("unknown") = Pages
    /\ outcome' = why
    /\ UNCHANGED <<site, fate>>

Next ==
    \/ \E S \in Leads : Find(S)
    \/ \E p \in Pages : Visit(p) \/ GiveUp(p) \/ PassOver(p)
    \/ \E why \in {"whole", "cut", "robots", "refused"} : End(why)

Spec == Init /\ [][Next]_walkVars
=============================================================================
