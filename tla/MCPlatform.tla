----------------------------- MODULE MCPlatform -----------------------------
(***************************************************************************)
(* One small instance of each component that no other run checks, side by  *)
(* side.  They share nothing but the database, and no property of one      *)
(* reads the state of another, so a behaviour runs one of them, `part',    *)
(* and the others stay as they begin.                                      *)
(***************************************************************************)
EXTENDS SyncHistory, Websites, Properties, Fetching, Issues, WeeklyReports,
        Spending, Alerts, Deletion, Peek

CONSTANTS p1, p2, o1, o2, home, about, good, text

VARIABLE part

Parts == {"sync", "websites", "properties", "fetching", "issues", "weekly", "spending",
          "alerts", "deletion", "peek"}

-----------------------------------------------------------------------------
(* What is synchronised: two services, a month that ends between two days.  *)

MCServices ==
    [search_console |-> [lag |-> 1, restated |-> 2, span |-> 1, recent |-> 1],
     analytics      |-> [lag |-> 1, restated |-> 2, span |-> 1, recent |-> 0]]
MCMonthEnds == {3}

(* A website at www.example.com and four properties that look like its own. *)

Example == <<"com", "example">>
WwwExample == Append(Example, Www)
At443(host) == [domain |-> FALSE, secure |-> TRUE, host |-> host, root |-> TRUE]
DomainOf(host) == [At443(host) EXCEPT !.domain = TRUE]
MCSites == {At443(WwwExample), [At443(WwwExample) EXCEPT !.secure = FALSE],
            DomainOf(Example), DomainOf(WwwExample)}

(* An index that lists itself, and a sitemap of another host with a page of *)
(* this website, a page of another and a trap.                              *)

PageAt(host, trap) == [host |-> host, trap |-> trap]
MCMaps ==
    [m1 |-> [host |-> "site", index |-> TRUE, maps |-> <<"m1", "m2">>, pages |-> {}],
     m2 |-> [host |-> "cdn", index |-> FALSE, maps |-> <<>>,
             pages |-> {PageAt("site", FALSE), PageAt("cdn", FALSE), PageAt("www", TRUE)}]]
MCRobots == {[delay |-> 2, maps |-> <<"m1">>, blocks |-> FALSE],
             [delay |-> 9, maps |-> <<"m2">>, blocks |-> TRUE]}
MCConventional == <<"m1">>

(* A homepage that loses its title, and clicks that fall by a third.        *)

HomePage(title) ==
    [url |-> home, status |-> "ok", title |-> title, description |-> text, h1 |-> 1,
     words |-> 300, canonical |-> home, noindex |-> FALSE, viewport |-> "present",
     schema |-> {"Organization"}, images |-> 0, noalt |-> 0, body |-> home, hops |-> 0,
     depth |-> 0, mode |-> "http"]
CrawlOf(title) == [pages |-> {HomePage(title)}, linked |-> {about, home}, broken |-> {},
                   sitemap |-> TRUE, robotsBlocked |-> FALSE, aiBlocked |-> FALSE]
MCCrawlViews == [untitled |-> CrawlOf(NoText), mended |-> CrawlOf(good)]
Clicks(n) == [u \in {about} |-> [clicks |-> n, impressions |-> 600, position |-> 3]]
SearchOf(prior) == [perf |-> Clicks(60), prior |-> prior, queries |-> <<>>, buckets |-> <<>>,
                    analytics |-> TRUE, goals |-> FALSE]
MCSearchViews == [steady |-> SearchOf(<<>>), falling |-> SearchOf(Clicks(95))]
MCGoodLength == {good}
MCFragile == {"missing_title"}

(* Four issues of three types; a ledger that is quiet, down or half broken; *)
(* an organisation with one owner and one with two.                         *)

MCTypeOf == <<1, 1, 2, 3>>
MCFirstImpacts == <<2, 1, 1, 1>>
MCRunCounts == {[failed |-> 0, unclaimed |-> 0, total |-> 2],
                [failed |-> 2, unclaimed |-> 2, total |-> 2],
                [failed |-> 1, unclaimed |-> 0, total |-> 4]}
MCOwners == [o \in Organizations |-> IF o = o1 THEN {p1} ELSE {p1, p2}]

-----------------------------------------------------------------------------
\* Where a component may begin in several states, the parts that rest begin in one.
PlatformInit ==
    /\ part \in Parts
    /\ SyncInit /\ WebsitesInit /\ PropertiesInit /\ FetchingInit /\ IssuesInit
    /\ WeeklyInit /\ SpendingInit /\ AlertsInit /\ DeletionInit /\ PeekInit
    /\ part # "sync" => service = "analytics"
    /\ part # "properties" => levels = [s \in Sites |-> NoLevel]
    /\ part # "issues" => searchView = "steady"
    /\ part # "alerts" => configured

PlatformNext ==
    /\ UNCHANGED part
    /\ IF part = "sync" THEN SyncNext ELSE UNCHANGED syncVars
    /\ IF part = "websites" THEN WebsitesNext ELSE UNCHANGED websitesVars
    /\ IF part = "properties" THEN PropertiesNext ELSE UNCHANGED propertiesVars
    /\ IF part = "fetching" THEN FetchingNext ELSE UNCHANGED fetchingVars
    /\ IF part = "issues" THEN IssuesNext ELSE UNCHANGED issueVars
    /\ IF part = "weekly" THEN WeeklyNext ELSE UNCHANGED weeklyVars
    /\ IF part = "spending" THEN SpendingNext ELSE UNCHANGED spendingVars
    /\ IF part = "alerts" THEN AlertsNext ELSE UNCHANGED alertVars
    /\ IF part = "deletion" THEN DeletionNext ELSE UNCHANGED deletionVars
    /\ IF part = "peek" THEN PeekNext ELSE UNCHANGED peekVars

platformVars == <<part, syncVars, websitesVars, propertiesVars, fetchingVars, issueVars,
                  weeklyVars, spendingVars, alertVars, deletionVars, peekVars>>

PlatformSpec == PlatformInit /\ [][PlatformNext]_platformVars

-----------------------------------------------------------------------------
\* Every component's state keeps to its types.
PlatformTypeOK ==
    CASE part = "sync"       -> SyncTypeOK
      [] part = "websites"   -> WebsitesTypeOK
      [] part = "properties" -> PropertiesTypeOK
      [] part = "fetching"   -> FetchingTypeOK
      [] part = "issues"     -> IssuesTypeOK
      [] part = "weekly"     -> WeeklyTypeOK
      [] part = "spending"   -> SpendingTypeOK
      [] part = "alerts"     -> AlertsTypeOK
      [] part = "deletion"   -> DeletionTypeOK
      [] part = "peek"       -> PeekTypeOK
=============================================================================
