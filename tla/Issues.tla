------------------------------- MODULE Issues -------------------------------
(***************************************************************************)
(* The life of the issues of one website: api/analysis/runner.py, with the *)
(* customer's mark of api/routers/audit.py.                                *)
(*                                                                         *)
(* The analysis commits each statement.  It reads the statuses once, and   *)
(* then changes the issues one after the other while customers change them *)
(* too; a fix is proved by the row of issue_observations that comes after  *)
(* the change, in a statement of its own.                                  *)
(***************************************************************************)
EXTENDS IssueRules

CONSTANTS
    CrawlViews,         \* what a completed crawl may have seen, by name
    SearchViews,        \* what the fact tables may hold, by name
    Fragile,            \* the rules that may raise (bound)
    MaxAnalyses         \* how many analyses there are (bound)

\* What a crawl tells the rules, and what the fact tables do.
CrawlFacts == {"pages", "linked", "broken", "sitemap", "robotsBlocked", "aiBlocked"}
SearchFacts == {"perf", "prior", "queries", "buckets", "analytics", "goals"}
Clicked(rows) == IsFiniteSet(DOMAIN rows) /\ \A u \in DOMAIN rows : rows[u].clicks \in Nat

ASSUME IssuesAssumption == MaxAnalyses \in Nat /\ Fragile \subseteq Keys
ASSUME ViewsAssumption ==
    /\ \A v \in DOMAIN CrawlViews :
           DOMAIN CrawlViews[v] = CrawlFacts /\ IsFiniteSet(CrawlViews[v].pages)
    /\ \A v \in DOMAIN SearchViews :
           /\ DOMAIN SearchViews[v] = SearchFacts
           /\ Clicked(SearchViews[v].perf) /\ Clicked(SearchViews[v].prior)

VARIABLES
    crawlView,          \* what the latest completed crawl saw, if there is one
    searchView,
    issues,             \* by fingerprint: the row of issues
    observed,           \* by fingerprint: issue_observations.present, the newest
    analysis,           \* the analysis at work
    analyses,           \* how many there were
    score,              \* the newest of score_snapshots, and the pages it looked at
    torn                \* history: issues an analysis left before it observed them

issueVars == <<crawlView, searchView, issues, observed, analysis, analyses, score, torn>>

IssueStatuses == {"open", "regressed", "applied", "resolved", "dismissed", "snoozed"}
OpenStatuses == {"open", "regressed", "applied"}

NoAnalysis == [pc |-> "idle", findings |-> {}, known |-> <<>>, todo |-> {},
               issue |-> <<>>, present |-> FALSE, views |-> <<"none", "none">>]

IssuesInit ==
    /\ crawlView = "none" /\ searchView \in DOMAIN SearchViews
    /\ issues = <<>> /\ observed = <<>>
    /\ analysis = NoAnalysis /\ analyses = 0
    /\ score = Absent
    /\ torn = {}

With(f, fp, value) == [g \in DOMAIN f \cup {fp} |-> IF g = fp THEN value ELSE f[g]]

-----------------------------------------------------------------------------
(* The world.                                                               *)

CrawlCompletes(view) ==
    /\ crawlView' = view
    /\ UNCHANGED <<searchView, issues, observed, analysis, analyses, score, torn>>

SearchDataArrives(view) ==
    /\ searchView' = view
    /\ UNCHANGED <<crawlView, issues, observed, analysis, analyses, score, torn>>

\* mark_resolved: the customer's word starts the verification.
MarkResolved(fp) ==
    /\ issues[fp].status \in {"open", "regressed", "snoozed"}
    /\ issues' = [issues EXCEPT ![fp].status = "applied"]
    /\ UNCHANGED <<crawlView, searchView, observed, analysis, analyses, score, torn>>

\* No statement of the platform dismisses or snoozes an issue; the analysis is
\* written for both.  A snooze that is over is one the analysis no longer honours.
SetAside(fp, status, over) ==
    /\ issues[fp].status \in OpenStatuses \cup {"snoozed"}
    /\ analysis.pc = "idle"
    /\ issues' = [issues EXCEPT ![fp].status = status, ![fp].over = over]
    /\ UNCHANGED <<crawlView, searchView, observed, analysis, analyses, score, torn>>

-----------------------------------------------------------------------------
(* The analysis.                                                            *)

\* _context: the crawl's part and that of the fact tables.
Context(views) ==
    LET crawl == CrawlViews[views[1]]
        search == SearchViews[views[2]]
    IN  [x \in DOMAIN crawl \cup DOMAIN search |->
            IF x \in DOMAIN crawl THEN crawl[x] ELSE search[x]]

\* run, up to the statuses it remembers.  Without a completed crawl it raises.
StartAnalysis(raising) ==
    LET findings == Evaluate(Context(<<crawlView, searchView>>), raising)
    IN  /\ analysis.pc = "idle"
        /\ analyses < MaxAnalyses
        /\ crawlView # "none"
        /\ analyses' = analyses + 1
        /\ analysis' = [NoAnalysis EXCEPT !.pc = "write", !.findings = findings,
                            !.known = [fp \in DOMAIN issues |-> issues[fp].status],
                            !.todo = findings, !.views = <<crawlView, searchView>>]
        /\ UNCHANGED <<crawlView, searchView, issues, observed, score, torn>>

\* MUTANT: an issue that is known keeps the status it has.
Upserted_Kept(fp) == IF fp \in DOMAIN issues THEN issues[fp].status ELSE "open"

\* What a finding makes of its issue, from the status remembered.
Upserted(fp) ==
    IF fp \in DOMAIN issues /\ issues[fp].status = "dismissed" THEN "dismissed"
    ELSE IF fp \in DOMAIN issues /\ issues[fp].status = "snoozed" /\ ~issues[fp].over THEN "snoozed"
    ELSE IF fp \in DOMAIN analysis.known /\ analysis.known[fp] = "resolved" THEN "regressed"
    ELSE "open"

\* The issues are taken in an order that does not matter.
NextIssue == CHOOSE fp \in analysis.todo : TRUE

Observing(fp, present) ==
    analysis' = [analysis EXCEPT !.pc = "observe", !.issue = fp, !.present = present,
                                 !.todo = @ \ {fp}]

WriteFinding ==
    LET fp == NextIssue
    IN  /\ analysis.pc = "write"
        /\ analysis.todo # {}
        /\ issues' = With(issues, fp, [status |-> Upserted(fp),
                severity |-> Severity(Context(analysis.views), fp[1], fp[2]),
                over |-> fp \in DOMAIN issues /\ issues[fp].over])
        /\ Observing(fp, TRUE)
        /\ UNCHANGED <<crawlView, searchView, observed, analyses, score, torn>>

\* What was known and is not found: dismissed and resolved issues are left alone.
Gone == {fp \in DOMAIN analysis.known :
            fp \notin analysis.findings /\ analysis.known[fp] \notin {"dismissed", "resolved"}}

FindingsWritten ==
    /\ analysis.pc = "write"
    /\ analysis.todo = {}
    /\ analysis' = [analysis EXCEPT !.pc = "resolve", !.todo = Gone]
    /\ UNCHANGED <<crawlView, searchView, issues, observed, analyses, score, torn>>

ResolveGone ==
    LET fp == NextIssue
    IN  /\ analysis.pc = "resolve"
        /\ analysis.todo # {}
        /\ issues' = [issues EXCEPT ![fp].status = "resolved"]
        /\ Observing(fp, FALSE)
        /\ UNCHANGED <<crawlView, searchView, observed, analyses, score, torn>>

Observe ==
    /\ analysis.pc = "observe"
    /\ observed' = With(observed, analysis.issue, analysis.present)
    /\ torn' = torn \ {analysis.issue}
    /\ analysis' = [analysis EXCEPT !.pc = IF analysis.present THEN "write" ELSE "resolve"]
    /\ UNCHANGED <<crawlView, searchView, issues, analyses, score>>

\* _issues_by_component: a group for each type and severity.
Groups ==
    LET counted == {fp \in DOMAIN issues : issues[fp].status \in OpenStatuses}
    IN  {[key |-> fp[1], severity |-> issues[fp].severity,
          affected |-> Cardinality({g \in counted : /\ g[1] = fp[1]
                                       /\ issues[g].severity = issues[fp].severity})]
            : fp \in counted}

WriteScore ==
    /\ analysis.pc = "resolve"
    /\ analysis.todo = {}
    /\ score' = Score(Context(analysis.views), Groups)
    /\ analysis' = NoAnalysis
    /\ UNCHANGED <<crawlView, searchView, issues, observed, analyses, torn>>

\* The worker is lost, between any two statements.
AnalysisDies ==
    /\ analysis.pc # "idle"
    /\ analysis' = NoAnalysis
    /\ torn' = IF analysis.pc = "observe" THEN torn \cup {analysis.issue} ELSE torn
    /\ UNCHANGED <<crawlView, searchView, issues, observed, analyses, score>>

IssuesNext ==
    \/ \E view \in DOMAIN CrawlViews : CrawlCompletes(view)
    \/ \E view \in DOMAIN SearchViews : SearchDataArrives(view)
    \/ \E fp \in DOMAIN issues : MarkResolved(fp)
    \/ \E fp \in DOMAIN issues, over \in BOOLEAN :
          SetAside(fp, "snoozed", over) \/ SetAside(fp, "dismissed", FALSE)
    \/ \E raising \in SUBSET Fragile : StartAnalysis(raising)
    \/ WriteFinding \/ FindingsWritten \/ ResolveGone \/ Observe \/ WriteScore \/ AnalysisDies

IssuesSpec == IssuesInit /\ [][IssuesNext]_issueVars

-----------------------------------------------------------------------------
(* What must hold.                                                          *)

IssuesTypeOK ==
    /\ \A fp \in DOMAIN issues : issues[fp].status \in IssueStatuses /\ fp[1] \in Keys
    /\ DOMAIN observed \subseteq DOMAIN issues
    /\ analysis.pc \in {"idle", "write", "observe", "resolve"}
    /\ analysis.findings \subseteq Keys \X {fp[2] : fp \in analysis.findings}
    /\ score \in -1..10000
    /\ torn \subseteq DOMAIN issues

Settled == DOMAIN issues \ (torn \cup (IF analysis.pc = "observe" THEN {analysis.issue} ELSE {}))

\* The history proves the status.  An issue counts as resolved exactly when the
\* newest observation of it says it is gone, whatever the customer did while the
\* analysis was at work; only an analysis that died between the two statements
\* leaves an issue without the row that proves it (`torn').
HistoryProves ==
    \A fp \in Settled :
        issues[fp].status = "resolved" <=> (fp \in DOMAIN observed /\ ~observed[fp])
=============================================================================
