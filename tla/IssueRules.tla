----------------------------- MODULE IssueRules -----------------------------
(***************************************************************************)
(* The rules of api/analysis/rules, the baseline they compare clicks with  *)
(* (ctr_baseline.py) and the score made of what they found (scoring.py).   *)
(*                                                                         *)
(* A context is what AnalysisContext holds, with a text reduced to an      *)
(* element of a set, positions to whole numbers and shares to integers.    *)
(***************************************************************************)
EXTENDS Integers, FiniteSets, Functions

CONSTANTS
    GoodLength,         \* the titles that are neither too short nor too long
    NoText

-----------------------------------------------------------------------------
(* The catalogue: category, severity and weight of each type.               *)

Type(category, severity, weight) ==
    [category |-> category, severity |-> severity, weight |-> weight]

Catalogue == [
    page_5xx                    |-> Type("technical", "critical", 5),
    page_404_internal_link      |-> Type("technical", "critical", 4),
    robots_blocks_crawl         |-> Type("technical", "critical", 5),
    noindex_on_valuable_page    |-> Type("technical", "critical", 5),
    redirect_chain              |-> Type("technical", "medium", 2),
    canonical_to_other_page     |-> Type("technical", "high", 3),
    missing_viewport            |-> Type("technical", "high", 3),
    no_sitemap                  |-> Type("technical", "medium", 2),
    missing_title               |-> Type("content", "critical", 5),
    duplicate_title             |-> Type("content", "high", 3),
    title_length                |-> Type("content", "low", 1),
    missing_meta_description    |-> Type("content", "high", 2),
    duplicate_meta_description  |-> Type("content", "medium", 2),
    missing_h1                  |-> Type("content", "medium", 2),
    multiple_h1                 |-> Type("content", "low", 1),
    thin_content                |-> Type("content", "medium", 2),
    duplicate_content           |-> Type("content", "high", 3),
    images_missing_alt          |-> Type("content", "medium", 2),
    orphan_page                 |-> Type("content", "medium", 2),
    ctr_below_position_baseline |-> Type("seo", "high", 4),
    striking_distance_keyword   |-> Type("seo", "high", 4),
    declining_page              |-> Type("seo", "high", 3),
    cannibalisation             |-> Type("seo", "medium", 2),
    ai_crawler_blocked          |-> Type("ai_search", "high", 4),
    no_structured_data          |-> Type("ai_search", "high", 3),
    missing_organization_schema |-> Type("ai_search", "medium", 2),
    content_requires_js         |-> Type("ai_search", "high", 3)]

Keys == DOMAIN Catalogue
WebsiteKeys == {"robots_blocks_crawl", "no_sitemap", "ai_crawler_blocked",
                "missing_organization_schema"}

-----------------------------------------------------------------------------
(* The expected click-through rate, as clicks of so many impressions.       *)

Rate(clicks, impressions) == [clicks |-> clicks, impressions |-> impressions]

GlobalCurve ==
    LET perMille == <<270, 150, 100, 70, 50, 40, 30, 25, 20, 18,
                      12, 11, 10, 9, 8, 8, 7, 7, 6, 6>>
    IN  [p \in 1..20 |-> Rate(perMille[p], 1000)]

\* curve_from_buckets: a position with enough impressions of the site's own.
CurveFromBuckets(buckets) ==
    [p \in 1..20 |-> IF p \in DOMAIN buckets /\ buckets[p].impressions >= 50
                     THEN buckets[p] ELSE GlobalCurve[p]]

Bucket(position) == IF position < 1 THEN 1 ELSE IF position > 20 THEN 20 ELSE position

\* CtrCurve.underperforms: less than six tenths of what is expected.
Underperforms(curve, row) ==
    LET e == curve[Bucket(row.position)]
    IN  row.clicks * e.impressions * 10 < e.clicks * row.impressions * 6

-----------------------------------------------------------------------------
(* Which pages a rule flags.                                                *)

Indexable(c) == {p \in c.pages : p.status = "ok" /\ ~p.noindex}

Impressions(c, p) == IF p.url \in DOMAIN c.perf THEN c.perf[p.url].impressions ELSE 0

\* _duplicates: the pages that share a text with another.
Sharing(text) ==
    {p \in DOMAIN text : text[p] # NoText /\ \E q \in DOMAIN text \ {p} : text[q] = text[p]}

Titles(c) == [p \in Indexable(c) |-> p.title]
Descriptions(c) == [p \in Indexable(c) |-> p.description]
Bodies(c) == [p \in Indexable(c) |-> IF p.words >= 200 THEN p.body ELSE NoText]

\* Twins that name one canonical address between them are the right way to have them.
Canonicalised(p, twins) ==
    Cardinality({q.canonical : q \in {t \in twins : t.body = p.body /\ t.canonical # NoText}}) = 1

\* rules/technical.py.
TechnicalFlagged(c, key) ==
    CASE key = "page_5xx"          -> {p \in c.pages : p.status = "error"}
      [] key = "noindex_on_valuable_page"
                                   -> {p \in c.pages : p.noindex /\ Impressions(c, p) > 0}
      [] key = "missing_viewport"  -> {p \in c.pages : p.status = "ok" /\ p.viewport = "absent"}
      [] key = "redirect_chain"    -> {p \in c.pages : p.hops > 2}
      [] key = "canonical_to_other_page"
            -> {p \in c.pages : p.canonical \notin {NoText, p.url} /\ Impressions(c, p) > 0}
      [] OTHER                     -> {}

\* rules/content.py.
ContentFlagged(c, key) ==
    CASE key = "missing_title"     -> {p \in Indexable(c) : p.title = NoText}
      [] key = "title_length"      -> {p \in Indexable(c) : p.title \notin GoodLength \cup {NoText}}
      [] key = "duplicate_title"   -> Sharing(Titles(c))
      [] key = "missing_meta_description" -> {p \in Indexable(c) : p.description = NoText}
      [] key = "duplicate_meta_description" -> Sharing(Descriptions(c))
      [] key = "missing_h1"        -> {p \in Indexable(c) : p.h1 = 0}
      [] key = "multiple_h1"       -> {p \in Indexable(c) : p.h1 > 1}
      [] key = "thin_content"      -> {p \in Indexable(c) : p.words < 200}
      [] key = "duplicate_content"
            -> LET twins == Sharing(Bodies(c))
               IN  {p \in twins : ~Canonicalised(p, twins)}
      [] key = "images_missing_alt"
            -> {p \in Indexable(c) : p.images > 0 /\ 5 * (p.images - p.noalt) < 4 * p.images}
      [] key = "orphan_page"
            -> {p \in Indexable(c) : /\ Cardinality(c.pages) >= 2 /\ c.linked # {}
                                     /\ p.depth # 0 /\ p.url \notin c.linked}
      [] OTHER                     -> {}

\* rules/ai_visibility.py.
AiFlagged(c, key) ==
    CASE key = "no_structured_data" -> {p \in Indexable(c) : p.schema = {}}
      [] key = "content_requires_js"
            -> {p \in Indexable(c) : p.mode = "http" /\ p.words < 30}
      [] OTHER                     -> {}

PagesFlagged(c, key) ==
    TechnicalFlagged(c, key) \cup ContentFlagged(c, key) \cup AiFlagged(c, key)

\* Rules that look at Search Console's rows: of pages, and of searches.
PerformanceFlagged(c, key) ==
    CASE key = "ctr_below_position_baseline"
            -> {u \in DOMAIN c.perf : /\ c.perf[u].impressions >= 200
                                      /\ Underperforms(CurveFromBuckets(c.buckets), c.perf[u])}
      [] key = "declining_page"
            -> {u \in DOMAIN c.perf \cap DOMAIN c.prior :
                    c.prior[u].clicks >= 20 /\ 10 * c.perf[u].clicks < 7 * c.prior[u].clicks}
      [] key = "striking_distance_keyword"
            -> {q \in DOMAIN c.queries : /\ c.queries[q].impressions >= 100
                                         /\ c.queries[q].position \in 11..20}
      [] OTHER -> {}

\* Rules about the website as a whole.
SiteFlagged(c, key) ==
    CASE key = "robots_blocks_crawl" -> c.robotsBlocked
      [] key = "no_sitemap"          -> ~c.sitemap
      [] key = "ai_crawler_blocked"  -> c.aiBlocked
      [] key = "missing_organization_schema"
            -> \E p \in c.pages : p.depth = 0 /\ "Organization" \notin p.schema
      [] OTHER                       -> FALSE

\* Finding.resolved_severity: two rules state their own.
Severity(c, key, ref) ==
    CASE key = "ctr_below_position_baseline"
            -> IF c.perf[ref].impressions > 2000 THEN "high" ELSE "medium"
      [] key = "declining_page"
            -> IF c.prior[ref].clicks - c.perf[ref].clicks > 50 THEN "high" ELSE "medium"
      [] OTHER -> Catalogue[key].severity

\* The scope references a rule yields; its fingerprint is the type with one of them.
References(c, key) ==
    {p.url : p \in PagesFlagged(c, key)} \cup PerformanceFlagged(c, key)
        \cup (IF SiteFlagged(c, key) THEN {NoText} ELSE {})
        \cup (IF key = "page_404_internal_link" THEN c.broken ELSE {})

\* AnalysisRunner._evaluate: a rule that raises loses its own findings only.
Evaluate(c, raising) ==
    UNION {{<<key, ref>> : ref \in References(c, key)} : key \in Keys \ raising}

-----------------------------------------------------------------------------
(* The score, in hundredths.                                                *)

Component(category) ==
    CASE category = "technical" -> "technical_health"
      [] category = "content"   -> "content_health"
      [] category = "seo"       -> "search_performance"
      [] OTHER                  -> "ai_visibility"

\* The enabled rows of score_components; the others have no say.
Weights == [technical_health |-> 30, search_performance |-> 35,
            content_health |-> 25, analytics_coverage |-> 10]

Multiplier(severity) ==
    CASE severity = "critical" -> 100 [] severity = "high" -> 70
      [] severity = "medium"   -> 40  [] severity = "low"  -> 15 [] OTHER -> 0

Atleast(a, b) == IF a > b THEN a ELSE b
Atmost(a, b) == IF a < b THEN a ELSE b

\* How much of the site a group of issues affects, out of `pages'.
Share(group, pages) ==
    IF group.key \in WebsiteKeys THEN pages ELSE Atmost(group.affected, pages)

\* penalty_for, over groups of issues of one type and severity.
Penalty(groups, evaluated) ==
    LET pages == Atleast(1, evaluated)
        weighted == SumFunction([g \in groups |-> Catalogue[g.key].weight * Multiplier(g.severity)
                                                      * Share(g, pages)])
        total == SumFunction([g \in groups |-> Catalogue[g.key].weight])
    IN  IF groups = {} THEN 0 ELSE Atmost(10000, (100 * weighted) \div (pages * total))

\* _search_performance: the clicks of this window against those of the one before,
\* or nothing to say.
Absent == -1

SearchPerformance(c) ==
    LET now == SumFunction([u \in DOMAIN c.perf |-> c.perf[u].clicks])
        before == SumFunction([u \in DOMAIN c.prior |-> c.prior[u].clicks])
    IN  CASE DOMAIN c.perf = {}                 -> Absent
          [] DOMAIN c.perf # {} /\ DOMAIN c.prior = {} -> 7000
          [] DOMAIN c.perf # {} /\ DOMAIN c.prior # {} /\ before = 0
                                                -> IF now > 0 THEN 8500 ELSE 5000
          [] OTHER -> Atleast(0, Atmost(10000, 6000 + (8000 * (now - before)) \div before))

AnalyticsCoverage(c) == IF ~c.analytics THEN Absent ELSE IF c.goals THEN 10000 ELSE 6500

ComponentScore(c, key, groups) ==
    CASE key = "search_performance" -> SearchPerformance(c)
      [] key = "analytics_coverage" -> AnalyticsCoverage(c)
      [] OTHER -> 10000 - Penalty({g \in groups : Component(Catalogue[g.key].category) = key},
                                  Cardinality(c.pages))

\* score_components: what is absent is left out of the weighting, never zero.
Score(c, groups) ==
    LET scored == {k \in DOMAIN Weights : ComponentScore(c, k, groups) # Absent}
    IN  SumFunction([k \in scored |-> Weights[k] * ComponentScore(c, k, groups)])
            \div SumFunctionOnSet(Weights, scored)
=============================================================================
