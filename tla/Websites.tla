------------------------------ MODULE Websites ------------------------------
(***************************************************************************)
(* The websites of one organisation: created, linked to a property that    *)
(* may prove who owns them, archived, and crawled or not.  The two gates   *)
(* of a crawl are the admission of api/routers/crawls.py (with             *)
(* api/domain/crawl_policy.py) and CrawlRunner._permission_refusal; before *)
(* either, the dispatcher looks at the column websites.crawl_allowed.      *)
(*                                                                         *)
(* A request checks first and writes later, and another may commit between *)
(* the two.  What a crawl does once it runs is module Crawl.               *)
(***************************************************************************)
EXTENDS Integers, FiniteSets

CONSTANTS
    Domains,
    Askers,             \* requests of members, one at a time each
    MaxWebsites,        \* organizations.max_websites
    MaxCrawls,          \* how many crawls there may be (bound)
    ByHand,             \* whether somebody sets crawl_allowed in the database
    NoDomain

Roles == {"owner", "admin", "member", "viewer"}
CanWrite == {"owner", "admin", "member"}
CanAdminister == {"owner", "admin"}
Statuses == {"PENDING", "CONNECTING", "CRAWLING", "READY", "ERROR"}
CrawlIds == 1..MaxCrawls

ASSUME WebsitesAssumption ==
    /\ MaxWebsites \in Nat /\ MaxCrawls \in Nat /\ ByHand \in BOOLEAN
    /\ NoDomain \notin Domains

VARIABLES
    website,            \* the row of each domain: absent, live or archived
    siteStatus,         \* websites.status
    verified,           \* ownership_verified_at is set
    covers,             \* the linked property is evidence (website_ownership_evidence)
    column,             \* websites.crawl_allowed
    crawls,             \* the crawls, `none' for no row
    asking              \* what each customer's request has checked

siteVars == <<website, siteStatus, verified, covers, column>>
websitesVars == <<siteVars, crawls, asking>>

NotAsking == [pc |-> "idle", site |-> NoDomain]
NoCrawl == [site |-> NoDomain, trigger |-> "none", status |-> "none"]

WebsitesInit ==
    /\ website = [d \in Domains |-> "absent"]
    /\ siteStatus = [d \in Domains |-> "PENDING"]
    /\ verified = [d \in Domains |-> FALSE]
    /\ covers = [d \in Domains |-> FALSE]
    /\ column = [d \in Domains |-> FALSE]
    /\ crawls = [c \in CrawlIds |-> NoCrawl]
    /\ asking = [u \in Askers |-> NotAsking]

Live == {d \in Domains : website[d] = "live"}

-----------------------------------------------------------------------------
(* The two gates, each as it is written.                                    *)

Crawlable == {"PENDING", "CONNECTING", "READY", "ERROR"}

\* evaluate_crawl_allowed: the first thing the customer can put right.  Nobody
\* passes it a plan, a pause or the rules of robots.txt.
CrawlDecision(d) ==
    CASE ~verified[d]                            -> "ownership_not_verified"
      [] verified[d] /\ ~covers[d]               -> "ownership_does_not_cover_target"
      [] verified[d] /\ covers[d] /\ siteStatus[d] \notin Crawlable
                                                 -> "website_status"
      [] OTHER                                   -> "allowed"

\* MUTANT: once verified, always covered.
PermissionRefusal_Verified(d) ==
    IF website[d] # "live" THEN "website_gone"
    ELSE IF ~verified[d] THEN "ownership_not_verified"
    ELSE IF siteStatus[d] \notin Crawlable THEN "website_status" ELSE "allowed"

\* CrawlRunner._permission_refusal.
PermissionRefusal(d) ==
    IF website[d] # "live" THEN "website_gone"
    ELSE IF ~verified[d] THEN "ownership_not_verified"
    ELSE IF ~covers[d] THEN "ownership_does_not_cover_target"
    ELSE IF siteStatus[d] \notin Crawlable THEN "website_status" ELSE "allowed"

-----------------------------------------------------------------------------
(* Requests.                                                                *)

Checks(u, pc, d) == asking[u].pc = "idle" /\ asking' = [asking EXCEPT ![u] = [pc |-> pc, site |-> d]]
Ends(u) == asking' = [asking EXCEPT ![u] = NotAsking]

\* create_website: the role, the domain and the plan's limit are checked ...
CheckWebsite(u, d, role) ==
    /\ role \in CanWrite
    /\ d \notin Live
    /\ Cardinality(Live) < MaxWebsites
    /\ Checks(u, "create", d)
    /\ UNCHANGED <<siteVars, crawls>>

\* ... and the row is inserted, unless the organisation already has one of this
\* domain: archived rows count, and the request fails.
InsertWebsite(u) ==
    /\ asking[u].pc = "create"
    /\ website' = [website EXCEPT ![asking[u].site] = IF @ = "absent" THEN "live" ELSE @]
    /\ Ends(u)
    /\ UNCHANGED <<siteStatus, verified, covers, column, crawls>>

Archive(d, role) ==
    /\ role \in CanAdminister
    /\ d \in Live
    /\ website' = [website EXCEPT ![d] = "archived"]
    /\ UNCHANGED <<siteStatus, verified, covers, column, crawls, asking>>

\* CrawlRepository.running_for.
RunningFor(d) == \E c \in CrawlIds : crawls[c].site = d /\ crawls[c].status \in {"queued", "running"}

\* start_crawl: nothing in progress and the first gate open ...
CheckCrawl(u, d, role) ==
    /\ role \in CanWrite
    /\ d \in Live
    /\ ~RunningFor(d)
    /\ CrawlDecision(d) = "allowed"
    /\ Checks(u, "crawl", d)
    /\ UNCHANGED <<siteVars, crawls>>

NewCrawl(d, trigger) ==
    \E c \in CrawlIds :
        /\ crawls[c] = NoCrawl
        /\ \A b \in 1..(c - 1) : crawls[b] # NoCrawl
        /\ crawls' = [crawls EXCEPT ![c] = [site |-> d, trigger |-> trigger, status |-> "queued"]]

\* ... and a crawl is queued.
InsertCrawl(u) ==
    /\ asking[u].pc = "crawl"
    /\ NewCrawl(asking[u].site, "manual")
    /\ Ends(u)
    /\ UNCHANGED siteVars

-----------------------------------------------------------------------------
(* Ownership.                                                               *)

\* connect_search_console: the link is replaced; if the new property is evidence
\* the verification is recorded, and otherwise an earlier one stays.
ConnectProperty(d, evidence) ==
    /\ d \in Live
    /\ covers' = [covers EXCEPT ![d] = evidence]
    /\ verified' = [verified EXCEPT ![d] = @ \/ evidence]
    /\ siteStatus' = [siteStatus EXCEPT ![d] =
                         IF evidence /\ @ = "PENDING" THEN "CONNECTING" ELSE @]
    /\ UNCHANGED <<website, column, crawls, asking>>

\* A later discovery finds another permission level for the same property.
PermissionLevelChanges(d) ==
    /\ d \in Live
    /\ verified[d]
    /\ covers' = [covers EXCEPT ![d] = ~@]
    /\ UNCHANGED <<website, siteStatus, verified, column, crawls, asking>>

\* No statement of the platform writes crawl_allowed: its default is false.  Nor
\* does one move a website on from CONNECTING.
OperatorWrites(d) ==
    /\ ByHand
    /\ d \in Live
    /\ \/ column' = [column EXCEPT ![d] = ~@] /\ UNCHANGED siteStatus
       \/ UNCHANGED column /\ \E s \in {"CRAWLING", "READY", "ERROR"} :
             siteStatus' = [siteStatus EXCEPT ![d] = s]
    /\ UNCHANGED <<website, verified, covers, crawls, asking>>

-----------------------------------------------------------------------------
(* The nightly crawl.                                                       *)

\* The dispatcher finds the website eligible by its column, and some time later
\* the job inserts its crawl.
NightlyCrawl(d) ==
    /\ d \in Live
    /\ column[d]
    /\ NewCrawl(d, "scheduled")
    /\ UNCHANGED <<siteVars, asking>>

\* MUTANT: the second gate trusts the first.
BeginCrawl_Trusting(c) ==
    /\ crawls[c].status = "queued"
    /\ crawls[c].trigger = "scheduled"
    /\ crawls' = [crawls EXCEPT ![c].status = "running"]
    /\ UNCHANGED <<siteVars, asking>>

\* The job runs the crawl it has inserted, past the second gate; nothing runs
\* the crawls that requests insert.
BeginCrawl(c) ==
    /\ crawls[c].status = "queued"
    /\ crawls[c].trigger = "scheduled"
    /\ crawls' = [crawls EXCEPT ![c].status =
           IF PermissionRefusal(crawls[c].site) = "allowed" THEN "running" ELSE "cancelled"]
    /\ UNCHANGED <<siteVars, asking>>

\* A runner that dies leaves its crawl running: it never comes to this.
EndCrawl(c) ==
    /\ crawls[c].status = "running"
    /\ crawls' = [crawls EXCEPT ![c].status = "completed"]
    /\ UNCHANGED <<siteVars, asking>>

WebsitesNext ==
    \/ \E u \in Askers, d \in Domains, role \in Roles :
          CheckWebsite(u, d, role) \/ CheckCrawl(u, d, role)
    \/ \E u \in Askers : InsertWebsite(u) \/ InsertCrawl(u)
    \/ \E d \in Domains, role \in Roles : Archive(d, role)
    \/ \E d \in Domains, evidence \in BOOLEAN : ConnectProperty(d, evidence)
    \/ \E d \in Domains : PermissionLevelChanges(d) \/ OperatorWrites(d) \/ NightlyCrawl(d)
    \/ \E c \in CrawlIds : BeginCrawl(c) \/ EndCrawl(c)

\* A night comes every night, and a job that was sent is worked on.
WebsitesSpec ==
    /\ WebsitesInit /\ [][WebsitesNext]_websitesVars
    /\ \A d \in Domains : WF_websitesVars(NightlyCrawl(d))
    /\ \A c \in CrawlIds : WF_websitesVars(BeginCrawl(c)) /\ WF_websitesVars(EndCrawl(c))
    /\ \A u \in Askers : WF_websitesVars(InsertCrawl(u))

-----------------------------------------------------------------------------
(* What must hold.                                                          *)

WebsitesTypeOK ==
    /\ website \in [Domains -> {"absent", "live", "archived"}]
    /\ siteStatus \in [Domains -> Statuses]
    /\ verified \in [Domains -> BOOLEAN] /\ covers \in [Domains -> BOOLEAN]
    /\ column \in [Domains -> BOOLEAN]
    /\ crawls \in [CrawlIds -> [site : Domains \cup {NoDomain},
                                trigger : {"none", "manual", "scheduled"},
                                status : {"none", "queued", "running", "cancelled", "completed"}]]
    /\ asking \in [Askers -> [pc : {"idle", "create", "crawl"}, site : Domains \cup {NoDomain}]]

\* The gate of the API and the gate of the crawler are two programs for one
\* decision (domain/crawl_policy.py and crawler/runner.py): of every live website
\* they say the same, with the same reason.
GatesAgree == \A d \in Live : CrawlDecision(d) = PermissionRefusal(d)

\* "A queue entry must never outlive the permission that created it": whatever was
\* withdrawn between the dispatcher's look and the runner's start, a crawl starts
\* only of a website that is live, verified and covered at that moment.
NeverOutlives ==
    [][\A c \in CrawlIds :
          crawls[c].status = "queued" /\ crawls'[c].status = "running" =>
              LET d == crawls[c].site IN d \in Live /\ verified[d] /\ covers[d]
      ]_websitesVars

\* What the schedule says of the nightly crawl (docs/13-scheduler.md: it runs when
\* crawl_allowed, decision 20: verified, covered, active): a website that stays
\* so is crawled in the end.
AllowedIsCrawled ==
    \A d \in Domains :
        <>[](d \in Live /\ CrawlDecision(d) = "allowed")
            => <>(\E c \in CrawlIds : crawls[c].site = d /\ crawls[c].status = "completed")
=============================================================================
