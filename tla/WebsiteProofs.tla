---------------------------- MODULE WebsiteProofs ----------------------------
(***************************************************************************)
(* Proofs about what happens to one website: Websites, Properties,         *)
(* Fetching and Issues, for any websites, people, properties, hosts, rules *)
(* and facts, and any number of calls.                                     *)
(***************************************************************************)
EXTENDS Websites, Fetching, Issues, Properties, SequenceTheorems, SumProofs

-----------------------------------------------------------------------------
(* The gates of a crawl.                                                    *)

\* A crawl, and a request past its check, is of a website there is.
Sited ==
    /\ \A c \in CrawlIds : crawls[c].status # "none" => crawls[c].site \in Domains
    /\ \A u \in Askers : asking[u].pc # "idle" => asking[u].site \in Domains

WebsitesInv == WebsitesTypeOK /\ Sited

LEMMA CrawlsGrow ==
    ASSUME WebsitesInv, NEW d \in Domains, NEW trigger \in {"manual", "scheduled"},
           NewCrawl(d, trigger)
    PROVE  /\ crawls' \in [CrawlIds -> [site : Domains \cup {NoDomain},
                                        trigger : {"none", "manual", "scheduled"},
                                        status : {"none", "queued", "running", "cancelled",
                                                  "completed"}]]
           /\ \A c \in CrawlIds :
                 \/ crawls'[c] = crawls[c]
                 \/ /\ crawls[c].status = "none" /\ crawls'[c].status = "queued"
                    /\ crawls'[c].site = d
<1>1. PICK b \in CrawlIds :
         /\ crawls[b] = NoCrawl
         /\ crawls' = [crawls EXCEPT ![b] = [site |-> d, trigger |-> trigger, status |-> "queued"]]
  BY DEF NewCrawl
<1>. QED BY <1>1 DEF WebsitesInv, WebsitesTypeOK, NoCrawl

LEMMA CrawlsGoOn ==
    ASSUME WebsitesInv, NEW c \in CrawlIds, crawls[c].status # "none",
           NEW status \in {"running", "cancelled", "completed"},
           crawls' = [crawls EXCEPT ![c].status = status]
    PROVE  /\ crawls' \in [CrawlIds -> [site : Domains \cup {NoDomain},
                                        trigger : {"none", "manual", "scheduled"},
                                        status : {"none", "queued", "running", "cancelled",
                                                  "completed"}]]
           /\ \A b \in CrawlIds : crawls'[b].site = crawls[b].site
           /\ \A b \in CrawlIds \ {c} : crawls'[b] = crawls[b]
           /\ crawls'[c].status = status
  BY DEF WebsitesInv, WebsitesTypeOK

LEMMA WebsitesInvStep == ASSUME WebsitesInv, [WebsitesNext]_websitesVars PROVE WebsitesInv'
<1>. USE WebsitesAssumption
<1>. USE DEF WebsitesInv, WebsitesTypeOK, Sited, siteVars, Checks, Ends, NotAsking
<1>1. ASSUME NEW u \in Askers, NEW d \in Domains, NEW role \in Roles,
             CheckWebsite(u, d, role) \/ CheckCrawl(u, d, role)
      PROVE  WebsitesInv'
  BY <1>1 DEF CheckWebsite, CheckCrawl
<1>2. ASSUME NEW u \in Askers, InsertWebsite(u) PROVE WebsitesInv'
  BY <1>2 DEF InsertWebsite
<1>3. ASSUME NEW u \in Askers, InsertCrawl(u) PROVE WebsitesInv'
  BY <1>3, CrawlsGrow DEF InsertCrawl
<1>4. ASSUME NEW d \in Domains, NEW role \in Roles, Archive(d, role) PROVE WebsitesInv'
  BY <1>4 DEF Archive
<1>5. ASSUME NEW d \in Domains, NEW evidence \in BOOLEAN, ConnectProperty(d, evidence)
      PROVE  WebsitesInv'
  BY <1>5 DEF ConnectProperty, Statuses
<1>6. ASSUME NEW d \in Domains, PermissionLevelChanges(d) PROVE WebsitesInv'
  BY <1>6 DEF PermissionLevelChanges
<1>7. ASSUME NEW d \in Domains, OperatorWrites(d) PROVE WebsitesInv'
  BY ZenonT(60), <1>7 DEF OperatorWrites, Statuses
<1>8. ASSUME NEW d \in Domains, NightlyCrawl(d) PROVE WebsitesInv'
  BY <1>8, CrawlsGrow DEF NightlyCrawl
<1>9. ASSUME NEW c \in CrawlIds, BeginCrawl(c) PROVE WebsitesInv'
  BY <1>9, CrawlsGoOn DEF BeginCrawl
<1>10. ASSUME NEW c \in CrawlIds, EndCrawl(c) PROVE WebsitesInv'
  BY <1>10, CrawlsGoOn DEF EndCrawl
<1>11. CASE UNCHANGED websitesVars BY <1>11 DEF websitesVars
<1>. QED
  BY <1>1, <1>2, <1>3, <1>4, <1>5, <1>6, <1>7, <1>8, <1>9, <1>10, <1>11 DEF WebsitesNext

\* ... whatever is left undone: no fairness is needed for it.
LEMMA WebsitesAlwaysTyped == WebsitesInit /\ [][WebsitesNext]_websitesVars => []WebsitesInv
<1>1. WebsitesInit => WebsitesInv
  BY WebsitesAssumption
  DEF WebsitesInit, WebsitesInv, WebsitesTypeOK, Sited, NoCrawl, NotAsking, Statuses
<1>. QED BY <1>1, WebsitesInvStep, PTL

\* The variables keep their types, and no crawl is of a website that never was.
THEOREM WebsitesStayTyped == WebsitesSpec => []WebsitesInv
BY WebsitesAlwaysTyped, PTL DEF WebsitesSpec

\* Of every live website the API's gate and the crawler's say the same, with the same
\* reason (crawl_policy.py's evaluate_crawl_allowed, CrawlRunner._permission_refusal).
THEOREM GatesSayTheSame == WebsitesSpec => []GatesAgree
<1>1. WebsitesInv => GatesAgree
  BY DEF WebsitesInv, WebsitesTypeOK, GatesAgree, Live, CrawlDecision, PermissionRefusal
<1>. QED BY <1>1, WebsitesStayTyped, PTL

\* A crawl starts only of a website that may be crawled at that moment, whatever was
\* withdrawn since the dispatcher looked (crawler/runner.py, _permission_refusal).
THEOREM PermissionIsFresh == WebsitesSpec => NeverOutlives
<1>1. ASSUME WebsitesInv, [WebsitesNext]_websitesVars, NEW c \in CrawlIds,
             crawls[c].status = "queued", crawls'[c].status = "running"
      PROVE  LET d == crawls[c].site IN d \in Live /\ verified[d] /\ covers[d]
  <2>1. ASSUME NEW d \in Domains, NEW trigger \in {"manual", "scheduled"}, NewCrawl(d, trigger)
        PROVE  FALSE
    BY <1>1, <2>1, CrawlsGrow
  <2>2. crawls' # crawls BY <1>1
  <2>3. PICK b \in CrawlIds : BeginCrawl(b) \/ EndCrawl(b)
    BY <1>1, <2>1, <2>2
    DEF WebsitesNext, CheckWebsite, CheckCrawl, InsertWebsite, InsertCrawl, Archive,
        ConnectProperty, PermissionLevelChanges, OperatorWrites, NightlyCrawl, websitesVars,
        WebsitesInv, Sited
  <2>4. BeginCrawl(b) /\ b = c /\ PermissionRefusal(crawls[c].site) = "allowed"
    <3>1. CASE EndCrawl(b)
      BY <1>1, <3>1, CrawlsGoOn DEF EndCrawl
    <3>2. CASE BeginCrawl(b)
      BY <1>1, <3>2, CrawlsGoOn DEF BeginCrawl
    <3>. QED BY <2>3, <3>1, <3>2
  <2>. QED BY <1>1, <2>4 DEF PermissionRefusal, Live, WebsitesInv, Sited
<1>2. WebsitesInv /\ [WebsitesNext]_websitesVars =>
         [\A c \in CrawlIds :
             crawls[c].status = "queued" /\ crawls'[c].status = "running" =>
                 LET d == crawls[c].site IN d \in Live /\ verified[d] /\ covers[d]]_websitesVars
  BY <1>1
<1>. QED BY <1>2, WebsitesStayTyped, PTL DEF WebsitesSpec, NeverOutlives

-----------------------------------------------------------------------------
(* What proves ownership.                                                   *)

\* A host without its www is a host.
LEMMA BareIsHost ==
    ASSUME NEW host \in Seq(STRING)
    PROVE  /\ Bare(host) \in Seq(STRING) /\ Len(Bare(host)) <= Len(host)
           /\ Len(Bare(host)) = Len(host) - 1 \/ Bare(host) = host
           /\ \A i \in 1 .. Len(Bare(host)) : Bare(host)[i] = host[i]
<1>1. CASE host # <<>> /\ Last(host) = Www
  <2>1. Len(host) \in Nat \ {0} BY <1>1, EmptySeq, LenProperties
  <2>2. Bare(host) = SubSeq(host, 1, Len(host) - 1) BY <1>1 DEF Bare, Front
  <2>3. /\ SubSeq(host, 1, Len(host) - 1) \in Seq(STRING)
        /\ Len(SubSeq(host, 1, Len(host) - 1)) = Len(host) - 1
        /\ \A i \in 1 .. Len(host) - 1 : SubSeq(host, 1, Len(host) - 1)[i] = host[i]
    <3>. DEFINE n == Len(host) - 1
    <3>1. n \in Nat /\ \A i \in 1 .. n : host[i] \in STRING BY <2>1, LenProperties
    <3>. HIDE DEF n
    <3>2. /\ SubSeq(host, 1, n) \in Seq(STRING)
          /\ Len(SubSeq(host, 1, n)) = n
          /\ \A i \in 1 .. n : SubSeq(host, 1, n)[i] = host[i]
      BY <3>1, SubSeqProperties
    <3>. QED BY <3>2 DEF n
  <2>. QED BY <2>1, <2>2, <2>3
<1>2. CASE ~ (host # <<>> /\ Last(host) = Www)
  BY <1>2, LenProperties DEF Bare
<1>. QED BY <1>1, <1>2

\* A prefix agrees with what it is a prefix of, and what agrees is one.
LEMMA PrefixAgrees ==
    ASSUME NEW s \in Seq(STRING), NEW t \in Seq(STRING)
    PROVE  IsPrefix(s, t) <=> Len(s) <= Len(t) /\ \A i \in 1 .. Len(s) : s[i] = t[i]
<1>0. Len(s) \in Nat /\ Len(t) \in Nat BY LenProperties
<1>1. ASSUME Len(s) <= Len(t)
      PROVE  /\ SubSeq(s, 1, Len(s)) = s
             /\ SubSeq(t, 1, Len(s)) \in Seq(STRING) /\ Len(SubSeq(t, 1, Len(s))) = Len(s)
             /\ \A i \in 1 .. Len(s) : SubSeq(t, 1, Len(s))[i] = t[i]
  <2>1. SubSeq(s, 1, Len(s)) = s BY SubSeqFull
  <2>2. 1 \in 1 .. Len(t) + 1 /\ Len(s) \in 1 - 1 .. Len(t) BY <1>0, <1>1
  <2>3. /\ SubSeq(t, 1, Len(s)) \in Seq(STRING)
        /\ Len(SubSeq(t, 1, Len(s))) = Len(s)
        /\ \A i \in 1 .. Len(s) : SubSeq(t, 1, Len(s))[i] = t[i]
    BY <1>0, <2>2, SubSeqProperties
  <2>. QED BY <2>1, <2>3
<1>2. ASSUME IsPrefix(s, t) PROVE Len(s) <= Len(t) /\ \A i \in 1 .. Len(s) : s[i] = t[i]
  BY <1>1, <1>2 DEF IsPrefix
<1>3. ASSUME Len(s) <= Len(t), \A i \in 1 .. Len(s) : s[i] = t[i] PROVE IsPrefix(s, t)
  <2>1. s = SubSeq(t, 1, Len(s)) BY <1>1, <1>3, SeqEqual
  <2>. QED BY <1>1, <1>3, <2>1 DEF IsPrefix
<1>. QED BY <1>2, <1>3

\* Whatever covers the website in SQL, the matcher gives at least the quality of this host,
\* but for a domain property of the www host.
LEMMA CoveringMatches ==
    ASSUME NEW site \in Sites, Covers(site), ~ OfTheWwwHost(site)
    PROVE  Quality(site) >= 2
<1>0. /\ site.host \in Seq(STRING) /\ CanonicalHost \in Seq(STRING)
      /\ Domain \in Seq(STRING)
  BY PropertiesAssumption, BareIsHost DEF Domain
<1>1. CASE site.domain
  <2>1. site.host = Bare(site.host) BY <1>1 DEF OfTheWwwHost
  <2>2. CASE CanonicalHost = site.host
    BY <1>1, <2>1, <2>2 DEF Domain, Quality
  <2>3. CASE Under(CanonicalHost, site.host)
    <3>1. /\ Len(site.host) <= Len(CanonicalHost) /\ site.host # CanonicalHost
          /\ \A i \in 1 .. Len(site.host) : site.host[i] = CanonicalHost[i]
      BY <1>0, <2>3, PrefixAgrees DEF Under, IsStrictPrefix
    <3>2. Len(site.host) # Len(CanonicalHost) BY <1>0, <3>1, SeqEqual
    <3>3. /\ Len(Domain) = Len(CanonicalHost) - 1 \/ Domain = CanonicalHost
          /\ \A i \in 1 .. Len(Domain) : Domain[i] = CanonicalHost[i]
      BY <1>0, BareIsHost DEF Domain
    <3>4. Len(site.host) \in Nat /\ Len(CanonicalHost) \in Nat /\ Len(Domain) \in Nat
      BY <1>0, LenProperties
    <3>5. Len(site.host) <= Len(Domain) BY <3>1, <3>2, <3>3, <3>4
    <3>6. \A i \in 1 .. Len(site.host) : site.host[i] = Domain[i]
      BY <3>1, <3>3, <3>4, <3>5
    <3>7. IsPrefix(site.host, Domain) BY <1>0, <3>5, <3>6, PrefixAgrees
    <3>8. Domain = site.host \/ Under(Domain, site.host)
      BY <3>7 DEF Under, IsStrictPrefix
    <3>. QED BY <1>1, <3>8 DEF Quality
  <2>. QED BY <1>1, <2>2, <2>3 DEF Covers
<1>2. CASE ~ site.domain
  <2>1. site.host = CanonicalHost BY <1>2 DEF Covers
  <2>. QED BY <1>2, <2>1 DEF Quality, Domain
<1>. QED BY <1>1, <1>2

\* What the wizard would show now was shown, and every row is of a property.
PropertiesInv ==
    /\ DOMAIN levels \subseteq Sites /\ DOMAIN listing \subseteq Sites
    /\ DOMAIN rows \subseteq Sites
    /\ Shown(rows) \subseteq flagged
    /\ EvidenceIsMatched

LEMMA PropertiesInvStep ==
    ASSUME PropertiesInv, [PropertiesNext]_propertiesVars PROVE PropertiesInv'
<1>. USE DEF PropertiesInv, EvidenceIsMatched
<1>1. ASSUME NEW s \in Sites, Shift(s) PROVE PropertiesInv'
  <2>1. DOMAIN levels' \subseteq Sites
    BY <1>1 DEF Shift
  <2>. QED BY <1>1, <2>1 DEF Shift
<1>2. CASE ListSites BY <1>2 DEF ListSites
<1>3. CASE KeepSites
  <2>1. DOMAIN rows' = DOMAIN rows \cup DOMAIN listing /\ Shown(rows') \subseteq flagged'
        /\ flagged \subseteq flagged'
    BY <1>3 DEF KeepSites
  <2>2. DOMAIN listing' \subseteq Sites BY <1>3 DEF KeepSites, NoList
  <2>3. Shown(rows)' = Shown(rows') BY DEF Shown
  <2>. QED BY <1>3, <2>1, <2>2, <2>3 DEF KeepSites
<1>4. CASE ListFails BY <1>4 DEF ListFails, NoList
<1>5. CASE Disconnect BY <1>5 DEF Disconnect
<1>6. ASSUME NEW s \in Sites, Connect(s) PROVE PropertiesInv'
  <2>1. /\ UNCHANGED <<levels, listing, rows, flagged>>
        /\ s \in DOMAIN rows
        /\ ownership' = IF Sufficient(s, rows[s]) THEN s ELSE ownership
    BY <1>6 DEF Connect
  <2>2. ASSUME Sufficient(s, rows[s]), ~ OfTheWwwHost(s) PROVE s \in flagged
    <3>1. Covers(s) /\ rows[s] \in OwnerLevels BY <2>2 DEF Sufficient
    <3>2. Quality(s) >= 2 BY <2>2, <3>1, CoveringMatches
    <3>3. ProvesOwnership(s, rows[s]) BY <3>1, <3>2 DEF ProvesOwnership
    <3>4. s \in Shown(rows) BY <2>1, <3>3 DEF Shown
    <3>. QED BY <3>4
  <2>3. EvidenceIsMatched' BY <2>1, <2>2
  <2>4. Shown(rows)' = Shown(rows) BY <2>1 DEF Shown
  <2>. QED BY <2>1, <2>3, <2>4
<1>7. CASE UNCHANGED propertiesVars BY <1>7 DEF propertiesVars
<1>. QED BY <1>1, <1>2, <1>3, <1>4, <1>5, <1>6, <1>7 DEF PropertiesNext

\* Ownership is only ever recorded on a property the wizard showed as proving it, of any
\* hosts and with any permissions coming and going, but for a domain property of the www
\* host (services/matching.py against the view of migration 0010).
THEOREM EvidenceWasShown == PropertiesSpec => []EvidenceIsMatched
<1>1. PropertiesInit => PropertiesInv
  BY DEF PropertiesInit, PropertiesInv, EvidenceIsMatched, NoList, Shown
<1>2. PropertiesInv => EvidenceIsMatched BY DEF PropertiesInv
<1>. QED BY <1>1, <1>2, PropertiesInvStep, PTL DEF PropertiesSpec

\* What Google lists has a permission of those it gives.
PropertiesShape ==
    /\ PropertiesTypeOK
    /\ \A s \in DOMAIN levels : levels[s] \in Permissions
    /\ \A s \in DOMAIN listing : listing[s] \in Permissions

LEMMA PropertiesShapeStep ==
    ASSUME PropertiesShape, [PropertiesNext]_propertiesVars PROVE PropertiesShape'
<1>0. MaxShifts \in Nat /\ MaxDiscoveries \in Nat BY PropertiesAssumption
<1>. USE DEF PropertiesShape, PropertiesTypeOK
<1>1. ASSUME NEW s \in Sites, Shift(s) PROVE PropertiesShape'
  <2>1. /\ DOMAIN levels' \subseteq Sites
        /\ \A t \in DOMAIN levels' : levels'[t] \in Permissions
    BY <1>1 DEF Shift
  <2>2. shifts' \in 0 .. MaxShifts BY <1>0, <1>1 DEF Shift
  <2>. QED BY <1>1, <2>1, <2>2 DEF Shift
<1>2. CASE ListSites BY <1>0, <1>2 DEF ListSites
<1>3. CASE KeepSites
  <2>1. /\ DOMAIN rows' = DOMAIN rows \cup DOMAIN listing
        /\ \A s \in DOMAIN rows' : rows'[s] \in Permissions
    BY <1>3 DEF KeepSites
  <2>2. Shown(rows') \subseteq DOMAIN rows' BY DEF Shown
  <2>3. flagged' = flagged \cup Shown(rows') BY <1>3 DEF KeepSites
  <2>4. flagged' \subseteq Sites BY <2>1, <2>2, <2>3
  <2>. QED BY <1>3, <2>1, <2>4 DEF KeepSites, NoList
<1>4. CASE ListFails BY <1>4 DEF ListFails, NoList
<1>5. CASE Disconnect BY <1>5 DEF Disconnect
<1>6. ASSUME NEW s \in Sites, Connect(s) PROVE PropertiesShape'
  BY <1>6 DEF Connect
<1>7. CASE UNCHANGED propertiesVars BY <1>7 DEF propertiesVars
<1>. HIDE DEF PropertiesShape, PropertiesTypeOK
<1>. QED BY <1>1, <1>2, <1>3, <1>4, <1>5, <1>6, <1>7 DEF PropertiesNext

\* What is listed, kept, linked and recorded is always one of the account's properties
\* (api/hub/services/discovery.py, routes/properties.py).
THEOREM PropertiesTyped == PropertiesSpec => []PropertiesTypeOK
<1>1. PropertiesInit => PropertiesShape
  <2>1. 0 \in 0 .. MaxShifts /\ 0 \in 0 .. MaxDiscoveries BY PropertiesAssumption
  <2>2. DOMAIN NoList = {} BY DEF NoList
  <2>. QED BY <2>1, <2>2 DEF PropertiesInit, PropertiesShape, PropertiesTypeOK
<1>2. PropertiesShape => PropertiesTypeOK BY DEF PropertiesShape
<1>. QED BY <1>1, <1>2, PropertiesShapeStep, PTL DEF PropertiesSpec

-----------------------------------------------------------------------------
(* When a host is asked.                                                    *)

FetchingShape ==
    /\ instant \in Nat
    /\ delays \in [Hosts -> Nat] /\ nextAllowed \in [Hosts -> Nat] /\ quietUntil \in [Hosts -> Nat]
    /\ DOMAIN request = {"pc", "host", "of", "sent"}
    /\ request.host \in Hosts /\ request.sent \in Nat
    /\ request.pc \in {"none", "waiting", "sent"}
    /\ robots.delay \in Nat /\ robots.maps \in Seq(DOMAIN Maps)
    /\ sitemaps \in Seq(DOMAIN Maps)

\* The limiter keeps every host at rest at least as long as it must be left alone.
LimiterRests ==
    /\ \A h \in Hosts : delays[h] >= DefaultDelay /\ nextAllowed[h] >= quietUntil[h]
    /\ robots.delay >= DefaultDelay
    /\ stage = "pages" => delays[Origin] >= robots.delay

FetchingInv == FetchingShape /\ LimiterRests /\ HostsRest

\* Every policy asks for at least the usual delay.
LEMMA PoliciesRest ==
    ASSUME NEW policy \in Policies
    PROVE  policy.delay \in Nat /\ policy.delay >= DefaultDelay /\ policy.maps \in Seq(DOMAIN Maps)
<1>1. DefaultDelay \in Nat /\ MaxDelay \in Nat /\ DefaultDelay <= MaxDelay
  BY FetchingAssumption
<1>2. CASE policy = NoFile
  BY <1>1, <1>2 DEF NoFile
<1>3. CASE policy # NoFile
  <2>1. PICK r \in Robots : policy = [r EXCEPT !.delay = Clamp(r.delay)]
    BY <1>3 DEF Policies
  <2>2. /\ DOMAIN r = {"delay", "maps", "blocks"} /\ r.delay \in Nat
        /\ r.maps \in Seq(DOMAIN Maps)
    BY FetchingAssumption DEF NoFile
  <2>3. Clamp(r.delay) \in Nat /\ Clamp(r.delay) >= DefaultDelay
    BY <1>1, <2>2 DEF Clamp
  <2>4. policy.delay = Clamp(r.delay) /\ policy.maps = r.maps
    BY <2>1, <2>2
  <2>. QED BY <2>2, <2>3, <2>4
<1>. QED BY <1>2, <1>3

\* What an answer leaves behind: a host that rests for what it asked, and for its delay.
LEMMA HeardRests ==
    ASSUME FetchingInv, NEW hint \in Answers, Heard(hint)
    PROVE  /\ delays' \in [Hosts -> Nat] /\ nextAllowed' \in [Hosts -> Nat]
           /\ quietUntil' \in [Hosts -> Nat]
           /\ \A h \in Hosts : delays'[h] >= delays[h] /\ nextAllowed'[h] >= quietUntil'[h]
           /\ request' = NoRequest /\ instant' = instant
<1>. DEFINE h == request.host
            asked == IF hint = Unasked THEN 0 ELSE Wait(hint)
            rests == IF stage = "pages" /\ h = Origin THEN robots.delay ELSE DefaultDelay
            next == BackedOff(h, hint)
            quiet == IF asked > rests THEN asked ELSE rests
<1>1. h \in Hosts /\ instant \in Nat /\ delays[h] \in Nat
  BY DEF FetchingInv, FetchingShape
<1>2. hint = Unasked \/ (Wait(hint) \in Nat /\ hint # Unasked)
  BY FetchingAssumption DEF Answers, Wait, Unasked
<1>3. rests \in Nat /\ delays[h] >= rests
  BY <1>1, FetchingAssumption DEF FetchingInv, FetchingShape, LimiterRests
<1>4. next \in Nat /\ next >= delays[h] /\ next >= asked /\ asked \in Nat
  BY <1>1, <1>2 DEF BackedOff
<1>5. quiet \in Nat /\ next >= quiet
  <2>. HIDE DEF next, asked, rests
  <2>. QED BY <1>1, <1>3, <1>4
<1>6. /\ delays' = [delays EXCEPT ![h] = next]
      /\ nextAllowed' = [nextAllowed EXCEPT ![h] = instant + delays'[h]]
      /\ quietUntil' = [quietUntil EXCEPT ![h] = instant + quiet]
      /\ request' = NoRequest /\ instant' = instant
  BY DEF Heard
<1>. HIDE DEF next, quiet, h
<1>. QED BY SMTT(30), <1>1, <1>4, <1>5, <1>6 DEF FetchingInv, FetchingShape, LimiterRests

\* ... so that nothing but the policy and the queue is left to look at.
LEMMA HeardKeeps ==
    ASSUME FetchingInv, NEW hint \in Answers, Heard(hint),
           (robots.delay \in Nat /\ robots.delay >= DefaultDelay)',
           (robots.maps \in Seq(DOMAIN Maps) /\ sitemaps \in Seq(DOMAIN Maps))',
           stage' # "pages" \/ (stage' = stage /\ robots' = robots)
    PROVE  FetchingInv'
<1>1. Origin \in Hosts /\ DefaultDelay \in Nat BY FetchingAssumption
<1>2. /\ delays' \in [Hosts -> Nat] /\ nextAllowed' \in [Hosts -> Nat]
      /\ quietUntil' \in [Hosts -> Nat]
      /\ \A h \in Hosts : delays'[h] >= delays[h] /\ nextAllowed'[h] >= quietUntil'[h]
      /\ request' = NoRequest /\ instant' = instant
  BY HeardRests
<1>3. FetchingShape'
  BY <1>1, <1>2 DEF FetchingInv, FetchingShape, NoRequest
<1>4. ASSUME NEW h \in Hosts
      PROVE  /\ delays[h] \in Nat /\ delays'[h] \in Nat /\ delays'[h] >= delays[h]
             /\ delays[h] >= DefaultDelay
  BY <1>2 DEF FetchingInv, FetchingShape, LimiterRests
<1>5. \A h \in Hosts : delays'[h] >= DefaultDelay
  <2>. TAKE h \in Hosts
  <2>. DEFINE before == delays[h]
              after == delays'[h]
  <2>1. before \in Nat /\ after \in Nat /\ after >= before /\ before >= DefaultDelay
    BY <1>4
  <2>. HIDE DEF before, after
  <2>2. after >= DefaultDelay BY <1>1, <2>1
  <2>. QED BY <2>2 DEF after
<1>6. stage' = "pages" => delays'[Origin] >= robots'.delay
  <2>1. ASSUME stage = "pages" PROVE delays'[Origin] >= robots.delay
    <3>. DEFINE before == delays[Origin]
                after == delays'[Origin]
                least == robots.delay
    <3>1. before \in Nat /\ after \in Nat /\ after >= before
      BY <1>1, <1>4
    <3>2. least \in Nat /\ before >= least
      BY <2>1 DEF FetchingInv, FetchingShape, LimiterRests
    <3>. HIDE DEF before, after, least
    <3>3. after >= least BY <3>1, <3>2
    <3>. QED BY <3>3 DEF after, least
  <2>. QED BY <2>1
<1>7. LimiterRests' BY <1>2, <1>5, <1>6 DEF LimiterRests
<1>8. HostsRest' BY <1>2 DEF HostsRest, NoRequest
<1>. QED BY <1>3, <1>7, <1>8 DEF FetchingInv

LEMMA FetchingInvStep == ASSUME FetchingInv, [FetchingNext]_fetchingVars PROVE FetchingInv'
<1>0. Origin \in Hosts /\ Covered \subseteq Hosts /\ DefaultDelay \in Nat
  BY FetchingAssumption
<1>a. /\ Conventional \in Seq(DOMAIN Maps)
      /\ \A m \in DOMAIN Maps : Maps[m].host \in Hosts /\ Maps[m].maps \in Seq(DOMAIN Maps)
  BY FetchingAssumption
<1>1. CASE AskRobots
  BY <1>0, <1>1 DEF AskRobots, Acquire, FetchingInv, FetchingShape, LimiterRests, HostsRest
<1>2. CASE AskSitemap
  <2>1. Head(sitemaps) \in DOMAIN Maps /\ Tail(sitemaps) \in Seq(DOMAIN Maps)
    <3>1. sitemaps \in Seq(DOMAIN Maps) /\ sitemaps # <<>>
      BY <1>2 DEF AskSitemap, FetchingInv, FetchingShape
    <3>. QED BY <3>1, HeadTailProperties
  <2>2. Maps[Head(sitemaps)].host \in Hosts BY <1>a, <2>1
  <2>3. /\ \/ request' = [pc |-> "waiting", host |-> Maps[Head(sitemaps)].host,
                         of |-> Head(sitemaps), sent |-> 0]
           \/ request' = request
        /\ sitemaps' = Tail(sitemaps)
        /\ UNCHANGED <<instant, delays, nextAllowed, stage, robots, quietUntil>>
    BY <1>2 DEF AskSitemap, Acquire
  <2>4. /\ request'.pc = "waiting" \/ request' = request
        /\ request'.host \in Hosts /\ request'.sent \in Nat
        /\ request'.pc \in {"none", "waiting", "sent"}
        /\ DOMAIN request' = {"pc", "host", "of", "sent"}
    BY <2>2, <2>3 DEF FetchingInv, FetchingShape
  <2>5. FetchingShape' BY <2>1, <2>3, <2>4 DEF FetchingInv, FetchingShape
  <2>6. LimiterRests' BY <2>3 DEF FetchingInv, LimiterRests
  <2>7. HostsRest' BY <2>3, <2>4 DEF FetchingInv, HostsRest
  <2>. QED BY <2>5, <2>6, <2>7 DEF FetchingInv
<1>3. CASE EndSeeding
  BY <1>0, <1>3
  DEF EndSeeding, SetDelay, NoRequest, FetchingInv, FetchingShape, LimiterRests, HostsRest
<1>4. CASE Send
  BY <1>0, <1>4 DEF Send, FetchingInv, FetchingShape, LimiterRests, HostsRest
<1>5. CASE Instant
  BY <1>5 DEF Instant, FetchingInv, FetchingShape, LimiterRests, HostsRest
<1>6. ASSUME NEW h \in Covered, AskPage(h) PROVE FetchingInv'
  BY <1>0, <1>6 DEF AskPage, Acquire, FetchingInv, FetchingShape, LimiterRests, HostsRest
<1>7. ASSUME NEW hint \in Answers, ReadRobots(hint) PROVE FetchingInv'
  <2>1. robots' \in Policies BY <1>7 DEF ReadRobots, Policies
  <2>2. robots'.delay \in Nat /\ robots'.delay >= DefaultDelay /\ robots'.maps \in Seq(DOMAIN Maps)
    BY <2>1, PoliciesRest
  <2>3. sitemaps' \in Seq(DOMAIN Maps)
    <3>. DEFINE candidates == IF robots'.maps = <<>> THEN Conventional ELSE robots'.maps
    <3>1. candidates \in Seq(DOMAIN Maps) BY <1>a, <2>2
    <3>2. sitemaps' = IF Len(candidates) <= MaxSitemapFiles THEN candidates
                      ELSE SubSeq(candidates, 1, MaxSitemapFiles)
      BY <1>7 DEF ReadRobots
    <3>. HIDE DEF candidates
    <3>3. MaxSitemapFiles \in Nat BY FetchingAssumption
    <3>4. CASE Len(candidates) > MaxSitemapFiles
      <4>1. SubSeq(candidates, 1, MaxSitemapFiles) \in Seq(DOMAIN Maps)
        BY <3>1, <3>3, <3>4, SubSeqProperties
      <4>. QED BY <3>1, <3>2, <3>3, <3>4, <4>1
    <3>. QED BY <3>1, <3>2, <3>3, <3>4
  <2>4. Heard(hint) /\ stage' = "sitemaps" BY <1>7 DEF ReadRobots
  <2>. QED
    BY <2>2, <2>3, <2>4, HeardKeeps
<1>8. ASSUME NEW hint \in Answers, ReadSitemap(hint) PROVE FetchingInv'
  <2>1. sitemaps' \in Seq(DOMAIN Maps)
    <3>1. sitemaps \in Seq(DOMAIN Maps) BY DEF FetchingInv, FetchingShape
    <3>2. \/ sitemaps' = sitemaps
          \/ request.of \in DOMAIN Maps /\ sitemaps' = sitemaps \o Maps[request.of].maps
      BY <1>8 DEF ReadSitemap
    <3>3. ASSUME request.of \in DOMAIN Maps
          PROVE  sitemaps \o Maps[request.of].maps \in Seq(DOMAIN Maps)
      BY <1>a, <3>1, <3>3, ConcatProperties
    <3>. QED BY <3>1, <3>2, <3>3
  <2>2. Heard(hint) /\ UNCHANGED <<stage, robots>> BY <1>8 DEF ReadSitemap
  <2>. QED
    BY <2>1, <2>2, HeardKeeps DEF FetchingInv, FetchingShape, LimiterRests
<1>9. ASSUME NEW hint \in Answers, ReadPage(hint) PROVE FetchingInv'
  BY <1>9, HeardKeeps DEF ReadPage, FetchingInv, FetchingShape, LimiterRests
<1>10. CASE UNCHANGED fetchingVars
  BY <1>10 DEF fetchingVars, FetchingInv, FetchingShape, LimiterRests, HostsRest
<1>. QED
  BY <1>1, <1>2, <1>3, <1>4, <1>5, <1>6, <1>7, <1>8, <1>9, <1>10 DEF FetchingNext

\* Every host is left alone as long as it asked to be, whatever sets its delay between two
\* requests and for any answers (crawler/politeness.py).
THEOREM HostsAreLeftAlone == FetchingSpec => []HostsRest
<1>1. FetchingInit => FetchingInv
  BY FetchingAssumption
  DEF FetchingInit, NoFile, NoRequest, FetchingInv, FetchingShape, LimiterRests, HostsRest
<1>2. FetchingInv => HostsRest BY DEF FetchingInv
<1>. QED BY <1>1, <1>2, FetchingInvStep, PTL DEF FetchingSpec

\* What the limiter does not look at: the stage, the policy and what the sitemaps gave.
SeedingShape ==
    /\ instant \in 0 .. LastInstant
    /\ stage \in {"robots", "sitemaps", "pages", "over"} /\ robots \in Policies
    /\ readMaps \subseteq DOMAIN Maps
    /\ \A p \in seeds : Seedable(p)

LEMMA SeedingShapeStep ==
    ASSUME FetchingInv, SeedingShape, [FetchingNext]_fetchingVars
    PROVE  SeedingShape'
<1>. USE DEF SeedingShape
<1>1. CASE AskRobots BY <1>1 DEF AskRobots
<1>2. CASE AskSitemap
  <2>1. sitemaps \in Seq(DOMAIN Maps) /\ sitemaps # <<>>
    BY <1>2 DEF AskSitemap, FetchingInv, FetchingShape
  <2>2. Head(sitemaps) \in DOMAIN Maps BY <2>1, HeadTailProperties
  <2>3. /\ readMaps' \in {readMaps, readMaps \cup {Head(sitemaps)}}
        /\ UNCHANGED <<instant, stage, robots, seeds>>
    BY <1>2 DEF AskSitemap
  <2>. QED BY <2>2, <2>3
<1>3. CASE EndSeeding BY <1>3 DEF EndSeeding
<1>4. CASE Send BY <1>4 DEF Send
<1>5. CASE Instant
  <2>1. LastInstant \in Nat BY FetchingAssumption
  <2>. QED BY <1>5, <2>1 DEF Instant
<1>6. ASSUME NEW h \in Covered, AskPage(h) PROVE SeedingShape'
  BY <1>6 DEF AskPage
<1>7. ASSUME NEW hint \in Answers, ReadRobots(hint) PROVE SeedingShape'
  <2>1. robots' \in Policies BY <1>7 DEF ReadRobots, Policies
  <2>2. instant' = instant /\ stage' = "sitemaps" /\ readMaps' = readMaps /\ seeds' = seeds
    BY <1>7 DEF ReadRobots, Heard
  <2>. QED BY <2>1, <2>2
<1>8. ASSUME NEW hint \in Answers, ReadSitemap(hint) PROVE SeedingShape'
  <2>1. /\ UNCHANGED <<instant, stage, robots, readMaps>>
        /\ \/ seeds' = seeds
           \/ seeds' = seeds \cup {p \in Maps[request.of].pages : Seedable(p)}
    BY <1>8 DEF ReadSitemap, Heard
  <2>. QED BY <2>1
<1>9. ASSUME NEW hint \in Answers, ReadPage(hint) PROVE SeedingShape'
  BY <1>9 DEF ReadPage, Heard
<1>10. CASE UNCHANGED fetchingVars BY <1>10 DEF fetchingVars
<1>. QED
  BY <1>1, <1>2, <1>3, <1>4, <1>5, <1>6, <1>7, <1>8, <1>9, <1>10 DEF FetchingNext

\* The policy obeyed is one parse_robots returns, and every seed is a page of the website
\* and not a trap (crawler/robots.py, urls.py).
THEOREM FetchingTyped == FetchingSpec => []FetchingTypeOK
<1>1. FetchingInit => FetchingInv /\ SeedingShape
  BY FetchingAssumption
  DEF FetchingInit, NoFile, NoRequest, FetchingInv, FetchingShape, LimiterRests, HostsRest,
      SeedingShape, Policies
<1>2. FetchingInv /\ SeedingShape => FetchingTypeOK
  BY DEF FetchingInv, FetchingShape, SeedingShape, FetchingTypeOK, ToSet
<1>. QED BY <1>1, <1>2, FetchingInvStep, SeedingShapeStep, PTL DEF FetchingSpec

-----------------------------------------------------------------------------
(* What proves an issue's status.                                           *)

IssuesShape ==
    /\ \A fp \in DOMAIN issues : DOMAIN issues[fp] = {"status", "severity", "over"}
    /\ DOMAIN analysis = {"pc", "findings", "known", "todo", "issue", "present", "views"}
    /\ analysis.pc \in {"idle", "write", "observe", "resolve"}
    /\ analysis.present \in BOOLEAN

\* The issue about to be observed is already what the observation will say, and what is
\* to be resolved is there.
Observable ==
    /\ analysis.pc # "idle" => DOMAIN analysis.known \subseteq DOMAIN issues
    /\ analysis.pc = "observe" =>
          /\ analysis.issue \in DOMAIN issues
          /\ analysis.present <=> issues[analysis.issue].status # "resolved"
    /\ analysis.pc = "resolve" \/ (analysis.pc = "observe" /\ ~ analysis.present) =>
          analysis.todo \subseteq DOMAIN issues

IssuesInv == IssuesShape /\ Observable /\ HistoryProves

LEMMA IssuesInvStep == ASSUME IssuesInv, [IssuesNext]_issueVars PROVE IssuesInv'
<1>. USE DEF IssuesInv, IssuesShape, Observable, HistoryProves, Settled
<1>1. ASSUME NEW view \in DOMAIN CrawlViews, CrawlCompletes(view) PROVE IssuesInv'
  BY <1>1 DEF CrawlCompletes
<1>2. ASSUME NEW view \in DOMAIN SearchViews, SearchDataArrives(view) PROVE IssuesInv'
  BY <1>2 DEF SearchDataArrives
<1>3. ASSUME NEW fp \in DOMAIN issues, MarkResolved(fp) PROVE IssuesInv'
  BY <1>3 DEF MarkResolved
<1>4. ASSUME NEW fp \in DOMAIN issues, NEW over \in BOOLEAN,
             NEW status \in {"snoozed", "dismissed"}, SetAside(fp, status, over)
      PROVE  IssuesInv'
  BY <1>4 DEF SetAside, OpenStatuses
<1>5. ASSUME NEW raising \in SUBSET Fragile, StartAnalysis(raising) PROVE IssuesInv'
  BY <1>5 DEF StartAnalysis, NoAnalysis
<1>6. CASE WriteFinding
  <2>. DEFINE fp == NextIssue
  <2>1. DOMAIN issues' = DOMAIN issues \cup {fp} BY <1>6 DEF WriteFinding, With
  <2>2. Upserted(fp) # "resolved" BY DEF Upserted
  <2>3. /\ issues'[fp].status = Upserted(fp) /\ DOMAIN issues'[fp] = {"status", "severity", "over"}
        /\ \A g \in DOMAIN issues : g # fp => issues'[g] = issues[g]
    BY <1>6 DEF WriteFinding, With
  <2>4. /\ DOMAIN analysis' = DOMAIN analysis
        /\ analysis'.pc = "observe" /\ analysis'.issue = fp /\ analysis'.present = TRUE
        /\ analysis'.known = analysis.known
        /\ UNCHANGED <<observed, torn>> /\ analysis.pc = "write"
    BY <1>6 DEF WriteFinding, Observing
  <2>. HIDE DEF fp
  <2>. QED BY ZenonT(60), <2>1, <2>2, <2>3, <2>4
<1>7. CASE FindingsWritten BY <1>7 DEF FindingsWritten, Gone
<1>8. CASE ResolveGone
  <2>. DEFINE fp == NextIssue
  <2>1. fp \in analysis.todo BY <1>8 DEF ResolveGone, NextIssue
  <2>2. fp \in DOMAIN issues BY <1>8, <2>1 DEF ResolveGone
  <2>3. /\ issues' = [issues EXCEPT ![fp].status = "resolved"]
        /\ DOMAIN analysis' = DOMAIN analysis
        /\ analysis'.pc = "observe" /\ analysis'.issue = fp /\ analysis'.present = FALSE
        /\ analysis'.known = analysis.known /\ analysis'.todo = analysis.todo \ {fp}
        /\ UNCHANGED <<observed, torn>> /\ analysis.pc = "resolve"
    BY <1>8 DEF ResolveGone, Observing
  <2>. HIDE DEF fp
  <2>. QED BY <2>2, <2>3
<1>9. CASE Observe
  <2>1. /\ DOMAIN observed' = DOMAIN observed \cup {analysis.issue}
        /\ observed'[analysis.issue] = analysis.present
        /\ \A g \in DOMAIN observed : g # analysis.issue => observed'[g] = observed[g]
        /\ torn' = torn \ {analysis.issue} /\ UNCHANGED issues /\ analysis.pc = "observe"
    BY <1>9 DEF Observe, With
  <2>2. /\ DOMAIN analysis' = DOMAIN analysis
        /\ analysis'.pc = IF analysis.present THEN "write" ELSE "resolve"
        /\ analysis'.known = analysis.known /\ analysis'.todo = analysis.todo
        /\ analysis'.present = analysis.present
    BY <1>9 DEF Observe
  <2>. QED BY <2>1, <2>2
<1>10. CASE WriteScore BY <1>10 DEF WriteScore, NoAnalysis
<1>11. CASE AnalysisDies BY <1>11 DEF AnalysisDies, NoAnalysis
<1>12. CASE UNCHANGED issueVars BY <1>12 DEF issueVars
<1>. QED
  BY <1>1, <1>2, <1>3, <1>4, <1>5, <1>6, <1>7, <1>8, <1>9, <1>10, <1>11, <1>12 DEF IssuesNext

\* An issue is resolved exactly when its newest observation says it is gone, for any rules
\* and whatever customers do meanwhile (api/analysis/runner.py).
THEOREM ObservationsProve == IssuesSpec => []HistoryProves
<1>1. IssuesInit => IssuesInv
  BY DEF IssuesInit, NoAnalysis, IssuesInv, IssuesShape, Observable, HistoryProves, Settled
<1>2. IssuesInv => HistoryProves BY DEF IssuesInv
<1>. QED BY <1>1, <1>2, IssuesInvStep, PTL DEF IssuesSpec

-----------------------------------------------------------------------------
(* What the score says.                                                     *)

\* The severities of the catalogue.
Grades == {"critical", "high", "medium", "low"}

LEMMA CatalogueTyped ==
    \A key \in Keys : Catalogue[key].weight \in 1 .. 5 /\ Catalogue[key].severity \in Grades
  BY DEF Keys, Catalogue, Type, Grades

\* A quotient is where its numerator puts it.
LEMMA QuotientLies ==
    ASSUME NEW n \in Int, NEW d \in Nat \ {0}
    PROVE  /\ n \div d \in Int
           /\ \A c \in Int : c * d <= n => c <= n \div d
           /\ \A c \in Int : n <= c * d => n \div d <= c
<1>. DEFINE q == n \div d
            r == n % d
<1>1. q \in Int /\ r \in Int /\ n = d * q + r /\ 0 <= r /\ r < d OBVIOUS
<1>. HIDE DEF q, r
<1>2. ASSUME NEW c \in Int, c * d <= n, ~ (c <= q) PROVE FALSE
  <2>1. q + 1 <= c BY <1>1, <1>2
  <2>2. (q + 1) * d <= c * d BY <1>1, <2>1
  <2>3. (q + 1) * d = d * q + d BY <1>1
  <2>4. d * q \in Int /\ c * d \in Int BY <1>1
  <2>. QED BY <1>1, <1>2, <2>2, <2>3, <2>4
<1>3. ASSUME NEW c \in Int, n <= c * d, ~ (q <= c) PROVE FALSE
  <2>1. c + 1 <= q BY <1>1, <1>3
  <2>2. (c + 1) * d <= q * d BY <1>1, <2>1
  <2>3. (c + 1) * d = c * d + d /\ q * d = d * q BY <1>1
  <2>4. d * q \in Int /\ c * d \in Int BY <1>1
  <2>. QED BY <1>1, <1>3, <2>2, <2>3, <2>4
<1>. QED BY <1>1, <1>2, <1>3 DEF q

\* Groups of issues as the analysis makes them.
Grouped(groups) ==
    /\ IsFiniteSet(groups)
    /\ \A g \in groups : g.key \in Keys /\ g.severity \in Grades /\ g.affected \in Nat

\* A penalty is a share of the whole, and nothing is taken for nothing.
LEMMA PenaltyIsAShare ==
    ASSUME NEW groups, NEW evaluated \in Nat, Grouped(groups)
    PROVE  /\ Penalty(groups, evaluated) \in 0 .. 10000
           /\ groups = {} => Penalty(groups, evaluated) = 0
<1>1. CASE groups = {} BY <1>1 DEF Penalty
<1>2. CASE groups # {}
  <2>. DEFINE pages == Atleast(1, evaluated)
              w == [g \in groups |-> Catalogue[g.key].weight * Multiplier(g.severity)
                                         * Share(g, pages)]
              t == [g \in groups |-> Catalogue[g.key].weight]
              weighted == SumFunction(w)
              total == SumFunction(t)
  <2>1. pages \in Nat \ {0} BY DEF Atleast
  <2>2. ASSUME NEW g \in groups PROVE t[g] \in 1 .. 5 /\ w[g] \in Nat
    <3>1. Catalogue[g.key].weight \in 1 .. 5 BY CatalogueTyped DEF Grouped
    <3>2. Multiplier(g.severity) \in Nat BY DEF Grouped, Grades, Multiplier
    <3>3. Share(g, pages) \in Nat
      <4>. HIDE DEF pages
      <4>. QED BY <2>1 DEF Share, Grouped, Atmost
    <3>. DEFINE a == Catalogue[g.key].weight
                b == Multiplier(g.severity)
                d == Share(g, pages)
    <3>4. t[g] = a /\ w[g] = a * b * d OBVIOUS
    <3>. HIDE DEF a, b, d
    <3>5. a \in 1 .. 5 /\ b \in Nat /\ d \in Nat BY <3>1, <3>2, <3>3 DEF a, b, d
    <3>6. a * b * d \in Nat BY <3>5
    <3>. QED BY <3>4, <3>5, <3>6
  <2>3. weighted \in Nat
    <3>1. IsFiniteSet(groups) /\ \A g \in groups : w[g] \in Int /\ w[g] >= 0
      BY <2>2 DEF Grouped
    <3>2. weighted = SumFunctionOnSet(w, groups) BY DEF SumFunction
    <3>. HIDE DEF w
    <3>. QED BY <3>1, <3>2, SumType
  <2>4. total \in Nat \ {0}
    <3>. DEFINE one == [g \in groups |-> 1]
    <3>1. IsFiniteSet(groups) /\ \A g \in groups : t[g] \in Int /\ t[g] >= 1
      BY <2>2 DEF Grouped
    <3>2. total = SumFunctionOnSet(t, groups) BY DEF SumFunction
    <3>3. PICK g \in groups : TRUE BY <1>2
    <3>. HIDE DEF t
    <3>4. SumFunctionOnSet(t, groups) = t[g] + SumFunctionOnSet(t, groups \ {g})
      BY <3>1, SumTakesOut
    <3>5. IsFiniteSet(groups \ {g}) /\ \A x \in groups \ {g} : t[x] \in Int /\ t[x] >= 0
      BY <3>1, FS_Subset
    <3>6. SumFunctionOnSet(t, groups \ {g}) \in Int /\ SumFunctionOnSet(t, groups \ {g}) >= 0
      BY <3>5, SumType
    <3>. QED BY <3>1, <3>2, <3>4, <3>6
  <2>5. Penalty(groups, evaluated) = Atmost(10000, (100 * weighted) \div (pages * total))
    BY <1>2 DEF Penalty
  <2>. HIDE DEF pages, weighted, total
  <2>6. pages * total \in Nat \ {0} BY <2>1, <2>4
  <2>7. 100 * weighted \in Int /\ 0 * (pages * total) <= 100 * weighted BY <2>3, <2>6
  <2>. DEFINE share == (100 * weighted) \div (pages * total)
  <2>8. share \in Int /\ 0 <= share
    BY <2>6, <2>7, QuotientLies
  <2>9. Penalty(groups, evaluated) = Atmost(10000, share) BY <2>5
  <2>. HIDE DEF share
  <2>10. Atmost(10000, share) \in 0 .. 10000 BY <2>8 DEF Atmost
  <2>. QED BY <1>2, <2>9, <2>10
<1>. QED BY <1>1, <1>2

\* What the score is computed from: the pages, and what each of them was clicked.
ContextFacts(c) == IsFiniteSet(c.pages) /\ Clicked(c.perf) /\ Clicked(c.prior)

\* Clicks are counted.
LEMMA ClicksAddUp ==
    ASSUME NEW report, Clicked(report)
    PROVE  SumFunction([u \in DOMAIN report |-> report[u].clicks]) \in Nat
<1>. DEFINE f == [u \in DOMAIN report |-> report[u].clicks]
<1>1. SumFunction(f) = SumFunctionOnSet(f, DOMAIN report) BY DEF SumFunction
<1>2. IsFiniteSet(DOMAIN report) /\ \A u \in DOMAIN report : f[u] \in Int /\ f[u] >= 0
  BY DEF Clicked
<1>. HIDE DEF f
<1>3. SumFunctionOnSet(f, DOMAIN report) \in Int /\ SumFunctionOnSet(f, DOMAIN report) >= 0
  BY <1>2, SumType
<1>. QED BY <1>1, <1>3 DEF f

\* However far clicks rise or fall, and from nothing too, what is made of it is in range.
LEMMA PerformanceInRange ==
    ASSUME NEW c, ContextFacts(c) PROVE SearchPerformance(c) \in {Absent} \cup 0 .. 10000
<1>. DEFINE now == SumFunction([u \in DOMAIN c.perf |-> c.perf[u].clicks])
            before == SumFunction([u \in DOMAIN c.prior |-> c.prior[u].clicks])
            moved == 6000 + (8000 * (now - before)) \div before
<1>1. now \in Nat /\ before \in Nat BY ClicksAddUp DEF ContextFacts
<1>2. /\ DOMAIN c.perf = {} => SearchPerformance(c) = Absent
      /\ DOMAIN c.perf # {} /\ DOMAIN c.prior = {} => SearchPerformance(c) = 7000
      /\ DOMAIN c.perf # {} /\ DOMAIN c.prior # {} /\ before = 0 =>
            SearchPerformance(c) = IF now > 0 THEN 8500 ELSE 5000
      /\ DOMAIN c.perf # {} /\ DOMAIN c.prior # {} /\ before # 0 =>
            SearchPerformance(c) = Atleast(0, Atmost(10000, moved))
  BY DEF SearchPerformance
<1>3. CASE before # 0
  <2>1. before \in Nat \ {0} /\ 8000 * (now - before) \in Int
    <3>. HIDE DEF now, before
    <3>. QED BY <1>1, <1>3
  <2>2. moved \in Int
    <3>. HIDE DEF now, before
    <3>. QED BY <2>1, QuotientLies
  <2>. HIDE DEF now, before, moved
  <2>3. Atleast(0, Atmost(10000, moved)) \in 0 .. 10000 BY <2>2 DEF Atleast, Atmost
  <2>. QED BY <1>2, <1>3, <2>3
<1>4. CASE before = 0
  <2>. HIDE DEF now, before, moved
  <2>. QED BY <1>2, <1>4
<1>. QED BY <1>3, <1>4

\* Two components are of the crawl, and never absent; the others are measured.
LEMMA HealthIsScored ==
    ASSUME NEW c, NEW groups, NEW k, ContextFacts(c), Grouped(groups),
           k \in {"technical_health", "content_health"}
    PROVE  ComponentScore(c, k, groups) \in 0 .. 10000
<1>. DEFINE own == {g \in groups : Component(Catalogue[g.key].category) = k}
            penalty == Penalty(own, Cardinality(c.pages))
<1>1. ComponentScore(c, k, groups) = 10000 - penalty BY DEF ComponentScore
<1>2. penalty \in 0 .. 10000
  <2>1. own \subseteq groups OBVIOUS
  <2>2. Cardinality(c.pages) \in Nat BY FS_CardinalityType DEF ContextFacts
  <2>. HIDE DEF own
  <2>3. Grouped(own) BY <2>1, FS_Subset DEF Grouped
  <2>. QED BY <2>2, <2>3, PenaltyIsAShare
<1>. HIDE DEF penalty
<1>. QED BY <1>1, <1>2

LEMMA ComponentInRange ==
    ASSUME NEW c, NEW groups, NEW k, ContextFacts(c), Grouped(groups), k \in DOMAIN Weights
    PROVE  ComponentScore(c, k, groups) \in {Absent} \cup 0 .. 10000
<1>. DEFINE R == {Absent} \cup 0 .. 10000
            s == ComponentScore(c, k, groups)
<1>1. ASSUME k = "search_performance" PROVE s \in R
  BY <1>1, PerformanceInRange DEF ComponentScore
<1>2. ASSUME k = "analytics_coverage" PROVE s \in R
  BY <1>2 DEF ComponentScore, AnalyticsCoverage
<1>3. ASSUME k \in {"technical_health", "content_health"} PROVE s \in R
  BY <1>3, HealthIsScored
<1>4. \/ k = "search_performance" \/ k = "analytics_coverage"
      \/ k \in {"technical_health", "content_health"}
  BY DEF Weights
<1>5. s \in R
  <2>. HIDE DEF s, R
  <2>. QED BY <1>1, <1>2, <1>3, <1>4
<1>. QED BY <1>5

\* The score is a mean of the components there is something to say about, and of them
\* alone: it lies between the least and the greatest of them (scoring.py, absent, not zero).
THEOREM ScoreIsAMean ==
    ASSUME NEW c, NEW groups, NEW lo \in Int, NEW hi \in Int, ContextFacts(c), Grouped(groups),
           \A k \in DOMAIN Weights :
               \/ ComponentScore(c, k, groups) = Absent
               \/ lo <= ComponentScore(c, k, groups) /\ ComponentScore(c, k, groups) <= hi
    PROVE  Score(c, groups) \in lo .. hi
<1>. DEFINE scored == {k \in DOMAIN Weights : ComponentScore(c, k, groups) # Absent}
            f == [k \in scored |-> Weights[k] * ComponentScore(c, k, groups)]
            n == SumFunctionOnSet(f, scored)
            d == SumFunctionOnSet(Weights, scored)
<1>1. Score(c, groups) = n \div d BY DEF Score, SumFunction
<1>2. IsFiniteSet(scored)
  <2>1. DOMAIN Weights = {"technical_health", "search_performance"}
                            \cup {"content_health", "analytics_coverage"}
    BY DEF Weights
  <2>2. IsFiniteSet(DOMAIN Weights)
    <3>1. /\ IsFiniteSet({"technical_health", "search_performance"})
          /\ IsFiniteSet({"content_health", "analytics_coverage"})
      <4>1. ASSUME NEW x, NEW y PROVE IsFiniteSet({x, y})
        <5>1. {x, y} = {x} \cup {y} OBVIOUS
        <5>2. IsFiniteSet({x}) /\ IsFiniteSet({y}) BY FS_Singleton
        <5>. QED BY <5>1, <5>2, FS_Union
      <4>. QED BY <4>1
    <3>. QED BY <2>1, <3>1, FS_Union
  <2>3. scored \subseteq DOMAIN Weights OBVIOUS
  <2>. HIDE DEF scored
  <2>. QED BY <2>2, <2>3, FS_Subset
<1>3. ASSUME NEW k \in scored
      PROVE  /\ Weights[k] \in Nat \ {0} /\ f[k] \in Int
             /\ f[k] <= hi * Weights[k] /\ f[k] >= lo * Weights[k]
  <2>. DEFINE w == Weights[k]
              s == ComponentScore(c, k, groups)
  <2>1. w \in Nat \ {0} BY DEF Weights
  <2>2. s \in Int /\ lo <= s /\ s <= hi
    <3>1. k \in DOMAIN Weights /\ ComponentScore(c, k, groups) # Absent OBVIOUS
    <3>2. ComponentScore(c, k, groups) \in {Absent} \cup 0 .. 10000 BY <3>1, ComponentInRange
    <3>3. s \in {Absent} \cup 0 .. 10000 /\ s # Absent BY <3>1, <3>2
    <3>4. lo <= s /\ s <= hi BY <3>1
    <3>. HIDE DEF s
    <3>. QED BY <3>3, <3>4 DEF Absent
  <2>3. f[k] = w * s OBVIOUS
  <2>. HIDE DEF w, s
  <2>4. w * s \in Int /\ w * s <= hi * w /\ w * s >= lo * w BY <2>1, <2>2
  <2>. QED BY <2>1, <2>3, <2>4 DEF w
<1>4. "technical_health" \in scored
  <2>. DEFINE s == ComponentScore(c, "technical_health", groups)
  <2>1. s \in 0 .. 10000 BY HealthIsScored
  <2>2. s # Absent
    <3>. HIDE DEF s
    <3>. QED BY <2>1 DEF Absent
  <2>. QED BY <2>2 DEF Weights
<1>. HIDE DEF scored, f
<1>5. n <= hi * d /\ n >= lo * d BY <1>2, <1>3, SumScales
<1>6. n \in Int BY <1>2, <1>3, SumType
<1>7. d \in Nat \ {0}
  <2>. DEFINE rest == scored \ {"technical_health"}
  <2>1. d = Weights["technical_health"] + SumFunctionOnSet(Weights, rest)
    BY <1>2, <1>3, <1>4, SumTakesOut
  <2>2. IsFiniteSet(rest) /\ \A k \in rest : Weights[k] \in Int /\ Weights[k] >= 0
    BY <1>2, <1>3, FS_Subset
  <2>3. SumFunctionOnSet(Weights, rest) \in Int /\ SumFunctionOnSet(Weights, rest) >= 0
    <3>. HIDE DEF rest
    <3>. QED BY <2>2, SumType
  <2>4. Weights["technical_health"] \in Nat \ {0} BY <1>3, <1>4
  <2>. HIDE DEF rest
  <2>. QED BY <2>1, <2>3, <2>4
<1>. HIDE DEF n, d
<1>8. n \div d \in Int /\ lo <= n \div d /\ n \div d <= hi
  BY <1>5, <1>6, <1>7, QuotientLies
<1>. QED BY <1>1, <1>8

\* What an analysis reads is there, and what it counts is an issue of the catalogue.
AnalysisShape ==
    /\ IsFiniteSet(DOMAIN issues)
    /\ \A fp \in DOMAIN issues :
          /\ DOMAIN issues[fp] = {"status", "severity", "over"}
          /\ issues[fp].status \in IssueStatuses /\ issues[fp].severity \in Grades
          /\ fp[1] \in Keys
    /\ DOMAIN observed \subseteq DOMAIN issues /\ torn \subseteq DOMAIN issues
    /\ DOMAIN analysis = {"pc", "findings", "known", "todo", "issue", "present", "views"}
    /\ analysis.pc \in {"idle", "write", "observe", "resolve"}
    /\ \A fp \in analysis.findings : \E key \in Keys : \E ref : fp = <<key, ref>>
    /\ analysis.pc = "write" \/ (analysis.pc = "observe" /\ analysis.present) =>
          analysis.todo \subseteq analysis.findings
    /\ analysis.pc # "idle" =>
          /\ DOMAIN analysis.known \subseteq DOMAIN issues
          /\ \E crawl \in DOMAIN CrawlViews, search \in DOMAIN SearchViews :
                analysis.views = <<crawl, search>>
    /\ analysis.pc = "observe" => analysis.issue \in DOMAIN issues
    /\ analysis.pc = "resolve" \/ (analysis.pc = "observe" /\ ~ analysis.present) =>
          analysis.todo \subseteq DOMAIN issues
    /\ crawlView = "none" \/ crawlView \in DOMAIN CrawlViews
    /\ searchView \in DOMAIN SearchViews
    /\ score \in -1 .. 10000

\* What an analysis looks at is typed.
LEMMA ContextIsTyped ==
    ASSUME NEW crawl \in DOMAIN CrawlViews, NEW search \in DOMAIN SearchViews
    PROVE  ContextFacts(Context(<<crawl, search>>))
<1>. DEFINE c == Context(<<crawl, search>>)
<1>1. c = [x \in DOMAIN CrawlViews[crawl] \cup DOMAIN SearchViews[search] |->
              IF x \in DOMAIN CrawlViews[crawl] THEN CrawlViews[crawl][x]
              ELSE SearchViews[search][x]]
  BY DEF Context
<1>2. DOMAIN CrawlViews[crawl] = CrawlFacts /\ DOMAIN SearchViews[search] = SearchFacts
  BY ViewsAssumption
<1>3. /\ c.pages = CrawlViews[crawl].pages /\ c.perf = SearchViews[search].perf
      /\ c.prior = SearchViews[search].prior
  <2>. HIDE DEF c
  <2>. QED BY <1>1, <1>2 DEF CrawlFacts, SearchFacts
<1>. QED BY <1>3, ViewsAssumption DEF ContextFacts

\* The two rules that state their own severity state one of the catalogue's.
LEMMA SeverityIsAGrade ==
    ASSUME NEW c, NEW key \in Keys, NEW ref PROVE Severity(c, key, ref) \in Grades
<1>1. Catalogue[key].severity \in Grades BY CatalogueTyped
<1>. HIDE DEF Grades
<1>2. {"high", "medium"} \subseteq Grades BY DEF Grades
<1>. QED BY <1>1, <1>2 DEF Severity

\* A finding is a type and a reference, whatever raises.
LEMMA FindingsAreOfKeys ==
    ASSUME NEW c, NEW raising, NEW fp \in Evaluate(c, raising)
    PROVE  \E key \in Keys : \E ref : fp = <<key, ref>>
  BY DEF Evaluate

\* What _issues_by_component returns is what the penalty expects.
LEMMA GroupsAreTyped == ASSUME AnalysisShape PROVE Grouped(Groups)
<1>. DEFINE counted == {fp \in DOMAIN issues : issues[fp].status \in OpenStatuses}
            like(fp) == {g \in counted : /\ g[1] = fp[1]
                                         /\ issues[g].severity = issues[fp].severity}
            group == [fp \in counted |-> [key |-> fp[1], severity |-> issues[fp].severity,
                                          affected |-> Cardinality(like(fp))]]
<1>1. Groups = {group[fp] : fp \in counted} BY DEF Groups
<1>2. IsFiniteSet(counted) BY FS_Subset DEF AnalysisShape
<1>3. ASSUME NEW fp \in counted PROVE Cardinality(like(fp)) \in Nat
  BY <1>2, FS_Subset, FS_CardinalityType
<1>4. ASSUME NEW g \in Groups PROVE g.key \in Keys /\ g.severity \in Grades /\ g.affected \in Nat
  <2>1. PICK fp \in counted : g = group[fp] BY <1>1
  <2>2. group[fp].key = fp[1] /\ group[fp].severity = issues[fp].severity
        /\ group[fp].affected = Cardinality(like(fp))
    OBVIOUS
  <2>. HIDE DEF group, like
  <2>. QED BY <1>3, <2>1, <2>2 DEF AnalysisShape
<1>5. IsFiniteSet(Groups)
  <2>1. group \in Surjection(counted, Groups) BY <1>1 DEF Surjection
  <2>. HIDE DEF group, counted
  <2>. QED BY <1>2, <2>1, FS_Surjection DEF ExistsSurjection
<1>. QED BY <1>4, <1>5 DEF Grouped

\* In particular a score is from nothing to a hundred.
LEMMA ScoreInRange ==
    ASSUME NEW c, NEW groups, ContextFacts(c), Grouped(groups) PROVE Score(c, groups) \in 0 .. 10000
<1>1. ASSUME NEW k \in DOMAIN Weights
      PROVE  \/ ComponentScore(c, k, groups) = Absent
             \/ 0 <= ComponentScore(c, k, groups) /\ ComponentScore(c, k, groups) <= 10000
  <2>. DEFINE s == ComponentScore(c, k, groups)
  <2>1. s \in {Absent} \cup 0 .. 10000 BY ComponentInRange
  <2>. HIDE DEF s
  <2>2. s = Absent \/ (0 <= s /\ s <= 10000) BY <2>1 DEF Absent
  <2>. QED BY <2>2 DEF s
<1>2. \A lo, hi \in Int :
         (\A k \in DOMAIN Weights :
               \/ ComponentScore(c, k, groups) = Absent
               \/ lo <= ComponentScore(c, k, groups) /\ ComponentScore(c, k, groups) <= hi)
            => Score(c, groups) \in lo .. hi
  BY ScoreIsAMean
<1>3. ASSUME NEW lo \in Int, NEW hi \in Int, lo = 0, hi = 10000
      PROVE  Score(c, groups) \in 0 .. 10000
  <2>1. \A k \in DOMAIN Weights :
               \/ ComponentScore(c, k, groups) = Absent
               \/ lo <= ComponentScore(c, k, groups) /\ ComponentScore(c, k, groups) <= hi
    BY <1>1, <1>3
  <2>2. Score(c, groups) \in lo .. hi BY <1>2, <2>1
  <2>. QED BY <1>3, <2>2
<1>. QED BY <1>3

LEMMA AnalysisShapeStep == ASSUME AnalysisShape, [IssuesNext]_issueVars PROVE AnalysisShape'
<1>. USE DEF AnalysisShape
<1>1. ASSUME NEW view \in DOMAIN CrawlViews, CrawlCompletes(view) PROVE AnalysisShape'
  BY <1>1 DEF CrawlCompletes
<1>2. ASSUME NEW view \in DOMAIN SearchViews, SearchDataArrives(view) PROVE AnalysisShape'
  BY <1>2 DEF SearchDataArrives
<1>3. ASSUME NEW fp \in DOMAIN issues, MarkResolved(fp) PROVE AnalysisShape'
  BY <1>3 DEF MarkResolved, IssueStatuses
<1>4. ASSUME NEW fp \in DOMAIN issues, NEW over \in BOOLEAN,
             NEW status \in {"snoozed", "dismissed"}, SetAside(fp, status, over)
      PROVE  AnalysisShape'
  BY <1>4 DEF SetAside, IssueStatuses
<1>5. ASSUME NEW raising \in SUBSET Fragile, StartAnalysis(raising) PROVE AnalysisShape'
  <2>. DEFINE found == Evaluate(Context(<<crawlView, searchView>>), raising)
  <2>1. \A fp \in found : \E key \in Keys : \E ref : fp = <<key, ref>> BY FindingsAreOfKeys
  <2>2. /\ DOMAIN analysis' = {"pc", "findings", "known", "todo", "issue", "present", "views"}
        /\ analysis'.pc = "write" /\ analysis'.findings = found /\ analysis'.todo = found
        /\ DOMAIN analysis'.known = DOMAIN issues
        /\ analysis'.views = <<crawlView, searchView>> /\ crawlView # "none"
        /\ UNCHANGED <<crawlView, searchView, issues, observed, score, torn>>
    BY <1>5 DEF StartAnalysis, NoAnalysis
  <2>. HIDE DEF found
  <2>. QED BY <2>1, <2>2
<1>6. CASE WriteFinding
  <2>. DEFINE fp == NextIssue
              severity == Severity(Context(analysis.views), fp[1], fp[2])
  <2>1. fp \in analysis.findings /\ fp \in analysis.todo BY <1>6 DEF WriteFinding, NextIssue
  <2>2. fp[1] \in Keys BY <2>1
  <2>3. severity \in Grades
    <3>. HIDE DEF fp
    <3>. QED BY <2>2, SeverityIsAGrade
  <2>4. Upserted(fp) \in IssueStatuses BY DEF Upserted, IssueStatuses
  <2>5. /\ DOMAIN issues' = DOMAIN issues \cup {fp}
        /\ issues'[fp].status = Upserted(fp) /\ issues'[fp].severity = severity
        /\ DOMAIN issues'[fp] = {"status", "severity", "over"}
        /\ \A g \in DOMAIN issues : g # fp => issues'[g] = issues[g]
    BY <1>6 DEF WriteFinding, With
  <2>6. IsFiniteSet(DOMAIN issues') BY <2>5, FS_AddElement
  <2>7. /\ DOMAIN analysis' = DOMAIN analysis
        /\ analysis'.pc = "observe" /\ analysis'.issue = fp /\ analysis'.present = TRUE
        /\ analysis'.findings = analysis.findings /\ analysis'.todo = analysis.todo \ {fp}
        /\ analysis'.known = analysis.known /\ analysis'.views = analysis.views
        /\ UNCHANGED <<crawlView, searchView, observed, score, torn>> /\ analysis.pc = "write"
    BY <1>6 DEF WriteFinding, Observing
  <2>. HIDE DEF fp, severity
  <2>8. /\ \A g \in DOMAIN issues' :
              /\ DOMAIN issues'[g] = {"status", "severity", "over"}
              /\ issues'[g].status \in IssueStatuses /\ issues'[g].severity \in Grades
              /\ g[1] \in Keys
    <3>1. ASSUME NEW g \in DOMAIN issues', g # fp
          PROVE  /\ DOMAIN issues'[g] = {"status", "severity", "over"}
                 /\ issues'[g].status \in IssueStatuses /\ issues'[g].severity \in Grades
                 /\ g[1] \in Keys
      BY <2>5, <3>1
    <3>. QED BY <2>2, <2>3, <2>4, <2>5, <3>1
  <2>9. /\ DOMAIN observed' \subseteq DOMAIN issues' /\ torn' \subseteq DOMAIN issues'
        /\ DOMAIN analysis'.known \subseteq DOMAIN issues'
    BY <2>5, <2>7
  <2>10. analysis'.issue \in DOMAIN issues' /\ analysis'.todo \subseteq analysis'.findings
    BY <2>5, <2>7
  <2>. QED BY <2>6, <2>7, <2>8, <2>9, <2>10
<1>7. CASE FindingsWritten BY <1>7 DEF FindingsWritten, Gone
<1>8. CASE ResolveGone
  <2>. DEFINE fp == NextIssue
  <2>1. fp \in analysis.todo BY <1>8 DEF ResolveGone, NextIssue
  <2>2. fp \in DOMAIN issues BY <1>8, <2>1 DEF ResolveGone
  <2>3. /\ issues' = [issues EXCEPT ![fp].status = "resolved"]
        /\ DOMAIN analysis' = DOMAIN analysis
        /\ analysis'.pc = "observe" /\ analysis'.issue = fp /\ analysis'.present = FALSE
        /\ analysis'.findings = analysis.findings /\ analysis'.todo = analysis.todo \ {fp}
        /\ analysis'.known = analysis.known /\ analysis'.views = analysis.views
        /\ UNCHANGED <<crawlView, searchView, observed, score, torn>> /\ analysis.pc = "resolve"
    BY <1>8 DEF ResolveGone, Observing
  <2>. HIDE DEF fp
  <2>. QED BY <2>2, <2>3 DEF IssueStatuses
<1>9. CASE Observe
  <2>1. /\ DOMAIN observed' = DOMAIN observed \cup {analysis.issue}
        /\ torn' = torn \ {analysis.issue}
        /\ UNCHANGED <<crawlView, searchView, issues, score>> /\ analysis.pc = "observe"
    BY <1>9 DEF Observe, With
  <2>2. /\ DOMAIN analysis' = DOMAIN analysis
        /\ analysis'.pc = IF analysis.present THEN "write" ELSE "resolve"
        /\ analysis'.findings = analysis.findings /\ analysis'.todo = analysis.todo
        /\ analysis'.known = analysis.known /\ analysis'.views = analysis.views
        /\ analysis'.present = analysis.present
    BY <1>9 DEF Observe
  <2>. QED BY <2>1, <2>2
<1>10. CASE WriteScore
  <2>1. PICK crawl \in DOMAIN CrawlViews, search \in DOMAIN SearchViews :
           analysis.views = <<crawl, search>>
    BY <1>10 DEF WriteScore
  <2>. DEFINE c == Context(analysis.views)
              scored == Score(c, Groups)
  <2>2. ContextFacts(c) BY <2>1, ContextIsTyped
  <2>3. Grouped(Groups) BY GroupsAreTyped
  <2>4. scored \in 0 .. 10000
    <3>. HIDE DEF c
    <3>. QED BY <2>2, <2>3, ScoreInRange
  <2>5. /\ score' = scored /\ analysis' = NoAnalysis
        /\ UNCHANGED <<crawlView, searchView, issues, observed, torn>>
    BY <1>10 DEF WriteScore
  <2>. HIDE DEF scored
  <2>6. score' \in -1 .. 10000 BY <2>4, <2>5
  <2>. QED BY <2>5, <2>6 DEF NoAnalysis
<1>11. CASE AnalysisDies BY <1>11 DEF AnalysisDies, NoAnalysis
<1>12. CASE UNCHANGED issueVars BY <1>12 DEF issueVars
<1>. HIDE DEF AnalysisShape
<1>. QED
  BY <1>1, <1>2, <1>3, <1>4, <1>5, <1>6, <1>7, <1>8, <1>9, <1>10, <1>11, <1>12 DEF IssuesNext

\* The variables of an analysis keep their types, for any catalogue of views, rules that
\* raise and marks of customers; what is written as a score is one (analysis/runner.py).
THEOREM IssuesTyped == IssuesSpec => []IssuesTypeOK
<1>1. IssuesInit => AnalysisShape
  BY FS_EmptySet DEF IssuesInit, NoAnalysis, AnalysisShape, Absent
<1>2. AnalysisShape => IssuesTypeOK BY DEF AnalysisShape, IssuesTypeOK
<1>. QED BY <1>1, <1>2, AnalysisShapeStep, PTL DEF IssuesSpec
=============================================================================
