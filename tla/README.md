# A model of the website visibility platform

These modules describe, in TLA+, the parts of the platform whose correctness depends
on *when* things happen: the nightly schedule, the crawler and what admits and slows
it, the Google connections and their sync, the analysis, the weekly report, what is
spent on models, alerting, the deletion of accounts and the public scan.  TLC checks
them on small instances; TLAPS proves the most important facts for instances of any
size.  Everything is translated from the code under `src/`; where the code and one of
its documents disagree, the model follows the code and a run shows the disagreement.

    tlc -workers 2 -config MCSlotRace.cfg MCScheduledRuns
    tlapm ScheduledRunsProofs.tla

## 1. Inventory

The platform is a FastAPI service (`src/api`), a Postgres database
(`src/db/migrations`), Celery workers fed by a broker (`src/api/workers`) and a
Next.js front end (`src/web`).  The API runs one transaction per request; the
workers run every statement in autocommit, so between any two statements of a
job anything may happen.

| Component | State it keeps | Operations | Talks to | What makes it correct |
|---|---|---|---|---|
| **Schedule** `workers/schedule.py` | none | `slot_on`, `due_slot`, `next_slot` | dispatcher, dashboard | the due slot is the latest that has passed; an outage is caught up by one run; the stagger keeps the night's order |
| **Dispatcher** `workers/dispatch.py`, `app.py` | `scheduled_runs` | `reap`, `candidates`, `claim`, enqueue | broker, database | one claim per slot; a claim is committed before its task is sent; nothing stays in flight for ever |
| **Jobs** `workers/jobs.py` | row status, Celery task | `mark_running`, the six job bodies, `finish`, retry | every subsystem below | the work of a slot starts once; a reported outcome stands |
| **Crawler** `crawler/frontier.py`, `runner.py` | `crawls`, `crawl_frontier`, `pages` | seed, lease, fetch, persist, complete/fail/skip, finish | the web, robots.txt, object store | every reachable page is visited once, within the cap, never against robots.txt or consent |
| **Crawl admission** `routers/websites.py`, `crawls.py`, `domain/crawl_policy.py` | `websites`, `crawls` | create, archive, start a crawl, both gates | crawler, dispatcher | the gates say the same; no crawl outlives the permission for it |
| **Politeness, seeding** `crawler/politeness.py`, `robots.py`, `sitemaps.py` | per-host delay and next-allowed time, the queue of sitemaps | `acquire`, `back_off`, `release`, `set_delay`, `_seed` | the web | one request at a time per host; a host that asked for rest gets it |
| **Connections** `hub/…` | `google_connections`, vault secrets, OAuth state | start, callback, refresh, disconnect, select | Google, vault, Redis | a state is used once; revoked means revoked; no token outlives its connection |
| **Sync** `hub/services/sync` | `last_synced_date`, backfill marks, fact tables | windows, backfill, incremental | Google, connections | what is marked whole is; nights leave no hole in the history |
| **Discovery, matching** `hub/services`, `routes/properties.py`, `0010_ownership.sql` | property rows, links, ownership | discover, match, link, record evidence | Google | two definitions of coverage agree on what proves ownership |
| **Alerting** `alerting/operator.py`, `customer.py` | `operator_alerts`, `alert_events` | scan, reconcile, notify, deliver | mail, webhook, every table above | what goes on is said again; nobody is mailed twice about one thing |
| **Account deletion** `account/deletion.py` | users, organisations, receipts | revoke, delete objects, delete rows | vault, object store, sign-in provider | a receipt means what it says |
| **Analysis** `analysis/…` | issues, observations, scores | run rules, open/resolve issues | crawler's pages, fact tables | an issue's history proves its status |
| **AI layer** `ai/…` | explanation cache, `llm_calls`, plans | admit, call, record; rank, carry over, write | LLM provider | spending passes the allowance by what was under way, and no more; a plan never says the customer did what they did not |
| **Reports** `reports/…` | report rows | draft, send, record | mail | nothing is on record that was not delivered |
| **Public scan** `peek/…` | Redis counters | count, expire, judge, fetch | the web | no window's length sees more than two windows' worth |
| **API, tenancy** `main.py`, `routers/…`, RLS | per request | one transaction each | everything | one tenant never sees another's rows |
| **Front end** `web/…` | session | — | API | — |

How they interact.  Celery beat sends `scheduler.tick` every five minutes.  A
tick reaps runs without an outcome, reads the websites that are eligible for a
job, *claims* a slot by inserting a row that is unique on (website, job,
window) and sends the job's task.  A worker that receives the task moves the row
from `claimed` to `running`, does the work (a crawl, a sync, an analysis, a
report) and writes the outcome.  The crawl feeds analysis, analysis feeds the AI
layer, both feed reports.  The operator's alerts read what all of them left in
the database.  A customer can, at any moment, disconnect Google, withdraw the
permission to crawl, archive a website or delete the account, and every one of
these runs concurrently with the jobs.

What is hard, in that light: overlapping ticks; duplicated and late deliveries
(`task_acks_late`); processes that die between two autocommitted statements; a
decision taken from a row read before an `await` and acted on after it (tokens,
OAuth, permissions, `now`); runs that outlive their lease; caps and windows at
their boundary; retries of what was already closed; a mail that went out and a row
that was not written, or the reverse.  `PROJECT.json` lists each place, with the
property that covers it or why none does.

## 2. Modules and how they correspond to the code

### Schedule, ScheduleClock
`Schedule` is `schedule.py` as operators over a clock counted in minutes from
some Monday.  `JobTable` and `JobOrder` are `JOBS`; `SlotMinute` is
`Job.slot_minute` with the website's hash as the constant `Offset`, so every
distribution of hashes is a value of it.  `due_slot` walks back day by day and
returns the first match; the model states the same thing as the nearest element
of the set of days it may look at (`DaysBack`).  `ScheduleClock` reads both
functions against a clock that jumps forward by any distance.

### ScheduledRuns
The table `scheduled_runs` and everybody who writes it.

| Variable | Code |
|---|---|
| `status`, `claimed_at`, `started_at` | the row's columns (`absent` is no row, stamp 0 is NULL) |
| `queue`, `msg` | tasks in the broker; the task a worker has not acknowledged |
| `pc`, `outcome` | where a worker is in `_guard` / `_run_context` |
| `phase`, `at`, `todo`, `won` | where a tick is in `dispatch`; its `now`; the candidates left; the claim it holds |
| `facts`, `life` | what `candidates` reads of a website: linked properties, crawl permission, a finished crawl; archived or deleted |
| `starts`, `settled` | history only: how often the work was started; whether its worker reported |

Each action is one autocommitted statement with the Python around it: `Reap`,
`ReadCandidates`, `Claim`/`AlreadyTaken` (the two results of `insert … on
conflict do nothing`), `Enqueue`, `MarkRunning`/`Refuse` (the two results of
the guarded update), `LoadWebsite`, `Work`, `Finish`, `Retry`.  The environment is
`TickDies`, `WorkerDies`, `StatementFails`, `Redeliver`, `Discard`, `Later`,
`FactChanges`, `Archive`, `DeleteAccount`, each possible at every moment.  What
a job does is one step with any outcome its body can return; a sync that fails
returns normally in the code, and so it does here.

### SlotLedger
The abstract specification: what the table promises its readers, one slot at a
time.  `free → claimed → working → reported`; a run that is given up on is
`abandoned` if it had not begun and `lost` if it had, and only a lost run may
still be reported.  `ScheduledRuns!Ledger` is the refinement mapping.

### Crawl
One crawl, from the second permission gate to the row's final status:
`CrawlRunner.run` over `Frontier`, as the job `crawl_website` runs it.

| Variable | Code |
|---|---|
| `site` | the website's links, sitemap, robots.txt and `max_pages_per_crawl`; chosen once |
| `allowed` | what `_permission_refusal` would find; changes at any time, read once |
| `crawl`, `recorded` | `crawls.status`, `summary.stopped_reason` |
| `state`, `depth`, `attempts` | the rows of `crawl_frontier` (`unknown` is no row) |
| `snapshots` | the number of `page_snapshots` of each page |
| `pc`, `robots`, `batch`, `page`, `fetched` | the runner: where it is in `run`, the rules it read, the rest of its batch, the page in its hands, its count |

`Add` is the insert with `on conflict do nothing`, `Front` the `order by depth …
limit` of `lease`, `Mark` and `AfterFailure` the three updates that end a
lease.  Each action is one statement or one fetch: `Reclaim`, `Lease`, `Skip`,
`FetchFails`, `Persist`, `Complete`, `QueueLinks`; between any two of them
`RunnerDies` may happen, and `PermissionChanges` at all times.  Which pages of
equal depth a batch takes, in which order `returning` yields them, which of them
fail and how often is left open.  A lease is timed against the database's clock;
since a batch may take any time, `Reclaim` may take back any lease that is still
held.  `Persist` is one step: it writes several tables, and a runner that dies in
the middle of it leaves a subset of what one that dies just after it leaves.
There is one runner per crawl because the only code that starts one
(`workers/jobs.py`) inserts the row it runs.

### Traversal
The abstract specification of a crawl, without leases, batches, attempts or a frontier:
a `site`, the `fate` of each page (`unknown → waiting → done`, `failed` or `skipped`) and
the `outcome`.  `Find` makes known only what a page that was visited, a sitemap or the
home page leads to; `Visit` stays within what is paid for; `PassOver` is for what
robots.txt disallows; and `End` must tell the truth: *whole* when nothing waits and every
link of a visited page is known, *cut* when the cap is met, *robots* when nothing was
visited and the home page is disallowed, *refused* when nothing is known at all.  `Crawl!Walk` is the
refinement mapping: a leased page is a waiting one, and a completed crawl without a
recorded reason is cut if its runner's count met the cap and whole otherwise.

### Connections
One organisation's connection to one Google account, in `api/hub`: the row, its
secret in the vault, the OAuth states in Redis, and what Google knows.

| Variable | Code |
|---|---|
| `status`, `hidden`, `token` | the row of `connections`: `status`, whether `revoked_at` is set, `refresh_token_id` |
| `vault` | `secrets.oauth_tokens`: for each secret, the token it holds; a secret is named after its first token |
| `issued`, `live`, `granted` | Google: refresh tokens issued, those that work, whether the customer's grant stands |
| `started`, `states`, `consent` | authorisations begun, states still in Redis, whether the consent screen was asked for |
| `cb`, `carries`, `got` | a callback request: taken its state, exchanged its code, the new refresh token if there is one |
| `pc`, `mode`, `secret`, `hand` | a call of `access_token_for`, by a job or a request: the secret it read of, the token in its hands |
| `closing`, `held`, `told` | `disconnect`, or the deletion of the account: the secret it read, the token it tells Google about |
| `exchanges`, `origin` | history only: how often a code was exchanged; the secret a token was issued for |

A request is one transaction, so what it writes appears at its commit
(`CommitConnection`, `CommitRefresh`, `CommitDisconnect`) and not at all if it raises;
what it told Google or took from Redis is not undone.  A job commits each
statement, so a refresh of a job writes the vault and the row in two steps
(`Replace`, `MarkActive`) with anything between them, and the deletion of the account
destroys the secret well before the organisation goes (`Destroy`,
`DeleteOrganisation`).  This is also why `MarkNeedsReauth` is an action of jobs
alone: in a request the exception that follows rolls the update back.  Google may
issue a new refresh token with any access token, may lose all of them
(`RevokedElsewhere`), and gives none to a customer who has granted already
and was not asked again.  Every process may fail between any two of its steps.
Left out: several accounts of one organisation, scopes, the discovery that follows
a callback, and the encryption.

### SyncHistory
The history of one website in Search Console or Analytics: `windows.py`,
`orchestrator.py` and the two synchronisers, over the rows of
`website_connections` and the fact tables.

| Variable | Code |
|---|---|
| `link`, `mark` | the active row of `website_connections`; its `backfill_completed_at` |
| `got` | the fact tables: which dataset of which day was fetched under which link |
| `syncing` | a call of `sync_website`: the link it read, its kind, its day, what is left of its window, whether a chunk failed, what a request has not committed |
| `promised`, `whole`, `late` | history only: what the mark says, the last day with a whole run, whether two whole runs were too far apart |

`Fetch` brings one dataset of one month's chunk, `ChunkFails` passes a chunk over
and `QuotaExceeded` leaves the loop, as the two `except` clauses do.  The link is
read twice in the code, before the token (where the data will go) and after it (whether
to backfill); so it is in `ReadLink` and `StartRun`, and `LinkProperty` may come
between them.  A nightly job commits each statement and a request commits once.

### Websites
The websites of an organisation, from `create_website` to `archive`, with the two
programs that decide whether one may be crawled: `CrawlDecision`
(`evaluate_crawl_allowed`) and `PermissionRefusal` (`_permission_refusal`).  A
request checks in one step and inserts in another (`CheckCrawl`, `InsertCrawl`),
and another request may insert between the two.  The nightly
crawl looks at the column `crawl_allowed`, which only an operator's hand
(`OperatorWrites`, with `ByHand`) can set.  `crawls` holds the rows; what a crawl
does once it runs is `Crawl`.

### Properties
Search Console's properties at Google (`levels`), as discovery kept them (`rows`), and
the one that is linked.  A host is the sequence of its labels from the right, so that a
parent domain is a prefix.  `Quality` is
`score_search_console_property` of `matching.py`, in which `www` is
stripped; `Covers` is `app.property_covers_url` of migration 0010, in which it is not.
`KeepSites` shows the customer what proves ownership, `Connect` records what does; the
permission may have changed at Google in between, and discovery never removes a row.

### Fetching
One crawl's requests over its `HostLimiter`: `delays` and `nextAllowed` by host,
the request under way, and the seeding (`AskRobots`, `AskSitemap`, `EndSeeding`) with
its limits on sitemap files and URLs.  `Heard` is the end of a fetch, where `back_off`
sets a delay and `release` computes the next instant from it.  `quietUntil` is history:
what the host's last answer asked for.  Which page is asked for next is `Crawl`'s.

### IssueRules, Issues
`IssueRules` has the catalogue, every rule as the set of pages, searches or links it
flags, the click-through baseline and the score, over a context in which a text is an
element of a set and a share is an integer.  `Issues` is the life of what they find:
`StartAnalysis` evaluates the rules (any of `Fragile` may raise) and remembers the
statuses; `WriteFinding` and `ResolveGone` change one issue, `Observe` writes the row
of `issue_observations` that proves it, each in autocommit, while customers mark
issues and workers die (`AnalysisDies`).

### WeeklyReports
One week of one website.  `Rank`, `KeepStatuses`, `DeleteOld`, `InsertNext` are the
plan's four stages, `CheckSent`, `SaveDraft`, `Deliver`, `RecordSent` the report's.  A
job's stages are visible one by one; a request's appear in `SaveDraft`, with the lock
its upsert of the plan's row takes (`Locked`).  `recommendations` is a set of rows,
tagged with their author, since two generations may leave the rows of both.
`saidDone` and `told` are history: what customers really said, and who really got the
mail.  `Recipients` differs between job and request because `member_emails` does:
row-level security shows a session only its own row of `users`.

### Spending
Admission, call and record, for the three that spend: explanations (with their cache,
one budget read kept until a call was recorded), the Strategist (one question is
several rounds that are admitted together) and the plan's prose, which is not admitted
at all.  `spent` is what `llm_calls` sums to, `bulk` what the admitted purposes cost.

### Alerts
One pass of the task `alerts`: `Wake` scans, `OpenIncident` and `Resolve` reconcile,
`Notify`/`NotifyFails` and `RecordNotified` tell the operator; `Fire`,
`Mail`/`MailNot` and `RecordDelivered` tell the customers, unless `Suppress` finds a
notice that is recent.  `PassDies` may come between any two.  `counts`, `lastClaim`
and `stale` are what the scan reads of `scheduled_runs` and `connections`.

### Deletion
`DELETE /account`: for each organisation of which the caller is the sole owner,
`Purge` of the token, of the objects and of the unreachable tables, then
`DeleteOrganization`; then `DeleteUser`, `DeleteIdentity`, `WriteReceipt`.  The call
may end anywhere (`CallDies`) and be made again, another owner may make one too, and
jobs of the organisation write on (`JobWrites`; what they write after it was purged is
noted in `lateWrites`).  `Reachable` says what can still be found once the
organisation's row is gone, which is why that row goes last.

### Peek
The two counters of `limits.py`, one Redis command a step (`Increment`, `Expire`), and
the hops of the fetch.  `granted` and `grantedBefore` are history: how much each counter
has granted in all, and how much of it before each second, so that what a span was granted
is a difference.

### MCPlatform
One small instance of each of the ten components above, side by side.  They share
nothing but the database and no property reads the state of two, so `part` chooses one
of them at the start and the others rest.

## 3. What is checked

| Run | Instance | What it shows |
|---|---|---|
| `schedule` | `MCSchedule` | over nine nights and four websites spread over the stagger, the due slot is the latest one passed (`DueIsLatest`), the next slot is the one after it (`NextFollowsDue`), and a night keeps the order of `JOBS` (`NightInOrder`) |
| `slots_race` | `MCSlotRace` | two overlapping ticks and two workers over one slot, with any process dying anywhere, tasks redelivered, discarded and retried, facts changing and the website archived or deleted: one start per slot, no task without its row, an outcome is final, a lease is respected, and the whole implements `SlotLedger` |
| `nights` | `MCNights` | two days, a tick and a worker that may die in each statement: no run stays in flight for ever, a missed window is late and not lost |
| `crawl` | `MCCrawl` | four shapes of website under three caps: a crawl ends, is whole unless cut short, stays within its cap, gives a page three attempts, holds no lease its own runner could lose (`NothingHeld`), and implements `Traversal` (`TraversalSpec`): it finds only what it was led to, never changes what it settled, and ends for a reason that is so |
| `connections` | `MCConnections` | two authorisations, two callbacks, a refresh, a disconnection or deletion, all at once: a state is used once, the row names no secret that is gone, a late rotation lands in its own secret or nowhere, what was disconnected gets no token back, a reconnection loses none, and a dead token is noticed |
| `platform` | `MCPlatform` | *sync*: a backfill that is marked is whole (`MarkedIsWhole`), and outages shorter than the nightly window leave no hole (`NoHole`). *websites*: the two gates agree (`GatesAgree`), and no crawl starts after what allowed it was withdrawn (`NeverOutlives`). *properties*: what proves ownership was shown as proving it (`EvidenceIsMatched`). *fetching*: a host rests as long as it asked to (`HostsRest`). *issues*: an issue is resolved exactly when its newest observation says so (`HistoryProves`). *weekly*: no recommendation is done that nobody said was done (`NoDoneInvented`), no delivery is on record that did not happen (`RecordIsTrue`). *spending*: the allowance is passed by the calls under way, at most (`OverspendBounded`). *alerts*: what goes on is mentioned again (`StillTrueStillSaid`), and nobody is mailed twice too soon (`NoNagging`). *deletion*: a receipt means what it says (`ReceiptMeansGone`). *peek*: no span as long as a window is granted more than two windows' worth (`PeekBounded`). |
| `retry` | `MCRetry` | *violated*: see below |
| `crawl_cap` | `MCCrawlCap` | *violated*: see below |
| `crawl_dies` | `MCCrawlDies` | *violated*: see below |
| `connections_kept` | `MCConnectionsKept` | *violated*: see below |
| `never_crawled` | `MCNeverCrawled` | *violated*: see below |
| `everyone_told` | `MCEveryoneTold` | *violated*: see below |

**Bounds.**  `schedule` reads the clock at midnight and at each slot of each
website, and one minute on either side, from a Sunday on: every comparison in
`due_slot` and `next_slot` changes its value only at such a moment, and nine days
hold each weekday with a full week before it.  The four offsets are the ends of the hour
and the two sides of the half-hour job's wrap.  `slots_race` needs two ticks and
two workers for every pair that can race (two claims, two deliveries, a reaper
and a late worker); slots do not interact except through the tick's list of
candidates, so one suffices.  Its two moments are far enough apart
for the lease (360 minutes) to end, and one retry shows what a second one
would.  `nights` has the moments a day apart, so that a task also expires and a
second slot becomes due.  `crawl` has four pages, which is two batches: a page of
one batch can link into the other, a batch can be cut by the cap in its middle
(cap 3), at its end (cap 2) or not at all (cap 5).  `connections` has two
authorisations and two callbacks, so that one callback can come twice and two
connections can cross; one refresh, which races with both and with a disconnection; and
three tokens (`MaxTokens`), which is a first connection, a reconnection and a rotation,
in any order.  Nothing else in these five is bounded: the clock
is, through `Moments`, and attempts and retries are by the code.

`platform` gives each component the smallest instance in which its actors can meet in
every way the code allows.

| Part | Instance | Why it is enough |
|---|---|---|
| *sync* | a job and a request, two links, three runs, three days, a month that ends inside the backfill | two runs of one link or of two race; a third repairs or worsens what they left; the window falls in two chunks; a night can be missed |
| *websites* | two domains, a limit of one website, one asker, one crawl, the operator's hand | everything between a check and its insert, or an insert and the start; `never_crawled` has two crawls and no operator |
| *properties* | four properties that look like the website: https, http, the domain, the domain of its www host; three levels, one change at Google, two discoveries | each way the two definitions of coverage could differ; a permission that changes before or after it was kept |
| *fetching* | three hosts, delays from 1 to 3, answers that ask for 0, 2 or 5 where 4 is obeyed, two sitemap files, six instants | a hint below, above and at the delay and above its cap; an index that lists itself; seeding and pages |
| *issues* | two crawls' views, two of search, one rule that may raise, three analyses | found, gone and found again, with a customer or a death in each statement |
| *weekly* | a job, a customer, a viewer; four issues of three types for two priorities; one issue moves; two generations | a type with two issues, a tie, ranks that change between two generations which overlap |
| *spending* | one spender of each kind, an allowance of 1, calls that cost 0 or 2, two rounds, five calls | every spender may be under way when the allowance is reached |
| *alerts* | one job, one account, two ticks, silence 2, renotify 1, repeat 2, two changes of the facts | an alert begins, goes on past its renotification and ends; a notice is due again or not |
| *deletion* | two people; an organisation with one owner, one with two; two calls, one job | a call that was cut off and made again, two owners that leave at once, a job that writes at any point |
| *peek* | one address, two scans, limits of 1 in windows of 2 and 3 seconds, three seconds | a window that ends inside a claim, and the next |

The bounds proper are `MaxRuns`, `MaxCrawls`, `MaxShifts`, `MaxDiscoveries`,
`MaxAnalyses`, `MaxMoves`, `MaxReports`, `MaxModelCalls`, `MaxTroubles`, `MaxCalls`,
`MaxJobs` and the ends of the clocks (`LastDay`, `LastInstant`, `LastTick`,
`LastSecond`), each named where it is declared.  With all of them used up a component has nothing left to do, which is why
the configuration does not ask for the absence of deadlock.  For all
properties but liveness section 4 lifts the bounds altogether.

**Fairness.**  Beat sends a tick every five minutes for as long as the platform runs,
so `BeginTick` and `EndTick` are weakly fair.  A tick may die in any statement, any
number of times; what is assumed is that no statement is where *every* tick that
reaches it dies (strong fairness of each).  Nothing is assumed of the workers or of
the broker: `EveryRunSettles` and `LateNotLost` hold although they never do anything.
In `Crawl` the runner is weakly fair as a whole: a live process goes on.  That a page
ever answers is not assumed, and a runner that dies stays dead.  In `Connections` the
nightly jobs keep using an active connection: each of a job's steps up to the note
that the token was refused is strongly fair (a job may die in any of them, but not in
the same one every night), and a refresh does not hang (weak fairness of
`RefreshFails`).  Nothing is assumed of customers, requests or Google.  `Websites`
assumes that a night comes every night (`NightlyCrawl`), that a job that was sent is
worked on and ends (`BeginCrawl`, `EndCrawl`) and that a request that passed its
checks does its insert; with all that, `AllowedIsCrawled` is still refuted.  The
properties of `platform` are about what may not happen, and assume nothing.

**What the runs show that the documents do not say.**

* *A retry never does the work again* (`retry`, `RetryRunsAgain`).  `workers/app.py`
  promises two retries.  But the job writes `failed` to its row before it
  raises, and `mark_running` accepts only rows that are `claimed`: each retry
  is refused as a duplicate.
* *A crawl cut by its cap can look complete* (`crawl_cap`, `CapRecorded`).
  `hit_page_cap` is set only in the middle of a batch.
  `EndsWhole`, which holds, has to ask for `fetched < max_pages` for this reason.
* *A dead worker is not a non-event* (`crawl_dies`, `LeaseRecovered`).  Nobody
  but a crawl's own runner reclaims its leases, and no second runner is ever
  started for it.
* *A reconnection leaves a secret behind* (`connections_kept`, `NothingKept`).  A new
  consent stores a new secret and points the row at it; the old one is referred to
  by nothing.  The deletion of the account promises to destroy every stored token, finds
  them through the row, and passes this one over.
* *A website that may be crawled is not* (`never_crawled`, `AllowedIsCrawled`).  The
  dispatcher reads `websites.crawl_allowed`, which no statement sets; a crawl that
  the customer asks for is inserted `queued`, and nobody runs it.
* *A report that was sent from the dashboard reaches one person* (`everyone_told`,
  `EveryoneTold`).  In a request's session `member_emails` sees the caller's row only;
  the report is then on record as sent, and the nightly job leaves it alone.

Three things about connections contradict no document, and are visible in the model: a
refresh that started before a disconnection sets the row's status back to `active` when
it ends after it (`revoked_at` stays, and `StaysGone` shows that nothing else comes
back); a refusal noted late marks a connection that was reconnected in the meantime
as `needs_reauth`; and an authorisation begun while the row was `active` skips the
consent screen, so if the connection is given up before it comes back, and Google did
not hear of it, it brings no token and the row is `active` without one.

Nor do these, which can be seen in the other models.  Two co-owners who delete their
accounts at the same time each see the other as the one who stays, and leave an
organisation without an owner.  A job that is still running writes objects, rows or a
token for an organisation that has been deleted, and nothing deletes those again.  The
notice that a problem is over goes out after its row was closed, so one that is
refused is never repeated.  A crawl that completes with no page (robots.txt, or a site
that was down) is the latest crawl like any other, and resolves every issue of a
page.  The plan's prose is counted in the month's spend but never refused by it.  A
claim of the public scan that dies between `INCR` and `EXPIRE` leaves a counter that
never expires; the endpoint then refuses that address, or everybody, until somebody
deletes the key.  A domain property of the www host proves ownership in the database
and is never suggested by the matcher, which is why `EvidenceIsMatched` makes an
exception of it.  An ownership that was recorded once is never withdrawn; what both
gates of a crawl ask besides is whether the *linked* property is evidence now.

The code also leaves open, and no document promises, the order in which the jobs
of one website finish after an outage: one tick claims all of them, each goes to
its own pool, and scores may be computed before the crawl they follow.

## 4. What is proved

For every value of the constants that satisfies the named assumptions:

* `ScheduleProofs`.  `NextFollows` and `NightsAreInOrder`: the next slot is the first
  after the due one, and a night keeps its order, for any stagger.  `DueIsTheLatest`:
  for any stagger, at any moment, a due slot exists and is the latest passed.  A slot
  lies within its day (`SlotInDay`), so one of the seven days before today has one
  that has passed (`SomeDayBack`), and a nearer day has the later slot.
* `ScheduledRunsProofs`.  `Typing`, then `SoleOwner`: the invariant `Ownership`
  is inductive.  `OneStartPerSlot` is not, because nothing in it says that a row
  that is `claimed` has never been started, nor which worker may still report;
  `Ownership` adds that (`Fresh`), that a worker past `mark_running` holds a run
  that was started and not settled (`Owned`), that no two hold the same one
  (`OneOwner`), and that what is settled has its outcome (`HasOutcome`).
  `StartedOnce`, `OutcomeStays` and `TasksHaveRows` (with `HaveRows`) follow.
  `ImplementsLedger`: each step maps to a step of `SlotLedger` or to none.  `LeaseKept`:
  with `Stamps`, no stamp is later than the clock, so a tick's stale `now` can only make
  the reaper more patient.
* `CrawlProofs`.  `RunnerOwnsCrawl`: `Inductive` holds on any website, finite set of
  pages, cap and batch size.  Its core is `Held` (the leased pages are exactly
  the rest of the batch and the page in hand), `Counted` (the count is the number
  of pages done) and `Followed` (the links of what is done are known).
  `EndedWhole`, `KeptWithinCap`, `TriedThreeTimes`, `HoldsNothing` and `Settled` (what
  is settled stays so) follow.  `ImplementsTraversal`: each step is one of `Traversal`
  or none.  `Inductive` says when a crawl is whole; that it was led to what it found and
  that its reason is so needs `Begins` besides: that nothing is known before robots.txt
  was read, that nothing is visited before the home page is queued, and that the rules
  obeyed are the site's.
* `ConnectionsProofs`.  `Consistent`: `Inductive` holds for any number of
  authorisations, callbacks, refreshes and tokens.  `StateOnce` alone is not
  inductive: an exchange must know that its code was not exchanged before, which
  `Waiting` says of each callback that took a state, with no other callback holding
  the same one.  `OwnToken` needs `Origins`, which says the same of the tokens that
  are still in somebody's hands, and that no token is known before it is issued (or a
  new one might change the origin of an old).  `UsedOnce`, `NamesWhatIsThere`,
  `RotatedInPlace`, `Gone` and `Coalesced` follow; the last two are properties of
  steps.
* `SyncProofs`.  `BackfillIsWhole`, for any number of callers, links, days and
  windows.  That what is marked is whole says nothing of a run that has not marked
  yet; `Underway` adds what each run has brought so far (`Brought`: whatever of its
  window is not left, unless something failed; `HalfWay`: the first dataset of the
  chunk it is in the middle of), be it in the tables or, in a request, in its own
  hands.  `OutagesLeaveNoHole` follows with `Unmarked`: a whole run reaches back to
  the day after the last whole one, since it is not late, and a backfill reaches
  further (`restated <= span + 1`, assumed of both services).
* `SumProofs`, lemmas only.  The library's induction rules are about an operator, which
  no installed prover can instantiate; `SubsetInduction` says the same of a set of
  subsets, and follows from the least element of a set of numbers (`Least`).  From it,
  of the sum of a function over a finite set (`SumFunctionOnSet`, a fold): it is a number,
  any element may be taken out of it, and it lies within a multiple of another sum if each
  summand does (`SumType`, `SumTakesOut`, `SumScales`); and of a finite set in order: one
  element comes first, and the places are 1, 2, … without a gap (`FirstExists`,
  `PlacesAreNumbered`).
* `WebsiteProofs`, for what happens to one website.
  * `GatesSayTheSame`, `PermissionIsFresh`: with `Sited` (a crawl that exists has a
    website).
  * `EvidenceWasShown`: the two definitions of coverage are compared for any hosts and
    any properties (`CoveringMatches`: whatever the view counts as covering is suggested
    as proof by the matcher, but for a domain property of the www host), which comes
    down to where the label `www` may stand in a sequence of labels.
  * `HostsAreLeftAlone`: with `LimiterRests`, that the limiter's next instant is never
    before what the host asked for, whatever was its delay, since `release` comes after
    `back_off` and computes with the longer delay.
  * `ObservationsProve`: `Observable` says of the analysis that what it has still to
    do is what it may still resolve, and of the issue in hand what its status was just
    made.
  * `ScoreIsAMean`: the weighted sum lies between `lo` and `hi` times the sum of the
    weights (`SumScales`), which is not nothing because two of the components are never
    absent; and the integer division by that sum cannot leave `lo .. hi`.
  * `PropertiesTyped`, `FetchingTyped`, `IssuesTyped`: the last needs that every component
    of the score is within its scale (`ComponentInRange`), however far clicks moved and
    whatever was flagged.
* `PlatformProofs`, for the other components.
  * `DoneWasSaid`, `SentWasDelivered`: what an author kept in its hands was said
    (`KeptIsSaid`), what it is about to record was delivered (`DeliveredIsTold`).
  * `PlansAreNumbered`: a type's place is one more than the number of types before it in
    the order by worth and then by type; that order is total, so the first
    `MaxPriorities` places are taken once each.  An issue has one type, so no two
    priorities are about one issue.
  * `AlertsTyped`, `WeeklyTyped`, `SpendingTyped`, `PeekTyped`: the types of the rest.
  * `ProblemsAreMentioned`, `MailsAreApart`: what a pass has been through was mentioned
    or refused (`SaidSoFar`), and no mail is younger than its row (`RowComesFirst`).
  * `ReceiptsAreTrue`: an organisation is deleted by one call only (`OneDeletes`),
    what the call has passed is gone (`PurgedGoes`), and what is gone stays gone but
    for late writes (`GoneIsEmpty`, `GoneIsGone`).
  * `OverspendHasABound`: the bound itself is not inductive.  A call that was admitted
    and is not recorded yet has its cost still to come, and so have the rounds of a
    question that were admitted with its first, and a run that has read a budget and
    may act on it later; `Admitted` is the set of them, and `RoomLeft` says that what
    is recorded and what they may still cost stay together below the bound.  Each
    step then either adds nothing to the set (`Moves`), or moves a member's cost from
    the set to the record (`Records`), or fills the set, at most to its whole size,
    while the record is below the allowance (`IsAdmitted`).
  * `CeilingIsDouble`: the bound on every span is not inductive, since a span says
    nothing of where the counter's window began.  `Windowed` says that it began at some
    second: since then no more was granted than the counter shows and than the limit, and
    nor was in any span of a window's length that ends there.  A window that ends takes
    its place only a window's length later, so a span meets two of them at most.
  * `EachRunsAsAlone`: a behaviour of `MCPlatform` is one of every component alone, so
    that every theorem above holds of what the run checks; `PlatformTyped`
    puts the components' types together.

The assumptions are the ones named in the modules: what type each constant has, that
the sets of pages and of issues are finite, that the values that stand for "none"
(`NoFlow` and the like) are not members of the sets they complete, that callers of
different kinds are different, that a host is a sequence of labels, that one of the
costs of a call is the dearest, that an organisation has a member, that a backfill is
not shorter than a night's window, that issues and their types are finite sets of numbers
(their order breaks ties), that what a crawl or the fact tables tell the rules has the
fields they read, with finitely many pages and clicks that are counted
(`ViewsAssumption`).  No assumption relates the sizes of the lease, the
expiry and the moments of the clock, or bounds what is counted.

Every invariant and action property that a passing run checks is stated by a theorem.
Only model-checked are the four liveness properties (`EveryRunSettles`, `LateNotLost`,
`Terminates`, `DeadTokenNoticed`): liveness under fairness is out of the prover's reach, as
is `ENABLED`.  Not proved either is what the rules of `IssueRules` flag, beyond
what the score and the life of an issue need of it.

## 5. Plan

In the order of how much depends on them.

| # | Module | Models | State |
|---|---|---|---|
| 1 | `Schedule`, `ScheduleClock` | when a job is due | checked, proved |
| 2 | `ScheduledRuns` ⊒ `SlotLedger` | ticks, claims, the life of a run; composes `Schedule` | checked, proved |
| 3 | `Crawl` ⊒ `Traversal` | one crawl | checked, proved |
| 4 | `Connections` | one Google connection: consent, callback, refresh, disconnect, and its vault secret | checked, proved |
| 5 | `SyncHistory` | windows, backfill and the days of history held | checked, proved |
| 6 | `Websites` | websites, ownership and all crawls of one, from the API and from the nightly job | checked, proved |
| 7 | `IssueRules`, `Issues` | the rules, the score, and issues over a sequence of crawls and analyses | checked, proved |
| 8 | `Alerts` | incidents and notices against conditions that come and go | checked, proved |
| 9 | `Deletion` | users, organisations and what is deleted of them | checked, proved |
| 10 | `Fetching`, `WeeklyReports` | per-host spacing and seeding; the states of a plan and a report | checked, proved |
| 11 | `Properties`, `Spending`, `Peek` | evidence of ownership; the allowance; counters | checked, proved |

What could come next: an abstract specification of a connection, as `Traversal` is of a
crawl; an analysis composed with the crawl it reads, and two crawls that share a host, both
of which the code leaves to chance.

## 6. What is not modelled, and why

* *Text, markup, figures.*  Parsing, extraction, rendering, URL normalisation,
  prompts, the validation of a model's answer, the impact figures and the wording of
  evidence are functions over strings and numbers, which the repository's unit tests
  reach well.  `IssueRules` has the rules' conditions, not their texts.
* *Row-level security* is enforced by the database and tested in `db/tests`; one
  consequence of it is modelled (`WeeklyReports!Recipients`).
* *The front end* keeps no state of its own.
* *Analytics properties*, their streams and their ranking: they prove nothing and are
  linked like any other.
* *Alerts about crawls.*  Both halves of the alerting have a condition on crawls of a
  status that no code writes.  Passes do not overlap, and time stands still within
  one.
* *Two crawls of one host.*  Each has its own limiter, so the spacing holds within a
  crawl; `Fetching` has one.
* *Partitions* of the fact tables and the event loop of a worker process.
* *Several accounts of one organisation*, scopes and the encryption of a token, in
  `Connections`; what `ScheduledRuns` reads of a website (`FactChanges`) is there an
  environment that may do anything, and `Websites` shows what it really does.

`PROJECT.json` lists every component with its status, and every hazard with the property
that covers it or the reason why none does.
