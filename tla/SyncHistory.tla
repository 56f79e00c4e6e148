---------------------------- MODULE SyncHistory ----------------------------
(***************************************************************************)
(* The history of one website in one Google service: api/hub/services/sync *)
(* (windows.py, orchestrator.py, search_console.py, analytics.py) over the *)
(* links and facts of api/hub/repositories.py.                             *)
(*                                                                         *)
(* A nightly job commits each statement; a request of the customer is one  *)
(* transaction, so what it wrote appears when it ends or not at all.  The  *)
(* property may be linked anew, the connection lost, the goals changed and *)
(* the day may end while either is at work.                                *)
(***************************************************************************)
EXTENDS Integers

CONSTANTS
    SyncJobs, SyncRequests,     \* callers of sync_website
    SyncLinks,                  \* how many times the website may be linked (bound)
    MaxRuns,                    \* how many calls of sync_website there are (bound)
    FirstDay, LastDay,          \* the days the platform is watched for (bound)
    MonthEnds,                  \* the last days of the months
    Services                    \* the figures of each service: see ServicesAssumption

Syncers == SyncJobs \cup SyncRequests
Links == 1..SyncLinks

ASSUME SyncersAssumption == SyncJobs \cap SyncRequests = {}
ASSUME DaysAssumption ==
    FirstDay \in Nat /\ LastDay \in Nat /\ FirstDay <= LastDay /\ MonthEnds \subseteq Int
    /\ SyncLinks \in Nat \ {0} /\ MaxRuns \in Nat
\* lag: days Google is behind; restated: days fetched again each night; span: the
\* backfill, which is no shorter; recent: how far back the largest dataset is fetched.
ASSUME ServicesAssumption ==
    \A s \in DOMAIN Services :
        /\ Services[s] \in [lag : Nat, restated : Nat \ {0}, span : Nat, recent : Nat]
        /\ Services[s].restated <= Services[s].span + 1

VARIABLES
    service, today,
    link,           \* the active row of website_connections, which is there throughout
    mark,           \* backfill_completed_at is set
    got,            \* what was fetched under each link: <<dataset, day>>
    runs,           \* how many calls there were
    syncing,        \* the call of sync_website each syncer is in
    promised, whole, late   \* history: see FinishRun

syncRows == <<link, mark, got>>
syncVars == <<service, today, syncRows, runs, syncing, promised, whole, late>>

Figures == Services[service]
Later(a, b) == IF a > b THEN a ELSE b

Idle == [pc |-> "idle", link |-> 0, kind |-> "none", day |-> 0, goals |-> FALSE,
         left |-> {}, step |-> 0, bad |-> FALSE, wrote |-> {}]

SyncInit ==
    /\ service \in DOMAIN Services
    /\ today = FirstDay
    /\ runs = 0
    /\ link = 1
    /\ mark = [l \in Links |-> FALSE]
    /\ got = [l \in Links |-> {}]
    /\ syncing = [p \in Syncers |-> Idle]
    /\ promised = [l \in Links |-> {}]
    /\ whole = [l \in Links |-> 0]
    /\ late = [l \in Links |-> FALSE]

-----------------------------------------------------------------------------
(* windows.py.                                                              *)

LatestAvailable(day) == day - Figures.lag

BackfillWindow(day) == (LatestAvailable(day) - Figures.span) .. LatestAvailable(day)

\* MUTANT: the trailing window is one day short.
IncrementalWindow_Short(day) ==
    (LatestAvailable(day) - Figures.restated + 2) .. LatestAvailable(day)

IncrementalWindow(day) ==
    (LatestAvailable(day) - Figures.restated + 1) .. LatestAvailable(day)

Window(kind, day) == IF kind = "backfill" THEN BackfillWindow(day) ELSE IncrementalWindow(day)

\* The first of the month_chunks of what is left: up to the end of its month.
Chunk(left) ==
    {d \in left : ~ \E c \in left, e \in MonthEnds : c <= e /\ e < d}

-----------------------------------------------------------------------------
(* What one chunk fetches, each dataset a request with its own dimensions:  *)
(* first the daily totals and their analytical subsets, then what only some *)
(* chunks have, the pairs of query and page (a recent chunk) or the events  *)
(* (if any goal is mapped).                                                 *)

Datasets == <<"daily", "extra">>

HasExtra(p, chunk) ==
    IF service = "analytics" THEN syncing[p].goals
    ELSE \E d \in chunk : d >= syncing[p].day - Figures.recent

LastStep(p, chunk) == IF HasExtra(p, chunk) THEN 2 ELSE 1

\* What a run that has begun on a day has to bring home to be whole.
Wanted(kind, day, withGoals) ==
    LET days == Window(kind, day)
    IN  ({"daily"} \X days) \cup
        ({"extra"} \X {d \in days : withGoals \/ (service = "search_console"
                                                 /\ d >= day - Figures.recent)})

-----------------------------------------------------------------------------
(* sync_website.                                                            *)

\* The link is read first, and that its connection is active, which it may not be.
ReadLink(p) ==
    /\ syncing[p].pc = "idle"
    /\ runs < MaxRuns
    /\ runs' = runs + 1
    /\ syncing' = [syncing EXCEPT ![p] = [Idle EXCEPT !.pc = "token", !.link = link]]
    /\ UNCHANGED <<service, today, syncRows, promised, whole, late>>

\* Goals are mapped and unmapped by the customer at any time (set_goal_events), and
\* are read once for the whole run.
GoalsMapped == IF service = "analytics" THEN BOOLEAN ELSE {FALSE}

\* After the access token was minted the links are read again, for the mark: it
\* is that of the link which is active now.  Then the run opens its row.
StartRun(p) ==
    LET kind == IF mark[link] THEN "incremental" ELSE "backfill"
    IN  /\ syncing[p].pc = "token"
        /\ \E g \in GoalsMapped :
              syncing' = [syncing EXCEPT ![p] =
                  [@ EXCEPT !.pc = "chunks", !.kind = kind, !.day = today, !.goals = g,
                            !.left = Window(kind, today), !.step = 1]]
        /\ UNCHANGED <<service, runs, today, syncRows, promised, whole, late>>

\* What a job writes is seen at once, what a request writes at its commit.
Store(p, facts) ==
    got' = [got EXCEPT ![syncing[p].link] = IF p \in SyncJobs THEN @ \cup facts ELSE @]

\* The loop goes on to the next chunk whether this one is whole or was given up.
Advance(p, chunk, failed) ==
    [syncing[p] EXCEPT !.left = @ \ chunk, !.step = 1, !.bad = @ \/ failed]

\* A request is followed through all its pages before any row of it is stored: it
\* brings every day of the chunk, or fails.
Rows(p, chunk) == {Datasets[syncing[p].step]} \X chunk

\* A dataset arrives and is upserted.  After the last one of a chunk the date of
\* the link is moved up, which nothing reads.
Fetch(p) ==
    LET chunk == Chunk(syncing[p].left)
        facts == Rows(p, chunk)
        next  == IF syncing[p].step = LastStep(p, chunk) THEN Advance(p, chunk, FALSE)
                 ELSE [syncing[p] EXCEPT !.step = @ + 1]
    IN  /\ syncing[p].pc = "chunks"
        /\ syncing[p].left # {}
        /\ Store(p, facts)
        /\ syncing' = [syncing EXCEPT ![p] =
                          IF p \in SyncJobs THEN next ELSE [next EXCEPT !.wrote = @ \cup facts]]
        /\ UNCHANGED <<service, runs, today, link, mark, promised, whole, late>>

\* GoogleError: this chunk is passed over and the next one tried.
ChunkFails(p) ==
    /\ syncing[p].pc = "chunks"
    /\ syncing[p].left # {}
    /\ syncing' = [syncing EXCEPT ![p] = Advance(p, Chunk(syncing[p].left), TRUE)]
    /\ UNCHANGED <<service, runs, today, syncRows, promised, whole, late>>

\* GoogleQuotaExceeded: the loop is left.
QuotaExceeded(p) ==
    /\ syncing[p].pc = "chunks"
    /\ syncing[p].left # {}
    /\ syncing' = [syncing EXCEPT ![p] = Advance(p, syncing[p].left, TRUE)]
    /\ UNCHANGED <<service, runs, today, syncRows, promised, whole, late>>

\* MUTANT: a backfill that got through its loop is complete, failures or not.
Complete_Partial(run) == run.kind = "backfill"

\* Only a run without any failure is `succeeded', and marks the backfill.
Complete(run) == run.kind = "backfill" /\ ~run.bad

\* The end of the run.  `promised' notes what the mark says was fetched, `whole'
\* the last day from which everything was, and `late' that after the backfill a
\* whole run came more nights after the one before it than the window is long.
FinishRun(p) ==
    LET run == syncing[p]
        l   == run.link
    IN  /\ run.pc = "chunks"
        /\ run.left = {}
        /\ syncing' = [syncing EXCEPT ![p] = Idle]
        /\ got' = [got EXCEPT ![l] = @ \cup run.wrote]
        /\ mark' = [mark EXCEPT ![l] = @ \/ Complete(run)]
        /\ promised' = [promised EXCEPT ![l] =
               IF Complete(run) /\ ~mark[l] THEN Wanted("backfill", run.day, run.goals) ELSE @]
        /\ whole' = [whole EXCEPT ![l] =
               IF Complete(run) \/ (mark[l] /\ ~run.bad) THEN Later(@, run.day) ELSE @]
        /\ late' = [late EXCEPT ![l] =
               @ \/ (mark[l] /\ ~run.bad
                       /\ run.day - whole[l] > Figures.restated)]
        /\ UNCHANGED <<service, runs, today, link>>

\* The token is refused, a request times out (which no handler catches), the
\* database or the process goes away: a job leaves what it had written.
SyncerDies(p) ==
    /\ syncing[p].pc # "idle"
    /\ syncing' = [syncing EXCEPT ![p] = Idle]
    /\ UNCHANGED <<service, runs, today, syncRows, promised, whole, late>>

-----------------------------------------------------------------------------
(* The customer and the calendar.                                           *)

\* link_property: the active link is unlinked and a new row made, even for the
\* property that was linked before.
LinkProperty ==
    /\ link < SyncLinks
    /\ link' = link + 1
    /\ UNCHANGED <<service, runs, today, mark, got, syncing, promised,
                   whole, late>>

DayEnds ==
    /\ today < LastDay
    /\ today' = today + 1
    /\ UNCHANGED <<service, runs, syncRows, syncing, promised, whole, late>>

SyncNext ==
    \/ \E p \in Syncers :
          \/ ReadLink(p) \/ StartRun(p) \/ Fetch(p) \/ ChunkFails(p)
          \/ QuotaExceeded(p) \/ FinishRun(p) \/ SyncerDies(p)
    \/ LinkProperty
    \/ DayEnds

SyncSpec == SyncInit /\ [][SyncNext]_syncVars

-----------------------------------------------------------------------------
(* What must hold.                                                          *)

Kinds == {"none", "backfill", "incremental"}
Facts == {"daily", "extra"} \X Int

SyncCalls ==
    [pc : {"idle", "token", "chunks"}, link : 0..SyncLinks, kind : Kinds, day : Nat,
     goals : BOOLEAN, left : SUBSET Int, step : 0..2, bad : BOOLEAN, wrote : SUBSET Facts]

SyncTypeOK ==
    /\ service \in DOMAIN Services
    /\ today \in FirstDay .. LastDay
    /\ link \in Links /\ runs \in 0..MaxRuns
    /\ mark \in [Links -> BOOLEAN] /\ late \in [Links -> BOOLEAN]
    /\ whole \in [Links -> Nat]
    /\ got \in [Links -> SUBSET Facts] /\ promised \in [Links -> SUBSET Facts]
    /\ syncing \in [Syncers -> SyncCalls]

\* A backfill that is marked complete is: each day of its window was fetched, in
\* each dataset that applies, under the link that carries the mark.  From then on
\* nobody asks Google for that history again (orchestrator.py, _run), so a mark
\* set too soon, by the run of another link, or over a chunk that failed half
\* way, loses it for good.
MarkedIsWhole == \A l \in Links : mark[l] => promised[l] \subseteq got[l]

\* The nightly window bridges outages up to its own length: as long as no two
\* whole runs are further apart than that, no day is missing between the start
\* of the backfill and the last whole run (windows.py, RESTATEMENT_WINDOW_DAYS).
NoHole ==
    \A l \in Links : mark[l] /\ ~late[l] =>
        \A fact \in promised[l] : fact[1] = "daily" =>
            \A d \in fact[2] .. LatestAvailable(whole[l]) : <<"daily", d>> \in got[l]
=============================================================================
