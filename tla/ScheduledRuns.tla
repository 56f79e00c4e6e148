---------------------------- MODULE ScheduledRuns ----------------------------
(***************************************************************************)
(* The nightly run of every job of every website: api/workers/dispatch.py  *)
(* (deciding and claiming), api/workers/jobs.py (the life of a run) and    *)
(* api/workers/app.py (the Celery tasks that call both), over the table    *)
(* `scheduled_runs'.                                                       *)
(*                                                                         *)
(* Every connection is autocommit (db.service_task), so each statement is  *)
(* a step of its own and anything may happen between two of them.          *)
(*                                                                         *)
(* Three kinds of process take steps: dispatchers (executions of the task  *)
(* `scheduler.tick', which may overlap), workers (executions of a job's    *)
(* task), and the world: the clock, the broker, the customers.             *)
(***************************************************************************)
EXTENDS Schedule, FiniteSets, Sequences

CONSTANTS
    Jobs,           \* the jobs of JOBS that are scheduled
    Dispatchers,
    Workers,
    Moments,        \* the readings of the clock
    Lease,          \* LEASE: how long a run may go without an outcome
    Expires,        \* how long a task may wait in the queue
    MaxRetries,
    NoMessage

ASSUME JobsAssumption == Jobs \subseteq JOBS
ASSUME TimeAssumption ==
    Moments # {} /\ Moments \subseteq Nat \ {0} /\ Lease \in Nat /\ Expires \in Nat
ASSUME RetriesAssumption == MaxRetries \in Nat

\* What a row is unique on: (website_id, job, window_start).  Only the slots
\* some reading of the clock makes due can ever be claimed.
Slots == {<<j, s, DueSlot(j, s, t)>> : j \in Jobs, s \in Websites, t \in Moments}

Pending  == {"claimed", "running"}
Reported == {"succeeded", "skipped", "failed"}
Statuses == {"absent"} \cup Pending \cup Reported

Needs(j) == CASE j = "sync_search_console" -> "search_console"
              [] j = "sync_analytics"      -> "analytics"
              [] j = "crawl_website"       -> "crawl_allowed"
              [] OTHER                     -> "has_crawl"

Facts == {"search_console", "analytics", "crawl_allowed", "has_crawl"}

Messages == [run : Slots, retries : 0 .. MaxRetries, expires : Nat]

ASSUME NoMessageAssumption == NoMessage \notin Messages

VARIABLES
    now,        \* the clock, in minutes
    facts,      \* per website, what its jobs' eligibility depends on
    life,       \* per website: live, archived, or deleted with its account
    status,     \* the rows of scheduled_runs
    claimed_at,
    started_at, \* 0 is NULL
    starts,     \* history: how often the slot's work was started
    settled,    \* history: the slots whose worker has reported an outcome
    queue,      \* the broker's tasks nobody holds
    pc, msg, outcome,           \* the workers; a message is held until acked
    phase, at, todo, won        \* the dispatchers; `at' is their `now'

rowVars        == <<status, claimed_at, started_at, starts, settled>>
siteVars       == <<facts, life>>
workerVars     == <<pc, msg, outcome>>
dispatcherVars == <<phase, at, todo, won>>
vars == <<now, siteVars, rowVars, queue, workerVars, dispatcherVars>>

JobOf(x)  == x[1]
SiteOf(x) == x[2]

Rank(j) == CHOOSE i \in 1 .. Len(JobOrder) : JobOrder[i] = j

Init ==
    /\ now \in {m \in Moments : \A t \in Moments : m <= t}
    /\ facts \in [Websites -> SUBSET {Needs(j) : j \in Jobs}]
    /\ life = [s \in Websites |-> "live"]
    /\ status = [x \in Slots |-> "absent"]
    /\ claimed_at = [x \in Slots |-> 0]
    /\ started_at = [x \in Slots |-> 0]
    /\ starts = [x \in Slots |-> 0]
    /\ settled = {}
    /\ queue = {}
    /\ pc = [w \in Workers |-> "idle"]
    /\ msg = [w \in Workers |-> NoMessage]
    /\ outcome = [w \in Workers |-> "none"]
    /\ phase = [d \in Dispatchers |-> "idle"]
    /\ at = [d \in Dispatchers |-> 0]
    /\ todo = [d \in Dispatchers |-> {}]
    /\ won = [d \in Dispatchers |-> NoSlot]

-----------------------------------------------------------------------------
(* The tick: reap, read the candidates, then claim and enqueue one by one.  *)

Goes(d, from, to) == phase[d] = from /\ phase' = [phase EXCEPT ![d] = to]

BeginTick(d) ==
    /\ Goes(d, "idle", "reaping")
    /\ at' = [at EXCEPT ![d] = now]
    /\ UNCHANGED <<now, siteVars, rowVars, queue, workerVars, todo, won>>

\* MUTANT: the lease counted from the claim alone.
LastSeen_ClaimOnly(x) == claimed_at[x]

\* coalesce(started_at, claimed_at)
LastSeen(x) == IF started_at[x] # 0 THEN started_at[x] ELSE claimed_at[x]

\* MUTANT: reap without its status predicate.
Overdue_AnyStatus(t) == {x \in Slots : status[x] # "absent" /\ LastSeen(x) < t - Lease}

\* MUTANT: reap looking for dead workers only.
Overdue_RunningOnly(t) == {x \in Slots : status[x] = "running" /\ LastSeen(x) < t - Lease}

Overdue(t) == {x \in Slots : status[x] \in Pending /\ LastSeen(x) < t - Lease}

Reap(d) ==
    /\ Goes(d, "reaping", "scanning")
    /\ status' = [x \in Slots |-> IF x \in Overdue(at[d]) THEN "failed" ELSE status[x]]
    /\ UNCHANGED <<now, siteVars, claimed_at, started_at, starts, settled, queue,
                   workerVars, at, todo, won>>

\* MUTANT: the crawl waiting for a first crawl as the jobs after it do.
Eligible_AfterCrawl(j, s) == Needs(j) \in facts[s] /\ "has_crawl" \in facts[s]

Eligible(j, s) == Needs(j) \in facts[s]

ReadCandidates(d) ==
    /\ Goes(d, "scanning", "claiming")
    /\ todo' = [todo EXCEPT ![d] =
                  {js \in Jobs \X Websites : life[js[2]] = "live" /\ Eligible(js[1], js[2])}]
    /\ UNCHANGED <<now, siteVars, rowVars, queue, workerVars, at, won>>

FirstOf(d, j, s) ==
    <<j, s>> \in todo[d] /\ \A other \in todo[d] : Rank(j) <= Rank(other[1])

Visited(d, j, s) == todo' = [todo EXCEPT ![d] = @ \ {<<j, s>>}]

\* MUTANT: the claim still uncommitted when its task is sent.
Claim_Uncommitted(d, j, s) ==
    LET x == <<j, s, DueSlot(j, s, at[d])>>
    IN  /\ Goes(d, "claiming", "enqueueing")
        /\ FirstOf(d, j, s) /\ Visited(d, j, s)
        /\ life[s] # "deleted" /\ status[x] = "absent"
        /\ won' = [won EXCEPT ![d] = x]
        /\ UNCHANGED <<now, siteVars, rowVars, queue, workerVars, at>>

\* MUTANT: on conflict do update, which takes a slot over from its owner.
Claim_Upsert(d, j, s) ==
    LET x == <<j, s, DueSlot(j, s, at[d])>>
    IN  /\ Goes(d, "claiming", "enqueueing")
        /\ FirstOf(d, j, s) /\ Visited(d, j, s)
        /\ life[s] # "deleted"
        /\ status' = [status EXCEPT ![x] = "claimed"]
        /\ claimed_at' = [claimed_at EXCEPT ![x] = now]
        /\ won' = [won EXCEPT ![d] = x]
        /\ UNCHANGED <<now, siteVars, started_at, starts, settled, queue, workerVars, at>>

\* insert ... on conflict do nothing.  The row's claimed_at is the database's
\* now(), the slot is the one that was due at the tick's.
Claim(d, j, s) ==
    LET x == <<j, s, DueSlot(j, s, at[d])>>
    IN  /\ Goes(d, "claiming", "enqueueing")
        /\ FirstOf(d, j, s) /\ Visited(d, j, s)
        /\ life[s] # "deleted"
        /\ status[x] = "absent"
        /\ status' = [status EXCEPT ![x] = "claimed"]
        /\ claimed_at' = [claimed_at EXCEPT ![x] = now]
        /\ won' = [won EXCEPT ![d] = x]
        /\ UNCHANGED <<now, siteVars, started_at, starts, settled, queue, workerVars, at>>

AlreadyTaken(d, j, s) ==
    /\ phase[d] = "claiming"
    /\ FirstOf(d, j, s) /\ Visited(d, j, s)
    /\ life[s] # "deleted"
    /\ status[<<j, s, DueSlot(j, s, at[d])>>] # "absent"
    /\ UNCHANGED <<now, siteVars, rowVars, queue, workerVars, phase, at, won>>

Enqueue(d) ==
    /\ Goes(d, "enqueueing", "claiming")
    /\ queue' = queue \cup {[run |-> won[d], retries |-> 0, expires |-> now + Expires]}
    /\ won' = [won EXCEPT ![d] = NoSlot]
    /\ UNCHANGED <<now, siteVars, rowVars, workerVars, at, todo>>

Rest(d) ==
    /\ phase' = [phase EXCEPT ![d] = "idle"]
    /\ at' = [at EXCEPT ![d] = 0]
    /\ todo' = [todo EXCEPT ![d] = {}]
    /\ won' = [won EXCEPT ![d] = NoSlot]
    /\ UNCHANGED <<now, siteVars, rowVars, queue, workerVars>>

EndTick(d) == phase[d] = "claiming" /\ todo[d] = {} /\ Rest(d)

\* The process dies, a query fails, the broker refuses the task, or the row
\* cannot be inserted because its website is gone: the exception ends the
\* whole tick, whatever it still had to visit.
TickDies(d) == phase[d] # "idle" /\ Rest(d)

-----------------------------------------------------------------------------
(* A job's task, from the broker to its acknowledgement.                    *)

Step(w, from, to) == pc[w] = from /\ pc' = [pc EXCEPT ![w] = to]

Ack(w) == /\ pc' = [pc EXCEPT ![w] = "idle"]
          /\ msg' = [msg EXCEPT ![w] = NoMessage]
          /\ outcome' = [outcome EXCEPT ![w] = "none"]

Deliver(w, m) ==
    /\ m \in queue /\ now < m.expires
    /\ Step(w, "idle", "taken")
    /\ queue' = queue \ {m}
    /\ msg' = [msg EXCEPT ![w] = m]
    /\ UNCHANGED <<now, siteVars, rowVars, outcome, dispatcherVars>>

Discard(m) ==
    /\ m \in queue /\ now >= m.expires
    /\ queue' = queue \ {m}
    /\ UNCHANGED <<now, siteVars, rowVars, workerVars, dispatcherVars>>

\* MUTANT: where status in ('claimed', 'running').
MarkRunning_AnyPending(w) ==
    LET x == msg[w].run
    IN  /\ Step(w, "taken", "started")
        /\ status[x] \in Pending
        /\ status' = [status EXCEPT ![x] = "running"]
        /\ started_at' = [started_at EXCEPT ![x] = now]
        /\ starts' = [starts EXCEPT ![x] = @ + 1]
        /\ UNCHANGED <<now, siteVars, claimed_at, settled, queue, msg, outcome,
                       dispatcherVars>>

MarkRunning(w) ==
    LET x == msg[w].run
    IN  /\ Step(w, "taken", "started")
        /\ status[x] = "claimed"
        /\ status' = [status EXCEPT ![x] = "running"]
        /\ started_at' = [started_at EXCEPT ![x] = now]
        /\ starts' = [starts EXCEPT ![x] = @ + 1]
        /\ UNCHANGED <<now, siteVars, claimed_at, settled, queue, msg, outcome,
                       dispatcherVars>>

\* mark_running finds the row moved on, or gone: the task returns, acknowledged.
Refuse(w) ==
    /\ pc[w] = "taken"
    /\ status[msg[w].run] # "claimed"
    /\ Ack(w)
    /\ UNCHANGED <<now, siteVars, rowVars, queue, dispatcherVars>>

Concludes(w, from, result) ==
    /\ Step(w, from, "finishing")
    /\ outcome' = [outcome EXCEPT ![w] = result]

LoadWebsite(w) ==
    /\ \/ /\ Step(w, "started", "working")
          /\ life[SiteOf(msg[w].run)] = "live"
          /\ UNCHANGED outcome
       \/ /\ Concludes(w, "started", "skipped")
          /\ life[SiteOf(msg[w].run)] # "live"
    /\ UNCHANGED <<now, siteVars, rowVars, queue, msg, dispatcherVars>>

Syncs == {"sync_search_console", "sync_analytics"}

\* The work itself.  Only a sync can find that it has nothing to do, and a sync
\* that ends `failed' without raising counts as a success here.
Work(w) ==
    LET job == JobOf(msg[w].run)
        site == SiteOf(msg[w].run)
    IN  /\ \E result \in Reported :
             /\ Concludes(w, "working", result)
             /\ result = "skipped" => job \in Syncs
             /\ facts' = IF job = "crawl_website" /\ result = "succeeded"
                         THEN [facts EXCEPT ![site] = @ \cup {"has_crawl"}]
                         ELSE facts
        /\ UNCHANGED <<now, life, rowVars, queue, msg, dispatcherVars>>

Raises(w, from) ==
    /\ Step(w, from, "raising")
    /\ outcome' = [outcome EXCEPT ![w] = "none"]

\* `finish' updates by id alone, so it overwrites whatever the row says, and
\* a row deleted meanwhile stays deleted.  A failure is raised again.
Finish(w) ==
    LET x == msg[w].run
    IN  /\ pc[w] = "finishing"
        /\ status' = [status EXCEPT ![x] = IF @ = "absent" THEN @ ELSE outcome[w]]
        /\ settled' = settled \cup {x}
        /\ \/ /\ outcome[w] = "failed"
              /\ Raises(w, "finishing")
              /\ UNCHANGED msg
           \/ outcome[w] # "failed" /\ Ack(w)
        /\ UNCHANGED <<now, siteVars, claimed_at, started_at, starts, queue, dispatcherVars>>

\* Any statement of the run's own bookkeeping may fail and raise.
StatementFails(w) ==
    /\ \E from \in {"taken", "started", "finishing"} : Raises(w, from)
    /\ UNCHANGED <<now, siteVars, rowVars, queue, msg, dispatcherVars>>

\* MUTANT: retrying for ever.
Retry_ForEver(w) ==
    /\ pc[w] = "raising"
    /\ queue' = queue \cup {[msg[w] EXCEPT !.retries = @ + 1]}
    /\ Ack(w)
    /\ UNCHANGED <<now, siteVars, rowVars, dispatcherVars>>

\* self.retry sends the same task again, with its expiry, until they run out.
Retry(w) ==
    /\ pc[w] = "raising"
    /\ queue' = IF msg[w].retries < MaxRetries
                THEN queue \cup {[msg[w] EXCEPT !.retries = @ + 1]}
                ELSE queue
    /\ Ack(w)
    /\ UNCHANGED <<now, siteVars, rowVars, dispatcherVars>>

\* task_acks_late: a task that is not acknowledged is delivered again, also
\* while the worker that has it is still at it.
Redeliver(w) ==
    /\ pc[w] # "idle"
    /\ msg[w] \notin queue
    /\ queue' = queue \cup {msg[w]}
    /\ UNCHANGED <<now, siteVars, rowVars, workerVars, dispatcherVars>>

WorkerDies(w) ==
    /\ pc[w] # "idle"
    /\ Ack(w)
    /\ UNCHANGED <<now, siteVars, rowVars, queue, dispatcherVars>>

-----------------------------------------------------------------------------
(* The world.                                                               *)

Later ==
    /\ now' \in {t \in Moments : t > now}
    /\ UNCHANGED <<siteVars, rowVars, queue, workerVars, dispatcherVars>>

\* A connection is linked or revoked, crawling is allowed or withdrawn.  Only a
\* crawl of this module's creates "has_crawl".
FactChanges(s, f) ==
    /\ f # "has_crawl"
    /\ facts' = [facts EXCEPT ![s] = IF f \in @ THEN @ \ {f} ELSE @ \cup {f}]
    /\ UNCHANGED <<now, life, rowVars, queue, workerVars, dispatcherVars>>

Archive(s) ==
    /\ life[s] = "live"
    /\ life' = [life EXCEPT ![s] = "archived"]
    /\ UNCHANGED <<now, facts, rowVars, queue, workerVars, dispatcherVars>>

\* The account's deletion cascades to its website's rows.
DeleteAccount(s) ==
    /\ life[s] # "deleted"
    /\ life' = [life EXCEPT ![s] = "deleted"]
    /\ status' = [x \in Slots |-> IF SiteOf(x) = s THEN "absent" ELSE status[x]]
    /\ UNCHANGED <<now, facts, claimed_at, started_at, starts, settled, queue,
                   workerVars, dispatcherVars>>

-----------------------------------------------------------------------------
DispatcherNext(d) ==
    \/ BeginTick(d) \/ Reap(d) \/ ReadCandidates(d) \/ Enqueue(d) \/ EndTick(d)
    \/ \E j \in Jobs, s \in Websites : Claim(d, j, s) \/ AlreadyTaken(d, j, s)
    \/ TickDies(d)

WorkerNext(w) ==
    \/ \E m \in queue : Deliver(w, m)
    \/ MarkRunning(w) \/ Refuse(w) \/ LoadWebsite(w) \/ Work(w) \/ Finish(w)
    \/ StatementFails(w) \/ Retry(w) \/ Redeliver(w) \/ WorkerDies(w)

WorldNext ==
    \/ Later
    \/ \E m \in queue : Discard(m)
    \/ \E s \in Websites : Archive(s) \/ DeleteAccount(s)
    \/ \E s \in Websites, j \in Jobs : FactChanges(s, Needs(j))

Next == \/ \E d \in Dispatchers : DispatcherNext(d)
        \/ \E w \in Workers : WorkerNext(w)
        \/ WorldNext

Spec == Init /\ [][Next]_vars

\* Beat sends a tick every five minutes for ever and each is some dispatcher's;
\* a tick may die anywhere, but no statement of it is where every tick dies.
\* Nothing is assumed of the workers or of the broker.
Fairness ==
    /\ WF_vars(Later)
    /\ \A d \in Dispatchers :
          /\ WF_vars(BeginTick(d)) /\ WF_vars(EndTick(d))
          /\ SF_vars(Reap(d)) /\ SF_vars(ReadCandidates(d)) /\ SF_vars(Enqueue(d))
          /\ \A j \in Jobs, s \in Websites :
                SF_vars(Claim(d, j, s)) /\ SF_vars(AlreadyTaken(d, j, s))

FairSpec == Spec /\ Fairness

-----------------------------------------------------------------------------
(* What must never happen.                                                  *)

WorkerStates     == {"idle", "taken", "started", "working", "finishing", "raising"}
DispatcherStates == {"idle", "reaping", "scanning", "claiming", "enqueueing"}

\* The values each variable ranges over.
TypeOK ==
    /\ now \in Moments
    /\ facts \in [Websites -> SUBSET Facts]
    /\ life \in [Websites -> {"live", "archived", "deleted"}]
    /\ status \in [Slots -> Statuses]
    /\ claimed_at \in [Slots -> Moments \cup {0}]
    /\ started_at \in [Slots -> Moments \cup {0}]
    /\ starts \in [Slots -> Nat]
    /\ settled \subseteq Slots
    /\ queue \subseteq Messages
    /\ pc \in [Workers -> WorkerStates]
    /\ msg \in [Workers -> Messages \cup {NoMessage}]
    /\ \A w \in Workers : pc[w] = "idle" <=> msg[w] = NoMessage
    /\ outcome \in [Workers -> Reported \cup {"none"}]
    /\ \A w \in Workers : pc[w] = "finishing" => outcome[w] \in Reported
    /\ phase \in [Dispatchers -> DispatcherStates]
    /\ at \in [Dispatchers -> Moments \cup {0}]
    /\ \A d \in Dispatchers : phase[d] # "idle" => at[d] \in Moments
    /\ todo \in [Dispatchers -> SUBSET (Jobs \X Websites)]
    /\ won \in [Dispatchers -> Slots \cup {NoSlot}]
    /\ \A d \in Dispatchers : phase[d] = "enqueueing" => won[d] \in Slots

Deleted(x) == life[SiteOf(x)] = "deleted"

\* The work of a slot is started at most once, whatever is delivered twice,
\* retried, reaped, claimed by two ticks at once or killed half way: "RUNNING
\* TWICE is prevented" (dispatch.py), by `claim' and `mark_running' together.
OneStartPerSlot == \A x \in Slots : starts[x] <= 1

\* A task never exists without its row: a worker that meets it before the claim
\* is committed would drop it, and the slot would stay claimed (`dispatch').
TaskHasRow ==
    \A x \in {m.run : m \in queue \cup {msg[w] : w \in {v \in Workers : pc[v] # "idle"}}} :
        status[x] = "absent" => Deleted(x)

\* A reported outcome is what the row says from then on: nobody reaps it, runs
\* it again or overwrites it, although `finish' guards against none of these.
OutcomeIsFinal ==
    [][\A x \in settled : status'[x] = status[x] \/ Deleted(x)']_vars

\* A run is given up on only when it is older than its lease, counted from when
\* its work began if it did: a run that waited for a worker for hours has the
\* whole lease from its start (`reap').
GivenUpOn(x) == status[x] \in Pending /\ status'[x] = "failed" /\ x \notin settled'
LeaseRespected ==
    [][\A x \in Slots : GivenUpOn(x) =>
           /\ now - claimed_at[x] > Lease
           /\ started_at[x] # 0 => now - started_at[x] > Lease]_vars

\* No run stays in flight: whichever process died, and wherever, its row reaches
\* an outcome once its lease is over, without that process coming back (`reap').
\* LastMoment is where the bounded clock stops: a younger run is still waiting.
LastMoment == CHOOSE m \in Moments : \A t \in Moments : t <= m
Forgotten(x) == status[x] \in Pending /\ LastSeen(x) + Lease < LastMoment
EveryRunSettles == \A x \in Slots : Forgotten(x) ~> ~Forgotten(x)

\* A missed window is late, not lost: after an outage of any length, the latest
\* slot of every job a website stays eligible for is claimed (due_slot, claim).
LateNotLost ==
    \A j \in Jobs, s \in Websites :
        <>[](life[s] = "live" /\ Needs(j) \in facts[s])
            => <>(status[<<j, s, DueSlot(j, s, LastMoment)>>] # "absent")

\* A retry does the work again: "Two retries, five minutes apart, and then it
\* stays failed" (app.py), so that the task which comes back after its run was
\* recorded as failed finds a row it can start.
RetryRunsAgain ==
    \A m \in queue : m.retries > 0 /\ m.run \in settled => status[m.run] = "claimed"

-----------------------------------------------------------------------------
(* Why it does not happen: the inductive invariant.  A slot's work is in   *)
(* the hands of the one worker that moved its row from claimed to running, *)
(* from that moment until the worker reports, dies or fails.               *)

Owns(w) == pc[w] \in {"started", "working", "finishing"}

\* A row nobody started is what mark_running may start; a deleted one is not.
Fresh ==
    \A x \in Slots :
        /\ starts[x] <= 1
        /\ status[x] = "claimed" => starts[x] = 0
        /\ status[x] = "running" => starts[x] = 1
        /\ Deleted(x) => status[x] = "absent"
        /\ status[x] = "absent" => starts[x] = 0 \/ Deleted(x)

\* The owner's run is started, has no outcome yet, and is running unless reaped.
OwnedRun(x) ==
    /\ starts[x] = 1
    /\ x \notin settled
    /\ status[x] \in {"running", "failed"} \/ Deleted(x)
Owned == \A w \in Workers : Owns(w) => OwnedRun(msg[w].run)

OneOwner == \A v, w \in Workers : Owns(v) /\ Owns(w) /\ v # w => msg[v].run # msg[w].run

HasOutcome ==
    \A x \in settled : starts[x] = 1 /\ (status[x] \in Reported \/ Deleted(x))

HasRow(x) == status[x] # "absent" \/ Deleted(x)
HaveRows ==
    /\ \A m \in queue : HasRow(m.run)
    /\ \A w \in Workers : pc[w] # "idle" => HasRow(msg[w].run)
    /\ \A d \in Dispatchers : phase[d] = "enqueueing" => HasRow(won[d])

\* Nothing is stamped later than the clock, nor started before it was claimed.
Stamps ==
    /\ \A d \in Dispatchers : at[d] <= now
    /\ \A x \in Slots :
          /\ claimed_at[x] <= now /\ started_at[x] <= now
          /\ started_at[x] # 0 => claimed_at[x] <= started_at[x]
          /\ status[x] = "absent" => started_at[x] = 0 \/ Deleted(x)

Ownership == Fresh /\ Owned /\ OneOwner /\ HasOutcome

-----------------------------------------------------------------------------
\* The abstract view of a slot.
Phase(x) ==
    IF Deleted(x)                THEN "erased"
    ELSE IF x \in settled        THEN status[x]
    ELSE IF status[x] = "failed" THEN IF starts[x] = 0 THEN "abandoned" ELSE "lost"
    ELSE IF status[x] = "absent" THEN "free"
    ELSE IF status[x] = "running" THEN "working"
    ELSE status[x]

Ledger == INSTANCE SlotLedger WITH ledger <- [x \in Slots |-> Phase(x)]

\* scheduled_runs is the ledger its migration and docs/13-scheduler.md describe.
LedgerSpec == Ledger!Spec

=============================================================================
