------------------------------- MODULE Alerts -------------------------------
(***************************************************************************)
(* Noticing that something is broken, and saying so: the periodic task     *)
(* alerts of api/workers/jobs.py, which runs api/alerting/operator.py over *)
(* a notifier of channels.py, then api/alerting/customer.py over the       *)
(* mailer.  Every statement commits; the task may be killed anywhere, and  *)
(* one pass works with the time and the scan it began with.  Passes do not *)
(* overlap here: there is one every fifteen minutes.                       *)
(***************************************************************************)
EXTENDS Integers, FiniteSets

CONSTANTS
    AlertJobs,                      \* the nightly jobs
    Accounts,                       \* Google connections, each of one website and service
    DispatchSilence, RenotifyAfter, RepeatAfter,    \* in ticks
    BroadMinimum, FleetMinimum,     \* how many failures are ours, not a customer's
    RunCounts,                      \* what the ledger may say of a job's last day
    LastTick, MaxTroubles           \* how long, and how many facts change (bounds)

Never == -100
Severities == {"warning", "critical"}
Fingerprints ==
    {<<"scheduler_quiet", "">>, <<"connections_need_reauth", "">>}
        \cup {"jobs_unclaimed", "job_failing"} \X AlertJobs

ASSUME AlertsAssumption ==
    /\ {DispatchSilence, RenotifyAfter, RepeatAfter} \subseteq Nat \ {0}
    /\ LastTick \in Nat /\ MaxTroubles \in Nat
    /\ RunCounts \subseteq {c \in [failed : Nat, unclaimed : Nat, total : Nat] :
                                c.unclaimed <= c.failed /\ c.failed <= c.total}

VARIABLES
    tick, troubles,
    counts, lastClaim, stale,   \* the facts: scheduled_runs, and connections to reconnect
    configured,                 \* is there a webhook or a mailbox to tell?
    incident,                   \* the open row of operator_alerts, if there is one
    fired, delivered,           \* alert_events: the last row's time, and whether it arrived
    pass,                       \* the running task
    mailed                      \* history: when each account's people were last mailed

alertFacts == <<tick, troubles, counts, lastClaim, stale, configured>>
alertVars == <<alertFacts, incident, fired, delivered, pass, mailed>>

NoIncident == [open |-> FALSE, notified |-> Never]
Asleep == [pc |-> "asleep", seen |-> {}, todo |-> {}, alert |-> <<>>, refused |-> FALSE]

AlertsInit ==
    /\ tick = 0 /\ troubles = 0
    /\ counts = [j \in AlertJobs |-> [failed |-> 0, unclaimed |-> 0, total |-> 0]]
    /\ lastClaim = 0 /\ stale = {}
    /\ configured \in BOOLEAN
    /\ incident = [f \in Fingerprints |-> NoIncident]
    /\ fired = [a \in Accounts |-> Never] /\ delivered = {}
    /\ pass = Asleep
    /\ mailed = [a \in Accounts |-> Never]

-----------------------------------------------------------------------------
(* The scan.                                                                *)

SchedulerIsQuiet == {f \in {<<"scheduler_quiet", "">>} : tick - lastClaim >= DispatchSilence}

JobsFailing ==
    {f \in {"jobs_unclaimed", "job_failing"} \X AlertJobs :
        /\ counts[f[2]].failed > 0
        /\ f[1] = "jobs_unclaimed" <=> counts[f[2]].unclaimed = counts[f[2]].failed}

ConnectionsNeedReauth ==
    {f \in {<<"connections_need_reauth", "">>} :
        Cardinality(stale) >= FleetMinimum /\ 4 * Cardinality(stale) >= Cardinality(Accounts)}

Scan == SchedulerIsQuiet \cup JobsFailing \cup ConnectionsNeedReauth

\* The severity an upsert stores is that of the counts it was scanned with.
SeverityOf(f) ==
    IF f[1] \in {"jobs_unclaimed", "job_failing"}
    THEN LET c == counts[f[2]]
         IN  IF c.failed >= BroadMinimum /\ 2 * c.failed >= c.total THEN "critical" ELSE "warning"
    ELSE "critical"

-----------------------------------------------------------------------------
(* The operator's half.                                                     *)

In(pc) == pass.pc = pc

Wake ==
    /\ In("asleep")
    /\ pass' = [Asleep EXCEPT !.pc = "opening", !.seen = Scan, !.todo = Scan]
    /\ UNCHANGED <<alertFacts, incident, fired, delivered, mailed>>

\* MUTANT: an incident somebody was told of is not mentioned again.
Due_Once(row) == row.notified = Never

Due(row) == row.notified = Never \/ tick - row.notified >= RenotifyAfter

\* The row is opened, or counted; it is announced when nobody knows or it is time again.
OpenIncident(f) ==
    /\ In("opening") /\ f \in pass.todo
    /\ incident' = [incident EXCEPT ![f].open = TRUE]
    /\ pass' = [pass EXCEPT !.todo = @ \ {f},
                            !.pc = IF Due(incident[f]) THEN "announcing" ELSE "opening",
                            !.alert = IF Due(incident[f]) THEN f ELSE <<>>]
    /\ UNCHANGED <<alertFacts, fired, delivered, mailed>>

\* A recovery is announced where the problem was.  The row is closed either way.
Resolve(f) ==
    /\ In("opening") /\ pass.todo = {}
    /\ incident[f].open /\ f \notin pass.seen
    /\ incident' = [incident EXCEPT ![f] = NoIncident]
    /\ pass' = [pass EXCEPT !.pc = IF incident[f].notified = Never THEN "opening" ELSE "recovering"]
    /\ UNCHANGED <<alertFacts, fired, delivered, mailed>>

\* Something arrived: of two destinations (Fanout), one that works is enough.
Notify ==
    /\ In("announcing") \/ In("recovering")
    /\ configured
    /\ pass' = [pass EXCEPT !.pc = IF In("announcing") THEN "announced" ELSE "opening"]
    /\ UNCHANGED <<alertFacts, incident, fired, delivered, mailed>>

\* No destination (NullNotifier), or DeliveryFailed: nothing is recorded.
NotifyFails ==
    /\ In("announcing") \/ In("recovering")
    /\ pass' = [pass EXCEPT !.pc = "opening", !.refused = TRUE, !.alert = <<>>]
    /\ UNCHANGED <<alertFacts, incident, fired, delivered, mailed>>

RecordNotified ==
    /\ In("announced")
    /\ incident' = [incident EXCEPT ![pass.alert].notified = tick]
    /\ pass' = [pass EXCEPT !.pc = "opening", !.alert = <<>>]
    /\ UNCHANGED <<alertFacts, fired, delivered, mailed>>

-----------------------------------------------------------------------------
(* The customers' half.                                                     *)

FindNotices ==
    /\ In("opening") /\ pass.todo = {}
    /\ \A f \in Fingerprints : incident[f].open => f \in pass.seen
    /\ pass' = [pass EXCEPT !.pc = "telling", !.todo = stale]
    /\ UNCHANGED <<alertFacts, incident, fired, delivered, mailed>>

\* MUTANT: only a notice that is known to have arrived suppresses the next.
Suppressed_IfDelivered(a) == a \in delivered /\ tick - fired[a] <= RepeatAfter

Suppressed(a) == fired[a] # Never /\ tick - fired[a] <= RepeatAfter

Suppress(a) ==
    /\ In("telling") /\ a \in pass.todo /\ Suppressed(a)
    /\ pass' = [pass EXCEPT !.todo = @ \ {a}]
    /\ UNCHANGED <<alertFacts, incident, fired, delivered, mailed>>

\* The row comes first, and it alone suppresses the next notice.
Fire(a) ==
    /\ In("telling") /\ a \in pass.todo /\ ~ Suppressed(a)
    /\ fired' = [fired EXCEPT ![a] = tick]
    /\ delivered' = delivered \ {a}
    /\ pass' = [pass EXCEPT !.todo = @ \ {a}, !.pc = "mailing", !.alert = a]
    /\ UNCHANGED <<alertFacts, incident, mailed>>

Mail ==
    /\ In("mailing")
    /\ mailed' = [mailed EXCEPT ![pass.alert] = tick]
    /\ pass' = [pass EXCEPT !.pc = "mailed"]
    /\ UNCHANGED <<alertFacts, incident, fired, delivered>>

\* No mailer, nobody to write to, or a mail server that refuses: the reason is stored.
MailNot ==
    /\ In("mailing")
    /\ pass' = [pass EXCEPT !.pc = "telling", !.alert = <<>>]
    /\ UNCHANGED <<alertFacts, incident, fired, delivered, mailed>>

RecordDelivered ==
    /\ In("mailed")
    /\ delivered' = delivered \cup {pass.alert}
    /\ pass' = [pass EXCEPT !.pc = "telling", !.alert = <<>>]
    /\ UNCHANGED <<alertFacts, incident, fired, mailed>>

Done ==
    /\ In("telling") /\ pass.todo = {}
    /\ pass' = Asleep
    /\ UNCHANGED <<alertFacts, incident, fired, delivered, mailed>>

\* The worker is killed, a statement fails, or the only destination raises something
\* other than DeliveryFailed, which nothing between it and the task catches.
PassDies ==
    /\ ~ In("asleep")
    /\ pass' = Asleep
    /\ UNCHANGED <<alertFacts, incident, fired, delivered, mailed>>

-----------------------------------------------------------------------------
(* Meanwhile.                                                               *)

Tick ==
    /\ In("asleep") /\ tick < LastTick
    /\ tick' = tick + 1
    /\ UNCHANGED <<troubles, counts, lastClaim, stale, configured, incident, fired, delivered,
                   pass, mailed>>

\* A night's work, a connection lost, a customer reconnecting.
FactsChange(newCounts, newClaim, newStale) ==
    /\ troubles < MaxTroubles
    /\ troubles' = troubles + 1
    /\ counts' = newCounts /\ lastClaim' = newClaim /\ stale' = newStale
    /\ UNCHANGED <<tick, configured, incident, fired, delivered, pass, mailed>>

AlertsNext ==
    \/ Wake
    \/ \E f \in Fingerprints : OpenIncident(f) \/ Resolve(f)
    \/ Notify \/ NotifyFails \/ RecordNotified
    \/ FindNotices \/ Mail \/ MailNot \/ RecordDelivered \/ Done \/ PassDies
    \/ \E a \in Accounts : Suppress(a) \/ Fire(a)
    \/ Tick
    \/ \E j \in AlertJobs, c \in RunCounts :
           FactsChange([counts EXCEPT ![j] = c], IF c.total > 0 THEN tick ELSE lastClaim, stale)
    \/ \E needing \in SUBSET Accounts : FactsChange(counts, lastClaim, needing)

AlertsSpec == AlertsInit /\ [][AlertsNext]_alertVars

-----------------------------------------------------------------------------
AlertsTypeOK ==
    /\ tick \in 0..LastTick /\ lastClaim \in 0..LastTick /\ stale \subseteq Accounts
    /\ configured \in BOOLEAN
    /\ incident \in [Fingerprints -> [open : BOOLEAN, notified : {Never} \cup 0..LastTick]]
    /\ fired \in [Accounts -> {Never} \cup 0..LastTick] /\ delivered \subseteq Accounts
    /\ \A f \in Scan : SeverityOf(f) \in Severities
    /\ pass.pc \in {"asleep", "opening", "announcing", "announced", "recovering", "telling",
                    "mailing", "mailed"}

\* A problem that goes on never goes quiet: a pass that has looked at everything and was
\* refused nothing leaves no problem it saw unmentioned for RENOTIFY_AFTER or longer,
\* whatever earlier passes failed to deliver or died doing (docs/15-alerting.md, "Opened
\* ... Mentioned again").
StillTrueStillSaid ==
    (In("telling") /\ ~ pass.refused) =>
        \A f \in pass.seen : incident[f].open /\ incident[f].notified > tick - RenotifyAfter

\* Nobody is mailed twice about the same thing within REPEAT_AFTER: the task may be killed
\* between any two statements and the problem may come and go (customer.py, "a condition
\* that is still true tomorrow does not produce a second email").
NoNagging ==
    [][\A a \in Accounts :
          mailed'[a] # mailed[a] => mailed[a] = Never \/ mailed'[a] - mailed[a] > RepeatAfter]_mailed
=============================================================================
