--------------------------- MODULE WeeklyReports ---------------------------
(***************************************************************************)
(* One week's plan and report of one website: api/ai/plan.py, the routes   *)
(* of api/routers/plans.py and reports.py, api/reports/runner.py and the   *)
(* nightly job generate_weekly_report of api/workers/jobs.py.              *)
(*                                                                         *)
(* The job commits every statement.  A request of a customer is one        *)
(* transaction, which locks the plan's row from the moment it writes it,   *)
(* and whose rows appear when it ends or not at all.  Analyses open and    *)
(* close issues in between, and customers say what they have done.         *)
(***************************************************************************)
EXTENDS Integers, FiniteSets, Functions

CONSTANTS
    WeeklyJobs, Customers,  \* who generates and sends
    Viewers,                \* members of the organisation who never ask for anything
    Issues,                 \* the website's issues, numbered in the order of their ids
    TypeOf,                 \* the type of each issue, numbered in the order of their keys
    FirstImpacts,           \* what the issues are worth at first
    MaxPriorities,          \* how many types become priorities (4 in the code)
    MaxMoves, MaxReports    \* how often issues change, and generations there are (bounds)

Members == Customers \cup Viewers
Authors == WeeklyJobs \cup Customers
Closed == -1
Impacts == {Closed, 1, 2}
Types == {TypeOf[i] : i \in Issues}

\* An organisation is made with its owner: it has a member.
ASSUME AuthorsAssumption ==
    WeeklyJobs \cap Members = {} /\ Customers \cap Viewers = {} /\ Members # {}
ASSUME WeeklyAssumption ==
    /\ Issues \subseteq Nat /\ IsFiniteSet(Issues) /\ TypeOf \in [Issues -> Nat]
    /\ FirstImpacts \in [Issues -> Impacts]
    /\ MaxPriorities \in Nat /\ MaxMoves \in Nat /\ MaxReports \in Nat

VARIABLES
    impact, moves,      \* impact_score of each open issue
    recommendations,    \* rows: who wrote it, rank, type, first issue, status
    report, recorded,   \* reports.status ("none" before there is a row), recipients
    writing,            \* where each author is
    generations,
    saidDone, told      \* history: issues customers marked, members who got the mail

weeklyVars == <<impact, moves, recommendations, report, recorded, writing,
                generations, saidDone, told>>

Away == [pc |-> "away", plan |-> {}, kept |-> {}, gone |-> {}, seen |-> "none"]

WeeklyInit ==
    /\ impact = FirstImpacts /\ moves = 0
    /\ recommendations = {}
    /\ report = "none" /\ recorded = {}
    /\ writing = [a \in Authors |-> Away]
    /\ generations = 0
    /\ saidDone = {} /\ told = {}

-----------------------------------------------------------------------------
(* The ranking.                                                             *)

OpenOf(t) == {i \in Issues : TypeOf[i] = t /\ impact[i] # Closed}
Worth(t) == SumFunctionOnSet(impact, OpenOf(t))

Outranks(t, u) ==
    \/ Worth(t) > Worth(u)
    \/ Worth(t) = Worth(u) /\ Cardinality(OpenOf(t)) > Cardinality(OpenOf(u))
    \/ Worth(t) = Worth(u) /\ Cardinality(OpenOf(t)) = Cardinality(OpenOf(u)) /\ t < u

RankOf(t) == 1 + Cardinality({u \in Types : OpenOf(u) # {} /\ Outranks(u, t)})

\* issue_ids[0]: the issue of the type that is worth most.
Lead(t) == CHOOSE i \in OpenOf(t) : \A j \in OpenOf(t) \ {i} :
               impact[i] > impact[j] \/ (impact[i] = impact[j] /\ i < j)

Ranked ==
    {[rank |-> RankOf(t), type |-> t, lead |-> Lead(t)] :
        t \in {u \in Types : OpenOf(u) # {} /\ RankOf(u) <= MaxPriorities}}

-----------------------------------------------------------------------------
(* Writing the plan.                                                        *)

At(a, pc) == writing[a].pc = pc
Steps(a, pc) == writing' = [writing EXCEPT ![a].pc = pc]

\* The plan's row is locked from its upsert to the end of a request.
Locked(a) == \E c \in Customers \ {a} : writing[c].pc \in {"kept", "replaced", "checked"}

Rank(a) ==
    /\ At(a, "away") /\ generations < MaxReports
    /\ generations' = generations + 1
    /\ writing' = [writing EXCEPT ![a] = [Away EXCEPT !.pc = "ranked", !.plan = Ranked]]
    /\ UNCHANGED <<impact, moves, recommendations, report, recorded, saidDone, told>>

\* The plan's row is written, then the statuses the customer set are read.
KeepStatuses(a) ==
    /\ At(a, "ranked") /\ ~ Locked(a)
    /\ writing' = [writing EXCEPT ![a].pc = "kept",
                       ![a].kept = {<<r.lead, r.rank, r.status>> : r \in recommendations}]
    /\ UNCHANGED <<impact, moves, recommendations, report, recorded, generations, saidDone, told>>

\* MUTANT: the statuses are carried across by rank.
CarriedStatus_ByRank(a, p) ==
    LET had == {k \in writing[a].kept : k[2] = p.rank}
    IN  IF had = {} THEN "OPEN" ELSE (CHOOSE k \in had : TRUE)[3]

\* One status of the issue, when several rows had it: their order is not fixed.
CarriedStatus(a, p) ==
    LET had == {k \in writing[a].kept : k[1] = p.lead}
    IN  IF had = {} THEN "OPEN" ELSE (CHOOSE k \in had : TRUE)[3]

Row(a, p) == [by |-> a, rank |-> p.rank, type |-> p.type, lead |-> p.lead,
              status |-> CarriedStatus(a, p)]

\* A request's deletion takes effect with its transaction.
DeleteOld(a) ==
    /\ At(a, "kept")
    /\ IF a \in WeeklyJobs
       THEN recommendations' = {} /\ Steps(a, "inserting")
       ELSE /\ writing' = [writing EXCEPT ![a].pc = "replaced", ![a].gone = recommendations]
            /\ UNCHANGED recommendations
    /\ UNCHANGED <<impact, moves, report, recorded, generations, saidDone, told>>

InsertNext(a) ==
    /\ At(a, "inserting") /\ writing[a].plan # {}
    /\ LET p == CHOOSE p \in writing[a].plan : \A q \in writing[a].plan : p.rank <= q.rank
       IN  /\ recommendations' = recommendations \cup {Row(a, p)}
           /\ writing' = [writing EXCEPT ![a].plan = @ \ {p}]
    /\ UNCHANGED <<impact, moves, report, recorded, generations, saidDone, told>>

-----------------------------------------------------------------------------
(* Writing the report.                                                      *)

CheckSent(a) ==
    /\ At(a, "replaced") \/ (At(a, "inserting") /\ writing[a].plan = {})
    /\ writing' = [writing EXCEPT ![a].pc = "checked", ![a].seen = report]
    /\ UNCHANGED <<impact, moves, recommendations, report, recorded, generations, saidDone, told>>

\* A report that was sent when it was looked at is left alone; a request commits.
SaveDraft(a) ==
    /\ At(a, "checked")
    /\ report' = IF writing[a].seen = "sent" THEN report ELSE "draft"
    /\ recommendations' = IF a \in WeeklyJobs THEN recommendations
                          ELSE (recommendations \ writing[a].gone)
                                   \cup {Row(a, p) : p \in writing[a].plan}
    /\ writing' = [writing EXCEPT ![a] =
                       IF a \in WeeklyJobs /\ writing[a].seen # "sent"
                       THEN [Away EXCEPT !.pc = "mailing"] ELSE Away]
    /\ UNCHANGED <<impact, moves, recorded, generations, saidDone, told>>

\* POST .../send: any report there is, as often as the customer likes.
AskToSend(c) ==
    /\ At(c, "away") /\ report # "none" /\ generations < MaxReports
    /\ generations' = generations + 1
    /\ writing' = [writing EXCEPT ![c] = [Away EXCEPT !.pc = "mailing"]]
    /\ UNCHANGED <<impact, moves, recommendations, report, recorded, saidDone, told>>

\* member_emails under row-level security: a session sees one row of users, its own.
Recipients(a) == IF a \in WeeklyJobs THEN Members ELSE {a}

Deliver(a) ==
    /\ At(a, "mailing")
    /\ told' = told \cup Recipients(a)
    /\ Steps(a, "delivered")
    /\ UNCHANGED <<impact, moves, recommendations, report, recorded, generations, saidDone>>

\* MUTANT: a mail server that refuses is not told from one that accepts.
MailFails_Ignored(a) ==
    /\ At(a, "mailing")
    /\ Steps(a, "delivered")
    /\ UNCHANGED <<impact, moves, recommendations, report, recorded, generations, saidDone, told>>

\* The failure is written, then raised: a request's transaction is rolled back.
MailFails(a) ==
    /\ At(a, "mailing")
    /\ report' = IF a \in WeeklyJobs THEN "failed" ELSE report
    /\ writing' = [writing EXCEPT ![a] = Away]
    /\ UNCHANGED <<impact, moves, recommendations, recorded, generations, saidDone, told>>

RecordSent(a) ==
    /\ At(a, "delivered")
    /\ report' = "sent"
    /\ recorded' = Recipients(a)
    /\ writing' = [writing EXCEPT ![a] = Away]
    /\ UNCHANGED <<impact, moves, recommendations, generations, saidDone, told>>

\* A worker is killed, or has no mail server to use; a request fails and is rolled back.
AuthorDies(a) ==
    /\ ~ At(a, "away")
    /\ writing' = [writing EXCEPT ![a] = Away]
    /\ UNCHANGED <<impact, moves, recommendations, report, recorded, generations, saidDone, told>>

-----------------------------------------------------------------------------
(* Meanwhile.                                                               *)

\* A row a request has deleted is waited for, and is then gone.
Answer(r, status) ==
    /\ \A c \in Customers : At(c, "replaced") \/ At(c, "checked") => r \notin writing[c].gone
    /\ recommendations' = (recommendations \ {r}) \cup {[r EXCEPT !.status = status]}
    /\ UNCHANGED <<impact, moves, report, recorded, writing, generations, told>>

MarkDone(r) == Answer(r, "RESOLVED") /\ saidDone' = saidDone \cup {r.lead}

Dismiss(r) == Answer(r, "DISMISSED") /\ UNCHANGED saidDone

\* An analysis finds an issue, or finds it gone, or finds it worth more or less.
IssueMoves(i, worth) ==
    /\ moves < MaxMoves /\ worth # impact[i]
    /\ moves' = moves + 1
    /\ impact' = [impact EXCEPT ![i] = worth]
    /\ UNCHANGED <<recommendations, report, recorded, writing, generations, saidDone, told>>

WeeklyNext ==
    \/ \E a \in Authors :
           \/ Rank(a) \/ KeepStatuses(a) \/ DeleteOld(a) \/ InsertNext(a) \/ CheckSent(a)
           \/ SaveDraft(a) \/ Deliver(a) \/ MailFails(a) \/ RecordSent(a) \/ AuthorDies(a)
    \/ \E c \in Customers : AskToSend(c)
    \/ \E r \in recommendations : MarkDone(r) \/ Dismiss(r)
    \/ \E i \in Issues, worth \in Impacts : IssueMoves(i, worth)

WeeklySpec == WeeklyInit /\ [][WeeklyNext]_weeklyVars

-----------------------------------------------------------------------------
WeeklyTypeOK ==
    /\ impact \in [Issues -> Impacts] /\ moves \in 0..MaxMoves
    /\ recommendations \subseteq
         [by : Authors, rank : Nat, type : Types, lead : Issues,
          status : {"OPEN", "RESOLVED", "DISMISSED"}]
    /\ report \in {"none", "draft", "sent", "failed"}
    /\ recorded \subseteq Members /\ told \subseteq Members
    /\ \A a \in Authors : writing[a].pc \in
         {"away", "ranked", "kept", "inserting", "replaced", "checked", "mailing", "delivered"}
    /\ generations \in 0..MaxReports
    /\ saidDone \subseteq Issues

\* The plan never claims the customer did what they did not: a recommendation marked
\* done is about an issue whose recommendation they marked (plan.py carries the statuses
\* across by issue when it writes the week again), however generations interleave.
NoDoneInvented == \A r \in recommendations : r.status = "RESOLVED" => r.lead \in saidDone

\* The record never claims a delivery that did not happen: whoever it names has got the
\* mail (reports/runner.py send: deliver, then record), whichever senders and generators
\* run together.
RecordIsTrue == report = "sent" => recorded # {} /\ recorded \subseteq told

\* What organizations.py says of member_emails, "Everyone in the organisation, for
\* anything the product sends them": a report on record as sent has reached every member.
EveryoneTold == report = "sent" => Members \subseteq told
=============================================================================
