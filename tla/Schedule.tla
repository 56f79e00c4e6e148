------------------------------ MODULE Schedule ------------------------------
(***************************************************************************)
(* api/workers/schedule.py: when each nightly job is due, for each         *)
(* website.  Pure arithmetic over a clock and a website id.                *)
(*                                                                         *)
(* A moment is a number of minutes since 00:00 UTC of some Monday, so that *)
(* day 0 is a Monday and day d starts at d * Day.                          *)
(***************************************************************************)
EXTENDS Integers

CONSTANTS
    Websites,
    Offset,     \* the stable hash of a website's id
    NoSlot      \* what due_slot returns when there is none

ASSUME OffsetAssumption == Offset \in [Websites -> Nat]
ASSUME NoSlotAssumption == NoSlot \notin Int

Hour == 60
Day  == 24 * Hour

EveryDay == 0 .. 6
Monday   == {0}

Job(pool, hour, from, to, days) ==
    [queue |-> pool, hour |-> hour, minute_from |-> from, minute_to |-> to,
     weekdays |-> days]

\* JOBS, keyed by name; JobOrder is the order the dispatcher walks them in.
JobTable ==
    [sync_search_console      |-> Job("sync",     1,  0, 60, EveryDay),
     sync_analytics           |-> Job("sync",     2,  0, 60, EveryDay),
     crawl_website            |-> Job("crawl",    3,  0, 60, EveryDay),
     calculate_scores         |-> Job("analysis", 4,  0, 60, EveryDay),
     generate_recommendations |-> Job("ai",       4, 30, 60, EveryDay),
     generate_weekly_report   |-> Job("reports",  6,  0, 60, Monday)]

JobOrder == <<"sync_search_console", "sync_analytics", "crawl_website",
              "calculate_scores", "generate_recommendations",
              "generate_weekly_report">>

JOBS == DOMAIN JobTable

DayOf(t) == t \div Day

\* MUTANT: the stagger from the full hour, wherever the job's range begins.
SlotMinute_FromHour(j, site) ==
    Offset[site] % (JobTable[j].minute_to - JobTable[j].minute_from)

SlotMinute(j, site) ==
    JobTable[j].minute_from
        + (Offset[site] % (JobTable[j].minute_to - JobTable[j].minute_from))

RunsOn(j, day) == (day % 7) \in JobTable[j].weekdays

SlotOn(j, site, day) == day * Day + JobTable[j].hour * Hour + SlotMinute(j, site)

\* MUTANT: a walk of seven days.
DaysBack_Week(j, site, t) ==
    {b \in 0 .. 6 : /\ RunsOn(j, DayOf(t) - b)
                    /\ SlotOn(j, site, DayOf(t) - b) <= t}

\* The days back from `t' that hold a slot which has passed.  `DueSlot' takes
\* the first one it meets walking back, and looks no further than a week.
DaysBack(j, site, t) ==
    {b \in 0 .. 7 : /\ RunsOn(j, DayOf(t) - b)
                    /\ SlotOn(j, site, DayOf(t) - b) <= t}

Nearest(days) == CHOOSE n \in days : \A m \in days : n <= m

DueSlot(j, site, t) ==
    LET back == DaysBack(j, site, t)
    IN  IF back = {} THEN NoSlot
        ELSE SlotOn(j, site, DayOf(t) - Nearest(back))

\* MUTANT: a slot at this very moment taken for the next one.
DaysAhead_FromNow(j, site, t) ==
    {a \in 0 .. 7 : /\ RunsOn(j, DayOf(t) + a)
                    /\ SlotOn(j, site, DayOf(t) + a) >= t}

DaysAhead(j, site, t) ==
    {a \in 0 .. 7 : /\ RunsOn(j, DayOf(t) + a)
                    /\ SlotOn(j, site, DayOf(t) + a) > t}

\* An empty `DaysAhead' is the AssertionError at the end of next_slot.
NextSlot(j, site, t) ==
    LET ahead == DaysAhead(j, site, t)
    IN  SlotOn(j, site, DayOf(t) + Nearest(ahead))

=============================================================================
