--------------------------- MODULE ScheduleProofs ---------------------------
(***************************************************************************)
(* Proofs about Schedule and ScheduleClock, for any websites, any stagger  *)
(* and any readings of the clock.                                          *)
(***************************************************************************)
EXTENDS ScheduleClock, TLAPS

\* What the table says of each job: a slot is inside its day, and a job runs every
\* day or every Monday.
LEMMA Table ==
    ASSUME NEW j \in JOBS
    PROVE  /\ JobTable[j].hour \in 0 .. 23
           /\ JobTable[j].minute_from \in Nat /\ JobTable[j].minute_to = 60
           /\ JobTable[j].minute_from < JobTable[j].minute_to
           /\ JobTable[j].weekdays = EveryDay \/ JobTable[j].weekdays = Monday
BY DEF JOBS, JobTable, Job

\* A slot lies within the day it is asked for.
LEMMA SlotInDay ==
    ASSUME NEW j \in JOBS, NEW site \in Websites, NEW day \in Int
    PROVE  /\ SlotOn(j, site, day) \in Int
           /\ day * Day <= SlotOn(j, site, day)
           /\ SlotOn(j, site, day) < (day + 1) * Day
<1>. DEFINE from == JobTable[j].minute_from
<1>1. Offset[site] \in Nat
  BY OffsetAssumption
<1>2. from \in 0 .. 59 /\ 60 - from \in 1 .. 60
  BY Table
<1>3. Offset[site] % (60 - from) \in 0 .. (60 - from) - 1
  <2>. HIDE DEF from
  <2>. QED BY <1>1, <1>2
<1>4. SlotMinute(j, site) = from + (Offset[site] % (60 - from))
  BY Table DEF SlotMinute
<1>5. SlotMinute(j, site) \in 0 .. 59
  <2>. HIDE DEF from
  <2>. QED BY <1>2, <1>3, <1>4
<1>. QED BY SMTT(30), <1>5, Table DEF SlotOn, Day, Hour

\* A moment lies within its day.
LEMMA DayOfMoment ==
    ASSUME NEW t \in Int
    PROVE  DayOf(t) \in Int /\ DayOf(t) * Day <= t /\ t < (DayOf(t) + 1) * Day
BY DEF DayOf, Day, Hour

\* A set of days, none more than a week away, that is not empty has a nearest one.
LEMMA NearestIsFirst ==
    ASSUME NEW days \in SUBSET (0 .. 7), days # {}
    PROVE  Nearest(days) \in days /\ \A m \in days : Nearest(days) <= m
<1>1. \E n \in days : \A m \in days : n <= m
  <2>. SUFFICES ASSUME \A n \in days : \E m \in days : m < n
                PROVE  FALSE
    OBVIOUS
  <2>0. 0 \notin days OBVIOUS
  <2>1. 1 \notin days BY <2>0
  <2>2. 2 \notin days BY <2>0, <2>1
  <2>3. 3 \notin days BY <2>0, <2>1, <2>2
  <2>4. 4 \notin days BY <2>0, <2>1, <2>2, <2>3
  <2>5. 5 \notin days BY <2>0, <2>1, <2>2, <2>3, <2>4
  <2>6. 6 \notin days BY <2>0, <2>1, <2>2, <2>3, <2>4, <2>5
  <2>7. 7 \notin days BY <2>0, <2>1, <2>2, <2>3, <2>4, <2>5, <2>6
  <2>8. PICK n \in days : TRUE
    OBVIOUS
  <2>9. n \in 0 .. 7
    OBVIOUS
  <2>. QED BY <2>0, <2>1, <2>2, <2>3, <2>4, <2>5, <2>6, <2>7, <2>8, <2>9
<1>. QED BY <1>1 DEF Nearest

\* Walking back eight days, one meets a slot that has passed.
LEMMA SomeDayBack ==
    ASSUME NEW j \in JOBS, NEW site \in Websites, NEW t \in Nat
    PROVE  DaysBack(j, site, t) # {}
<1>. DEFINE today == DayOf(t)
            passed(b) == SlotOn(j, site, today - b) <= t
<1>1. today \in Int /\ today * Day <= t
  BY DayOfMoment
<1>2. ASSUME NEW b \in 1 .. 7 PROVE passed(b)
  <2>1. SlotOn(j, site, today - b) < (today - b + 1) * Day
    BY <1>1, SlotInDay
  <2>2. (today - b + 1) * Day <= today * Day
    BY <1>1 DEF Day, Hour
  <2>3. SlotOn(j, site, today - b) \in Int
    BY <1>1, SlotInDay
  <2>. HIDE DEF today
  <2>. QED BY <1>1, <2>1, <2>2, <2>3 DEF Day, Hour
<1>3. \E b \in 1 .. 7 : RunsOn(j, today - b)
  <2>1. CASE JobTable[j].weekdays = EveryDay
    <3>1. (today - 1) % 7 \in 0 .. 6
      BY <1>1
    <3>. QED BY <2>1, <3>1 DEF RunsOn, EveryDay
  <2>2. CASE JobTable[j].weekdays = Monday
    <3>1. \E b \in 1 .. 7 : (today - b) % 7 = 0
      <4>. HIDE DEF today
      <4>. QED BY <1>1
    <3>. QED BY <2>2, <3>1 DEF RunsOn, Monday
  <2>. QED BY <2>1, <2>2, Table
<1>4. PICK b \in 1 .. 7 : RunsOn(j, today - b)
  BY <1>3
<1>5. b \in DaysBack(j, site, t)
  BY <1>2, <1>4 DEF DaysBack
<1>. QED BY <1>5

\* The slots that have passed lie no later than the due one (due_slot).
LEMMA DueIsNearest ==
    ASSUME NEW j \in JOBS, NEW site \in Websites, NEW t \in Nat
    PROVE  LET due == DueSlot(j, site, t)
           IN  /\ due # NoSlot /\ due <= t
               /\ \A day \in Int : RunsOn(j, day) /\ SlotOn(j, site, day) <= t
                                     => SlotOn(j, site, day) <= due
<1>. DEFINE back == DaysBack(j, site, t)
            n == Nearest(back)
            today == DayOf(t)
            due == SlotOn(j, site, today - n)
<1>0. today \in Int /\ today * Day <= t /\ t < (today + 1) * Day
  BY DayOfMoment
<1>1. n \in back /\ \A m \in back : n <= m
  <2>1. back \in SUBSET (0 .. 7) /\ back # {}
    BY SomeDayBack DEF DaysBack
  <2>. HIDE DEF back
  <2>. QED BY <2>1, NearestIsFirst
<1>2. n \in 0 .. 7 /\ due <= t /\ due \in Int
  <2>1. n \in 0 .. 7 /\ due <= t
    BY <1>1 DEF DaysBack
  <2>. HIDE DEF n, today
  <2>. QED BY <1>0, <2>1, SlotInDay
<1>3. DueSlot(j, site, t) = due
  BY SomeDayBack DEF DueSlot
<1>4. due # NoSlot
  BY <1>2, NoSlotAssumption
<1>5. ASSUME NEW day \in Int, RunsOn(j, day), SlotOn(j, site, day) <= t
      PROVE  SlotOn(j, site, day) <= due
  <2>1. day * Day <= SlotOn(j, site, day) /\ SlotOn(j, site, day) < (day + 1) * Day
    BY SlotInDay
  <2>2. SlotOn(j, site, day) \in Int
    BY SlotInDay
  <2>3. day <= today
    <3>. HIDE DEF today
    <3>. QED BY <1>0, <1>5, <2>1, <2>2 DEF Day, Hour
  <2>4. CASE today - day \in 0 .. 7
    <3>1. today - (today - day) = day
      BY <1>0
    <3>2. today - day \in back
      BY <1>5, <2>4, <3>1 DEF DaysBack
    <3>3. n <= today - day
      BY <1>1, <3>2
    <3>4. CASE n = today - day
      BY <1>0, <2>2, <3>4, <3>1
    <3>5. CASE n < today - day
      <4>1. (today - n) * Day <= due
        <5>1. today - n \in Int
          BY <1>0, <1>2
        <5>. QED BY <5>1, SlotInDay
      <4>. HIDE DEF n, today, due
      <4>2. day + 1 <= today - n
        BY <1>0, <1>2, <3>5
      <4>. QED BY <1>0, <1>2, <2>1, <2>2, <4>1, <4>2 DEF Day, Hour
    <3>. HIDE DEF n, today
    <3>. QED BY <1>0, <1>2, <3>3, <3>4, <3>5
  <2>5. CASE today - day > 7
    <3>1. (today - n) * Day <= due
      <4>1. today - n \in Int
        BY <1>0, <1>2
      <4>. QED BY <4>1, SlotInDay
    <3>. HIDE DEF n, today, due
    <3>2. day + 1 <= today - n
      BY <1>0, <1>2, <2>5
    <3>. QED BY <1>0, <1>2, <2>1, <2>2, <3>1, <3>2 DEF Day, Hour
  <2>. HIDE DEF today
  <2>. QED BY <1>0, <2>3, <2>4, <2>5
<1>. HIDE DEF due
<1>. QED BY <1>2, <1>3, <1>4, <1>5

\* At every moment the due slot exists, has passed, and is the latest that has: a
\* website is caught up after any outage by exactly one run of each job.
THEOREM DueIsTheLatest == Spec => []DueIsLatest
<1>1. Init => now \in Moments
  BY DEF Init
<1>2. now \in Moments /\ [Next]_now => (now \in Moments)'
  BY DEF Next, Later
<1>3. now \in Moments => DueIsLatest
  <2>. SUFFICES ASSUME now \in Moments, NEW j \in JOBS, NEW site \in Websites
                PROVE  LET due == DueSlot(j, site, now)
                       IN  /\ due # NoSlot
                           /\ due <= now
                           /\ \A day \in Night(now) :
                                 RunsOn(j, day) /\ SlotOn(j, site, day) <= now
                                     => SlotOn(j, site, day) <= due
    BY DEF DueIsLatest
  <2>1. now \in Nat
    BY MomentsAssumption
  <2>2. \A day \in Night(now) : day \in Int
    BY <2>1, DayOfMoment DEF Night
  <2>. QED BY <2>1, <2>2, DueIsNearest
<1>. QED BY <1>1, <1>2, <1>3, PTL DEF Spec

\* Walking on for a week, one meets a slot that is still to come.
LEMMA SomeDayAhead ==
    ASSUME NEW j \in JOBS, NEW site \in Websites, NEW t \in Nat
    PROVE  DaysAhead(j, site, t) # {}
<1>. DEFINE today == DayOf(t)
            comes(a) == SlotOn(j, site, today + a) > t
<1>1. today \in Int /\ t < (today + 1) * Day
  BY DayOfMoment
<1>2. ASSUME NEW a \in 1 .. 7 PROVE comes(a)
  <2>1. SlotOn(j, site, today + a) \in Int /\ (today + a) * Day <= SlotOn(j, site, today + a)
    BY <1>1, SlotInDay
  <2>2. (today + 1) * Day <= (today + a) * Day
    BY <1>1 DEF Day, Hour
  <2>. HIDE DEF today
  <2>. QED BY <1>1, <2>1, <2>2 DEF Day, Hour
<1>3. \E a \in 1 .. 7 : RunsOn(j, today + a)
  <2>1. CASE JobTable[j].weekdays = EveryDay
    <3>1. (today + 1) % 7 \in 0 .. 6
      BY <1>1
    <3>. QED BY <2>1, <3>1 DEF RunsOn, EveryDay
  <2>2. CASE JobTable[j].weekdays = Monday
    <3>1. \E a \in 1 .. 7 : (today + a) % 7 = 0
      <4>. HIDE DEF today
      <4>. QED BY <1>1
    <3>. QED BY <2>2, <3>1 DEF RunsOn, Monday
  <2>. QED BY <2>1, <2>2, Table
<1>4. PICK a \in 1 .. 7 : RunsOn(j, today + a)
  BY <1>3
<1>5. a \in DaysAhead(j, site, t)
  BY <1>2, <1>4 DEF DaysAhead
<1>. QED BY <1>5

\* The slots that are still to come lie no earlier than the next one (next_slot).
LEMMA NextIsNearest ==
    ASSUME NEW j \in JOBS, NEW site \in Websites, NEW t \in Nat
    PROVE  LET next == NextSlot(j, site, t)
           IN  /\ next \in Int /\ t < next
               /\ \A day \in Int : RunsOn(j, day) /\ SlotOn(j, site, day) > t
                                     => SlotOn(j, site, day) >= next
<1>. DEFINE ahead == DaysAhead(j, site, t)
            n == Nearest(ahead)
            today == DayOf(t)
            next == SlotOn(j, site, today + n)
<1>0. today \in Int /\ today * Day <= t /\ t < (today + 1) * Day
  BY DayOfMoment
<1>1. n \in ahead /\ \A m \in ahead : n <= m
  <2>1. ahead \in SUBSET (0 .. 7) /\ ahead # {}
    BY SomeDayAhead DEF DaysAhead
  <2>. HIDE DEF ahead
  <2>. QED BY <2>1, NearestIsFirst
<1>2. n \in 0 .. 7 /\ t < next /\ next \in Int /\ next < (today + n + 1) * Day
  <2>1. n \in 0 .. 7 /\ t < next
    BY <1>1 DEF DaysAhead
  <2>. HIDE DEF n, today
  <2>. QED BY <1>0, <2>1, SlotInDay
<1>3. NextSlot(j, site, t) = next
  BY DEF NextSlot
<1>5. ASSUME NEW day \in Int, RunsOn(j, day), SlotOn(j, site, day) > t
      PROVE  SlotOn(j, site, day) >= next
  <2>1. /\ SlotOn(j, site, day) \in Int
        /\ day * Day <= SlotOn(j, site, day) /\ SlotOn(j, site, day) < (day + 1) * Day
    BY SlotInDay
  <2>2. day >= today
    <3>. HIDE DEF today
    <3>. QED BY <1>0, <1>5, <2>1 DEF Day, Hour
  <2>3. CASE day - today \in 0 .. 7
    <3>1. today + (day - today) = day
      BY <1>0
    <3>2. day - today \in ahead
      BY <1>5, <2>3, <3>1 DEF DaysAhead
    <3>3. n <= day - today
      BY <1>1, <3>2
    <3>4. CASE n = day - today
      BY <1>0, <2>1, <3>4, <3>1
    <3>5. CASE n < day - today
      <4>. HIDE DEF n, today, next
      <4>1. today + n + 1 <= day
        BY <1>0, <1>2, <3>5
      <4>. QED BY <1>0, <1>2, <2>1, <4>1 DEF Day, Hour
    <3>. HIDE DEF n, today
    <3>. QED BY <1>0, <1>2, <3>3, <3>4, <3>5
  <2>4. CASE day - today > 7
    <3>. HIDE DEF n, today, next
    <3>1. today + n + 1 <= day
      BY <1>0, <1>2, <2>4
    <3>. QED BY <1>0, <1>2, <2>1, <3>1 DEF Day, Hour
  <2>. HIDE DEF today
  <2>. QED BY <1>0, <2>2, <2>3, <2>4
<1>. HIDE DEF next
<1>. QED BY <1>2, <1>3, <1>5

LEMMA ClockIsRead == Spec => [](now \in Nat)
<1>1. Init => now \in Nat
  BY MomentsAssumption DEF Init
<1>2. now \in Nat /\ [Next]_now => (now \in Nat)'
  BY MomentsAssumption DEF Next, Later
<1>. QED BY <1>1, <1>2, PTL DEF Spec

\* At every moment the next slot is in the future and no slot lies between the due one
\* and it: next_slot names the moment at which due_slot's answer changes.
THEOREM NextFollows == Spec => []NextFollowsDue
<1>1. now \in Nat => NextFollowsDue
  <2>. SUFFICES ASSUME now \in Nat, NEW j \in JOBS, NEW site \in Websites
                PROVE  LET next == NextSlot(j, site, now)
                       IN  /\ DaysAhead(j, site, now) # {}
                           /\ now < next
                           /\ \A day \in Night(now) :
                                 RunsOn(j, day) => \/ SlotOn(j, site, day) <= DueSlot(j, site, now)
                                                   \/ SlotOn(j, site, day) >= next
    BY DEF NextFollowsDue
  <2>1. \A day \in Night(now) : day \in Int
    BY DayOfMoment DEF Night
  <2>2. \A day \in Int : SlotOn(j, site, day) \in Int
    BY SlotInDay
  <2>3. ASSUME NEW day \in Night(now), RunsOn(j, day)
        PROVE  \/ SlotOn(j, site, day) <= DueSlot(j, site, now)
               \/ SlotOn(j, site, day) >= NextSlot(j, site, now)
    <3>1. CASE SlotOn(j, site, day) <= now BY <2>1, <2>3, <3>1, DueIsNearest
    <3>2. CASE SlotOn(j, site, day) > now BY <2>1, <2>3, <3>2, NextIsNearest
    <3>. QED BY <2>1, <2>2, <3>1, <3>2
  <2>. QED BY <2>3, NextIsNearest, SomeDayAhead
<1>. QED BY <1>1, ClockIsRead, PTL

\* How far into its day each job's slot lies, and in which order a night's jobs come.
LEMMA MinuteOfJob ==
    ASSUME NEW site \in Websites, NEW day \in Int
    PROVE  LET off == Offset[site]
               from == day * Day
           IN  /\ SlotOn("sync_search_console", site, day) = from + 60 + (off % 60)
               /\ SlotOn("sync_analytics", site, day) = from + 120 + (off % 60)
               /\ SlotOn("crawl_website", site, day) = from + 180 + (off % 60)
               /\ SlotOn("calculate_scores", site, day) = from + 240 + (off % 60)
               /\ SlotOn("generate_recommendations", site, day) = from + 270 + (off % 30)
               /\ SlotOn("generate_weekly_report", site, day) = from + 360 + (off % 60)
<1>1. Offset[site] \in Nat BY OffsetAssumption
<1>. QED BY <1>1 DEF SlotOn, SlotMinute, JobTable, Job, Hour, Day

\* On any day, the jobs of a website come in the order of JOBS, and the nightly ones
\* between 01:00 and 05:00, whatever its stagger (schedule.py, _slot_minute).
THEOREM NightsAreInOrder == Spec => []NightInOrder
<1>1. ASSUME now \in Nat PROVE NightInOrder
  <2>0. DayOf(now) \in Int BY <1>1, DayOfMoment
  <2>. SUFFICES ASSUME NEW site \in Websites, NEW day \in Int,
                       NEW i \in 1 .. Len(JobOrder), NEW k \in 1 .. Len(JobOrder)
                PROVE  /\ i < k => SlotOn(JobOrder[i], site, day) <= SlotOn(JobOrder[k], site, day)
                       /\ JobTable[JobOrder[i]].weekdays = EveryDay
                             => SlotOn(JobOrder[i], site, day) - day * Day
                                    \in 1 * Hour .. 5 * Hour - 1
    BY <2>0, Zenon DEF NightInOrder
  <2>. DEFINE off == Offset[site]
              sixty == off % 60
              thirty == off % 30
              from == day * Day
  <2>1. /\ sixty \in 0 .. 59 /\ thirty \in 0 .. 29 /\ sixty <= 30 + thirty
        /\ from \in Int
    <3>1. off \in Nat BY OffsetAssumption
    <3>. HIDE DEF off
    <3>. QED BY <3>1 DEF Day, Hour
  <2>2. /\ i \in 1 .. 6 /\ k \in 1 .. 6
        /\ JobOrder[1] = "sync_search_console" /\ JobOrder[2] = "sync_analytics"
        /\ JobOrder[3] = "crawl_website" /\ JobOrder[4] = "calculate_scores"
        /\ JobOrder[5] = "generate_recommendations" /\ JobOrder[6] = "generate_weekly_report"
    BY DEF JobOrder
  <2>3. /\ SlotOn(JobOrder[1], site, day) = from + 60 + sixty
        /\ SlotOn(JobOrder[2], site, day) = from + 120 + sixty
        /\ SlotOn(JobOrder[3], site, day) = from + 180 + sixty
        /\ SlotOn(JobOrder[4], site, day) = from + 240 + sixty
        /\ SlotOn(JobOrder[5], site, day) = from + 270 + thirty
        /\ SlotOn(JobOrder[6], site, day) = from + 360 + sixty
    BY <2>2, MinuteOfJob
  <2>4. JobTable[JobOrder[6]].weekdays # EveryDay
    <3>1. 1 \in EveryDay /\ 1 \notin Monday BY DEF EveryDay, Monday
    <3>. QED BY <2>2, <3>1 DEF JobTable, Job
  <2>5. i \in {1, 2, 3, 4, 5, 6} /\ k \in {1, 2, 3, 4, 5, 6} BY <2>2
  <2>. HIDE DEF sixty, thirty, from
  <2>6. i < k => SlotOn(JobOrder[i], site, day) <= SlotOn(JobOrder[k], site, day)
    <3>1. CASE i = 1 BY SMTT(30), <2>1, <2>3, <2>5, <3>1
    <3>2. CASE i = 2 BY SMTT(30), <2>1, <2>3, <2>5, <3>2
    <3>3. CASE i = 3 BY <2>1, <2>3, <2>5, <3>3
    <3>4. CASE i = 4 BY <2>1, <2>3, <2>5, <3>4
    <3>5. CASE i = 5
      <4>1. SlotOn(JobOrder[5], site, day) <= SlotOn(JobOrder[6], site, day)
        BY SMTT(30), <2>1, <2>3
      <4>. QED BY <2>5, <3>5, <4>1
    <3>6. CASE i = 6 BY <2>5, <3>6
    <3>. QED BY <2>5, <3>1, <3>2, <3>3, <3>4, <3>5, <3>6
  <2>7. JobTable[JobOrder[i]].weekdays = EveryDay =>
            SlotOn(JobOrder[i], site, day) - from \in 60 .. 299
    <3>1. SlotOn(JobOrder[1], site, day) - from \in 60 .. 299 BY <2>1, <2>3
    <3>2. SlotOn(JobOrder[2], site, day) - from \in 60 .. 299 BY <2>1, <2>3
    <3>3. SlotOn(JobOrder[3], site, day) - from \in 60 .. 299 BY <2>1, <2>3
    <3>4. SlotOn(JobOrder[4], site, day) - from \in 60 .. 299 BY <2>1, <2>3
    <3>5. SlotOn(JobOrder[5], site, day) - from \in 60 .. 299 BY <2>1, <2>3
    <3>. QED BY <2>4, <2>5, <3>1, <3>2, <3>3, <3>4, <3>5
  <2>. QED BY <2>6, <2>7 DEF from, Hour
<1>. QED BY <1>1, ClockIsRead, PTL
=============================================================================
