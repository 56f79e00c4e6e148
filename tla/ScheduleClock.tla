---------------------------- MODULE ScheduleClock ----------------------------
(***************************************************************************)
(* The schedule read against a clock: what due_slot and next_slot answer,  *)
(* at each moment the clock may show, for each job and website.  The clock *)
(* only moves forward, by any distance: nobody reads it every minute.      *)
(***************************************************************************)
EXTENDS Schedule, Sequences

CONSTANT Moments    \* the readings of the clock that are looked at

ASSUME MomentsAssumption == Moments # {} /\ Moments \subseteq Nat

VARIABLE now

Init == now \in {m \in Moments : \A t \in Moments : m <= t}

Later == now' \in {t \in Moments : t > now}

Next == Later

Spec == Init /\ [][Next]_now

Night(t) == DayOf(t) - 8 .. DayOf(t) + 8

\* There always is a due slot, it has passed, and no slot of the job lies
\* between it and now: an outage of any length is caught up by exactly one
\* run, the latest, and none is waited for (due_slot, and its walk of eight
\* days, which a weekly job read on its own Monday morning needs in full).
DueIsLatest ==
    \A j \in JOBS, site \in Websites :
        LET due == DueSlot(j, site, now)
        IN  /\ due # NoSlot
            /\ due <= now
            /\ \A day \in Night(now) :
                  RunsOn(j, day) /\ SlotOn(j, site, day) <= now
                      => SlotOn(j, site, day) <= due

\* next_slot and due_slot agree: the next slot is in the future, and no slot
\* lies between the due one and it, so the answer the dashboard gives is the
\* moment at which the dispatcher's answer will change.
NextFollowsDue ==
    \A j \in JOBS, site \in Websites :
        LET next == NextSlot(j, site, now)
        IN  /\ DaysAhead(j, site, now) # {}
            /\ now < next
            /\ \A day \in Night(now) :
                  RunsOn(j, day) => \/ SlotOn(j, site, day) <= DueSlot(j, site, now)
                                    \/ SlotOn(j, site, day) >= next

\* The stagger never reorders a night: on one day, every website's slots come
\* in the order of JOBS (sync, crawl, scores, recommendations, report), and
\* the nightly ones stay between 01:00 and 05:00.
NightInOrder ==
    \A site \in Websites, day \in {DayOf(now)}, i, k \in 1 .. Len(JobOrder) :
        /\ i < k => SlotOn(JobOrder[i], site, day) <= SlotOn(JobOrder[k], site, day)
        /\ JobTable[JobOrder[i]].weekdays = EveryDay
              => SlotOn(JobOrder[i], site, day) - day * Day \in 1 * Hour .. 5 * Hour - 1

=============================================================================
