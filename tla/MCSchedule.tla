----------------------------- MODULE MCSchedule -----------------------------
(***************************************************************************)
(* Nine nights, from the third Sunday evening on: midnight, and every slot *)
(* of every website with the minute before and the minute after it.  The   *)
(* websites sit at the two ends of the stagger and around its middle,      *)
(* where the half-hour job wraps.                                          *)
(***************************************************************************)
EXTENDS ScheduleClock

MCWebsites == {"first", "early", "late", "last"}
MCOffset == [first |-> 0, early |-> 29, late |-> 90, last |-> 119]

MCNights == 13 .. 22
MCMoments ==
    UNION {{t - 1, t, t + 1} : t \in
        {SlotOn(j, site, day) : j \in JOBS, site \in Websites, day \in MCNights}
        \cup {day * Day : day \in MCNights}}
=============================================================================
