--------------------------- MODULE MCScheduledRuns ---------------------------
(***************************************************************************)
(* Small instances of the nightly schedule.                                *)
(*   Morning: 05:00, with last night's slots due, and 12:00, when whatever *)
(*     began at 05:00 has outlived its lease but no task has expired.      *)
(*   Nights: 05:00 on two days: between them a lease ends, a task expires  *)
(*     and the next slots become due.                                      *)
(***************************************************************************)
EXTENDS ScheduledRuns, TLC

MCOffset == [s \in Websites |-> 10]

Tuesday == 8 * Day
Morning == {Tuesday + 5 * Hour, Tuesday + 12 * Hour}
Nights  == {Tuesday + 5 * Hour, Tuesday + 29 * Hour}

Symmetry == Permutations(Workers) \cup Permutations(Dispatchers)
=============================================================================
