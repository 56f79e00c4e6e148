----------------------------- MODULE SlotLedger -----------------------------
(***************************************************************************)
(* What `scheduled_runs' promises whoever reads it, one slot at a time     *)
(* (db/migrations/0019_scheduled_runs.sql, docs/13-scheduler.md): a slot   *)
(* is claimed once, its work is started at most once, an outcome the       *)
(* worker reported is never overwritten, and giving up on a run (`reap')   *)
(* is an outcome only of a run that has none yet.                          *)
(*                                                                         *)
(* A run given up on after it started is `lost': its worker may be dead,   *)
(* or merely slow, and a slow one still gets to report.                    *)
(***************************************************************************)
CONSTANT Slots

VARIABLE ledger

Reports == {"succeeded", "skipped", "failed"}

Phases == {"free", "claimed", "working", "abandoned", "lost", "erased"} \cup Reports

Move(x, from, to) ==
    /\ ledger[x] = from
    /\ ledger' = [ledger EXCEPT ![x] = to]

Init == ledger = [x \in Slots |-> "free"]

Claim(x) == Move(x, "free", "claimed")

Start(x) == Move(x, "claimed", "working")

Report(x) == \E from \in {"working", "lost"}, to \in Reports : Move(x, from, to)

\* One sweep gives up on any number of runs at once.
GiveUp(S) ==
    /\ \A x \in S : ledger[x] \in {"claimed", "working"}
    /\ ledger' = [x \in Slots |->
                    IF x \notin S THEN ledger[x]
                    ELSE IF ledger[x] = "claimed" THEN "abandoned" ELSE "lost"]

\* Deleting an account deletes its websites' rows with it.
Erase(S) == ledger' = [x \in Slots |-> IF x \in S THEN "erased" ELSE ledger[x]]

Next == \/ \E x \in Slots : Claim(x) \/ Start(x) \/ Report(x)
        \/ \E S \in SUBSET Slots : GiveUp(S) \/ Erase(S)

Spec == Init /\ [][Next]_ledger
=============================================================================
