------------------------- MODULE ScheduledRunsProofs -------------------------
(***************************************************************************)
(* Proofs about ScheduledRuns, for any set of jobs, websites, dispatchers  *)
(* and workers, any clock, any lease, expiry and number of retries: its    *)
(* invariants, that it implements SlotLedger, and that leases are kept.    *)
(***************************************************************************)
EXTENDS ScheduledRuns, TLAPS

\* A slot names one of the scheduled jobs and one of the websites.
LEMMA SlotParts == ASSUME NEW x \in Slots
                   PROVE  JobOf(x) \in Jobs /\ SiteOf(x) \in Websites
BY DEF Slots, JobOf, SiteOf

\* Whatever the clock says, what is due then is a slot.
LEMMA DueIsSlot == ASSUME NEW j \in Jobs, NEW s \in Websites, NEW t \in Moments
                   PROVE  <<j, s, DueSlot(j, s, t)>> \in Slots
BY DEF Slots

\* What a job's eligibility rests on is one of the facts kept per website.
LEMMA NeedsIsFact == ASSUME NEW j \in Jobs PROVE Needs(j) \in Facts
BY DEF Needs, Facts

\* No step takes a variable out of its type.
LEMMA TypeStep == ASSUME TypeOK, [Next]_vars PROVE TypeOK'
<1>. USE TimeAssumption, RetriesAssumption
<1>. USE DEF TypeOK, Goes, Step, Ack, Rest, rowVars, siteVars, workerVars,
             dispatcherVars, Statuses, Pending, Reported, WorkerStates,
             DispatcherStates
<1>1. ASSUME NEW d \in Dispatchers, BeginTick(d) PROVE TypeOK'
  BY <1>1 DEF BeginTick
<1>2. ASSUME NEW d \in Dispatchers, Reap(d) PROVE TypeOK'
  BY <1>2 DEF Reap
<1>3. ASSUME NEW d \in Dispatchers, ReadCandidates(d) PROVE TypeOK'
  BY <1>3 DEF ReadCandidates
<1>4. ASSUME NEW d \in Dispatchers, NEW j \in Jobs, NEW s \in Websites, Claim(d, j, s)
      PROVE  TypeOK'
  <2>. DEFINE x == <<j, s, DueSlot(j, s, at[d])>>
  <2>1. x \in Slots
    <3>1. at[d] \in Moments
      BY <1>4 DEF Claim
    <3>. QED BY <3>1, DueIsSlot
  <2>2. /\ phase' = [phase EXCEPT ![d] = "enqueueing"]
        /\ todo' = [todo EXCEPT ![d] = @ \ {<<j, s>>}]
        /\ status' = [status EXCEPT ![x] = "claimed"]
        /\ claimed_at' = [claimed_at EXCEPT ![x] = now]
        /\ won' = [won EXCEPT ![d] = x]
        /\ UNCHANGED <<now, siteVars, started_at, starts, settled, queue,
                       workerVars, at>>
        /\ phase[d] = "claiming"
    BY <1>4 DEF Claim, Visited
  <2>. HIDE DEF x
  <2>. QED BY <2>1, <2>2
<1>5. ASSUME NEW d \in Dispatchers, NEW j \in Jobs, NEW s \in Websites,
             AlreadyTaken(d, j, s)
      PROVE  TypeOK'
  BY <1>5 DEF AlreadyTaken, Visited
<1>6. ASSUME NEW d \in Dispatchers, Enqueue(d) PROVE TypeOK'
  BY <1>6 DEF Enqueue, Messages
<1>7. ASSUME NEW d \in Dispatchers, Rest(d) PROVE TypeOK'
  BY <1>7
<1>8. ASSUME NEW w \in Workers, NEW m \in queue, Deliver(w, m) PROVE TypeOK'
  BY <1>8, NoMessageAssumption DEF Deliver
<1>9. ASSUME NEW w \in Workers, MarkRunning(w) PROVE TypeOK'
  BY <1>9 DEF MarkRunning, Messages
<1>10. ASSUME NEW w \in Workers, Refuse(w) PROVE TypeOK'
  BY <1>10 DEF Refuse
<1>11. ASSUME NEW w \in Workers, LoadWebsite(w) PROVE TypeOK'
  BY <1>11 DEF LoadWebsite, Concludes
<1>12. ASSUME NEW w \in Workers, Work(w) PROVE TypeOK'
  <2>1. PICK result \in Reported :
           /\ Concludes(w, "working", result)
           /\ \/ facts' = facts
              \/ \E site : facts' = [facts EXCEPT ![site] = @ \cup {"has_crawl"}]
    BY ZenonT(60), <1>12 DEF Work
  <2>2. facts' \in [Websites -> SUBSET Facts]
    BY <2>1 DEF Facts
  <2>. QED BY <1>12, <2>1, <2>2 DEF Work, Concludes
<1>13. ASSUME NEW w \in Workers, Finish(w) PROVE TypeOK'
  <2>1. status' \in [Slots -> Statuses]
    BY <1>13 DEF Finish
  <2>2. settled' \subseteq Slots
    BY <1>13 DEF Finish, Messages
  <2>3. CASE Raises(w, "finishing") /\ UNCHANGED msg
    BY <1>13, <2>1, <2>2, <2>3 DEF Finish, Raises
  <2>4. CASE Ack(w)
    BY <1>13, <2>1, <2>2, <2>4 DEF Finish
  <2>. QED BY <1>13, <2>3, <2>4 DEF Finish
<1>14. ASSUME NEW w \in Workers, StatementFails(w) PROVE TypeOK'
  BY <1>14 DEF StatementFails, Raises
<1>15. ASSUME NEW w \in Workers, Retry(w) PROVE TypeOK'
  BY <1>15, NoMessageAssumption DEF Retry, Messages
<1>16. ASSUME NEW w \in Workers, Redeliver(w) PROVE TypeOK'
  BY <1>16, NoMessageAssumption DEF Redeliver
<1>17. ASSUME NEW w \in Workers, WorkerDies(w) PROVE TypeOK'
  BY <1>17 DEF WorkerDies
<1>18. CASE Later
  BY <1>18 DEF Later
<1>19. ASSUME NEW m \in queue, Discard(m) PROVE TypeOK'
  BY <1>19 DEF Discard
<1>20. ASSUME NEW s \in Websites, Archive(s) PROVE TypeOK'
  BY <1>20 DEF Archive
<1>21. ASSUME NEW s \in Websites, DeleteAccount(s) PROVE TypeOK'
  BY <1>21 DEF DeleteAccount
<1>22. ASSUME NEW s \in Websites, NEW j \in Jobs, FactChanges(s, Needs(j))
       PROVE  TypeOK'
  BY <1>22, NeedsIsFact DEF FactChanges
<1>23. CASE UNCHANGED vars
  BY <1>23 DEF vars
<1>. QED
  BY <1>1, <1>2, <1>3, <1>4, <1>5, <1>6, <1>7, <1>8, <1>9, <1>10, <1>11, <1>12,
     <1>13, <1>14, <1>15, <1>16, <1>17, <1>18, <1>19, <1>20, <1>21, <1>22, <1>23
  DEF Next, DispatcherNext, WorkerNext, WorldNext, EndTick, TickDies

\* Every variable keeps its type.
THEOREM Typing == Spec => []TypeOK
<1>1. Init => TypeOK
  BY NeedsIsFact, NoMessageAssumption, TimeAssumption, RetriesAssumption
     DEF Init, TypeOK, Statuses, WorkerStates, DispatcherStates
<1>. QED BY <1>1, TypeStep, PTL DEF Spec

-----------------------------------------------------------------------------
(* A slot's work has one owner.                                             *)

\* The run a worker holds is a slot.
LEMMA HeldRun == ASSUME TypeOK, NEW w \in Workers, pc[w] # "idle"
                 PROVE  msg[w] \in Messages /\ msg[w].run \in Slots
BY DEF TypeOK, Messages

\* The steps that leave the rows alone and give no worker a run keep ownership.
LEMMA QuietStep ==
    ASSUME TypeOK, Ownership,
           UNCHANGED <<status, starts, settled>>,
           \A x \in Slots : Deleted(x)' = Deleted(x),
           \A w \in Workers : Owns(w)' => Owns(w) /\ msg'[w] = msg[w]
    PROVE  Ownership'
<1>1. Fresh' /\ HasOutcome'
  BY DEF Ownership, Fresh, HasOutcome, TypeOK
<1>2. ASSUME NEW w \in Workers, Owns(w)' PROVE OwnedRun(msg[w].run)'
  <2>1. Owns(w) /\ msg'[w] = msg[w] /\ msg[w].run \in Slots
    BY <1>2, HeldRun DEF Owns
  <2>2. OwnedRun(msg[w].run)
    BY <2>1 DEF Ownership, Owned
  <2>. QED BY <2>1, <2>2 DEF OwnedRun
<1>3. OneOwner'
  BY DEF Ownership, OneOwner
<1>. QED BY <1>1, <1>2, <1>3 DEF Ownership, Owned

\* Ownership is established by the initial state and kept by every step.
THEOREM SoleOwner == Spec => []Ownership
<1>1. Init => Ownership
  BY SlotParts DEF Init, Ownership, Fresh, Owned, OneOwner, HasOutcome, Owns, Deleted
<1>2. TypeOK /\ Ownership /\ [Next]_vars => Ownership'
  <2>. SUFFICES ASSUME TypeOK, Ownership, [Next]_vars PROVE Ownership'
    OBVIOUS
  <2>. USE DEF Goes, Step, Ack, Rest, rowVars, siteVars, workerVars, dispatcherVars
  <2>1. ASSUME NEW d \in Dispatchers,
               \/ BeginTick(d) \/ ReadCandidates(d) \/ Enqueue(d) \/ Rest(d)
               \/ \E j \in Jobs, s \in Websites : AlreadyTaken(d, j, s)
        PROVE  Ownership'
    BY <2>1, QuietStep
       DEF BeginTick, ReadCandidates, Enqueue, AlreadyTaken, Owns, Deleted
  <2>2. ASSUME NEW d \in Dispatchers, Reap(d) PROVE Ownership'
    <3>1. \A x \in Slots : \/ status'[x] = status[x]
                           \/ status[x] \in Pending /\ status'[x] = "failed"
      <4>1. status' = [x \in Slots |-> IF x \in Overdue(at[d]) THEN "failed" ELSE status[x]]
        BY <2>2 DEF Reap
      <4>2. \A x \in Overdue(at[d]) : status[x] \in Pending
        BY DEF Overdue
      <4>. QED BY <4>1, <4>2
    <3>2. UNCHANGED <<starts, settled, life, pc, msg>>
      BY <2>2 DEF Reap
    <3>3. Fresh'
      BY <3>1, <3>2 DEF Ownership, Fresh, Deleted, Pending
    <3>4. HasOutcome'
      BY <3>1, <3>2 DEF Ownership, HasOutcome, Deleted, Pending, Reported, TypeOK
    <3>5. ASSUME NEW w \in Workers, Owns(w)' PROVE OwnedRun(msg[w].run)'
      <4>1. Owns(w) /\ msg[w].run \in Slots /\ OwnedRun(msg[w].run)
        BY <3>2, <3>5, HeldRun DEF Owns, Ownership, Owned
      <4>. QED BY <3>1, <3>2, <4>1 DEF OwnedRun, Deleted
    <3>6. OneOwner'
      BY <3>2 DEF Ownership, OneOwner, Owns
    <3>. QED BY <3>3, <3>4, <3>5, <3>6 DEF Ownership, Owned
  <2>3. ASSUME NEW d \in Dispatchers, NEW j \in Jobs, NEW s \in Websites, Claim(d, j, s)
        PROVE  Ownership'
    <3>1. PICK x \in Slots : /\ status[x] = "absent"
                             /\ ~Deleted(x)
                             /\ status' = [status EXCEPT ![x] = "claimed"]
      <4>1. at[d] \in Moments
        BY <2>3 DEF Claim, TypeOK
      <4>. QED BY <2>3, <4>1, DueIsSlot DEF Claim, Deleted, SiteOf
    <3>2. UNCHANGED <<starts, settled, life, pc, msg>>
      BY <2>3 DEF Claim
    <3>3. starts[x] = 0
      BY <3>1 DEF Ownership, Fresh
    <3>4. Fresh'
      BY <3>1, <3>2, <3>3 DEF Ownership, Fresh, Deleted, TypeOK
    <3>5. HasOutcome'
      BY <3>1, <3>2, <3>3 DEF Ownership, HasOutcome, Deleted, TypeOK
    <3>6. ASSUME NEW w \in Workers, Owns(w)' PROVE OwnedRun(msg[w].run)'
      <4>1. Owns(w) /\ msg[w].run \in Slots /\ OwnedRun(msg[w].run)
        BY <3>2, <3>6, HeldRun DEF Owns, Ownership, Owned
      <4>2. msg[w].run # x
        BY <4>1, <3>3 DEF OwnedRun
      <4>. QED BY <3>1, <3>2, <4>1, <4>2 DEF OwnedRun, Deleted, TypeOK
    <3>7. OneOwner'
      BY <3>2 DEF Ownership, OneOwner, Owns
    <3>. QED BY <3>4, <3>5, <3>6, <3>7 DEF Ownership, Owned
  <2>4. ASSUME NEW w \in Workers,
               \/ \E m \in queue : Deliver(w, m)
               \/ Refuse(w) \/ LoadWebsite(w) \/ Work(w) \/ StatementFails(w)
               \/ Retry(w) \/ Redeliver(w) \/ WorkerDies(w)
        PROVE  Ownership'
    <3>1. UNCHANGED <<status, starts, settled, life>>
      BY <2>4 DEF Deliver, Refuse, LoadWebsite, Work, StatementFails, Retry, Redeliver,
                  WorkerDies
    <3>2. ASSUME NEW v \in Workers, Owns(v)' PROVE Owns(v) /\ msg'[v] = msg[v]
      BY <2>4, <3>2
      DEF Deliver, Refuse, LoadWebsite, Work, StatementFails, Retry, Redeliver,
          WorkerDies, Raises, Concludes, Owns, TypeOK
    <3>. QED BY <3>1, <3>2, QuietStep DEF Deleted
  <2>5. ASSUME NEW w \in Workers, MarkRunning(w) PROVE Ownership'
    <3>. DEFINE x == msg[w].run
    <3>1. x \in Slots
      BY <2>5, HeldRun DEF MarkRunning
    <3>2. /\ status[x] = "claimed" /\ pc[w] = "taken"
          /\ status' = [status EXCEPT ![x] = "running"]
          /\ starts' = [starts EXCEPT ![x] = starts[x] + 1]
          /\ pc' = [pc EXCEPT ![w] = "started"]
          /\ UNCHANGED <<settled, life, msg>>
      BY <2>5 DEF MarkRunning
    <3>3. starts[x] = 0 /\ ~Deleted(x)
      BY <3>1, <3>2 DEF Ownership, Fresh
    <3>4. x \notin settled
      BY <3>3 DEF Ownership, HasOutcome
    <3>5. \A v \in Workers : Owns(v) => msg[v].run # x
      BY <3>3 DEF Ownership, Owned, OwnedRun
    <3>6. \A v \in Workers : Owns(v)' => v = w \/ Owns(v)
      BY <3>2 DEF Owns, TypeOK
    <3>. HIDE DEF x
    <3>7. Fresh'
      BY <3>1, <3>2, <3>3 DEF Ownership, Fresh, Deleted, TypeOK
    <3>8. HasOutcome'
      BY <3>1, <3>2, <3>4 DEF Ownership, HasOutcome, Deleted, TypeOK
    <3>9. starts'[x] = 1 /\ x \notin settled' /\ status'[x] = "running"
      BY <3>1, <3>2, <3>3, <3>4 DEF OwnedRun, TypeOK
    <3>10. ASSUME NEW v \in Workers, Owns(v)' PROVE OwnedRun(msg[v].run)'
      <4>1. CASE v = w
        BY <3>2, <3>9, <4>1 DEF x, OwnedRun
      <4>2. CASE v # w
        <5>1. Owns(v) /\ msg[v].run \in Slots /\ OwnedRun(msg[v].run) /\ msg[v].run # x
          BY <3>5, <3>6, <3>10, <4>2, HeldRun DEF Owns, Ownership, Owned
        <5>. QED BY <3>2, <5>1 DEF OwnedRun, Deleted, TypeOK
      <4>. QED BY <4>1, <4>2
    <3>11. OneOwner'
      BY <3>2, <3>5, <3>6 DEF Ownership, OneOwner, x
    <3>. QED BY <3>7, <3>8, <3>10, <3>11 DEF Ownership, Owned
  <2>6. ASSUME NEW w \in Workers, Finish(w) PROVE Ownership'
    <3>. DEFINE x == msg[w].run
    <3>1. x \in Slots /\ Owns(w) /\ outcome[w] \in Reported
      BY <2>6, HeldRun DEF Finish, Owns, TypeOK
    <3>2. /\ status' = [status EXCEPT ![x] = IF status[x] = "absent" THEN "absent"
                                              ELSE outcome[w]]
          /\ settled' = settled \cup {x}
          /\ UNCHANGED <<starts, life>>
      BY <2>6 DEF Finish
    <3>3. OwnedRun(x)
      BY <3>1 DEF Ownership, Owned
    <3>4. \A v \in Workers : Owns(v)' => Owns(v) /\ v # w /\ msg'[v] = msg[v]
      BY <2>6 DEF Finish, Raises, Owns, TypeOK
    <3>5. \A v \in Workers : Owns(v)' => msg[v].run # x
      BY <3>1, <3>4 DEF Ownership, OneOwner
    <3>. HIDE DEF x
    <3>6. Fresh'
      BY <3>1, <3>2, <3>3 DEF Ownership, Fresh, OwnedRun, Deleted, Reported, TypeOK
    <3>7. HasOutcome'
      BY <3>1, <3>2, <3>3 DEF Ownership, Fresh, HasOutcome, OwnedRun, Deleted, TypeOK
    <3>8. ASSUME NEW v \in Workers, Owns(v)' PROVE OwnedRun(msg[v].run)'
      <4>1. /\ Owns(v) /\ msg[v].run \in Slots /\ OwnedRun(msg[v].run)
            /\ msg[v].run # x /\ msg'[v] = msg[v]
        BY <3>4, <3>5, <3>8, HeldRun DEF Owns, Ownership, Owned
      <4>. QED BY <3>1, <3>2, <4>1 DEF OwnedRun, Deleted, TypeOK
    <3>9. OneOwner'
      BY <3>4 DEF Ownership, OneOwner
    <3>. QED BY <3>6, <3>7, <3>8, <3>9 DEF Ownership, Owned
  <2>7. ASSUME \/ Later \/ \E m \in queue : Discard(m)
               \/ \E s \in Websites, j \in Jobs : FactChanges(s, Needs(j))
               \/ UNCHANGED vars
        PROVE  Ownership'
    BY <2>7, QuietStep DEF Later, Discard, FactChanges, vars, Owns, Deleted
  <2>8. ASSUME NEW s \in Websites, Archive(s) PROVE Ownership'
    <3>1. \A x \in Slots : Deleted(x)' = Deleted(x)
      BY <2>8, SlotParts DEF Archive, Deleted, TypeOK
    <3>. QED BY <2>8, <3>1, QuietStep DEF Archive, Owns
  <2>9. ASSUME NEW s \in Websites, DeleteAccount(s) PROVE Ownership'
    <3>1. \A x \in Slots : IF SiteOf(x) = s THEN Deleted(x)' /\ status'[x] = "absent"
                           ELSE Deleted(x)' = Deleted(x) /\ status'[x] = status[x]
      BY <2>9, SlotParts DEF DeleteAccount, Deleted, TypeOK
    <3>2. UNCHANGED <<starts, settled, pc, msg>>
      BY <2>9 DEF DeleteAccount
    <3>3. Fresh'
      BY <3>1, <3>2 DEF Ownership, Fresh
    <3>4. HasOutcome'
      BY <3>1, <3>2 DEF Ownership, HasOutcome, TypeOK
    <3>5. ASSUME NEW w \in Workers, Owns(w)' PROVE OwnedRun(msg[w].run)'
      <4>1. Owns(w) /\ msg[w].run \in Slots /\ OwnedRun(msg[w].run)
        BY <3>2, <3>5, HeldRun DEF Owns, Ownership, Owned
      <4>. QED BY <3>1, <3>2, <4>1 DEF OwnedRun
    <3>6. OneOwner'
      BY <3>2 DEF Ownership, OneOwner, Owns
    <3>. QED BY <3>3, <3>4, <3>5, <3>6 DEF Ownership, Owned
  <2>. QED
    BY <2>1, <2>2, <2>3, <2>4, <2>5, <2>6, <2>7, <2>8, <2>9
    DEF Next, DispatcherNext, WorkerNext, WorldNext, EndTick, TickDies
<1>. QED BY <1>1, <1>2, Typing, PTL DEF Spec

\* The work of a slot is started at most once ("RUNNING TWICE is prevented").
THEOREM StartedOnce == Spec => []OneStartPerSlot
<1>1. Ownership => OneStartPerSlot
  BY DEF Ownership, Fresh, OneStartPerSlot
<1>. QED BY <1>1, SoleOwner, PTL

-----------------------------------------------------------------------------
(* What the ownership of a run is worth to those who read its row.          *)

\* Only the owner's report makes a slot settled, and nobody touches it after.
LEMMA SettledStays ==
    ASSUME TypeOK, Ownership, [Next]_vars, NEW x \in settled
    PROVE  status'[x] = status[x] \/ Deleted(x)'
<1>. USE DEF Goes, Step, Ack, Rest, rowVars, siteVars, workerVars, dispatcherVars
<1>1. x \in Slots /\ starts[x] = 1 /\ (status[x] \in Reported \/ Deleted(x))
  BY DEF TypeOK, Ownership, HasOutcome
<1>2. CASE UNCHANGED <<status, life>>
  BY <1>2
<1>3. ASSUME NEW d \in Dispatchers, Reap(d) PROVE status'[x] = status[x] \/ Deleted(x)'
  <2>1. UNCHANGED life
    BY <1>3 DEF Reap
  <2>2. status[x] \in Reported => x \notin Overdue(at[d])
    BY DEF Overdue, Reported, Pending
  <2>. QED BY <1>1, <1>3, <2>1, <2>2 DEF Reap, Deleted
<1>4. ASSUME NEW d \in Dispatchers, NEW j \in Jobs, NEW s \in Websites, Claim(d, j, s)
      PROVE  status'[x] = status[x] \/ Deleted(x)'
  <2>1. UNCHANGED life
    BY <1>4 DEF Claim
  <2>2. \/ status'[x] = status[x]
        \/ status[x] = "absent"
    BY <1>1, <1>4 DEF Claim, TypeOK
  <2>. QED BY <1>1, <2>1, <2>2 DEF Deleted, Reported
<1>5. ASSUME NEW w \in Workers, MarkRunning(w) PROVE status'[x] = status[x]
  <2>1. msg[w].run # x
    BY <1>1, <1>5 DEF MarkRunning, Ownership, Fresh
  <2>. QED BY <1>1, <1>5, <2>1 DEF MarkRunning, TypeOK
<1>6. ASSUME NEW w \in Workers, Finish(w) PROVE status'[x] = status[x]
  <2>1. msg[w].run # x
    BY <1>6 DEF Finish, Ownership, Owned, Owns, OwnedRun
  <2>. QED BY <1>1, <1>6, <2>1 DEF Finish, TypeOK
<1>7. ASSUME NEW s \in Websites, DeleteAccount(s) PROVE status'[x] = status[x] \/ Deleted(x)'
  BY <1>1, <1>7, SlotParts DEF DeleteAccount, Deleted, TypeOK
<1>8. ASSUME NEW s \in Websites, Archive(s) PROVE status'[x] = status[x]
  BY <1>8 DEF Archive
<1>. QED
  BY ZenonT(60), <1>2, <1>3, <1>4, <1>5, <1>6, <1>7, <1>8
  DEF Next, DispatcherNext, WorkerNext, WorldNext, vars, BeginTick, ReadCandidates,
      Enqueue, EndTick, TickDies, AlreadyTaken, Deliver, Refuse, LoadWebsite, Work,
      StatementFails, Retry, Redeliver, WorkerDies, Later, Discard, FactChanges

\* A reported outcome is what the row says from then on.
THEOREM OutcomeStays == Spec => OutcomeIsFinal
<1>1. TypeOK /\ Ownership /\ [Next]_vars
        => [\A x \in settled : status'[x] = status[x] \/ Deleted(x)']_vars
  BY SettledStays
<1>. QED BY <1>1, Typing, SoleOwner, PTL DEF Spec, OutcomeIsFinal

-----------------------------------------------------------------------------
(* Every task has its row.                                                  *)

\* A step that adds rows, or deletes a website with them, keeps a row's being
\* there.
LEMMA RowsStay == ASSUME TypeOK, [Next]_vars, NEW x \in Slots, HasRow(x)
                  PROVE  HasRow(x)'
<1>. USE DEF Goes, Step, Ack, Rest, rowVars, siteVars, workerVars, dispatcherVars
<1>1. ASSUME NEW d \in Dispatchers, Reap(d) PROVE HasRow(x)'
  <2>1. UNCHANGED life /\ (status'[x] = status[x] \/ status'[x] = "failed")
    BY <1>1 DEF Reap
  <2>. QED BY <2>1 DEF HasRow, Deleted
<1>2. ASSUME NEW d \in Dispatchers, NEW j \in Jobs, NEW s \in Websites, Claim(d, j, s)
      PROVE  HasRow(x)'
  <2>1. UNCHANGED life /\ (status'[x] = status[x] \/ status'[x] = "claimed")
    BY <1>2 DEF Claim, TypeOK
  <2>. QED BY <2>1 DEF HasRow, Deleted
<1>3. ASSUME NEW w \in Workers, MarkRunning(w) PROVE HasRow(x)'
  BY <1>3 DEF MarkRunning, HasRow, Deleted, TypeOK
<1>4. ASSUME NEW w \in Workers, Finish(w) PROVE HasRow(x)'
  <2>1. UNCHANGED life
    BY <1>4 DEF Finish
  <2>2. outcome[w] \in Reported
    BY <1>4 DEF Finish, TypeOK
  <2>3. status'[x] = status[x] \/ status'[x] = outcome[w]
    BY <1>4 DEF Finish, TypeOK
  <2>. QED BY <2>1, <2>2, <2>3 DEF HasRow, Deleted, Reported
<1>5. ASSUME NEW s \in Websites, DeleteAccount(s) PROVE HasRow(x)'
  BY <1>5, SlotParts DEF DeleteAccount, HasRow, Deleted, TypeOK
<1>6. ASSUME NEW s \in Websites, Archive(s) PROVE HasRow(x)'
  BY <1>6, SlotParts DEF Archive, HasRow, Deleted, TypeOK
<1>7. CASE UNCHANGED <<status, life>>
  BY <1>7 DEF HasRow, Deleted
<1>. QED
  BY ZenonT(60), <1>1, <1>2, <1>3, <1>4, <1>5, <1>6, <1>7
  DEF Next, DispatcherNext, WorkerNext, WorldNext, vars, BeginTick, ReadCandidates,
      Enqueue, EndTick, TickDies, AlreadyTaken, Deliver, Refuse, LoadWebsite, Work,
      StatementFails, Retry, Redeliver, WorkerDies, Later, Discard, FactChanges

\* A message that is new in the queue or in a worker's hands carries the run of
\* one that was there, or of the row the dispatcher has just claimed.
LEMMA RowsKept == ASSUME TypeOK, HaveRows, [Next]_vars PROVE HaveRows'
<1>. USE DEF Goes, Step, Ack, Rest, rowVars, siteVars, workerVars, dispatcherVars
<1>1. ASSUME NEW m \in queue' PROVE HasRow(m.run)
  <2>1. CASE m \in queue
    BY <2>1 DEF HaveRows
  <2>2. ASSUME NEW d \in Dispatchers, Enqueue(d), m \notin queue PROVE HasRow(m.run)
    BY <2>2, <1>1 DEF Enqueue, HaveRows
  <2>3. ASSUME NEW w \in Workers, Retry(w) \/ Redeliver(w), m \notin queue
        PROVE  HasRow(m.run)
    <3>1. pc[w] # "idle" /\ msg[w] \in Messages
      BY <2>3, HeldRun DEF Retry, Redeliver
    <3>2. m.run = msg[w].run
      BY <1>1, <2>3, <3>1 DEF Retry, Redeliver, Messages
    <3>. QED BY <3>1, <3>2 DEF HaveRows
  <2>4. ASSUME NEW w \in Workers,
               \/ \E n \in queue : Deliver(w, n)
               \/ MarkRunning(w) \/ Refuse(w) \/ LoadWebsite(w) \/ Work(w) \/ Finish(w)
               \/ StatementFails(w) \/ WorkerDies(w)
        PROVE  m \in queue
    BY <1>1, <2>4
    DEF Deliver, MarkRunning, Refuse, LoadWebsite, Work, Finish, StatementFails, WorkerDies
  <2>5. ASSUME NEW d \in Dispatchers,
               \/ BeginTick(d) \/ Reap(d) \/ ReadCandidates(d) \/ Rest(d)
               \/ \E j \in Jobs, s \in Websites : Claim(d, j, s) \/ AlreadyTaken(d, j, s)
        PROVE  m \in queue
    BY <1>1, <2>5 DEF BeginTick, Reap, ReadCandidates, Claim, AlreadyTaken
  <2>6. ASSUME WorldNext \/ UNCHANGED vars PROVE m \in queue
    BY <1>1, <2>6 DEF WorldNext, vars, Later, Discard, FactChanges, Archive, DeleteAccount
  <2>. QED
    BY <2>1, <2>2, <2>3, <2>4, <2>5, <2>6
    DEF Next, DispatcherNext, WorkerNext, EndTick, TickDies
<1>2. ASSUME NEW w \in Workers, pc'[w] # "idle" PROVE HasRow(msg'[w].run)
  <2>1. CASE pc[w] # "idle" /\ msg'[w] = msg[w]
    BY <2>1 DEF HaveRows
  <2>2. ASSUME NEW v \in Workers, NEW m \in queue, Deliver(v, m) PROVE HasRow(msg'[w].run)
    BY <1>2, <2>2 DEF Deliver, HaveRows, TypeOK
  <2>3. ASSUME NEW v \in Workers,
               \/ MarkRunning(v) \/ Refuse(v) \/ LoadWebsite(v) \/ Work(v) \/ Finish(v)
               \/ StatementFails(v) \/ Retry(v) \/ Redeliver(v) \/ WorkerDies(v)
        PROVE  pc[w] # "idle" /\ msg'[w] = msg[w]
    BY <1>2, <2>3
    DEF MarkRunning, Refuse, LoadWebsite, Work, Finish, StatementFails, Retry, Redeliver,
        WorkerDies, Raises, Concludes, TypeOK
  <2>4. ASSUME NEW d \in Dispatchers, DispatcherNext(d) PROVE UNCHANGED workerVars
    BY <2>4 DEF DispatcherNext, BeginTick, Reap, ReadCandidates, Claim, AlreadyTaken,
                Enqueue, EndTick, TickDies
  <2>5. ASSUME WorldNext \/ UNCHANGED vars PROVE UNCHANGED workerVars
    BY <2>5 DEF WorldNext, vars, Later, Discard, FactChanges, Archive, DeleteAccount
  <2>. QED
    BY <1>2, <2>1, <2>2, <2>3, <2>4, <2>5 DEF Next, WorkerNext
<1>3. ASSUME NEW d \in Dispatchers, phase'[d] = "enqueueing", NEW x \in Slots, x = won'[d]
      PROVE  HasRow(x) \/ HasRow(x)'
  <2>1. CASE phase[d] = "enqueueing" /\ won'[d] = won[d]
    BY <1>3, <2>1 DEF HaveRows
  <2>2. ASSUME NEW c \in Dispatchers, NEW j \in Jobs, NEW s \in Websites, Claim(c, j, s)
        PROVE  HasRow(x) \/ HasRow(x)'
    <3>1. CASE c # d
      BY <1>3, <2>1, <2>2, <3>1 DEF Claim, TypeOK
    <3>2. CASE c = d
      <4>1. x = <<j, s, DueSlot(j, s, at[d])>>
        BY <1>3, <2>2, <3>2 DEF Claim, TypeOK
      <4>2. status'[x] = "claimed"
        BY <2>2, <3>2, <4>1 DEF Claim, TypeOK
      <4>. QED BY <4>2 DEF HasRow
    <3>. QED BY <3>1, <3>2
  <2>3. ASSUME NEW c \in Dispatchers,
               \/ BeginTick(c) \/ Reap(c) \/ ReadCandidates(c) \/ Enqueue(c) \/ Rest(c)
               \/ \E j \in Jobs, s \in Websites : AlreadyTaken(c, j, s)
        PROVE  phase[d] = "enqueueing" /\ won'[d] = won[d]
    BY <1>3, <2>3 DEF BeginTick, Reap, ReadCandidates, Enqueue, AlreadyTaken, TypeOK
  <2>4. ASSUME NEW w \in Workers, WorkerNext(w) PROVE UNCHANGED dispatcherVars
    BY <2>4 DEF WorkerNext, Deliver, MarkRunning, Refuse, LoadWebsite, Work, Finish,
                StatementFails, Retry, Redeliver, WorkerDies
  <2>5. ASSUME WorldNext \/ UNCHANGED vars PROVE UNCHANGED dispatcherVars
    BY <2>5 DEF WorldNext, vars, Later, Discard, FactChanges, Archive, DeleteAccount
  <2>. QED
    BY <1>3, <2>1, <2>2, <2>3, <2>4, <2>5 DEF Next, DispatcherNext, EndTick, TickDies
<1>4. TypeOK'
  BY TypeStep
<1>5. ASSUME NEW m \in queue' PROVE HasRow(m.run)'
  <2>1. m.run \in Slots
    BY <1>4 DEF TypeOK, Messages
  <2>. QED BY <1>1, <2>1, RowsStay
<1>6. ASSUME NEW w \in Workers, (pc[w] # "idle")' PROVE HasRow(msg[w].run)'
  <2>1. PICK x \in Slots : x = msg'[w].run
    BY <1>4, <1>6 DEF TypeOK, Messages
  <2>2. HasRow(x)'
    BY <1>2, <1>6, <2>1, RowsStay
  <2>. QED BY <2>1, <2>2 DEF HasRow, Deleted
<1>7. ASSUME NEW d \in Dispatchers, (phase[d] = "enqueueing")' PROVE HasRow(won[d])'
  <2>1. PICK x \in Slots : x = won'[d]
    BY <1>4, <1>7 DEF TypeOK
  <2>2. HasRow(x)'
    BY <1>3, <1>7, <2>1, RowsStay
  <2>. QED BY <2>1, <2>2 DEF HasRow, Deleted
<1>. QED BY <1>5, <1>6, <1>7 DEF HaveRows

\* A task never exists without its row, unless the account is gone.
THEOREM TasksHaveRows == Spec => []TaskHasRow
<1>1. Init => HaveRows
  BY DEF Init, HaveRows
<1>2. HaveRows => TaskHasRow
  BY DEF HaveRows, TaskHasRow, HasRow
<1>. QED BY <1>1, <1>2, RowsKept, Typing, PTL DEF Spec

-----------------------------------------------------------------------------
(* The refinement.                                                          *)

\* The refinement mapping.
Book == [x \in Slots |-> Phase(x)]

\* One slot changes its phase, and no other does.
LEMMA OneMoves ==
    ASSUME NEW x \in Slots, NEW to, Phase(x)' = to,
           \A y \in Slots : y # x => Phase(y)' = Phase(y)
    PROVE  Book' = [Book EXCEPT ![x] = to]
BY DEF Book

\* No slot changes its phase unless a row, a website's life, the settled slots
\* or the starts do.
LEMMA Unmoved ==
    ASSUME UNCHANGED <<status, starts, settled>>,
           \A x \in Slots : Deleted(x)' = Deleted(x)
    PROVE  Book' = Book
BY DEF Book, Phase

LEMMA ClaimMoves ==
    ASSUME TypeOK, Ownership, NEW d \in Dispatchers, NEW j \in Jobs, NEW s \in Websites,
           Claim(d, j, s)
    PROVE  \E x \in Slots : Ledger!Claim(x)
<1>1. PICK x \in Slots : /\ status[x] = "absent" /\ ~Deleted(x)
                         /\ status' = [status EXCEPT ![x] = "claimed"]
  <2>1. at[d] \in Moments
    BY DEF Claim, Goes, TypeOK
  <2>. QED BY <2>1, DueIsSlot DEF Claim, Deleted, SiteOf
<1>2. UNCHANGED <<starts, settled, life>>
  BY DEF Claim, siteVars
<1>3. starts[x] = 0 /\ x \notin settled
  BY <1>1 DEF Ownership, Fresh, HasOutcome
<1>4. Phase(x) = "free"
  BY <1>1, <1>3 DEF Phase
<1>5. Phase(x)' = "claimed"
  BY <1>1, <1>2, <1>3 DEF Phase, Deleted, TypeOK
<1>6. \A y \in Slots : y # x => Phase(y)' = Phase(y)
  BY <1>1, <1>2 DEF Phase, Deleted, TypeOK
<1>. QED BY <1>4, <1>5, <1>6, OneMoves DEF Book, Ledger!Claim, Ledger!Move

LEMMA MarkRunningMoves ==
    ASSUME TypeOK, Ownership, NEW w \in Workers, MarkRunning(w)
    PROVE  \E x \in Slots : Ledger!Start(x)
<1>1. PICK x \in Slots : /\ x = msg[w].run /\ status[x] = "claimed"
                         /\ status' = [status EXCEPT ![x] = "running"]
                         /\ starts' = [starts EXCEPT ![x] = starts[x] + 1]
  BY HeldRun DEF MarkRunning, Step
<1>2. UNCHANGED <<settled, life>>
  BY DEF MarkRunning, siteVars
<1>3. starts[x] = 0 /\ ~Deleted(x) /\ x \notin settled
  BY <1>1 DEF Ownership, Fresh, HasOutcome
<1>4. Phase(x) = "claimed"
  BY <1>1, <1>3 DEF Phase
<1>5. Phase(x)' = "working"
  BY <1>1, <1>2, <1>3 DEF Phase, Deleted, TypeOK
<1>6. \A y \in Slots : y # x => Phase(y)' = Phase(y)
  BY <1>1, <1>2 DEF Phase, Deleted, TypeOK
<1>. QED BY <1>4, <1>5, <1>6, OneMoves DEF Book, Ledger!Start, Ledger!Move

\* A worker's report may come after the reaper's: then the run was lost, not dead.
LEMMA FinishMoves ==
    ASSUME TypeOK, Ownership, NEW w \in Workers, Finish(w)
    PROVE  (\E x \in Slots : Ledger!Report(x)) \/ Book' = Book
<1>1. PICK x \in Slots : /\ x = msg[w].run /\ Owns(w)
                         /\ status' = [status EXCEPT ![x] =
                              IF status[x] = "absent" THEN "absent" ELSE outcome[w]]
                         /\ settled' = settled \cup {x}
  BY HeldRun DEF Finish, Owns
<1>2. outcome[w] \in Reported /\ UNCHANGED <<starts, life>>
  BY DEF Finish, TypeOK, siteVars
<1>3. OwnedRun(x)
  BY <1>1 DEF Ownership, Owned
<1>4. \A y \in Slots : y # x => Phase(y)' = Phase(y)
  BY <1>1, <1>2 DEF Phase, Deleted, TypeOK
<1>5. CASE Deleted(x)
  <2>1. Phase(x)' = Phase(x)
    BY <1>2, <1>5 DEF Phase, Deleted
  <2>. QED BY <1>4, <2>1 DEF Book
<1>6. CASE ~Deleted(x)
  <2>1. Phase(x) \in {"working", "lost"}
    BY <1>3, <1>6 DEF Phase, OwnedRun
  <2>2. Phase(x)' = outcome[w]
    BY <1>1, <1>2, <1>3, <1>6 DEF Phase, Deleted, OwnedRun, TypeOK
  <2>3. outcome[w] \in Ledger!Reports
    BY <1>2 DEF Reported, Ledger!Reports
  <2>. QED BY <1>4, <2>1, <2>2, <2>3, OneMoves DEF Book, Ledger!Report, Ledger!Move
<1>. QED BY <1>5, <1>6

LEMMA ReapMoves ==
    ASSUME TypeOK, Ownership, NEW d \in Dispatchers, Reap(d)
    PROVE  \E S \in SUBSET Slots : Ledger!GiveUp(S)
<1>. DEFINE S == Overdue(at[d])
<1>1. S \subseteq Slots /\ \A x \in S : status[x] \in {"claimed", "running"}
  BY DEF Overdue, Pending
<1>2. /\ status' = [x \in Slots |-> IF x \in S THEN "failed" ELSE status[x]]
      /\ UNCHANGED <<starts, settled, life>>
  BY DEF Reap, siteVars
<1>. HIDE DEF S
<1>3. ASSUME NEW x \in S
      PROVE  /\ x \in Slots /\ ~Deleted(x) /\ x \notin settled
             /\ starts[x] = IF status[x] = "claimed" THEN 0 ELSE 1
  BY <1>1 DEF Ownership, Fresh, HasOutcome, Reported
<1>4. ASSUME NEW x \in S
      PROVE  /\ Phase(x) \in {"claimed", "working"}
             /\ Phase(x)' = IF Phase(x) = "claimed" THEN "abandoned" ELSE "lost"
  BY <1>1, <1>2, <1>3 DEF Phase, Deleted
<1>5. ASSUME NEW x \in Slots, x \notin S PROVE Phase(x)' = Phase(x)
  BY <1>2, <1>5 DEF Phase, Deleted
<1>6. Ledger!GiveUp(S)
  BY <1>1, <1>4, <1>5 DEF Book, Ledger!GiveUp
<1>. QED BY <1>1, <1>6

LEMMA DeleteMoves ==
    ASSUME TypeOK, NEW s \in Websites, DeleteAccount(s)
    PROVE  \E S \in SUBSET Slots : Ledger!Erase(S)
<1>. DEFINE S == {x \in Slots : SiteOf(x) = s}
<1>1. UNCHANGED <<starts, settled>>
  BY DEF DeleteAccount
<1>2. ASSUME NEW x \in S PROVE Phase(x)' = "erased"
  BY SlotParts DEF DeleteAccount, Phase, Deleted, TypeOK
<1>3. ASSUME NEW x \in Slots, x \notin S PROVE Phase(x)' = Phase(x)
  <2>1. Deleted(x)' = Deleted(x) /\ status'[x] = status[x]
    BY <1>3, SlotParts DEF DeleteAccount, Deleted, TypeOK
  <2>. QED BY <1>1, <2>1 DEF Phase
<1>4. Ledger!Erase(S)
  BY <1>2, <1>3 DEF Ledger!Erase
<1>. QED BY <1>4

\* Every step of the schedule is a step of the ledger, or none.
LEMMA StepMoves == ASSUME TypeOK, Ownership, [Next]_vars PROVE [Ledger!Next]_Book
<1>. USE DEF rowVars, siteVars, Rest
<1>1. ASSUME NEW d \in Dispatchers,
             \/ BeginTick(d) \/ ReadCandidates(d) \/ Enqueue(d) \/ Rest(d)
             \/ \E j \in Jobs, s \in Websites : AlreadyTaken(d, j, s)
      PROVE  Book' = Book
  BY <1>1, Unmoved DEF BeginTick, ReadCandidates, Enqueue, AlreadyTaken, Deleted
<1>2. ASSUME NEW w \in Workers,
             \/ \E m \in queue : Deliver(w, m)
             \/ Refuse(w) \/ LoadWebsite(w) \/ Work(w) \/ StatementFails(w)
             \/ Retry(w) \/ Redeliver(w) \/ WorkerDies(w)
      PROVE  Book' = Book
  <2>1. UNCHANGED <<status, starts, settled, life>>
    BY <1>2 DEF Deliver, Refuse, LoadWebsite, Work, StatementFails, Retry, Redeliver,
                WorkerDies
  <2>. QED BY <2>1, Unmoved DEF Deleted
<1>3. ASSUME \/ Later \/ \E m \in queue : Discard(m)
             \/ \E s \in Websites, j \in Jobs : FactChanges(s, Needs(j))
             \/ UNCHANGED vars
      PROVE  Book' = Book
  BY <1>3, Unmoved DEF Later, Discard, FactChanges, vars, Deleted
<1>4. ASSUME NEW s \in Websites, Archive(s) PROVE Book' = Book
  <2>1. \A x \in Slots : Deleted(x)' = Deleted(x)
    BY <1>4, SlotParts DEF Archive, Deleted, TypeOK
  <2>. QED BY <1>4, <2>1, Unmoved DEF Archive
<1>. QED
  BY <1>1, <1>2, <1>3, <1>4, ClaimMoves, MarkRunningMoves, FinishMoves, ReapMoves,
     DeleteMoves
  DEF Next, DispatcherNext, WorkerNext, WorldNext, EndTick, TickDies, Ledger!Next

\* The table is the ledger its migration describes: a slot is claimed once,
\* started at most once, given up on only while it has no outcome, and keeps the
\* outcome its worker reports.
THEOREM ImplementsLedger == Spec => LedgerSpec
<1>1. Init => Book = [x \in Slots |-> "free"]
  BY SlotParts DEF Init, Book, Phase, Deleted
<1>2. Init => Ledger!Init
  BY <1>1 DEF Book, Ledger!Init
<1>3. TypeOK /\ Ownership /\ [Next]_vars => [Ledger!Next]_[x \in Slots |-> Phase(x)]
  BY StepMoves DEF Book
<1>. QED BY <1>2, <1>3, Typing, SoleOwner, PTL DEF Spec, LedgerSpec, Ledger!Spec

-----------------------------------------------------------------------------
(* Giving up on a run: `reap' closes out no run younger than its lease,     *)
(* however stale the `now' of the tick that does it.                        *)

\* Readings of the clock are numbers, and so is every stamp.
LEMMA Readings ==
    ASSUME TypeOK
    PROVE  /\ now \in Nat /\ Lease \in Nat
           /\ \A d \in Dispatchers : at[d] \in Nat
           /\ \A x \in Slots : claimed_at[x] \in Nat /\ started_at[x] \in Nat
<1>1. Moments \cup {0} \subseteq Nat /\ Lease \in Nat
  BY TimeAssumption
<1>2. /\ now \in Moments
      /\ claimed_at \in [Slots -> Moments \cup {0}]
      /\ started_at \in [Slots -> Moments \cup {0}]
      /\ at \in [Dispatchers -> Moments \cup {0}]
  BY DEF TypeOK
<1>. QED BY <1>1, <1>2

\* The stamps of a step that leaves the rows' stamps and the ticks alone.
LEMMA SameStamps ==
    ASSUME TypeOK, TypeOK', Stamps,
           now <= now',
           UNCHANGED <<claimed_at, started_at>>,
           \A d \in Dispatchers : at'[d] \in {0, now, at[d]},
           \A x \in Slots : status'[x] = "absent"
                              => (status[x] = "absent" /\ Deleted(x) = Deleted(x)')
                                 \/ Deleted(x)'
    PROVE  Stamps'
<1>1. now \in Nat /\ now' \in Nat
  BY TimeAssumption DEF TypeOK
<1>2. ASSUME NEW d \in Dispatchers PROVE at'[d] <= now'
  <2>1. at[d] \in Nat /\ at[d] <= now
    BY Readings DEF Stamps
  <2>2. at'[d] = 0 \/ at'[d] = now \/ at'[d] = at[d]
    OBVIOUS
  <2>. QED BY <1>1, <2>1, <2>2
<1>3. ASSUME NEW x \in Slots
      PROVE  /\ claimed_at'[x] <= now' /\ started_at'[x] <= now'
             /\ started_at'[x] # 0 => claimed_at'[x] <= started_at'[x]
             /\ status'[x] = "absent" => started_at'[x] = 0 \/ Deleted(x)'
  <2>1. /\ claimed_at[x] \in Nat /\ started_at[x] \in Nat
        /\ claimed_at[x] <= now /\ started_at[x] <= now
        /\ started_at[x] # 0 => claimed_at[x] <= started_at[x]
        /\ status[x] = "absent" => started_at[x] = 0 \/ Deleted(x)
    BY Readings DEF Stamps
  <2>2. claimed_at'[x] <= now' /\ started_at'[x] <= now'
    BY <1>1, <2>1
  <2>3. started_at'[x] # 0 => claimed_at'[x] <= started_at'[x]
    BY <2>1
  <2>4. status'[x] = "absent" => started_at'[x] = 0 \/ Deleted(x)'
    BY <2>1
  <2>. QED BY <2>2, <2>3, <2>4
<1>. QED BY <1>2, <1>3 DEF Stamps

\* Stamps is kept by every step.
LEMMA StampsStep == ASSUME TypeOK, Ownership, Stamps, [Next]_vars PROVE Stamps'
<1>. USE DEF Goes, Step, Ack, Rest, rowVars, siteVars, workerVars, dispatcherVars
<1>0. TypeOK' /\ now \in Nat
  BY TypeStep, TimeAssumption DEF TypeOK
<1>1. ASSUME NEW d \in Dispatchers,
             \/ BeginTick(d) \/ ReadCandidates(d) \/ Enqueue(d) \/ Rest(d)
             \/ \E j \in Jobs, s \in Websites : AlreadyTaken(d, j, s)
      PROVE  Stamps'
  <2>1. UNCHANGED <<now, claimed_at, started_at, status, life>>
    BY <1>1 DEF BeginTick, ReadCandidates, Enqueue, AlreadyTaken
  <2>2. \A c \in Dispatchers : at'[c] \in {0, now, at[c]}
    BY <1>1 DEF BeginTick, ReadCandidates, Enqueue, AlreadyTaken, TypeOK
  <2>. QED BY <1>0, <2>1, <2>2, SameStamps DEF Deleted
<1>2. ASSUME NEW d \in Dispatchers, Reap(d) PROVE Stamps'
  <2>1. UNCHANGED <<now, claimed_at, started_at, life, at>>
    BY <1>2 DEF Reap
  <2>2. \A x \in Slots : status'[x] = status[x] \/ status'[x] = "failed"
    BY <1>2 DEF Reap
  <2>. QED BY <1>0, <2>1, <2>2, SameStamps DEF Deleted
<1>3. ASSUME NEW d \in Dispatchers, NEW j \in Jobs, NEW s \in Websites, Claim(d, j, s)
      PROVE  Stamps'
  <2>1. PICK x \in Slots : /\ status[x] = "absent"
                           /\ ~Deleted(x)
                           /\ status' = [status EXCEPT ![x] = "claimed"]
                           /\ claimed_at' = [claimed_at EXCEPT ![x] = now]
    <3>1. at[d] \in Moments
      BY <1>3 DEF Claim, TypeOK
    <3>. QED BY <1>3, <3>1, DueIsSlot DEF Claim, Deleted, SiteOf
  <2>2. UNCHANGED <<now, started_at, life, at>>
    BY <1>3 DEF Claim
  <2>3. started_at[x] = 0
    BY <2>1 DEF Stamps
  <2>. QED BY <1>0, <2>1, <2>2, <2>3 DEF Stamps, Deleted, TypeOK
<1>4. ASSUME NEW w \in Workers, MarkRunning(w) PROVE Stamps'
  <2>. DEFINE x == msg[w].run
  <2>1. /\ x \in Slots
        /\ status' = [status EXCEPT ![x] = "running"]
        /\ started_at' = [started_at EXCEPT ![x] = now]
        /\ UNCHANGED <<now, claimed_at, life, at>>
    BY <1>4, HeldRun DEF MarkRunning
  <2>. HIDE DEF x
  <2>. QED BY <1>0, <2>1 DEF Stamps, Deleted, TypeOK
<1>5. ASSUME NEW w \in Workers, Finish(w) PROVE Stamps'
  <2>1. UNCHANGED <<now, claimed_at, started_at, life, at>>
    BY <1>5 DEF Finish
  <2>2. outcome[w] \in Reported
    BY <1>5 DEF Finish, TypeOK
  <2>3. \A x \in Slots : status'[x] = status[x] \/ status'[x] = outcome[w]
    BY <1>5 DEF Finish, TypeOK
  <2>. QED BY <1>0, <2>1, <2>2, <2>3, SameStamps DEF Deleted, Reported
<1>6. ASSUME NEW w \in Workers,
             \/ \E m \in queue : Deliver(w, m)
             \/ Refuse(w) \/ LoadWebsite(w) \/ Work(w) \/ StatementFails(w)
             \/ Retry(w) \/ Redeliver(w) \/ WorkerDies(w)
      PROVE  Stamps'
  <2>1. UNCHANGED <<now, claimed_at, started_at, status, life, at>>
    BY <1>6 DEF Deliver, Refuse, LoadWebsite, Work, StatementFails, Retry, Redeliver,
                WorkerDies
  <2>. QED BY <1>0, <2>1, SameStamps DEF Deleted
<1>7. CASE Later
  <2>1. UNCHANGED <<claimed_at, started_at, status, life, at>> /\ now <= now'
    BY <1>0, <1>7, TimeAssumption DEF Later
  <2>. QED BY <1>0, <2>1, SameStamps DEF Deleted
<1>8. ASSUME \/ \E m \in queue : Discard(m)
             \/ \E s \in Websites, j \in Jobs : FactChanges(s, Needs(j))
             \/ UNCHANGED vars
      PROVE  Stamps'
  <2>1. UNCHANGED <<now, claimed_at, started_at, status, life, at>>
    BY <1>8 DEF Discard, FactChanges, vars
  <2>. QED BY <1>0, <2>1, SameStamps DEF Deleted
<1>9. ASSUME NEW s \in Websites, Archive(s) PROVE Stamps'
  <2>1. UNCHANGED <<now, claimed_at, started_at, status, at>>
    BY <1>9 DEF Archive
  <2>2. \A x \in Slots : Deleted(x)' = Deleted(x)
    BY <1>9, SlotParts DEF Archive, Deleted, TypeOK
  <2>. QED BY <1>0, <2>1, <2>2, SameStamps
<1>10. ASSUME NEW s \in Websites, DeleteAccount(s) PROVE Stamps'
  <2>1. UNCHANGED <<now, claimed_at, started_at, at>>
    BY <1>10 DEF DeleteAccount
  <2>2. \A x \in Slots : IF SiteOf(x) = s THEN Deleted(x)'
                         ELSE Deleted(x)' = Deleted(x) /\ status'[x] = status[x]
    BY <1>10, SlotParts DEF DeleteAccount, Deleted, TypeOK
  <2>. QED BY <1>0, <2>1, <2>2, SameStamps
<1>. QED
  BY <1>1, <1>2, <1>3, <1>4, <1>5, <1>6, <1>7, <1>8, <1>9, <1>10
  DEF Next, DispatcherNext, WorkerNext, WorldNext, EndTick, TickDies

\* Only the reaper fails a run whose worker has not reported, and only one whose
\* stamps are a lease older than the tick's clock, which is never ahead of now.
LEMMA GivenUpLate ==
    ASSUME TypeOK, Ownership, Stamps, [Next]_vars, NEW x \in Slots, GivenUpOn(x)
    PROVE  /\ now - claimed_at[x] > Lease
           /\ started_at[x] # 0 => now - started_at[x] > Lease
<1>. USE DEF Goes, Step, Ack, Rest, rowVars, siteVars, workerVars, dispatcherVars
<1>1. /\ status[x] \in Pending /\ status'[x] = "failed" /\ x \notin settled'
      /\ status'[x] # status[x]
  BY DEF GivenUpOn, Pending
<1>2. ASSUME NEW d \in Dispatchers, Reap(d)
      PROVE  /\ now - claimed_at[x] > Lease
             /\ started_at[x] # 0 => now - started_at[x] > Lease
  <2>1. x \in Overdue(at[d])
    BY <1>1, <1>2 DEF Reap
  <2>2. LastSeen(x) < at[d] - Lease
    BY <2>1 DEF Overdue
  <2>3. /\ now \in Nat /\ Lease \in Nat /\ at[d] \in Nat
        /\ claimed_at[x] \in Nat /\ started_at[x] \in Nat
    BY Readings
  <2>4. at[d] <= now /\ (started_at[x] # 0 => claimed_at[x] <= started_at[x])
    BY DEF Stamps
  <2>5. CASE started_at[x] = 0
    BY <2>2, <2>3, <2>4, <2>5 DEF LastSeen
  <2>6. CASE started_at[x] # 0
    <3>1. started_at[x] < at[d] - Lease
      BY <2>2, <2>6 DEF LastSeen
    <3>. QED BY <2>3, <2>4, <2>6, <3>1
  <2>. QED BY <2>5, <2>6
<1>3. ASSUME NEW d \in Dispatchers, NEW j \in Jobs, NEW s \in Websites, Claim(d, j, s)
      PROVE  FALSE
  BY <1>1, <1>3 DEF Claim, TypeOK
<1>4. ASSUME NEW w \in Workers, MarkRunning(w) PROVE FALSE
  BY <1>1, <1>4 DEF MarkRunning, TypeOK
<1>5. ASSUME NEW w \in Workers, Finish(w) PROVE FALSE
  BY <1>1, <1>5 DEF Finish, TypeOK
<1>6. ASSUME NEW s \in Websites, DeleteAccount(s) PROVE FALSE
  BY <1>1, <1>6 DEF DeleteAccount, TypeOK
<1>7. ~UNCHANGED status
  BY <1>1
<1>. QED
  BY ZenonT(60), <1>2, <1>3, <1>4, <1>5, <1>6, <1>7
  DEF Next, DispatcherNext, WorkerNext, WorldNext, vars, BeginTick, ReadCandidates,
      Enqueue, EndTick, TickDies, AlreadyTaken, Deliver, Refuse, LoadWebsite, Work,
      StatementFails, Retry, Redeliver, WorkerDies, Later, Discard, FactChanges, Archive

\* A run is given up on only when it is older than its lease.
THEOREM LeaseKept == Spec => LeaseRespected
<1>1. Init => Stamps
  BY TimeAssumption DEF Init, Stamps
<1>2. TypeOK /\ Ownership /\ Stamps /\ [Next]_vars
        => [\A x \in Slots : GivenUpOn(x) =>
               /\ now - claimed_at[x] > Lease
               /\ started_at[x] # 0 => now - started_at[x] > Lease]_vars
  BY GivenUpLate
<1>. QED BY <1>1, <1>2, StampsStep, Typing, SoleOwner, PTL DEF Spec, LeaseRespected

=============================================================================
