----------------------------- MODULE CrawlProofs -----------------------------
(***************************************************************************)
(* Proofs about Crawl, for any set of pages and websites, any cap and any  *)
(* size of batch.                                                          *)
(***************************************************************************)
EXTENDS Crawl, FiniteSetTheorems, TLAPS

\* No step takes a variable out of its type, as long as pages are not tried more
\* often than they may be.
LEMMA TypeStep == ASSUME TypeOK, Tried, [Next]_vars PROVE TypeOK'
<1>. USE PagesAssumption, SitesAssumption
<1>. USE DEF TypeOK, Final, Attempts, rowVars, frontier, runnerVars, Goto, Finish, Add,
             Mark, In, Take
<1>1. CASE \/ PassGate \/ Start \/ Proceed \/ EndBatch \/ HitCap \/ PermissionChanges
           \/ UNCHANGED vars
  BY ZenonT(60), <1>1 DEF PassGate, Start, Proceed, EndBatch, HitCap, PermissionChanges, vars
<1>2. CASE ReadSitemaps BY <1>2 DEF ReadSitemaps
<1>3. CASE SeedHome BY <1>3 DEF SeedHome
<1>4. CASE Reclaim BY <1>4 DEF Reclaim
<1>5. CASE Lease BY <1>5 DEF Lease, Tried, Front
<1>6. ASSUME NEW p \in Pages, Skip(p) PROVE TypeOK' BY <1>6 DEF Skip
<1>7. ASSUME NEW p \in Pages, FetchFails(p) PROVE TypeOK'
  BY <1>7 DEF FetchFails, AfterFailure
<1>8. ASSUME NEW p \in Pages, Persist(p) PROVE TypeOK' BY <1>8 DEF Persist
<1>9. CASE Complete BY <1>9 DEF Complete
<1>10. CASE QueueLinks BY <1>10 DEF QueueLinks
<1>11. CASE RunnerDies BY <1>11 DEF RunnerDies
<1>12. CASE ReadRobots BY <1>12 DEF ReadRobots
<1>13. CASE Refused \/ StopAtRobots \/ LeaseNothing \/ FinishAtCap
  BY <1>13 DEF Refused, StopAtRobots, LeaseNothing, FinishAtCap
<1>. QED
  BY <1>1, <1>2, <1>3, <1>4, <1>5, <1>6, <1>7, <1>8, <1>9, <1>10, <1>11, <1>12, <1>13
  DEF Next, RunnerNext

\* What is leased is what the runner has in its hands, whatever it did last.
LEMMA HeldStep == ASSUME TypeOK, Held, [Next]_vars PROVE Held'
<1>. USE DEF TypeOK, Final, rowVars, frontier, runnerVars, Goto, Finish, Add, Mark, In,
             Take, AtCap, Held
<1>1. CASE \/ PassGate \/ Refused \/ Start \/ ReadRobots \/ StopAtRobots \/ Proceed
           \/ LeaseNothing \/ FinishAtCap \/ HitCap \/ EndBatch \/ PermissionChanges
           \/ UNCHANGED vars
  BY <1>1 DEF PassGate, Refused, Start, ReadRobots, StopAtRobots, Proceed,
              LeaseNothing, Drained, FinishAtCap, HitCap, EndBatch, PermissionChanges,
              vars
<1>2. CASE ReadSitemaps BY <1>2 DEF ReadSitemaps
<1>3. CASE SeedHome BY <1>3 DEF SeedHome
<1>4. CASE Reclaim BY <1>4 DEF Reclaim
<1>5. CASE Lease BY <1>5 DEF Lease, Front
<1>6. ASSUME NEW p \in Pages, Skip(p) PROVE Held'
  BY <1>6 DEF Skip
<1>7. ASSUME NEW p \in Pages, FetchFails(p) PROVE Held'
  BY <1>7 DEF FetchFails, AfterFailure
<1>8. ASSUME NEW p \in Pages, Persist(p) PROVE Held'
  BY <1>8 DEF Persist
<1>9. CASE Complete BY <1>9 DEF Complete
<1>10. CASE QueueLinks BY <1>10 DEF QueueLinks
<1>11. CASE RunnerDies BY <1>11 DEF RunnerDies
<1>. QED
  BY <1>1, <1>2, <1>3, <1>4, <1>5, <1>6, <1>7, <1>8, <1>9, <1>10, <1>11
  DEF Next, RunnerNext

\* Storing a page, completing it and queueing its links again keep it stored once.
LEMMA StoredOnceStep == ASSUME TypeOK, Held, StoredOnce, [Next]_vars PROVE StoredOnce'
<1>. USE PagesAssumption
<1>. USE DEF TypeOK, Final, rowVars, frontier, runnerVars, Goto, Finish, Add, Mark, In,
             Take, AtCap, Held, StoredOnce
<1>1. CASE \/ PassGate \/ Refused \/ Start \/ ReadRobots \/ StopAtRobots \/ Proceed
           \/ LeaseNothing \/ FinishAtCap \/ HitCap \/ EndBatch \/ PermissionChanges
           \/ UNCHANGED vars
  BY <1>1 DEF PassGate, Refused, Start, ReadRobots, StopAtRobots, Proceed,
              LeaseNothing, Drained, FinishAtCap, HitCap, EndBatch, PermissionChanges,
              vars
<1>2. CASE ReadSitemaps BY <1>2 DEF ReadSitemaps
<1>3. CASE SeedHome BY <1>3 DEF SeedHome
<1>4. CASE Reclaim BY <1>4 DEF Reclaim
<1>5. CASE Lease BY <1>5 DEF Lease, Front
<1>6. ASSUME NEW p \in Pages, Skip(p) PROVE StoredOnce'
  BY <1>6 DEF Skip
<1>7. ASSUME NEW p \in Pages, FetchFails(p) PROVE StoredOnce'
  BY <1>7 DEF FetchFails, AfterFailure
<1>8. ASSUME NEW p \in Pages, Persist(p) PROVE StoredOnce'
  BY <1>8 DEF Persist
<1>9. CASE Complete BY <1>9 DEF Complete
<1>10. CASE QueueLinks BY <1>10 DEF QueueLinks
<1>11. CASE RunnerDies BY <1>11 DEF RunnerDies
<1>. QED
  BY <1>1, <1>2, <1>3, <1>4, <1>5, <1>6, <1>7, <1>8, <1>9, <1>10, <1>11
  DEF Next, RunnerNext

\* An attempt is counted when a page is leased, and a third failure is the last.
LEMMA TriedStep == ASSUME TypeOK, Held, Tried, [Next]_vars PROVE Tried'
<1>. USE DEF TypeOK, Final, rowVars, frontier, runnerVars, Goto, Finish, Add, Mark, In,
             Take, AtCap, Held, Tried, Attempts
<1>1. CASE \/ PassGate \/ Refused \/ Start \/ ReadRobots \/ StopAtRobots \/ Proceed
           \/ LeaseNothing \/ FinishAtCap \/ HitCap \/ EndBatch \/ PermissionChanges
           \/ UNCHANGED vars
  BY <1>1 DEF PassGate, Refused, Start, ReadRobots, StopAtRobots, Proceed,
              LeaseNothing, Drained, FinishAtCap, HitCap, EndBatch, PermissionChanges,
              vars
<1>2. CASE ReadSitemaps BY <1>2 DEF ReadSitemaps
<1>3. CASE SeedHome BY <1>3 DEF SeedHome
<1>4. CASE Reclaim BY <1>4 DEF Reclaim
<1>5. CASE Lease BY <1>5 DEF Lease, Front
<1>6. ASSUME NEW p \in Pages, Skip(p) PROVE Tried'
  BY <1>6 DEF Skip
<1>7. ASSUME NEW p \in Pages, FetchFails(p) PROVE Tried'
  BY <1>7 DEF FetchFails, AfterFailure
<1>8. ASSUME NEW p \in Pages, Persist(p) PROVE Tried'
  BY <1>8 DEF Persist
<1>9. CASE Complete BY <1>9 DEF Complete
<1>10. CASE QueueLinks BY <1>10 DEF QueueLinks
<1>11. CASE RunnerDies BY <1>11 DEF RunnerDies
<1>. QED
  BY <1>1, <1>2, <1>3, <1>4, <1>5, <1>6, <1>7, <1>8, <1>9, <1>10, <1>11
  DEF Next, RunnerNext

\* A page's links become known before the runner takes another page.
LEMMA FollowedStep == ASSUME TypeOK, Held, Followed, [Next]_vars PROVE Followed'
<1>. USE PagesAssumption, SitesAssumption
<1>. USE DEF TypeOK, Final, rowVars, frontier, runnerVars, Goto, Finish, Add, Mark, In,
             Take, AtCap, Held, Followed
<1>1. CASE \/ PassGate \/ Refused \/ Start \/ ReadRobots \/ StopAtRobots \/ Proceed
           \/ LeaseNothing \/ FinishAtCap \/ HitCap \/ EndBatch \/ PermissionChanges
           \/ UNCHANGED vars
  BY <1>1 DEF PassGate, Refused, Start, ReadRobots, StopAtRobots, Proceed,
              LeaseNothing, Drained, FinishAtCap, HitCap, EndBatch, PermissionChanges,
              vars
<1>2. CASE ReadSitemaps BY <1>2 DEF ReadSitemaps
<1>3. CASE SeedHome BY <1>3 DEF SeedHome
<1>4. CASE Reclaim BY <1>4 DEF Reclaim
<1>5. CASE Lease BY <1>5 DEF Lease, Front
<1>6. ASSUME NEW p \in Pages, Skip(p) PROVE Followed'
  BY <1>6 DEF Skip
<1>7. ASSUME NEW p \in Pages, FetchFails(p) PROVE Followed'
  BY <1>7 DEF FetchFails, AfterFailure
<1>8. ASSUME NEW p \in Pages, Persist(p) PROVE Followed'
  BY <1>8 DEF Persist
<1>9. CASE Complete BY <1>9 DEF Complete
<1>10. CASE QueueLinks BY <1>10 DEF QueueLinks
<1>11. CASE RunnerDies BY <1>11 DEF RunnerDies
<1>. QED
  BY <1>1, <1>2, <1>3, <1>4, <1>5, <1>6, <1>7, <1>8, <1>9, <1>10, <1>11
  DEF Next, RunnerNext

\* Only the end of the run writes the crawl's outcome, and the cap only its reason.
LEMMA ReportsStep == ASSUME TypeOK, Reports, [Next]_vars PROVE Reports'
<1>. USE SitesAssumption
<1>. USE DEF TypeOK, Final, rowVars, frontier, runnerVars, Goto, Finish, Add, Mark, In,
             Take, AtCap, Reports
<1>1. CASE \/ PassGate \/ Refused \/ Start \/ ReadRobots \/ StopAtRobots \/ Proceed
           \/ LeaseNothing \/ FinishAtCap \/ HitCap \/ EndBatch \/ PermissionChanges
           \/ UNCHANGED vars
  BY <1>1 DEF PassGate, Refused, Start, ReadRobots, StopAtRobots, Proceed,
              LeaseNothing, Drained, FinishAtCap, HitCap, EndBatch, PermissionChanges,
              vars
<1>2. CASE ReadSitemaps BY <1>2 DEF ReadSitemaps
<1>3. CASE SeedHome BY <1>3 DEF SeedHome
<1>4. CASE Reclaim BY <1>4 DEF Reclaim
<1>5. CASE Lease BY <1>5 DEF Lease
<1>6. ASSUME NEW p \in Pages, Skip(p) PROVE Reports'
  BY <1>6 DEF Skip
<1>7. ASSUME NEW p \in Pages, FetchFails(p) PROVE Reports'
  BY <1>7 DEF FetchFails
<1>8. ASSUME NEW p \in Pages, Persist(p) PROVE Reports'
  BY <1>8 DEF Persist
<1>9. CASE Complete BY <1>9 DEF Complete
<1>10. CASE QueueLinks BY <1>10 DEF QueueLinks
<1>11. CASE RunnerDies BY <1>11 DEF RunnerDies
<1>. QED
  BY <1>1, <1>2, <1>3, <1>4, <1>5, <1>6, <1>7, <1>8, <1>9, <1>10, <1>11
  DEF Next, RunnerNext

\* A set of pages is finite, and taking one more page counts one more.
LEMMA PagesCount ==
    ASSUME NEW S \in SUBSET Pages
    PROVE  /\ IsFiniteSet(S)
           /\ Cardinality(S) \in Nat
           /\ \A p \in Pages \ S : Cardinality(S \cup {p}) = Cardinality(S) + 1
<1>1. IsFiniteSet(S)
  BY PagesAssumption, FS_Subset
<1>. QED BY <1>1, FS_CardinalityType, FS_AddElement

\* The runner's count is the number of pages done.
LEMMA CountedStep == ASSUME TypeOK, Held, Counted, [Next]_vars PROVE Counted'
<1>. USE SitesAssumption DEF TypeOK, Counted, Goto, AtCap, rowVars, frontier, runnerVars
<1>1. CASE Complete
  <2>1. page \in Pages \ In("done")
    BY <1>1 DEF Complete, Held, In
  <2>2. In("done")' = In("done") \cup {page}
    BY <1>1, <2>1 DEF Complete, Mark, In
  <2>3. Cardinality(In("done")') = fetched + 1
    BY <2>1, <2>2, PagesCount DEF In
  <2>. QED BY <1>1, <2>3 DEF Complete
<1>2. CASE ~Complete
  <2>1. In("done")' = In("done")
    <3>. USE DEF In, Finish, Add, Mark, Take, Final
    <3>1. ASSUME NEW p \in Pages, Skip(p) \/ FetchFails(p) PROVE In("done")' = In("done")
      BY <3>1 DEF Skip, FetchFails, AfterFailure, Held
    <3>2. CASE Reclaim \/ Lease
      BY <3>2 DEF Reclaim, Lease, Front
    <3>3. CASE ReadSitemaps \/ SeedHome \/ QueueLinks
      BY <3>3 DEF ReadSitemaps, SeedHome, QueueLinks
    <3>4. CASE UNCHANGED state
      BY <3>4
    <3>. QED
      BY <1>2, <3>1, <3>2, <3>3, <3>4
      DEF Next, RunnerNext, PassGate, Refused, Start, ReadRobots, StopAtRobots, Proceed,
          LeaseNothing, FinishAtCap, HitCap, EndBatch, Persist, RunnerDies,
          PermissionChanges, vars
  <2>2. UNCHANGED <<fetched, site>> /\ (pc' = "persisted" => pc = "persisted" \/ ~AtCap)
    BY <1>2
    DEF Next, RunnerNext, PassGate, Refused, Start, ReadRobots, ReadSitemaps, SeedHome,
        StopAtRobots, Proceed, Reclaim, Lease, LeaseNothing, FinishAtCap, HitCap, EndBatch,
        Skip, FetchFails, Persist, QueueLinks, RunnerDies, PermissionChanges, vars,
        Finish, Take
  <2>. QED BY <2>1, <2>2
<1>. QED BY <1>1, <1>2

\* The inductive invariant holds of every state of the crawl.
THEOREM RunnerOwnsCrawl == Spec => []Inductive
<1>1. Init => Inductive
  <2>. SUFFICES ASSUME Init PROVE Inductive
    OBVIOUS
  <2>. USE PagesAssumption, SitesAssumption DEF Init
  <2>1. TypeOK
    BY DEF TypeOK, Final, Attempts
  <2>2. Counted
    <3>1. In("done") = {}
      BY DEF In
    <3>. QED BY <2>1, <3>1, FS_EmptySet DEF Counted, TypeOK
  <2>3. Held /\ StoredOnce /\ Tried /\ Followed /\ Reports
    BY DEF Held, StoredOnce, Tried, Followed, Reports, In, Attempts
  <2>. QED BY <2>1, <2>2, <2>3 DEF Inductive
<1>2. Inductive /\ [Next]_vars => Inductive'
  BY TypeStep, HeldStep, StoredOnceStep, TriedStep, FollowedStep, ReportsStep, CountedStep
  DEF Inductive
<1>. QED BY <1>1, <1>2, PTL DEF Spec

\* Every variable keeps its type.
THEOREM Typing == Spec => []TypeOK
BY RunnerOwnsCrawl, PTL DEF Inductive

\* A page is given up on after three attempts, and what is given up on was not
\* stored (fail).
THEOREM TriedThreeTimes == Spec => []ThreeAttempts
<1>1. Inductive => ThreeAttempts
  BY DEF Inductive, ThreeAttempts, Tried, StoredOnce
<1>. QED BY <1>1, RunnerOwnsCrawl, PTL

\* A runner about to lease holds nothing, so what reclaim_expired would take back
\* is never its own.
THEOREM HoldsNothing == Spec => []NothingHeld
<1>1. Inductive => NothingHeld
  BY DEF Inductive, NothingHeld, Held
<1>. QED BY <1>1, RunnerOwnsCrawl, PTL

\* What happened to a page is final.
THEOREM Settled == Spec => PagesSettle
<1>. DEFINE Kept == \A p \in Pages :
                       /\ state[p] \in Final => state'[p] = state[p]
                       /\ state[p] # "unknown" => state'[p] # "unknown"
<1>1. Inductive /\ [Next]_vars => [Kept]_vars
  <2>. SUFFICES ASSUME Inductive, Next PROVE Kept
    BY DEF vars
  <2>. USE PagesAssumption
       DEF Inductive, TypeOK, Held, Final, In, Finish, Add, Mark, Take, Goto, AfterFailure,
           frontier
  <2>1. ASSUME NEW p \in Pages, Skip(p) \/ FetchFails(p) PROVE Kept
    BY <2>1 DEF Skip, FetchFails
  <2>2. CASE Reclaim \/ Lease
    BY <2>2 DEF Reclaim, Lease, Front
  <2>3. CASE ReadSitemaps \/ SeedHome \/ QueueLinks
    BY <2>3 DEF ReadSitemaps, SeedHome, QueueLinks
  <2>4. CASE Complete
    BY <2>4 DEF Complete
  <2>5. CASE UNCHANGED state
    BY <2>5
  <2>. QED
    BY <2>1, <2>2, <2>3, <2>4, <2>5
    DEF Next, RunnerNext, PassGate, Refused, Start, ReadRobots, StopAtRobots, Proceed,
        LeaseNothing, FinishAtCap, HitCap, EndBatch, Persist, RunnerDies, PermissionChanges
<1>. QED BY <1>1, RunnerOwnsCrawl, PTL DEF Spec, PagesSettle

\* Below its cap, a crawl that was not cut short ends whole (run, is_drained).
THEOREM EndedWhole == Spec => []EndsWhole
<1>1. Init => EndsWhole
  BY DEF Init, EndsWhole
<1>2. Inductive /\ EndsWhole /\ [Next]_vars => EndsWhole'
  <2>. SUFFICES ASSUME Inductive, EndsWhole, [Next]_vars PROVE EndsWhole'
    OBVIOUS
  <2>. USE SitesAssumption, PagesAssumption
       DEF Inductive, TypeOK, Held, Followed, Reports, EndsWhole, Whole, In, Final,
           Finish, Goto, AtCap, rowVars, frontier, runnerVars
  <2>1. CASE LeaseNothing
    BY <2>1 DEF LeaseNothing, Drained
  <2>2. CASE FinishAtCap
    BY <2>2 DEF FinishAtCap
  <2>3. CASE Refused \/ StopAtRobots
    BY <2>3 DEF Refused, StopAtRobots
  <2>4. CASE PermissionChanges \/ UNCHANGED vars
    BY <2>4 DEF PermissionChanges, vars
  <2>5. CASE RunnerDies
    BY <2>5 DEF RunnerDies
  <2>6. CASE /\ RunnerNext
             /\ ~(LeaseNothing \/ FinishAtCap \/ Refused \/ StopAtRobots)
    <3>1. crawl' # "completed"
      BY <2>6
      DEF RunnerNext, PassGate, Start, ReadRobots, ReadSitemaps, SeedHome, Proceed, Reclaim,
          Lease, HitCap, EndBatch, Skip, FetchFails, Persist, Complete, QueueLinks
    <3>. QED BY <3>1
  <2>. QED BY <2>1, <2>2, <2>3, <2>4, <2>5, <2>6 DEF Next
<1>. QED BY <1>1, <1>2, RunnerOwnsCrawl, PTL DEF Spec

\* The pages stored are at most the cap, each once (run, Frontier.add).
THEOREM KeptWithinCap == Spec => []WithinCap
<1>. DEFINE Stored == {p \in Pages : snapshots[p] > 0}
<1>1. Inductive /\ pc # "dead" => WithinCap
  <2>. SUFFICES ASSUME Inductive, pc # "dead" PROVE WithinCap
    OBVIOUS
  <2>. USE DEF Inductive, StoredOnce, In
  <2>1. \A p \in Pages : snapshots[p] <= 1
    OBVIOUS
  <2>2. CASE pc = "persisted"
    <3>1. page \in Pages \ In("done")
      BY <2>2, PagesAssumption DEF TypeOK, Held
    <3>2. Stored = In("done") \cup {page}
      BY <2>2, <3>1
    <3>3. Cardinality(Stored) = fetched + 1
      BY <3>1, <3>2, PagesCount DEF Counted
    <3>. QED BY <2>1, <2>2, <3>3, SitesAssumption DEF WithinCap, Counted, AtCap, TypeOK
  <2>3. CASE pc # "persisted"
    <3>1. \A p \in In("leased") : p # page
      BY <2>3, PagesAssumption DEF TypeOK, Held
    <3>2. Stored = In("done")
      BY <3>1
    <3>. QED BY <2>1, <3>2 DEF WithinCap, Counted
  <2>. QED BY <2>2, <2>3
<1>2. Init => pc # "dead"
  BY DEF Init
<1>3. Inductive' /\ WithinCap /\ [Next]_vars => WithinCap'
  <2>. SUFFICES ASSUME Inductive', WithinCap, [Next]_vars PROVE WithinCap'
    OBVIOUS
  <2>1. CASE pc' # "dead"
    <3>1. (Inductive /\ pc # "dead" => WithinCap)'
      BY <1>1, PTL
    <3>. QED BY <2>1, <3>1
  <2>2. CASE pc' = "dead"
    <3>1. UNCHANGED <<snapshots, site>>
      BY <2>2
      DEF Next, RunnerNext, PassGate, Refused, Start, ReadRobots, ReadSitemaps, SeedHome,
          StopAtRobots, Proceed, Reclaim, Lease, LeaseNothing, FinishAtCap, HitCap,
          EndBatch, Skip, FetchFails, Persist, Complete, QueueLinks, RunnerDies,
          PermissionChanges, vars, Goto, Finish
    <3>. QED BY <3>1 DEF WithinCap
  <2>. QED BY <2>1, <2>2
<1>. QED BY <1>1, <1>2, <1>3, RunnerOwnsCrawl, PTL DEF Spec

-----------------------------------------------------------------------------
(* A crawl is a walk.                                                       *)

Course == [p \in Pages |-> Fate(p)]
Over == crawl \in {"completed", "cancelled"}

\* The walk counts as the crawl does.
LEMMA SameCount == ASSUME NEW S PROVE Walk!Cardinality(S) = Cardinality(S)
BY DEF Walk!Cardinality, Cardinality, Walk!IsFiniteSet, IsFiniteSet

\* Of a page one sees whether it waits, and not who holds it.
LEMMA FatesAre ==
    ASSUME TypeOK
    PROVE  /\ Walk!Being("unknown") = In("unknown") /\ Walk!Being("done") = In("done")
           /\ Walk!Being("waiting") = In("pending") \cup In("leased")
           /\ \A p \in Pages : Course[p] = Fate(p)
BY DEF TypeOK, Final, Walk!Being, Course, Fate, In

LEMMA BeginsStep == ASSUME TypeOK, Begins, [Next]_vars PROVE Begins'
<1>. USE SitesAssumption
<1>. USE DEF TypeOK, Begins, Goto, In, Finish, rowVars, frontier, runnerVars
<1>1. CASE ReadRobots BY <1>1 DEF ReadRobots
<1>2. CASE ReadSitemaps
  <2>1. In("done")' = {} BY <1>2 DEF ReadSitemaps, Add
  <2>. QED BY <1>2, <2>1 DEF ReadSitemaps
<1>3. CASE SeedHome
  <2>1. In("done")' = {} BY <1>3 DEF SeedHome, Add
  <2>. QED BY <1>3, <2>1 DEF SeedHome
<1>4. CASE PassGate \/ Start \/ UNCHANGED vars \/ PermissionChanges
  BY <1>4 DEF PassGate, Start, vars, PermissionChanges
<1>5. CASE \/ Refused \/ StopAtRobots \/ Proceed \/ Reclaim \/ Lease \/ LeaseNothing
           \/ FinishAtCap \/ HitCap \/ EndBatch \/ Complete \/ QueueLinks \/ RunnerDies
           \/ \E p \in Pages : Skip(p) \/ FetchFails(p) \/ Persist(p)
  <2>1. /\ pc' \in {"top", "leasing", "batch", "persisted", "linking", "ended", "dead"}
        /\ UNCHANGED <<robots, site>>
    BY <1>5
    DEF Refused, StopAtRobots, Proceed, Reclaim, Lease, LeaseNothing, FinishAtCap, HitCap,
        EndBatch, Complete, QueueLinks, RunnerDies, Skip, FetchFails, Persist
  <2>. QED BY <2>1
<1>. QED BY <1>1, <1>2, <1>3, <1>4, <1>5 DEF Next, RunnerNext

\* While the crawl is not over, what it says is nothing.
LEMMA GoesOn ==
    ASSUME ~ Over, crawl' = crawl \/ crawl' = "running"
    PROVE  Outcome = "none" /\ Outcome' = "none"
BY DEF Over, Outcome

\* Queueing what is not known is finding it.
LEMMA AddFinds ==
    ASSUME TypeOK, NEW S, NEW d, Add(S, d), Outcome = "none", Outcome' = "none", site' = site
    PROVE  Walk!Find(S)
<1>1. \A p \in Pages : Fate(p)' = IF p \in S \cap In("unknown") THEN "waiting" ELSE Fate(p)
  BY DEF Add, Fate, In, TypeOK, Final
<1>2. Course' = [p \in Pages |-> IF p \in S \cap In("unknown") THEN "waiting" ELSE Course[p]]
  BY <1>1 DEF Course
<1>. QED BY <1>2, FatesAre DEF Walk!Find, Course

\* Marking a leased page settles it.
LEMMA MarkSettles ==
    ASSUME TypeOK, NEW p \in Pages, NEW f \in Final, state[p] = "leased", Mark(p, f),
           Outcome = "none", Outcome' = "none", site' = site
    PROVE  Walk!Settle(p, f)
<1>1. Fate(p) = "waiting" BY DEF Fate
<1>2. \A q \in Pages : Fate(q)' = IF q = p THEN f ELSE Fate(q)
  BY DEF Mark, Fate, TypeOK, Final
<1>3. Course' = [Course EXCEPT ![p] = f] BY <1>2 DEF Course
<1>4. Course[p] = "waiting" BY <1>1 DEF Course
<1>. QED BY <1>3, <1>4 DEF Walk!Settle, Course

\* What the runner does to its leases does not show.
LEMMA Unseen ==
    ASSUME TypeOK, ~ Over, crawl' = crawl \/ crawl' = "running", site' = site,
           \A p \in Pages : state'[p] = state[p] \/ {state[p], state'[p]} = {"pending", "leased"}
    PROVE  UNCHANGED <<site, Course, Outcome>>
<1>1. \A p \in Pages : Fate(p)' = Fate(p) BY DEF Fate
<1>2. Course' = Course BY <1>1 DEF Course
<1>. QED BY <1>2, GoesOn

\* A crawl is over when its runner has returned, and only then.
LEMMA ReturnsOnce == ASSUME Inductive, pc # "ended" PROVE ~ Over
BY DEF Inductive, Reports, Over

LEMMA StepWalks ==
    ASSUME Inductive, Begins, [Next]_vars
    PROVE  Walk!Next \/ UNCHANGED <<site, Course, Outcome>>
<1>. USE DEF Goto
<1>0. TypeOK /\ Held BY DEF Inductive
<1>1. CASE PassGate \/ Start \/ ReadRobots \/ Proceed \/ HitCap \/ EndBatch
  <2>1. pc # "ended" /\ state' = state /\ site' = site /\ crawl' \in {crawl, "running"}
    BY <1>1 DEF PassGate, Start, ReadRobots, Proceed, HitCap, EndBatch, frontier, rowVars
  <2>. QED BY <1>0, <2>1, ReturnsOnce, Unseen
<1>2. ASSUME NEW p \in Pages, Persist(p) PROVE UNCHANGED <<site, Course, Outcome>>
  <2>1. pc # "ended" /\ state' = state /\ site' = site /\ crawl' = crawl
    BY <1>2 DEF Persist, frontier, rowVars
  <2>. QED BY <1>0, <2>1, ReturnsOnce, Unseen
<1>3. CASE RunnerDies
  <2>1. pc # "ended" /\ state' = state /\ site' = site /\ crawl' = crawl
    BY <1>3 DEF RunnerDies, frontier, rowVars
  <2>. QED BY <1>0, <2>1, ReturnsOnce, Unseen
<1>4. CASE Reclaim \/ Lease
  <2>1. /\ pc # "ended" /\ site' = site /\ crawl' = crawl
        /\ \A p \in Pages :
              state'[p] = state[p] \/ {state[p], state'[p]} = {"pending", "leased"}
    BY <1>4 DEF Reclaim, Lease, Front, In, rowVars
  <2>. QED BY <1>0, <2>1, ReturnsOnce, Unseen
<1>5. CASE PermissionChanges \/ UNCHANGED vars
  <2>1. UNCHANGED <<site, state, crawl, recorded, fetched>>
    BY <1>5 DEF PermissionChanges, vars, rowVars, frontier, runnerVars
  <2>2. \A p \in Pages : Fate(p)' = Fate(p) BY <2>1 DEF Fate
  <2>. QED BY <2>1, <2>2 DEF Course, Outcome, AtCap
<1>6. CASE ReadSitemaps
  <2>1. PICK S \in SUBSET site.sitemap : Add(S, 0) BY <1>6 DEF ReadSitemaps
  <2>2. pc # "ended" /\ site' = site /\ crawl' = crawl BY <1>6 DEF ReadSitemaps, rowVars
  <2>3. Outcome = "none" /\ Outcome' = "none" BY <2>2, ReturnsOnce, GoesOn
  <2>4. Walk!Find(S) BY <1>0, <2>1, <2>2, <2>3, AddFinds
  <2>5. S \in Walk!Leads BY DEF Walk!Leads
  <2>. QED BY <2>4, <2>5 DEF Walk!Next
<1>7. CASE SeedHome
  <2>1. pc # "ended" /\ site' = site /\ crawl' = crawl /\ Add({Home}, 0)
    BY <1>7 DEF SeedHome, rowVars
  <2>2. Outcome = "none" /\ Outcome' = "none" BY <2>1, ReturnsOnce, GoesOn
  <2>3. Walk!Find({Home}) BY <1>0, <2>1, <2>2, AddFinds
  <2>4. {Home} \in Walk!Leads BY DEF Walk!Leads
  <2>. QED BY <2>3, <2>4 DEF Walk!Next
<1>8. CASE QueueLinks
  <2>1. /\ pc = "linking" /\ site' = site /\ crawl' = crawl
        /\ Add(site.links[page], depth[page] + 1)
    BY <1>8 DEF QueueLinks, rowVars
  <2>2. Outcome = "none" /\ Outcome' = "none" BY <2>1, ReturnsOnce, GoesOn
  <2>3. Walk!Find(site.links[page]) BY <1>0, <2>1, <2>2, AddFinds
  <2>4. page \in In("done") BY <1>0, <2>1, PagesAssumption DEF Held, TypeOK, In
  <2>5. site.links[page] \in Walk!Leads BY <1>0, <2>4, FatesAre DEF Walk!Leads
  <2>. QED BY <2>3, <2>5 DEF Walk!Next
<1>9. CASE Complete
  <2>1. /\ pc = "persisted" /\ site' = site /\ crawl' = crawl /\ Mark(page, "done")
        /\ page \in Pages /\ state[page] = "leased"
    BY <1>0, <1>9, PagesAssumption DEF Complete, rowVars, Held, TypeOK, In
  <2>2. Outcome = "none" /\ Outcome' = "none" BY <2>1, ReturnsOnce, GoesOn
  <2>3. Walk!Settle(page, "done") BY <1>0, <2>1, <2>2, MarkSettles DEF Final
  <2>4. Cardinality(Walk!Being("done")) # site.max_pages
    <3>1. fetched = Cardinality(In("done")) /\ ~ (fetched >= site.max_pages)
      BY <2>1 DEF Inductive, Counted, AtCap
    <3>2. site.max_pages \in Nat BY <1>0, SitesAssumption DEF TypeOK
    <3>3. fetched # site.max_pages BY <3>1, <3>2
    <3>. QED BY <1>0, <3>1, <3>3, FatesAre
  <2>5. Walk!Visit(page) BY <2>3, <2>4, SameCount DEF Walk!Visit
  <2>. QED BY <2>1, <2>5 DEF Walk!Next
<1>10. ASSUME NEW p \in Pages, Skip(p)
       PROVE  Walk!Next
  <2>1. /\ pc = "batch" /\ site' = site /\ crawl' = crawl /\ Mark(p, "skipped")
        /\ state[p] = "leased" /\ p \in site.disallowed
    BY <1>0, <1>10 DEF Skip, Take, rowVars, Held, In, Begins
  <2>2. Outcome = "none" /\ Outcome' = "none" BY <2>1, ReturnsOnce, GoesOn
  <2>3. Walk!Settle(p, "skipped") BY <1>0, <2>1, <2>2, MarkSettles DEF Final
  <2>. QED BY <2>1, <2>3 DEF Walk!Next, Walk!PassOver
<1>11. ASSUME NEW p \in Pages, FetchFails(p)
       PROVE  Walk!Next \/ UNCHANGED <<site, Course, Outcome>>
  <2>1. /\ pc = "batch" /\ site' = site /\ crawl' = crawl
        /\ Mark(p, "pending") \/ Mark(p, "failed")
        /\ state[p] = "leased"
    BY <1>0, <1>11 DEF FetchFails, AfterFailure, Take, rowVars, Held, In
  <2>2. CASE Mark(p, "failed")
    <3>1. Outcome = "none" /\ Outcome' = "none" BY <2>1, ReturnsOnce, GoesOn
    <3>2. Walk!Settle(p, "failed") BY <1>0, <2>1, <2>2, <3>1, MarkSettles DEF Final
    <3>. QED BY <3>2 DEF Walk!Next, Walk!GiveUp
  <2>3. CASE Mark(p, "pending")
    <3>1. \A q \in Pages :
             state'[q] = state[q] \/ {state[q], state'[q]} = {"pending", "leased"}
      BY <1>0, <2>1, <2>3 DEF Mark, TypeOK
    <3>. QED BY <1>0, <2>1, <3>1, ReturnsOnce, Unseen
  <2>. QED BY <2>1, <2>2, <2>3
<1>12. ASSUME NEW status \in {"completed", "cancelled"}, NEW reason, Finish(status, reason),
              pc # "ended", reason \in {"robots", "refused", "page_cap", "nothing"},
              reason = "robots" => In("done") = {} /\ Home \in site.disallowed,
              reason = "refused" => In("unknown") = Pages,
              reason \notin {"robots", "refused"} => AtCap \/ Whole
       PROVE  Walk!Next
  <2>1. Outcome = "none" BY <1>12, ReturnsOnce DEF Over, Outcome
  <2>2. UNCHANGED <<site, state, fetched>> /\ crawl' = status /\ recorded' = reason
    BY <1>12 DEF Finish, frontier
  <2>3. Course' = Course BY <2>2 DEF Course, Fate
  <2>4. Outcome' = IF reason \in {"robots", "refused"} THEN reason
                   ELSE IF AtCap THEN "cut" ELSE "whole"
    BY <2>2 DEF Outcome, AtCap
  <2>5. CASE reason = "robots"
    <3>1. Walk!End("robots") BY <1>0, <1>12, <2>1, <2>2, <2>3, <2>4, <2>5, FatesAre
          DEF Walk!End, Course
    <3>. QED BY <3>1 DEF Walk!Next
  <2>6. CASE reason = "refused"
    <3>1. Walk!End("refused") BY <1>0, <1>12, <2>1, <2>2, <2>3, <2>4, <2>6, FatesAre
          DEF Walk!End, Course
    <3>. QED BY <3>1 DEF Walk!Next
  <2>7. CASE reason \notin {"robots", "refused"} /\ AtCap
    <3>1. fetched = Cardinality(In("done")) /\ fetched = site.max_pages
      BY <1>0, <2>7, SitesAssumption DEF Inductive, Counted, AtCap, TypeOK
    <3>2. Cardinality(Walk!Being("done")) = site.max_pages BY <1>0, <3>1, FatesAre
    <3>3. Outcome' = "cut" BY <2>4, <2>7
    <3>4. Walk!End("cut") BY <2>1, <2>2, <2>3, <3>2, <3>3, SameCount DEF Walk!End, Course
    <3>. QED BY <3>4 DEF Walk!Next
  <2>8. CASE reason \notin {"robots", "refused"} /\ ~ AtCap
    <3>1. Whole BY <1>12, <2>8
    <3>2. Walk!Covered
      <4>1. Home \notin In("unknown") /\ In("pending") \cup In("leased") = {}
        BY <3>1 DEF Whole, In, Final
      <4>2. \A p \in In("done") : site.links[p] \cap In("unknown") = {}
        BY <3>1 DEF Whole, In
      <4>. QED BY <1>0, <4>1, <4>2, FatesAre DEF Walk!Covered
    <3>3. Walk!End("whole") BY <2>1, <2>2, <2>3, <2>4, <2>8, <3>2 DEF Walk!End, Course
    <3>. QED BY <3>3 DEF Walk!Next
  <2>. QED BY <2>5, <2>6, <2>7, <2>8
<1>13. recorded \in {"nothing", "refused", "robots", "page_cap"}
       /\ (pc # "ended" => recorded \in {"nothing", "page_cap"})
  BY <1>0 DEF Inductive, Reports, TypeOK
<1>14. CASE Refused
  <2>1. pc = "gate" /\ Finish("cancelled", "refused") BY <1>14 DEF Refused
  <2>2. In("unknown") = Pages BY <2>1 DEF Begins
  <2>. QED BY <1>12, <2>1, <2>2
<1>15. CASE StopAtRobots
  <2>1. pc = "seeded" /\ Finish("completed", "robots") /\ Home \in robots
    BY <1>15 DEF StopAtRobots, BlocksEverything
  <2>2. In("done") = {} /\ Home \in site.disallowed BY <2>1 DEF Begins
  <2>. QED BY <1>12, <2>1, <2>2
<1>16. CASE LeaseNothing
  <2>1. CASE Drained
    <3>1. pc = "leasing" /\ Finish("completed", recorded) BY <1>16, <2>1 DEF LeaseNothing
    <3>2. Whole
      <4>1. \A p \in Pages : state[p] \in Final \cup {"unknown"}
        BY <1>0, <2>1 DEF Drained, In, TypeOK
      <4>2. state[Home] # "unknown" BY <3>1 DEF Inductive, Followed
      <4>3. page = NoPage BY <1>0, <3>1 DEF TypeOK
      <4>4. \A p \in In("done") : \A q \in site.links[p] : state[q] # "unknown"
        BY <3>1, <4>3, PagesAssumption DEF Inductive, Followed, In
      <4>. QED BY <4>1, <4>2, <4>4 DEF Whole
    <3>. QED BY <1>12, <1>13, <3>1, <3>2
  <2>2. CASE ~ Drained
    <3>1. pc # "ended" /\ state' = state /\ site' = site /\ crawl' = crawl
      BY <1>16, <2>2 DEF LeaseNothing, frontier, rowVars
    <3>. QED BY <1>0, <3>1, ReturnsOnce, Unseen
  <2>. QED BY <2>1, <2>2
<1>17. CASE FinishAtCap
  <2>1. pc = "top" /\ AtCap /\ Finish("completed", recorded) BY <1>17 DEF FinishAtCap
  <2>. QED BY <1>12, <1>13, <2>1
<1>. QED
  BY <1>1, <1>2, <1>3, <1>4, <1>5, <1>6, <1>7, <1>8, <1>9, <1>10, <1>11, <1>14, <1>15, <1>16,
     <1>17
  DEF Next, RunnerNext

\* Whatever fails, is tried again or is cut short, a crawl walks the website along its
\* links, settles each page once, passes over only what robots.txt refuses, and ends whole,
\* at its cap, at robots.txt or before it began (run).
THEOREM ImplementsTraversal == Spec => TraversalSpec
<1>1. Init => Begins
  BY DEF Init, Begins, In
<1>2. Init => Walk!Init
  <2>1. Init => Course = [p \in Pages |-> "unknown"] /\ Outcome = "none"
    BY DEF Init, Course, Fate, Outcome
  <2>. QED BY <2>1 DEF Init, Walk!Init, Course
<1>3. Inductive /\ Begins /\ [Next]_vars => Begins'
  BY BeginsStep DEF Inductive
<1>4. Inductive /\ Begins /\ [Next]_vars => [Walk!Next]_(Walk!walkVars)
  BY StepWalks DEF Walk!walkVars, Course
<1>. QED
  BY <1>1, <1>2, <1>3, <1>4, RunnerOwnsCrawl, PTL DEF Spec, TraversalSpec, Walk!Spec
=============================================================================
