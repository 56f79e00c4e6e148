----------------------------- MODULE SyncProofs -----------------------------
(***************************************************************************)
(* Proofs about SyncHistory, for any number of jobs and requests, any      *)
(* links, any calendar and any figures of the services.                    *)
(***************************************************************************)
EXTENDS SyncHistory, TLAPS

-----------------------------------------------------------------------------
(* The invariant: what a run under way has brought home so far.             *)

\* What was fetched for the run, seen already or not.
Home(p) == got[syncing[p].link] \cup syncing[p].wrote

\* The day is one of those the second dataset is wanted of.
WantsExtra(p, d) ==
    \/ syncing[p].goals
    \/ service = "search_console" /\ d >= syncing[p].day - Figures.recent

\* A run without a failure has everything of the days it is through with.
Brought(p) ==
    \A d \in Window(syncing[p].kind, syncing[p].day) \ syncing[p].left :
        /\ <<"daily", d>> \in Home(p)
        /\ WantsExtra(p, d) => <<"extra", d>> \in Home(p)

\* Before its second request, a chunk has its daily totals.
HalfWay(p) ==
    /\ HasExtra(p, Chunk(syncing[p].left))
    /\ {"daily"} \X Chunk(syncing[p].left) \subseteq Home(p)

Underway(p) ==
    /\ syncing[p].pc # "idle" => syncing[p].link \in Links
    /\ syncing[p].pc = "chunks" =>
          /\ syncing[p].step \in {1, 2}
          /\ syncing[p].kind \in {"backfill", "incremental"}
          /\ syncing[p].goals => service = "analytics"
          /\ syncing[p].step = 2 => HalfWay(p)
          /\ ~syncing[p].bad => Brought(p)

Unmarked == \A l \in Links : ~mark[l] => whole[l] = 0

Inductive == SyncTypeOK /\ Unmarked /\ (\A p \in Syncers : Underway(p)) /\ MarkedIsWhole

-----------------------------------------------------------------------------
(* Types.                                                                   *)

LEMMA FiguresAre ==
    ASSUME SyncTypeOK
    PROVE  /\ Figures.lag \in Nat /\ Figures.restated \in Nat /\ Figures.span \in Nat
           /\ Figures.recent \in Nat /\ Figures.restated <= Figures.span + 1
  BY ServicesAssumption DEF SyncTypeOK, Figures

LEMMA WindowsAreDays ==
    ASSUME SyncTypeOK, NEW kind, NEW day \in Nat
    PROVE  Window(kind, day) \subseteq Int
  BY FiguresAre DEF Window, BackfillWindow, IncrementalWindow, LatestAvailable

\* What a request stores are facts.
LEMMA RowsAreFacts ==
    ASSUME SyncTypeOK, NEW p \in Syncers, syncing[p].step \in {1, 2}
    PROVE  Rows(p, Chunk(syncing[p].left)) \subseteq Facts
<1>1. Chunk(syncing[p].left) \subseteq Int
  BY DEF SyncTypeOK, SyncCalls, Chunk
<1>2. Datasets[syncing[p].step] \in {"daily", "extra"}
  BY DEF Datasets
<1>. QED BY <1>1, <1>2 DEF Rows, Facts

\* What was marked backfilled asked for facts.
LEMMA WantedAreFacts ==
    ASSUME SyncTypeOK, NEW kind, NEW day \in Nat, NEW goals
    PROVE  Wanted(kind, day, goals) \subseteq Facts
  BY WindowsAreDays DEF Wanted, Facts

\* A call that goes on to other chunks is a call still ...
LEMMA CallsGoOn ==
    ASSUME NEW r \in SyncCalls, NEW left \in SUBSET Int, NEW step \in 0..2, NEW bad \in BOOLEAN
    PROVE  [r EXCEPT !.left = left, !.step = step, !.bad = bad] \in SyncCalls
<1>. DEFINE a == [r EXCEPT !.left = left]
            b == [a EXCEPT !.step = step]
<1>1. a \in SyncCalls
  BY DEF SyncCalls
<1>. HIDE DEF a
<1>2. b \in SyncCalls
  BY <1>1 DEF SyncCalls
<1>. HIDE DEF b
<1>3. [b EXCEPT !.bad = bad] \in SyncCalls
  BY <1>2 DEF SyncCalls
<1>4. [r EXCEPT !.left = left, !.step = step, !.bad = bad] = [b EXCEPT !.bad = bad]
  BY DEF a, b
<1>. QED BY <1>3, <1>4

\* ... and so is one that takes up its window.
LEMMA CallsStart ==
    ASSUME NEW r \in SyncCalls, NEW kind \in Kinds, NEW day \in Nat, NEW goals \in BOOLEAN,
           NEW left \in SUBSET Int
    PROVE  [r EXCEPT !.pc = "chunks", !.kind = kind, !.day = day, !.goals = goals,
                     !.left = left, !.step = 1] \in SyncCalls
<1>. DEFINE a == [r EXCEPT !.pc = "chunks"]
            b == [a EXCEPT !.kind = kind]
            c == [b EXCEPT !.day = day]
            d == [c EXCEPT !.goals = goals]
            e == [d EXCEPT !.left = left]
<1>1. a \in SyncCalls
  BY DEF SyncCalls
<1>. HIDE DEF a
<1>2. b \in SyncCalls
  BY <1>1 DEF SyncCalls
<1>. HIDE DEF b
<1>3. c \in SyncCalls
  BY <1>2 DEF SyncCalls
<1>. HIDE DEF c
<1>4. d \in SyncCalls
  BY <1>3 DEF SyncCalls
<1>. HIDE DEF d
<1>5. e \in SyncCalls
  BY <1>4 DEF SyncCalls
<1>. HIDE DEF e
<1>6. [e EXCEPT !.step = 1] \in SyncCalls
  BY <1>5 DEF SyncCalls
<1>7. [r EXCEPT !.pc = "chunks", !.kind = kind, !.day = day, !.goals = goals,
                !.left = left, !.step = 1] = [e EXCEPT !.step = 1]
  BY DEF a, b, c, d, e
<1>. QED BY <1>6, <1>7

LEMMA AdvanceIsCall ==
    ASSUME SyncTypeOK, NEW p \in Syncers, NEW chunk, NEW failed \in BOOLEAN
    PROVE  Advance(p, chunk, failed) \in SyncCalls
<1>1. syncing[p] \in SyncCalls
  BY DEF SyncTypeOK
<1>2. syncing[p].left \ chunk \in SUBSET Int /\ syncing[p].bad \in BOOLEAN
  BY <1>1 DEF SyncCalls
<1>. DEFINE left == syncing[p].left \ chunk
            bad == syncing[p].bad \/ failed
<1>3. Advance(p, chunk, failed) = [syncing[p] EXCEPT !.left = left, !.step = 1, !.bad = bad]
  BY DEF Advance
<1>4. left \in SUBSET Int /\ bad \in BOOLEAN
  BY <1>2
<1>. HIDE DEF left, bad
<1>5. [syncing[p] EXCEPT !.left = left, !.step = 1, !.bad = bad] \in SyncCalls
  BY <1>1, <1>4, 1 \in 0..2, CallsGoOn
<1>. QED BY <1>3, <1>5

LEMMA TypeStep ==
    ASSUME SyncTypeOK, \A p \in Syncers : Underway(p), [SyncNext]_syncVars
    PROVE  SyncTypeOK'
<1>. USE SyncersAssumption, DaysAssumption DEF SyncTypeOK, syncRows
<1>0. Idle \in SyncCalls
  BY DEF Idle, SyncCalls, Kinds
<1>1. ASSUME NEW p \in Syncers, ReadLink(p) PROVE SyncTypeOK'
  <2>. DEFINE begun == [Idle EXCEPT !.pc = "token"]
  <2>0. link \in 0..SyncLinks
    BY DEF Links
  <2>1. begun \in SyncCalls
    BY <1>0 DEF SyncCalls
  <2>. HIDE DEF begun
  <2>2. [begun EXCEPT !.link = link] \in SyncCalls
    BY <2>0, <2>1 DEF SyncCalls
  <2>3. [Idle EXCEPT !.pc = "token", !.link = link] = [begun EXCEPT !.link = link]
    BY DEF begun
  <2>. QED BY <1>1, <2>2, <2>3 DEF ReadLink
<1>2. ASSUME NEW p \in Syncers, StartRun(p) PROVE SyncTypeOK'
  <2>. DEFINE kind == IF mark[link] THEN "incremental" ELSE "backfill"
  <2>1. today \in Nat
    OBVIOUS
  <2>2. Window(kind, today) \in SUBSET Int
    BY <2>1, WindowsAreDays
  <2>3. PICK g \in BOOLEAN :
          syncing' = [syncing EXCEPT ![p] =
              [@ EXCEPT !.pc = "chunks", !.kind = kind, !.day = today, !.goals = g,
                        !.left = Window(kind, today), !.step = 1]]
    BY <1>2 DEF StartRun, GoalsMapped
  <2>4. syncing[p] \in SyncCalls
    OBVIOUS
  <2>. HIDE DEF kind
  <2>5. kind \in Kinds
    BY DEF kind, Kinds
  <2>6. [syncing[p] EXCEPT !.pc = "chunks", !.kind = kind, !.day = today, !.goals = g,
                           !.left = Window(kind, today), !.step = 1] \in SyncCalls
    BY <2>1, <2>2, <2>4, <2>5, CallsStart
  <2>. QED BY <1>2, <2>3, <2>6 DEF StartRun
<1>3. ASSUME NEW p \in Syncers, Fetch(p) PROVE SyncTypeOK'
  <2>. DEFINE chunk == Chunk(syncing[p].left)
              facts == Rows(p, chunk)
              next  == IF syncing[p].step = LastStep(p, chunk) THEN Advance(p, chunk, FALSE)
                       ELSE [syncing[p] EXCEPT !.step = @ + 1]
  <2>1. syncing[p].step \in {1, 2} /\ syncing[p].link \in Links /\ syncing[p] \in SyncCalls
    BY <1>3 DEF Fetch, Underway
  <2>2. facts \subseteq Facts
    BY <2>1, RowsAreFacts
  <2>3. got' = IF p \in SyncJobs THEN [got EXCEPT ![syncing[p].link] = @ \cup facts] ELSE got
    BY <1>3, <2>1 DEF Fetch, Store
  <2>4. syncing[p].step = LastStep(p, chunk) \/ syncing[p].step = 1
    BY <1>3, <2>1 DEF Fetch, Underway, HalfWay, LastStep
  <2>5. next \in SyncCalls
    <3>1. [syncing[p] EXCEPT !.step = 2] \in SyncCalls
      BY <2>1 DEF SyncCalls
    <3>2. CASE syncing[p].step = LastStep(p, chunk)
      <4>1. Advance(p, chunk, FALSE) \in SyncCalls
        BY AdvanceIsCall
      <4>. QED BY <3>2, <4>1
    <3>3. CASE syncing[p].step # LastStep(p, chunk)
      <4>1. next = [syncing[p] EXCEPT !.step = 2]
        BY <2>4, <3>3
      <4>. QED BY <3>1, <4>1
    <3>. QED BY <3>2, <3>3
  <2>6. syncing' = [syncing EXCEPT ![p] =
                       IF p \in SyncJobs THEN next ELSE [next EXCEPT !.wrote = @ \cup facts]]
    BY <1>3 DEF Fetch
  <2>. HIDE DEF next, facts
  <2>7. [next EXCEPT !.wrote = @ \cup facts] \in SyncCalls
    BY <2>2, <2>5 DEF SyncCalls
  <2>8. syncing' \in [Syncers -> SyncCalls]
    BY <2>5, <2>6, <2>7
  <2>9. got' \in [Links -> SUBSET Facts]
    BY <2>1, <2>2, <2>3
  <2>. QED BY <1>3, <2>8, <2>9 DEF Fetch
<1>4. ASSUME NEW p \in Syncers, ChunkFails(p) \/ QuotaExceeded(p) PROVE SyncTypeOK'
  <2>1. \A chunk : Advance(p, chunk, TRUE) \in SyncCalls
    BY AdvanceIsCall
  <2>2. PICK chunk : syncing' = [syncing EXCEPT ![p] = Advance(p, chunk, TRUE)]
    BY <1>4 DEF ChunkFails, QuotaExceeded
  <2>3. Advance(p, chunk, TRUE) \in SyncCalls
    BY <2>1
  <2>4. syncing' \in [Syncers -> SyncCalls]
    BY <2>2, <2>3
  <2>. QED BY <1>4, <2>4 DEF ChunkFails, QuotaExceeded
<1>6. ASSUME NEW p \in Syncers, FinishRun(p) PROVE SyncTypeOK'
  <2>. DEFINE run == syncing[p]
  <2>1. run.link \in Links /\ run.day \in Nat /\ run.wrote \subseteq Facts
        /\ run.kind \in Kinds /\ run.bad \in BOOLEAN
    BY <1>6 DEF FinishRun, Underway, SyncCalls
  <2>2. Wanted("backfill", run.day, run.goals) \in SUBSET Facts
    BY <2>1, WantedAreFacts
  <2>3. Complete(run) \in BOOLEAN
    BY DEF Complete
  <2>4. got' \in [Links -> SUBSET Facts]
    BY <1>6, <2>1 DEF FinishRun
  <2>5. promised' \in [Links -> SUBSET Facts]
    BY <1>6, <2>1, <2>2 DEF FinishRun
  <2>6. mark' \in [Links -> BOOLEAN]
    BY <1>6, <2>1, <2>3 DEF FinishRun
  <2>7. late' \in [Links -> BOOLEAN]
    BY <1>6, <2>1 DEF FinishRun
  <2>8. whole' \in [Links -> Nat]
    BY <1>6, <2>1 DEF FinishRun, Later
  <2>. QED BY <1>0, <1>6, <2>4, <2>5, <2>6, <2>7, <2>8 DEF FinishRun
<1>7. ASSUME NEW p \in Syncers, SyncerDies(p) PROVE SyncTypeOK'
  BY <1>0, <1>7 DEF SyncerDies
<1>8. CASE LinkProperty \/ DayEnds \/ UNCHANGED syncVars
  BY SMTT(30), <1>8 DEF LinkProperty, DayEnds, syncVars, Links
<1>. QED BY <1>1, <1>2, <1>3, <1>4, <1>6, <1>7, <1>8 DEF SyncNext

-----------------------------------------------------------------------------
(* Runs under way.                                                          *)

\* Nothing that was fetched is ever taken away.
LEMMA GotGrows ==
    ASSUME SyncTypeOK, \A p \in Syncers : Underway(p), [SyncNext]_syncVars
    PROVE  \A l \in Links : got[l] \subseteq got'[l]
<1>1. ASSUME NEW p \in Syncers, Fetch(p) PROVE \A l \in Links : got[l] \subseteq got'[l]
  BY <1>1 DEF Fetch, Store, SyncTypeOK
<1>2. ASSUME NEW p \in Syncers, FinishRun(p) PROVE \A l \in Links : got[l] \subseteq got'[l]
  BY <1>2 DEF FinishRun, SyncTypeOK
<1>. QED
  BY <1>1, <1>2 DEF SyncNext, ReadLink, StartRun, ChunkFails, QuotaExceeded, SyncerDies,
                    LinkProperty, DayEnds, syncRows, syncVars

\* What the others do takes nothing from a run.
LEMMA StillUnderway ==
    ASSUME SyncTypeOK, NEW q \in Syncers, Underway(q),
           service' = service, syncing'[q] = syncing[q],
           \A l \in Links : got[l] \subseteq got'[l]
    PROVE  Underway(q)'
<1>1. CASE syncing[q].pc = "idle"
  BY <1>1 DEF Underway
<1>2. CASE syncing[q].pc # "idle"
  <2>1. Home(q) \subseteq Home(q)'
    BY <1>2 DEF Home, Underway
  <2>2. HalfWay(q) => HalfWay(q)'
    BY <2>1 DEF HalfWay, HasExtra, Chunk, Figures
  <2>3. Brought(q) => Brought(q)'
    BY <2>1 DEF Brought, WantsExtra, Window, BackfillWindow, IncrementalWindow,
                LatestAvailable, Figures
  <2>. QED BY <1>2, <2>2, <2>3 DEF Underway
<1>. QED BY <1>1, <1>2

\* What a fetch does to its run.
LEMMA Fetches ==
    ASSUME SyncTypeOK, NEW p \in Syncers, Underway(p), Fetch(p),
           NEW last \in BOOLEAN,
           last <=> syncing[p].step = LastStep(p, Chunk(syncing[p].left))
    PROVE  /\ syncing'[p].pc = "chunks" /\ syncing'[p].link = syncing[p].link
           /\ syncing'[p].kind = syncing[p].kind /\ syncing'[p].day = syncing[p].day
           /\ syncing'[p].goals = syncing[p].goals /\ (syncing'[p].bad => syncing[p].bad)
           /\ syncing[p].bad => syncing'[p].bad
           /\ syncing'[p].left = IF last THEN syncing[p].left \ Chunk(syncing[p].left)
                                 ELSE syncing[p].left
           /\ syncing'[p].step = IF last THEN 1 ELSE 2
           /\ Home(p)' = Home(p) \cup Rows(p, Chunk(syncing[p].left))
<1>. DEFINE chunk == Chunk(syncing[p].left)
            facts == Rows(p, chunk)
<1>1. syncing[p] \in SyncCalls /\ syncing[p].link \in Links /\ syncing[p].pc = "chunks"
      /\ syncing[p].step \in {1, 2}
  BY DEF SyncTypeOK, Fetch, Underway
<1>2. ~last => syncing[p].step = 1
  BY <1>1 DEF Underway, HalfWay, LastStep
<1>. DEFINE next == IF syncing[p].step = LastStep(p, chunk) THEN Advance(p, chunk, FALSE)
                    ELSE [syncing[p] EXCEPT !.step = @ + 1]
<1>3. /\ next.pc = "chunks" /\ next.link = syncing[p].link
      /\ next.kind = syncing[p].kind /\ next.day = syncing[p].day
      /\ next.goals = syncing[p].goals /\ next.wrote = syncing[p].wrote
      /\ next.left = IF last THEN syncing[p].left \ chunk ELSE syncing[p].left
      /\ next.step = IF last THEN 1 ELSE 2
  <2>1. CASE last
    BY <1>1, <2>1 DEF Advance, SyncCalls
  <2>2. CASE ~last
    <3>0. syncing[p].step # LastStep(p, chunk) /\ syncing[p].step + 1 = 2
      BY <1>2, <2>2
    <3>1. next = [syncing[p] EXCEPT !.step = 2]
      BY <3>0
    <3>. HIDE DEF next
    <3>. QED BY <1>1, <2>2, <3>1 DEF SyncCalls
  <2>. QED BY <2>1, <2>2
<1>4. (next.bad => syncing[p].bad) /\ (syncing[p].bad => next.bad)
  BY <1>1 DEF Advance, SyncCalls
<1>5. DOMAIN next = {"pc", "link", "kind", "day", "goals", "left", "step", "bad", "wrote"}
  BY <1>1 DEF Advance, SyncCalls
<1>6. syncing'[p] = IF p \in SyncJobs THEN next ELSE [next EXCEPT !.wrote = @ \cup facts]
  BY DEF Fetch, SyncTypeOK
<1>7. got'[syncing[p].link] = IF p \in SyncJobs THEN got[syncing[p].link] \cup facts
                              ELSE got[syncing[p].link]
  BY <1>1 DEF Fetch, Store, SyncTypeOK
<1>. HIDE DEF next, facts, chunk
<1>8. CASE p \in SyncJobs
  BY <1>3, <1>4, <1>6, <1>7, <1>8 DEF Home, facts, chunk
<1>9. CASE p \notin SyncJobs
  BY <1>3, <1>4, <1>5, <1>6, <1>7, <1>9 DEF Home, facts, chunk
<1>. QED BY <1>8, <1>9

\* A run that fetches goes on with all it had, and with what it fetched.
LEMMA FetchingOn ==
    ASSUME SyncTypeOK, NEW p \in Syncers, Underway(p), Fetch(p)
    PROVE  Underway(p)'
<1>. DEFINE chunk == Chunk(syncing[p].left)
            last  == syncing[p].step = LastStep(p, chunk)
<1>1. /\ syncing'[p].pc = "chunks" /\ syncing'[p].link = syncing[p].link
      /\ syncing'[p].kind = syncing[p].kind /\ syncing'[p].day = syncing[p].day
      /\ syncing'[p].goals = syncing[p].goals /\ (syncing'[p].bad => syncing[p].bad)
      /\ syncing[p].bad => syncing'[p].bad
      /\ syncing'[p].left = IF last THEN syncing[p].left \ chunk ELSE syncing[p].left
      /\ syncing'[p].step = IF last THEN 1 ELSE 2
      /\ Home(p)' = Home(p) \cup Rows(p, chunk)
  BY Fetches
<1>2. syncing[p].link \in Links /\ syncing[p].step \in {1, 2} /\ service' = service
      /\ syncing[p].kind \in {"backfill", "incremental"}
      /\ (syncing[p].goals => service = "analytics")
  BY DEF Fetch, Underway
<1>3. syncing[p].step = 1 => {"daily"} \X chunk \subseteq Rows(p, chunk)
  BY DEF Rows, Datasets
<1>4. syncing[p].step = 2 => {"daily"} \X chunk \subseteq Home(p) /\ HasExtra(p, chunk)
  BY DEF Fetch, Underway, HalfWay
<1>5. syncing[p].step = 2 => {"extra"} \X chunk \subseteq Rows(p, chunk)
  BY DEF Rows, Datasets
<1>6. {"daily"} \X chunk \subseteq Home(p)'
  BY <1>1, <1>2, <1>3, <1>4
<1>7. ASSUME ~last PROVE HalfWay(p)'
  <2>1. syncing[p].step = 1 /\ HasExtra(p, chunk)
    BY <1>2, <1>4, <1>7 DEF LastStep
  <2>2. HasExtra(p, chunk)'
    BY <1>1, <1>2, <1>7, <2>1 DEF HasExtra, Figures
  <2>. QED BY <1>1, <1>6, <1>7, <2>2 DEF HalfWay
<1>8. ASSUME Brought(p) PROVE Brought(p)'
  <2>. SUFFICES ASSUME NEW d \in Window(syncing[p].kind, syncing[p].day) \ syncing'[p].left
                PROVE  /\ <<"daily", d>> \in Home(p)'
                       /\ WantsExtra(p, d) => <<"extra", d>> \in Home(p)'
    BY <1>1, <1>2 DEF Brought, WantsExtra, Window, BackfillWindow, IncrementalWindow,
                      LatestAvailable, Figures
  <2>1. CASE d \notin syncing[p].left
    BY <1>1, <1>8, <2>1 DEF Brought
  <2>2. CASE d \in syncing[p].left
    <3>1. d \in chunk /\ last
      BY <1>1, <2>2
    <3>2. WantsExtra(p, d) => HasExtra(p, chunk)
      BY <1>2, <3>1 DEF WantsExtra, HasExtra
    <3>3. HasExtra(p, chunk) => syncing[p].step = 2
      BY <3>1 DEF LastStep
    <3>. QED BY <1>1, <1>5, <1>6, <3>1, <3>2, <3>3
  <2>. QED BY <2>1, <2>2
<1>9. syncing'[p].step = 2 => HalfWay(p)'
  BY <1>1, <1>7
<1>10. ~syncing'[p].bad => Brought(p)'
  BY <1>1, <1>8 DEF Fetch, Underway
<1>11. syncing'[p].step \in {1, 2}
  BY <1>1
<1>. QED
  <2>. HIDE DEF chunk, last
  <2>. QED BY <1>1, <1>2, <1>9, <1>10, <1>11 DEF Underway

LEMMA UnderwayStep ==
    ASSUME SyncTypeOK, \A p \in Syncers : Underway(p), [SyncNext]_syncVars
    PROVE  \A p \in Syncers : Underway(p)'
<1>1. \A l \in Links : got[l] \subseteq got'[l]
  BY GotGrows
<1>2. service' = service
  BY DEF SyncNext, ReadLink, StartRun, Fetch, ChunkFails, QuotaExceeded, FinishRun,
         SyncerDies, LinkProperty, DayEnds, syncVars
<1>3. \A q \in Syncers : syncing'[q] = syncing[q] => Underway(q)'
  BY <1>1, <1>2, StillUnderway
<1>. SUFFICES ASSUME NEW p \in Syncers,
                     ReadLink(p) \/ StartRun(p) \/ Fetch(p) \/ ChunkFails(p)
                     \/ QuotaExceeded(p) \/ FinishRun(p) \/ SyncerDies(p)
              PROVE  Underway(p)'
  <2>1. \A p \in Syncers :
           ReadLink(p) \/ StartRun(p) \/ Fetch(p) \/ ChunkFails(p) \/ QuotaExceeded(p)
           \/ FinishRun(p) \/ SyncerDies(p)
             => \A q \in Syncers \ {p} : syncing'[q] = syncing[q]
    BY ZenonT(60) DEF ReadLink, StartRun, Fetch, ChunkFails, QuotaExceeded, FinishRun, SyncerDies,
           SyncTypeOK
  <2>2. LinkProperty \/ DayEnds \/ UNCHANGED syncVars => syncing' = syncing
    BY DEF LinkProperty, DayEnds, syncVars
  <2>. QED BY <1>3, <2>1, <2>2 DEF SyncNext
<1>4. syncing[p] \in SyncCalls
  BY DEF SyncTypeOK
<1>5. CASE ReadLink(p)
  BY <1>5 DEF ReadLink, Underway, SyncTypeOK, Idle
<1>6. CASE StartRun(p)
  <2>. DEFINE kind == IF mark[link] THEN "incremental" ELSE "backfill"
  <2>1. PICK g \in GoalsMapped :
          syncing' = [syncing EXCEPT ![p] =
              [@ EXCEPT !.pc = "chunks", !.kind = kind, !.day = today, !.goals = g,
                        !.left = Window(kind, today), !.step = 1]]
    BY <1>6 DEF StartRun
  <2>2. syncing'[p].kind = kind /\ syncing'[p].goals = g /\ syncing'[p].step = 1
        /\ syncing'[p].left = Window(kind, today) /\ syncing'[p].day = today
        /\ syncing'[p].link = syncing[p].link
    BY <1>4, <2>1 DEF SyncTypeOK, SyncCalls
  <2>3. kind \in {"backfill", "incremental"} /\ (g => service = "analytics")
    BY <2>1 DEF GoalsMapped
  <2>4. Window(kind, today)' = Window(kind, today)
    BY <1>2, <1>6
    DEF StartRun, syncRows, Window, BackfillWindow, IncrementalWindow, LatestAvailable, Figures
  <2>5. Brought(p)'
    BY <1>2, <2>2 DEF Brought, Window, BackfillWindow, IncrementalWindow, LatestAvailable, Figures
  <2>6. syncing[p].link \in Links
    BY <1>6 DEF StartRun, Underway
  <2>. HIDE DEF kind
  <2>. QED BY <1>2, <2>2, <2>3, <2>5, <2>6 DEF Underway
<1>7. CASE Fetch(p)
  BY <1>7, FetchingOn
<1>8. CASE ChunkFails(p) \/ QuotaExceeded(p)
  <2>1. PICK chunk : syncing' = [syncing EXCEPT ![p] = Advance(p, chunk, TRUE)]
    BY <1>8 DEF ChunkFails, QuotaExceeded
  <2>2. syncing'[p].link = syncing[p].link /\ syncing'[p].step = 1 /\ syncing'[p].bad
        /\ syncing'[p].kind = syncing[p].kind /\ syncing'[p].goals = syncing[p].goals
    BY <1>4, <2>1 DEF Advance, SyncTypeOK, SyncCalls
  <2>3. syncing[p].pc = "chunks"
    BY <1>8 DEF ChunkFails, QuotaExceeded
  <2>. QED BY <1>2, <2>2, <2>3 DEF Underway
<1>9. CASE FinishRun(p) \/ SyncerDies(p)
  BY <1>9 DEF FinishRun, SyncerDies, Underway, SyncTypeOK, Idle
<1>. QED BY <1>5, <1>6, <1>7, <1>8, <1>9

-----------------------------------------------------------------------------
(* What a mark promises.                                                    *)

\* A run without a failure that is through has brought home all it wanted.
LEMMA WholeRun ==
    ASSUME SyncTypeOK, NEW p \in Syncers, Underway(p), syncing[p].pc = "chunks",
           syncing[p].left = {}, ~syncing[p].bad
    PROVE  Wanted(syncing[p].kind, syncing[p].day, syncing[p].goals) \subseteq Home(p)
<1>. DEFINE days == Window(syncing[p].kind, syncing[p].day)
<1>1. \A d \in days : <<"daily", d>> \in Home(p)
  BY DEF Underway, Brought
<1>2. \A d \in days : WantsExtra(p, d) => <<"extra", d>> \in Home(p)
  BY DEF Underway, Brought
<1>3. Wanted(syncing[p].kind, syncing[p].day, syncing[p].goals)
        = ({"daily"} \X days) \cup ({"extra"} \X {d \in days : WantsExtra(p, d)})
  BY DEF Wanted, WantsExtra
<1>. QED BY <1>1, <1>2, <1>3

\* The end of a run is the only step that touches what was promised.
LEMMA MarksStep ==
    ASSUME SyncTypeOK, \A p \in Syncers : Underway(p), Unmarked, MarkedIsWhole,
           [SyncNext]_syncVars
    PROVE  MarkedIsWhole' /\ Unmarked'
<1>1. \A l \in Links : got[l] \subseteq got'[l]
  BY GotGrows
<1>2. CASE UNCHANGED <<mark, promised, whole>>
  BY <1>1, <1>2 DEF MarkedIsWhole, Unmarked
<1>3. ASSUME NEW p \in Syncers, FinishRun(p) PROVE MarkedIsWhole' /\ Unmarked'
  <2>. DEFINE run == syncing[p]
  <2>1. run.link \in Links
    BY <1>3 DEF FinishRun, Underway
  <2>2. Complete(run) => Wanted("backfill", run.day, run.goals) \subseteq got'[run.link]
    <3>1. Home(p) = got'[run.link]
      BY <1>3, <2>1 DEF FinishRun, Home, SyncTypeOK
    <3>. QED BY <1>3, <3>1, WholeRun DEF Complete, FinishRun
  <2>3. ASSUME NEW l \in Links, mark'[l] PROVE promised'[l] \subseteq got'[l]
    <3>1. CASE l = run.link /\ Complete(run) /\ ~mark[l]
      BY <1>3, <2>1, <2>2, <3>1 DEF FinishRun, SyncTypeOK
    <3>2. CASE l # run.link \/ ~Complete(run) \/ mark[l]
      <4>1. mark[l] /\ promised'[l] = promised[l]
        BY <1>3, <2>1, <2>3, <3>2 DEF FinishRun, SyncTypeOK
      <4>. QED BY <1>1, <4>1 DEF MarkedIsWhole
    <3>. QED BY <3>1, <3>2
  <2>4. ASSUME NEW l \in Links, ~mark'[l] PROVE whole'[l] = 0
    BY <1>3, <2>1, <2>4 DEF FinishRun, SyncTypeOK, Unmarked
  <2>. QED BY <2>3, <2>4 DEF MarkedIsWhole, Unmarked
<1>. QED
  BY <1>2, <1>3 DEF SyncNext, ReadLink, StartRun, Fetch, ChunkFails, QuotaExceeded,
                    SyncerDies, LinkProperty, DayEnds, syncRows, syncVars

LEMMA Start == SyncInit => Inductive /\ NoHole
<1>. SUFFICES ASSUME SyncInit PROVE Inductive /\ NoHole
  OBVIOUS
<1>1. SyncTypeOK
  BY DaysAssumption DEF SyncInit, SyncTypeOK, SyncCalls, Idle, Kinds, Links
<1>2. Unmarked /\ MarkedIsWhole /\ NoHole
  BY DEF SyncInit, Unmarked, MarkedIsWhole, NoHole
<1>3. \A p \in Syncers : Underway(p)
  BY DEF SyncInit, Underway, Idle
<1>. QED BY <1>1, <1>2, <1>3 DEF Inductive

\* Every run has brought home what it is through with, and every mark is whole.
THEOREM RunsBringHome == SyncSpec => []Inductive
<1>1. Inductive /\ [SyncNext]_syncVars => Inductive'
  BY TypeStep, UnderwayStep, MarksStep DEF Inductive
<1>. QED BY <1>1, Start, PTL DEF SyncSpec

\* A website's history keeps to its types.
THEOREM SyncTyped == SyncSpec => []SyncTypeOK
  BY RunsBringHome, PTL DEF Inductive

\* For any calendar, links and runs: a backfill that is marked complete was fetched
\* whole, each dataset on each of its days, under the link that carries the mark.
THEOREM BackfillIsWhole == SyncSpec => []MarkedIsWhole
  BY RunsBringHome, PTL DEF Inductive

-----------------------------------------------------------------------------
(* No hole.                                                                 *)

\* The end of a run without a failure of a marked link, or of the first backfill.
LEMMA NoHoleStep ==
    ASSUME Inductive, NoHole, [SyncNext]_syncVars
    PROVE  NoHole'
<1>. USE DEF Inductive
<1>1. \A l \in Links : got[l] \subseteq got'[l]
  BY GotGrows
<1>2. service' = service
  BY DEF SyncNext, ReadLink, StartRun, Fetch, ChunkFails, QuotaExceeded, FinishRun,
         SyncerDies, LinkProperty, DayEnds, syncVars
<1>3. CASE UNCHANGED <<mark, promised, whole, late>>
  <2>1. \A l \in Links : LatestAvailable(whole[l])' = LatestAvailable(whole[l])
    BY <1>2, <1>3 DEF LatestAvailable, Figures
  <2>. QED BY <1>1, <1>3, <2>1 DEF NoHole
<1>4. ASSUME NEW p \in Syncers, FinishRun(p) PROVE NoHole'
  <2>. DEFINE run == syncing[p]
  <2>1. run.link \in Links /\ run.day \in Nat /\ run.kind \in {"backfill", "incremental"}
        /\ run.pc = "chunks" /\ run.left = {}
    BY <1>4 DEF FinishRun, Underway, SyncTypeOK, SyncCalls
  <2>2. Home(p) = got'[run.link]
    BY <1>4, <2>1 DEF FinishRun, Home, SyncTypeOK
  <2>3. ~run.bad => \A d \in Window(run.kind, run.day) : <<"daily", d>> \in got'[run.link]
    BY <2>1, <2>2 DEF Underway, Brought
  <2>4. ~run.bad => \A d \in IncrementalWindow(run.day) : <<"daily", d>> \in got'[run.link]
    <3>1. IncrementalWindow(run.day) \subseteq BackfillWindow(run.day)
      BY <2>1, FiguresAre DEF BackfillWindow, IncrementalWindow, LatestAvailable
    <3>. QED BY <2>1, <2>3, <3>1 DEF Window
  <2>. SUFFICES ASSUME NEW l \in Links, mark'[l], ~late'[l], NEW fact \in promised'[l],
                       fact[1] = "daily",
                       NEW d \in fact[2] .. LatestAvailable(whole'[l])
                PROVE  <<"daily", d>> \in got'[l]
    BY <1>2 DEF NoHole, LatestAvailable, Figures
  <2>5. CASE l # run.link \/ (~Complete(run) /\ (~mark[l] \/ run.bad))
    <3>1. mark[l] /\ ~late[l] /\ promised'[l] = promised[l] /\ whole'[l] = whole[l]
      BY <1>4, <2>1, <2>5 DEF FinishRun, SyncTypeOK
    <3>. QED BY <1>1, <3>1 DEF NoHole
  <2>6. CASE l = run.link /\ Complete(run) /\ ~mark[l]
    <3>1. promised'[l] = Wanted("backfill", run.day, run.goals) /\ whole'[l] = run.day
      BY <1>4, <2>1, <2>6 DEF FinishRun, SyncTypeOK, Unmarked, Later
    <3>2. fact[2] \in BackfillWindow(run.day)
      BY <3>1 DEF Wanted, Window
    <3>3. d \in BackfillWindow(run.day)
      BY <2>1, <3>1, <3>2, FiguresAre DEF BackfillWindow, LatestAvailable
    <3>. QED BY <2>3, <2>6, <3>3 DEF Complete, Window
  <2>7. CASE l = run.link /\ mark[l] /\ ~run.bad
    <3>1. promised'[l] = promised[l] /\ ~late[l]
      BY <1>4, <2>1, <2>7 DEF FinishRun, SyncTypeOK
    <3>2. run.day - whole[l] <= Figures.restated
      BY <1>4, <2>1, <2>7, FiguresAre DEF FinishRun, SyncTypeOK
    <3>3. whole'[l] = Later(whole[l], run.day)
      BY <1>4, <2>1, <2>7 DEF FinishRun, SyncTypeOK
    <3>4. fact \in Facts
      BY <3>1 DEF SyncTypeOK
    <3>5. CASE d <= LatestAvailable(whole[l])
      <4>1. <<"daily", d>> \in got[l]
        BY <2>7, <3>1, <3>4, <3>5, FiguresAre DEF NoHole, LatestAvailable, SyncTypeOK, Facts
      <4>. QED BY <1>1, <4>1
    <3>6. CASE d > LatestAvailable(whole[l])
      <4>1. whole[l] \in Nat /\ fact[2] \in Int
        BY <3>4 DEF SyncTypeOK, Facts
      <4>2. d \in IncrementalWindow(run.day)
        BY <2>1, <3>2, <3>3, <3>6, <4>1, FiguresAre DEF IncrementalWindow, LatestAvailable, Later
      <4>. QED BY <2>4, <2>7, <4>2
    <3>7. d \in Int /\ LatestAvailable(whole[l]) \in Int
      BY <2>1, <3>3, <3>4, FiguresAre DEF LatestAvailable, SyncTypeOK, Facts, Later
    <3>. QED BY <3>5, <3>6, <3>7
  <2>. QED BY <2>5, <2>6, <2>7 DEF Complete
<1>. QED
  BY <1>3, <1>4 DEF SyncNext, ReadLink, StartRun, Fetch, ChunkFails, QuotaExceeded,
                    SyncerDies, LinkProperty, DayEnds, syncRows, syncVars

\* For any calendar and any outages, each shorter than the nightly window: no day is
\* missing between the start of a marked backfill and the last whole run.
THEOREM OutagesLeaveNoHole == SyncSpec => []NoHole
<1>1. Inductive /\ NoHole /\ [SyncNext]_syncVars => NoHole'
  BY NoHoleStep
<1>. QED BY <1>1, Start, RunsBringHome, PTL DEF SyncSpec

=============================================================================
