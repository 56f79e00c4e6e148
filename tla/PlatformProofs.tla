--------------------------- MODULE PlatformProofs ---------------------------
(***************************************************************************)
(* Proofs about Deletion, WeeklyReports, Alerts, Spending and Peek, for    *)
(* any people, organisations, authors, issues, accounts, spenders, costs,  *)
(* visitors and windows, and any number of calls; and, at the end, about   *)
(* the platform: that each part of it runs as it does alone.               *)
(***************************************************************************)
EXTENDS MCPlatform, SyncProofs, WebsiteProofs

-----------------------------------------------------------------------------
(* Accounts that end.                                                       *)

CallRecords ==
    [pc : Belongings \cup {"idle", "next", "organization", "identity", "receipt"},
     todo : SUBSET Organizations, org : Organizations \cup {NoOne},
     gone : SUBSET Organizations, identity : BOOLEAN]

AtWork(p) == deleting[p].pc \in Belongings \cup {"organization"}

\* What a call is to end belongs to its caller alone, and is still there.
OneDeletes ==
    \A p \in People :
        /\ \A o \in deleting[p].todo : o \in exists /\ owners[o] = {p}
        /\ AtWork(p) =>
              LET o == deleting[p].org
              IN  o \in exists /\ owners[o] = {p} /\ o \notin deleting[p].todo

Purged(p) ==
    {kind \in Belongings :
        \/ deleting[p].pc = "objects" /\ kind = "token"
        \/ deleting[p].pc = "rows" /\ kind \in {"token", "objects"}
        \/ deleting[p].pc = "organization"}

\* The steps a call is through with have left nothing behind.
PurgedGoes ==
    \A p \in People : AtWork(p) =>
        Purged(p) \cap held[deleting[p].org] \subseteq lateWrites[deleting[p].org]

\* An organisation's row goes last, and only then is it counted as gone.
GoneIsEmpty == \A o \in Organizations \ exists : held[o] \subseteq lateWrites[o]
GoneIsGone ==
    /\ \A r \in receipts : r.organizations \cap exists = {}
    /\ \A p \in People : deleting[p].gone \cap exists = {}

DeletionInv ==
    /\ DeletionTypeOK /\ deleting \in [People -> CallRecords]
    /\ OneDeletes /\ PurgedGoes /\ GoneIsEmpty /\ GoneIsGone

\* The records a call's steps make are calls.
LEMMA CallAsks ==
    ASSUME NEW todo \in SUBSET Organizations
    PROVE  LET c == [NotDeleting EXCEPT !.pc = "next", !.todo = todo]
           IN  c \in CallRecords /\ c.pc = "next" /\ c.todo = todo /\ c.gone = {}
  BY DEF NotDeleting, CallRecords

LEMMA CallTakes ==
    ASSUME NEW r \in CallRecords, NEW o \in Organizations
    PROVE  LET c == [r EXCEPT !.pc = "token", !.org = o, !.todo = r.todo \ {o}]
           IN  /\ c \in CallRecords /\ c.pc = "token" /\ c.todo = r.todo \ {o}
               /\ c.org = o /\ c.gone = r.gone
<1>. DEFINE a == [r EXCEPT !.pc = "token"]
            b == [a EXCEPT !.org = o]
            c == [b EXCEPT !.todo = r.todo \ {o}]
<1>1. a \in CallRecords /\ a.pc = "token" /\ a.todo = r.todo /\ a.gone = r.gone
  BY DEF CallRecords, Belongings
<1>. HIDE DEF a
<1>2. b \in CallRecords /\ b.pc = "token" /\ b.org = o /\ b.todo = r.todo /\ b.gone = r.gone
  BY <1>1 DEF CallRecords
<1>. HIDE DEF b
<1>3. /\ c \in CallRecords /\ c.pc = "token" /\ c.org = o /\ c.todo = r.todo \ {o}
      /\ c.gone = r.gone
  BY <1>2 DEF CallRecords
<1>4. [r EXCEPT !.pc = "token", !.org = o, !.todo = r.todo \ {o}] = c
  BY DEF a, b, CallRecords
<1>. QED BY <1>3, <1>4

LEMMA CallDeletes ==
    ASSUME NEW r \in CallRecords, NEW o \in Organizations
    PROVE  LET c == [r EXCEPT !.pc = "next", !.gone = r.gone \cup {o}]
           IN  /\ c \in CallRecords /\ c.pc = "next" /\ c.todo = r.todo
               /\ c.gone = r.gone \cup {o}
<1>. DEFINE a == [r EXCEPT !.pc = "next"]
            b == [a EXCEPT !.gone = r.gone \cup {o}]
<1>1. a \in CallRecords /\ a.pc = "next" /\ a.todo = r.todo /\ a.gone = r.gone
  BY DEF CallRecords
<1>. HIDE DEF a
<1>2. b \in CallRecords /\ b.pc = "next" /\ b.todo = r.todo /\ b.gone = r.gone \cup {o}
  BY <1>1 DEF CallRecords
<1>3. [r EXCEPT !.pc = "next", !.gone = r.gone \cup {o}] = b
  BY DEF a, CallRecords
<1>. QED BY <1>2, <1>3

LEMMA CallAnswers ==
    ASSUME NEW r \in CallRecords, NEW answers \in BOOLEAN
    PROVE  LET c == [r EXCEPT !.pc = "receipt", !.identity = answers]
           IN  c \in CallRecords /\ c.pc = "receipt" /\ c.todo = r.todo /\ c.gone = r.gone
<1>. DEFINE a == [r EXCEPT !.pc = "receipt"]
            b == [a EXCEPT !.identity = answers]
<1>1. a \in CallRecords /\ a.pc = "receipt" /\ a.todo = r.todo /\ a.gone = r.gone
  BY DEF CallRecords
<1>. HIDE DEF a
<1>2. b \in CallRecords /\ b.pc = "receipt" /\ b.todo = r.todo /\ b.gone = r.gone
  BY <1>1 DEF CallRecords
<1>3. [r EXCEPT !.pc = "receipt", !.identity = answers] = b
  BY DEF a, CallRecords
<1>. QED BY <1>2, <1>3

LEMMA CallGoes ==
    ASSUME NEW r \in CallRecords,
           NEW pc \in Belongings \cup {"idle", "next", "organization", "identity", "receipt"}
    PROVE  LET c == [r EXCEPT !.pc = pc]
           IN  /\ c \in CallRecords /\ c.pc = pc /\ c.todo = r.todo /\ c.org = r.org
               /\ c.gone = r.gone
  BY DEF CallRecords

\* A step that only moves a call on, to where it has nothing to show yet.
LEMMA CallMoves ==
    ASSUME DeletionInv, NEW p \in People, NEW call \in CallRecords,
           deleting' = [deleting EXCEPT ![p] = call],
           UNCHANGED <<owners, exists, held, lateWrites>>,
           call.pc \in {"idle", "next", "token", "identity", "receipt"},
           \A o \in call.todo : o \in exists /\ owners[o] = {p},
           call.pc = "token" =>
               call.org \in exists /\ owners[call.org] = {p} /\ call.org \notin call.todo,
           call.gone \cap exists = {}
    PROVE  /\ (deleting \in [People -> CallRecords])'
           /\ \A q \in People :
                 /\ deleting'[q].pc \in Belongings \cup {"idle", "next", "organization",
                                                         "identity", "receipt"}
                 /\ deleting'[q].org \in Organizations \cup {NoOne}
                 /\ deleting'[q].gone \cap exists = {}
           /\ OneDeletes' /\ PurgedGoes' /\ GoneIsEmpty'
<1>1. deleting \in [People -> CallRecords] /\ \A q \in People : deleting[q] \in CallRecords
  BY DEF DeletionInv
<1>2. /\ deleting' \in [People -> CallRecords] /\ deleting'[p] = call
      /\ \A q \in People : q # p => deleting'[q] = deleting[q]
  BY <1>1
<1>3. \A q \in People : deleting'[q] \in CallRecords BY <1>2
<1>4. \A q \in People : deleting'[q].gone \cap exists = {}
  BY <1>2 DEF DeletionInv, GoneIsGone
<1>5. OneDeletes' BY <1>2 DEF DeletionInv, OneDeletes, AtWork, Belongings
<1>6. PurgedGoes'
  <2>. SUFFICES ASSUME NEW q \in People, AtWork(q)'
                PROVE  (Purged(q) \cap held[deleting[q].org] \subseteq lateWrites[deleting[q].org])'
    BY DEF PurgedGoes
  <2>1. CASE q = p BY <1>2, <2>1 DEF Purged, AtWork, Belongings
  <2>2. CASE q # p
    BY <1>2, <2>2 DEF DeletionInv, PurgedGoes, Purged, AtWork
  <2>. QED BY <2>1, <2>2
<1>7. GoneIsEmpty' BY DEF DeletionInv, GoneIsEmpty
<1>. QED BY <1>2, <1>3, <1>4, <1>5, <1>6, <1>7 DEF CallRecords

LEMMA DeletionInvStep == ASSUME DeletionInv, [DeletionNext]_deletionVars PROVE DeletionInv'
<1>. USE DeletionAssumption
<1>a. \A p \in People : deleting[p] \in CallRecords BY DEF DeletionInv
<1>b. deleting \in [People -> CallRecords] BY DEF DeletionInv
<1>c. DeletionTypeOK /\ Belongings = {"token", "objects", "rows"}
  BY DEF DeletionInv, Belongings
<1>d. ASSUME NEW p \in People
      PROVE  /\ deleting[p].pc \in Belongings \cup {"idle", "next", "organization", "identity",
                                                   "receipt"}
             /\ deleting[p].todo \subseteq Organizations
             /\ deleting[p].org \in Organizations \cup {NoOne}
             /\ deleting[p].gone \subseteq Organizations
             /\ deleting[p].identity \in BOOLEAN
  BY <1>a DEF CallRecords
<1>e. ASSUME NEW p \in People, NEW q \in People, p # q, NEW o, owners[o] = {p}
      PROVE  o \notin deleting[q].todo /\ (AtWork(q) => deleting[q].org # o)
  BY <1>e DEF DeletionInv, OneDeletes
<1>1. ASSUME NEW p \in People, AskToDelete(p) PROVE DeletionInv'
  <2>. DEFINE call == [NotDeleting EXCEPT !.pc = "next", !.todo = SoleOwnerOrganizations(p)]
  <2>1. SoleOwnerOrganizations(p) \subseteq Organizations 
    BY <1>c DEF SoleOwnerOrganizations, DeletionTypeOK
  <2>2. /\ call \in CallRecords
        /\ call.pc = "next" /\ call.todo = SoleOwnerOrganizations(p) /\ call.gone = {}
    BY <2>1, CallAsks
  <2>3. deleting' = [deleting EXCEPT ![p] = call] BY <1>1 DEF AskToDelete
  <2>. HIDE DEF call
  <2>4. /\ \A o \in call.todo : o \in exists /\ owners[o] = {p}
        /\ call.gone \cap exists = {}
    BY <2>2 DEF SoleOwnerOrganizations
  <2>5. UNCHANGED <<owners, exists, held, lateWrites>> BY <1>1 DEF AskToDelete
  <2>6. /\ (deleting \in [People -> CallRecords])'
        /\ OneDeletes' /\ PurgedGoes' /\ GoneIsEmpty'
        /\ \A q \in People :
              /\ deleting'[q].pc \in Belongings \cup {"idle", "next", "organization",
                                                      "identity", "receipt"}
              /\ deleting'[q].org \in Organizations \cup {NoOne}
              /\ deleting'[q].gone \cap exists = {}
    BY <2>2, <2>3, <2>4, <2>5, CallMoves
  <2>. QED BY <1>c, <1>1, <2>6 DEF AskToDelete, DeletionInv, DeletionTypeOK, GoneIsGone
<1>2. ASSUME NEW p \in People, NEW o \in Organizations, TakeOrganization(p, o)
      PROVE  DeletionInv'
  <2>. DEFINE call == [deleting[p] EXCEPT !.pc = "token", !.org = o,
                                          !.todo = deleting[p].todo \ {o}]
  <2>1. /\ call \in CallRecords
        /\ call.pc = "token" /\ call.org = o /\ call.todo = deleting[p].todo \ {o}
        /\ call.gone = deleting[p].gone
    BY <1>a, CallTakes
  <2>2. deleting' = [deleting EXCEPT ![p] = call] BY <1>2 DEF TakeOrganization
  <2>3. /\ o \in exists /\ owners[o] = {p}
        /\ \A b \in deleting[p].todo : b \in exists /\ owners[b] = {p}
        /\ deleting[p].gone \cap exists = {}
    BY <1>2 DEF TakeOrganization, DeletionInv, OneDeletes, GoneIsGone
  <2>. HIDE DEF call
  <2>4. /\ (deleting \in [People -> CallRecords])'
        /\ OneDeletes' /\ PurgedGoes' /\ GoneIsEmpty'
        /\ \A q \in People :
              /\ deleting'[q].pc \in Belongings \cup {"idle", "next", "organization",
                                                      "identity", "receipt"}
              /\ deleting'[q].org \in Organizations \cup {NoOne}
              /\ deleting'[q].gone \cap exists = {}
    BY <1>2, <2>1, <2>2, <2>3, CallMoves DEF TakeOrganization
  <2>. QED BY <1>c, <1>2, <2>4 DEF TakeOrganization, DeletionInv, DeletionTypeOK, GoneIsGone
<1>3. ASSUME NEW p \in People, NEW kind \in Belongings, Purge(p, kind) PROVE DeletionInv'
  <2>. DEFINE o == deleting[p].org
              call == [deleting[p] EXCEPT !.pc = After[kind]]
  <2>1. o \in exists /\ o \in Organizations /\ owners[o] = {p} /\ deleting[p].pc = kind
    BY <1>3 DEF Purge, Does, DeletionInv, DeletionTypeOK, OneDeletes, AtWork
  <2>2. /\ After[kind] \in {"objects", "rows", "organization"}
        /\ kind = "token" => After[kind] = "objects"
        /\ kind = "objects" => After[kind] = "rows"
        /\ kind = "rows" => After[kind] = "organization"
    BY DEF After, Belongings
  <2>3. /\ call \in CallRecords /\ call.pc = After[kind]
        /\ call.org = o /\ call.todo = deleting[p].todo /\ call.gone = deleting[p].gone
    BY <1>a, <2>2, CallGoes DEF Belongings
  <2>4. deleting' = [deleting EXCEPT ![p] = call] BY <1>3 DEF Purge, Goes
  <2>5. /\ held' = [held EXCEPT ![o] = @ \ {kind}]
        /\ lateWrites' = [lateWrites EXCEPT ![o] = @ \ {kind}]
    BY <1>3, <2>1 DEF Purge, Reachable, Belongings
  <2>. HIDE DEF call
  <2>. USE DEF DeletionInv, DeletionTypeOK, OneDeletes, PurgedGoes, GoneIsEmpty, GoneIsGone,
               AtWork, Purged, Does, Goes
  <2>6. DeletionTypeOK' /\ (deleting \in [People -> CallRecords])'
    BY <1>b, <1>c, <1>d, <1>3, <2>1, <2>2, <2>3, <2>4, <2>5 DEF Purge
  <2>7. OneDeletes' BY <1>b, <1>c, <1>d, <1>3, <2>1, <2>2, <2>3, <2>4 DEF Purge
  <2>8. PurgedGoes'
    <3>. SUFFICES ASSUME NEW q \in People, AtWork(q)',
                         NEW k \in Purged(q)', k \in held'[deleting'[q].org]
                  PROVE  k \in lateWrites'[deleting'[q].org]
      OBVIOUS
    <3>1. CASE q = p
      BY <1>b, <1>c, <1>d, <2>1, <2>2, <2>3, <2>4, <2>5, <3>1
    <3>2. CASE q # p
      <4>1. deleting'[q] = deleting[q] BY <2>4, <3>2
      <4>2. deleting[q].org \in exists /\ deleting[q].org # o BY <2>1, <3>2, <4>1
      <4>. QED BY <2>5, <4>1, <4>2
    <3>. QED BY <3>1, <3>2
  <2>9. GoneIsEmpty' /\ GoneIsGone' BY <1>3, <2>1, <2>3, <2>4, <2>5 DEF Purge
  <2>. QED BY <2>6, <2>7, <2>8, <2>9
<1>4. ASSUME NEW p \in People, DeleteOrganization(p) PROVE DeletionInv'
  <2>. DEFINE o == deleting[p].org
              call == [deleting[p] EXCEPT !.pc = "next", !.gone = deleting[p].gone \cup {o}]
  <2>1. o \in Organizations /\ o \in exists /\ owners[o] = {p}
    BY <1>4 DEF DeleteOrganization, Does, DeletionInv, DeletionTypeOK, OneDeletes, AtWork
  <2>2. /\ call \in CallRecords
        /\ call.pc = "next" /\ call.todo = deleting[p].todo
        /\ call.gone = deleting[p].gone \cup {o}
    BY <1>a, <2>1, CallDeletes
  <2>3. deleting' = [deleting EXCEPT ![p] = call] BY <1>4 DEF DeleteOrganization, After
  <2>4. held[o] \subseteq lateWrites[o] /\ o \notin deleting[p].todo
    BY <1>b, <1>c, <1>d, <1>4, <2>1
    DEF DeleteOrganization, Does, DeletionInv, DeletionTypeOK, OneDeletes, AtWork, PurgedGoes,
        Purged
  <2>. HIDE DEF call
  <2>. USE DEF DeletionInv, DeletionTypeOK, OneDeletes, PurgedGoes, GoneIsEmpty, GoneIsGone,
               AtWork, Purged, Does, Goes
  <2>5. DeletionTypeOK' /\ (deleting \in [People -> CallRecords])'
    <3>1. /\ deleting' \in [People -> CallRecords]
          /\ \A q \in People : deleting'[q] \in CallRecords
      BY <1>b, <2>2, <2>3
    <3>2. \A q \in People :
             /\ deleting'[q].pc \in Belongings \cup {"idle", "next", "organization", "identity",
                                                    "receipt"}
             /\ deleting'[q].org \in Organizations \cup {NoOne}
      BY <3>1 DEF CallRecords
    <3>3. owners' \in [Organizations -> SUBSET People] /\ exists' \subseteq Organizations
      BY <1>4, <1>c DEF DeleteOrganization, DeletionTypeOK
    <3>. QED BY <1>4, <1>c, <3>1, <3>2, <3>3 DEF DeleteOrganization, DeletionTypeOK
  <2>6. OneDeletes' /\ PurgedGoes'
    <3>. SUFFICES ASSUME NEW q \in People
                  PROVE  /\ \A b \in deleting'[q].todo : b \in exists' /\ owners'[b] = {q}
                         /\ AtWork(q)' =>
                              LET b == deleting'[q].org
                              IN  /\ b \in exists' /\ owners'[b] = {q}
                                  /\ b \notin deleting'[q].todo
                                  /\ Purged(q)' \cap held'[b] \subseteq lateWrites'[b]
      OBVIOUS
    <3>1. CASE q = p
      <4>1. deleting'[q] = call /\ ~ AtWork(q)' BY <1>b, <2>2, <2>3, <3>1, <1>c
      <4>2. \A b \in deleting[p].todo : b \in exists /\ owners[b] = {p} /\ b # o
        BY <2>4
      <4>. QED BY <1>4, <1>c, <2>2, <3>1, <4>1, <4>2 DEF DeleteOrganization
    <3>2. CASE q # p
      <4>1. deleting'[q] = deleting[q] BY <2>3, <3>2
      <4>2. o \notin deleting[q].todo /\ (AtWork(q) => deleting[q].org # o)
        BY <1>e, <2>1, <3>2
      <4>. QED BY <1>b, <1>c, <1>d, <1>4, <4>1, <4>2 DEF DeleteOrganization
    <3>. QED BY <3>1, <3>2
  <2>7. GoneIsEmpty' /\ GoneIsGone'
    BY <1>4, <2>1, <2>2, <2>3, <2>4 DEF DeleteOrganization
  <2>. QED BY <2>5, <2>6, <2>7
<1>5. ASSUME NEW p \in People, DeleteUser(p) PROVE DeletionInv'
  <2>. DEFINE call == [deleting[p] EXCEPT !.pc = "identity"]
  <2>1. /\ call \in CallRecords
        /\ call.pc = "identity" /\ call.todo = {} /\ call.gone = deleting[p].gone
    BY <1>a, <1>5, CallGoes DEF DeleteUser
  <2>2. deleting' = [deleting EXCEPT ![p] = call] BY <1>5 DEF DeleteUser, Goes
  <2>. HIDE DEF call
  <2>. USE DEF DeletionInv, DeletionTypeOK, OneDeletes, PurgedGoes, GoneIsEmpty, GoneIsGone,
               AtWork, Purged, Does, Goes
  <2>. QED BY <1>b, <1>c, <1>d, <1>5, <2>1, <2>2 DEF DeleteUser
<1>6. ASSUME NEW p \in People, NEW answers \in BOOLEAN, DeleteIdentity(p, answers)
      PROVE  DeletionInv'
  <2>. DEFINE call == [deleting[p] EXCEPT !.pc = "receipt", !.identity = answers]
  <2>1. /\ call \in CallRecords
        /\ call.pc = "receipt" /\ call.todo = deleting[p].todo /\ call.gone = deleting[p].gone
    BY ZenonT(60), <1>a, CallAnswers
  <2>2. deleting' = [deleting EXCEPT ![p] = call] BY <1>6 DEF DeleteIdentity
  <2>3. /\ \A b \in deleting[p].todo : b \in exists /\ owners[b] = {p}
        /\ deleting[p].gone \cap exists = {}
    BY DEF DeletionInv, OneDeletes, GoneIsGone
  <2>. HIDE DEF call
  <2>4. /\ (deleting \in [People -> CallRecords])'
        /\ OneDeletes' /\ PurgedGoes' /\ GoneIsEmpty'
        /\ \A q \in People :
              /\ deleting'[q].pc \in Belongings \cup {"idle", "next", "organization",
                                                      "identity", "receipt"}
              /\ deleting'[q].org \in Organizations \cup {NoOne}
              /\ deleting'[q].gone \cap exists = {}
    BY <1>6, <2>1, <2>2, <2>3, CallMoves DEF DeleteIdentity
  <2>. QED BY <1>c, <1>6, <2>4 DEF DeleteIdentity, DeletionInv, DeletionTypeOK, GoneIsGone
<1>7. ASSUME NEW p \in People, WriteReceipt(p) PROVE DeletionInv'
  <2>1. deleting[p].gone \in SUBSET Organizations /\ deleting[p].identity \in BOOLEAN
    BY <1>d
  <2>2. NotDeleting \in CallRecords /\ NotDeleting.pc = "idle" /\ NotDeleting.todo = {}
        /\ NotDeleting.gone = {}
    BY DEF NotDeleting, CallRecords
  <2>3. deleting[p].gone \cap exists = {} BY DEF DeletionInv, GoneIsGone
  <2>4. /\ (deleting \in [People -> CallRecords])'
        /\ OneDeletes' /\ PurgedGoes' /\ GoneIsEmpty'
        /\ \A q \in People :
              /\ deleting'[q].pc \in Belongings \cup {"idle", "next", "organization",
                                                      "identity", "receipt"}
              /\ deleting'[q].org \in Organizations \cup {NoOne}
              /\ deleting'[q].gone \cap exists = {}
    BY <1>7, <2>1, <2>2, CallMoves DEF WriteReceipt
  <2>. QED BY <1>c, <1>7, <2>4, <2>1, <2>3 DEF WriteReceipt, DeletionInv, DeletionTypeOK, GoneIsGone
<1>8. ASSUME NEW p \in People, CallDies(p) PROVE DeletionInv'
  <2>1. NotDeleting \in CallRecords /\ NotDeleting.pc = "idle" /\ NotDeleting.todo = {}
        /\ NotDeleting.gone = {}
    BY DEF NotDeleting, CallRecords
  <2>4. /\ (deleting \in [People -> CallRecords])'
        /\ OneDeletes' /\ PurgedGoes' /\ GoneIsEmpty'
        /\ \A q \in People :
              /\ deleting'[q].pc \in Belongings \cup {"idle", "next", "organization",
                                                      "identity", "receipt"}
              /\ deleting'[q].org \in Organizations \cup {NoOne}
              /\ deleting'[q].gone \cap exists = {}
    BY <1>8, <2>1, CallMoves DEF CallDies
  <2>. QED BY <1>c, <1>8, <2>4 DEF CallDies, DeletionInv, DeletionTypeOK, GoneIsGone
<1>9. ASSUME NEW o \in Organizations, NEW work \in DOMAIN Writes,
             StartJob(o, work) \/ EndJob(o, work)
      PROVE  DeletionInv'
  BY <1>9
  DEF StartJob, EndJob, DeletionInv, DeletionTypeOK, OneDeletes, PurgedGoes, GoneIsEmpty,
      GoneIsGone, AtWork, Purged
<1>10. ASSUME NEW o \in Organizations, NEW work \in DOMAIN Writes, NEW kind \in Belongings,
              JobWrites(o, work, kind)
       PROVE  DeletionInv'
  <2>1. \A b \in Organizations :
           /\ held'[b] \subseteq Belongings /\ lateWrites'[b] \subseteq Belongings
           /\ held'[b] \ lateWrites'[b] \subseteq held[b] \ lateWrites[b]
    BY <1>10 DEF JobWrites, DeletionInv, DeletionTypeOK
  <2>. USE DEF DeletionInv, DeletionTypeOK, OneDeletes, PurgedGoes, GoneIsEmpty, GoneIsGone,
               AtWork, Purged, Does, Goes
  <2>. QED BY <1>b, <1>c, <1>d, <1>10, <2>1 DEF JobWrites
<1>11. CASE UNCHANGED deletionVars 
  BY <1>11
  DEF deletionVars, DeletionInv, DeletionTypeOK, OneDeletes, PurgedGoes, GoneIsEmpty,
      GoneIsGone, AtWork, Purged
<1>. QED
  BY <1>1, <1>2, <1>3, <1>4, <1>5, <1>6, <1>7, <1>8, <1>9, <1>10, <1>11 DEF DeletionNext

\* The calls keep their types, and an organisation's row never goes before what it kept.
THEOREM RowGoesLast == DeletionSpec => []DeletionInv
<1>1. DeletionInit => DeletionInv
  BY DeletionAssumption
  DEF DeletionInit, DeletionInv, DeletionTypeOK, CallRecords, OneDeletes, PurgedGoes,
      GoneIsEmpty, GoneIsGone, AtWork, Purged, Belongings, NotDeleting
<1>. QED BY <1>1, DeletionInvStep, PTL DEF DeletionSpec

\* Nothing that was there when an organisation was deleted is kept once a receipt names
\* it, for any owners, calls and jobs (account/deletion.py).
THEOREM ReceiptsAreTrue == DeletionSpec => []ReceiptMeansGone
<1>1. DeletionInv => ReceiptMeansGone
  BY DEF DeletionInv, DeletionTypeOK, ReceiptMeansGone, GoneIsEmpty, GoneIsGone
<1>. QED BY <1>1, RowGoesLast, PTL

-----------------------------------------------------------------------------
(* Plans and reports.                                                       *)

\* The records have their fields, whatever is in them.
WeeklyShape ==
    /\ DOMAIN writing = Authors
    /\ \A a \in Authors : DOMAIN writing[a] = {"pc", "plan", "kept", "gone", "seen"}
    /\ \A r \in recommendations : DOMAIN r = {"by", "rank", "type", "lead", "status"}

\* What an author has read of the old plan was true when it was read.
KeptIsSaid ==
    \A a \in Authors : \A k \in writing[a].kept : k[3] = "RESOLVED" => k[1] \in saidDone

DeliveredIsTold == \A a \in Authors : At(a, "delivered") => Recipients(a) \subseteq told

WeeklyInv == WeeklyShape /\ KeptIsSaid /\ NoDoneInvented /\ DeliveredIsTold /\ RecordIsTrue

\* A status that is carried across was kept of the same issue.
LEMMA RowsKeep ==
    ASSUME WeeklyInv, NEW a \in Authors, NEW p, Row(a, p).status = "RESOLVED"
    PROVE  Row(a, p).lead \in saidDone
<1>1. Row(a, p).lead = p.lead /\ CarriedStatus(a, p) = "RESOLVED"
  BY DEF Row
<1>2. {k \in writing[a].kept : k[1] = p.lead} # {}
  BY <1>1 DEF CarriedStatus
<1>3. PICK k \in writing[a].kept : k[1] = p.lead /\ k[3] = "RESOLVED"
  BY <1>1, <1>2 DEF CarriedStatus
<1>. QED BY <1>1, <1>3 DEF WeeklyInv, KeptIsSaid

LEMMA WeeklyInvStep == ASSUME WeeklyInv, [WeeklyNext]_weeklyVars PROVE WeeklyInv'
<1>. USE DEF WeeklyInv, WeeklyShape, KeptIsSaid, NoDoneInvented, DeliveredIsTold, RecordIsTrue,
             At, Steps, Recipients, Away
<1>1. ASSUME NEW a \in Authors, Rank(a) PROVE WeeklyInv' BY <1>1 DEF Rank
<1>2. ASSUME NEW a \in Authors, KeepStatuses(a) PROVE WeeklyInv' BY <1>2 DEF KeepStatuses
<1>3. ASSUME NEW a \in Authors, DeleteOld(a) PROVE WeeklyInv' BY <1>3 DEF DeleteOld
<1>4. ASSUME NEW a \in Authors, InsertNext(a) PROVE WeeklyInv'
  BY <1>4, RowsKeep DEF InsertNext, Row
<1>5. ASSUME NEW a \in Authors, CheckSent(a) PROVE WeeklyInv' BY <1>5 DEF CheckSent
<1>6. ASSUME NEW a \in Authors, SaveDraft(a) PROVE WeeklyInv'
  BY <1>6, RowsKeep DEF SaveDraft, Row
<1>7. ASSUME NEW a \in Authors, Deliver(a) PROVE WeeklyInv' BY <1>7 DEF Deliver
<1>8. ASSUME NEW a \in Authors, MailFails(a) PROVE WeeklyInv' BY <1>8 DEF MailFails
<1>9. ASSUME NEW a \in Authors, RecordSent(a) PROVE WeeklyInv'
  BY <1>9, AuthorsAssumption DEF RecordSent
<1>10. ASSUME NEW a \in Authors, AuthorDies(a) PROVE WeeklyInv' BY <1>10 DEF AuthorDies
<1>11. ASSUME NEW c \in Customers, AskToSend(c) PROVE WeeklyInv'
  BY <1>11 DEF AskToSend, Authors
<1>12. ASSUME NEW r \in recommendations, MarkDone(r) PROVE WeeklyInv'
  BY <1>12 DEF MarkDone, Answer
<1>13. ASSUME NEW r \in recommendations, Dismiss(r) PROVE WeeklyInv'
  BY <1>13 DEF Dismiss, Answer
<1>14. ASSUME NEW i \in Issues, NEW worth \in Impacts, IssueMoves(i, worth) PROVE WeeklyInv'
  BY <1>14 DEF IssueMoves
<1>15. CASE UNCHANGED weeklyVars BY <1>15 DEF weeklyVars
<1>. QED
  BY <1>1, <1>2, <1>3, <1>4, <1>5, <1>6, <1>7, <1>8, <1>9, <1>10, <1>11, <1>12, <1>13, <1>14,
     <1>15
  DEF WeeklyNext

LEMMA WeeklyInvAlways == WeeklySpec => []WeeklyInv
<1>1. WeeklyInit => WeeklyInv
  BY DEF WeeklyInit, WeeklyInv, WeeklyShape, KeptIsSaid, NoDoneInvented, DeliveredIsTold,
         RecordIsTrue, At, Away
<1>. QED BY <1>1, WeeklyInvStep, PTL DEF WeeklySpec

\* A recommendation is marked done only of an issue whose recommendation a customer marked,
\* for any authors, issues and changes of what they are worth (api/ai/plan.py).
THEOREM DoneWasSaid == WeeklySpec => []NoDoneInvented
BY WeeklyInvAlways, PTL DEF WeeklyInv

\* Whoever a report on record as sent names has got the mail, for any senders and
\* generators at once (api/reports/runner.py).
THEOREM SentWasDelivered == WeeklySpec => []RecordIsTrue
BY WeeklyInvAlways, PTL DEF WeeklyInv

\* What is open is ranked by what it is worth, how much of it there is, and its key.
OpenTypes == {u \in Types : OpenOf(u) # {}}
Above == {e \in OpenTypes \X OpenTypes : Outranks(e[1], e[2])}

LEMMA TypesAreNumbers == Types \subseteq Nat /\ IsFiniteSet(Types) /\ IsFiniteSet(OpenTypes)
<1>1. IsFiniteSet(Issues) /\ TypeOf \in [Issues -> Nat] BY WeeklyAssumption
<1>2. TypeOf \in Surjection(Issues, Types)
  <2>1. TypeOf \in [Issues -> Types] BY <1>1 DEF Types
  <2>2. \A t \in Types : \E i \in Issues : TypeOf[i] = t BY DEF Types
  <2>. QED BY <2>1, <2>2 DEF Surjection
<1>3. IsFiniteSet(Types) BY <1>1, <1>2, FS_Surjection
<1>4. OpenTypes \in SUBSET Types BY DEF OpenTypes
<1>5. IsFiniteSet(OpenTypes) BY <1>3, <1>4, FS_Subset
<1>. QED BY <1>1, <1>3, <1>5 DEF Types

LEMMA WorthIsCounted ==
    ASSUME NEW t, impact \in [Issues -> Impacts]
    PROVE  Worth(t) \in Int /\ Cardinality(OpenOf(t)) \in Nat /\ IsFiniteSet(OpenOf(t))
<1>1. OpenOf(t) \in SUBSET Issues /\ IsFiniteSet(Issues) BY WeeklyAssumption DEF OpenOf
<1>2. IsFiniteSet(OpenOf(t)) BY <1>1, FS_Subset
<1>3. \A i \in OpenOf(t) : impact[i] \in Int BY <1>1 DEF Impacts, Closed
<1>. QED BY <1>2, <1>3, FS_CardinalityType, SumType DEF Worth

\* The three criteria leave no two types abreast.
LEMMA TypesAreRanked ==
    ASSUME impact \in [Issues -> Impacts]
    PROVE  /\ InOrder(Above, OpenTypes)
           /\ \A t \in OpenTypes : RankOf(t) = Place(Above, OpenTypes, t)
<1>1. ASSUME NEW t \in OpenTypes
      PROVE  t \in Nat /\ Worth(t) \in Int /\ Cardinality(OpenOf(t)) \in Nat
  BY WorthIsCounted, TypesAreNumbers DEF OpenTypes
<1>2. \A t, u \in OpenTypes : <<t, u>> \in Above <=> Outranks(t, u) BY DEF Above
<1>3. \A t \in OpenTypes : ~ Outranks(t, t) BY <1>1 DEF Outranks
<1>4. \A t, u \in OpenTypes : t # u => Outranks(t, u) \/ Outranks(u, t) BY <1>1 DEF Outranks
<1>5. ASSUME NEW t \in OpenTypes, NEW u \in OpenTypes, NEW v \in OpenTypes,
             Outranks(t, u), Outranks(u, v)
      PROVE  Outranks(t, v)
  BY <1>1, <1>5 DEF Outranks
<1>6. ASSUME NEW t \in OpenTypes PROVE RankOf(t) = Place(Above, OpenTypes, t)
  <2>1. {u \in Types : OpenOf(u) # {} /\ Outranks(u, t)} = Before(Above, OpenTypes, t)
    BY <1>2 DEF Before, OpenTypes
  <2>. QED BY <2>1 DEF RankOf, Place
<1>. QED BY <1>2, <1>3, <1>4, <1>5, <1>6 DEF InOrder

\* A type with open issues has one that is worth most.
LEMMA LeadIsOpen ==
    ASSUME impact \in [Issues -> Impacts], NEW t \in OpenTypes
    PROVE  Lead(t) \in OpenOf(t) /\ Lead(t) \in Issues /\ TypeOf[Lead(t)] = t
<1>. DEFINE S == OpenOf(t)
            ahead(i, j) == impact[i] > impact[j] \/ (impact[i] = impact[j] /\ i < j)
            R == {e \in S \X S : ahead(e[1], e[2])}
<1>1. IsFiniteSet(S) /\ S # {} /\ S \subseteq Issues
  BY WorthIsCounted DEF OpenTypes, OpenOf
<1>2. ASSUME NEW i \in S PROVE i \in Nat /\ impact[i] \in Int
  <2>. HIDE DEF S
  <2>1. i \in Issues /\ impact[i] \in Impacts BY <1>1
  <2>. QED BY <2>1, WeeklyAssumption DEF Impacts, Closed
<1>3. \A i, j \in S : <<i, j>> \in R <=> ahead(i, j) OBVIOUS
<1>4. InOrder(R, S)
  <2>1. \A i \in S : ~ ahead(i, i) BY <1>2
  <2>2. \A i, j \in S : i # j => ahead(i, j) \/ ahead(j, i) BY <1>2
  <2>3. ASSUME NEW i \in S, NEW j \in S, NEW k \in S, ahead(i, j), ahead(j, k)
        PROVE  ahead(i, k)
    BY <1>2, <2>3
  <2>. HIDE DEF S, ahead, R
  <2>. QED BY <1>3, <2>1, <2>2, <2>3 DEF InOrder
<1>5. \E i \in S : \A j \in S \ {i} : <<i, j>> \in R
  <2>. HIDE DEF S, R
  <2>. QED BY <1>1, <1>4, FirstExists
<1>6. \E i \in S : \A j \in S \ {i} : ahead(i, j)
  <2>. HIDE DEF S, R, ahead
  <2>. QED BY <1>3, <1>5
<1>7. Lead(t) \in S BY <1>6 DEF Lead
<1>. QED BY <1>1, <1>7 DEF OpenOf

\* The priorities are numbered from one, as many as there are types with open issues or
\* as the plan takes, and the more of the site's worth is at stake the earlier they come.
PlanNumbered ==
    /\ {p.rank : p \in Ranked} = {n \in 1 .. Cardinality(OpenTypes) : n <= MaxPriorities}
    /\ \A t, u \in OpenTypes : Worth(t) > Worth(u) => RankOf(t) < RankOf(u)

Apart(plan) ==
    \A p, q \in plan : p.rank = q.rank \/ p.type = q.type \/ p.lead = q.lead => p = q

Priorities == [rank : Nat, type : Types, lead : Issues]

LEMMA RankedIsNumbered ==
    ASSUME impact \in [Issues -> Impacts]
    PROVE  PlanNumbered /\ Apart(Ranked) /\ Ranked \subseteq Priorities
<1>. DEFINE N == Cardinality(OpenTypes)
<1>1. /\ N \in Nat
      /\ \A t \in OpenTypes : RankOf(t) \in 1 .. N
      /\ \A t, u \in OpenTypes : RankOf(t) = RankOf(u) => t = u
      /\ \A n \in 1 .. N : \E t \in OpenTypes : RankOf(t) = n
  BY TypesAreNumbers, TypesAreRanked, PlacesAreNumbered
<1>2. Ranked = {[rank |-> RankOf(t), type |-> t, lead |-> Lead(t)] :
                    t \in {u \in OpenTypes : RankOf(u) <= MaxPriorities}}
  BY DEF Ranked, OpenTypes
<1>3. \A p \in Ranked : /\ p.type \in OpenTypes /\ p.rank = RankOf(p.type)
                        /\ p.lead = Lead(p.type) /\ p.rank <= MaxPriorities
                        /\ p = [rank |-> p.rank, type |-> p.type, lead |-> p.lead]
  BY <1>2
<1>4. Apart(Ranked)
  <2>1. \A t, u \in OpenTypes : Lead(t) = Lead(u) => t = u BY LeadIsOpen
  <2>. HIDE DEF N
  <2>2. ASSUME NEW p \in Ranked, NEW q \in Ranked,
               p.rank = q.rank \/ p.type = q.type \/ p.lead = q.lead
        PROVE  p = q
    <3>1. p.type = q.type BY <1>1, <1>3, <2>1, <2>2
    <3>. QED BY <1>3, <3>1
  <2>. QED BY <2>2 DEF Apart
<1>5. {p.rank : p \in Ranked} = {n \in 1 .. N : n <= MaxPriorities}
  <2>1. \A p \in Ranked : p.rank \in {n \in 1 .. N : n <= MaxPriorities} BY <1>1, <1>3
  <2>2. ASSUME NEW n \in 1 .. N, n <= MaxPriorities PROVE \E p \in Ranked : p.rank = n
    <3>1. PICK t \in OpenTypes : RankOf(t) = n BY <1>1
    <3>2. [rank |-> RankOf(t), type |-> t, lead |-> Lead(t)] \in Ranked BY <1>2, <2>2, <3>1
    <3>. QED BY <3>1, <3>2
  <2>. HIDE DEF N
  <2>. QED BY <2>1, <2>2
<1>6. ASSUME NEW t \in OpenTypes, NEW u \in OpenTypes, Worth(t) > Worth(u)
      PROVE  RankOf(t) < RankOf(u)
  <2>1. <<t, u>> \in Above BY <1>6 DEF Above, Outranks
  <2>. QED BY <2>1, TypesAreNumbers, TypesAreRanked, PlacesGrow
<1>7. Ranked \subseteq Priorities
  BY <1>1, <1>3, LeadIsOpen DEF Priorities, OpenTypes
<1>. QED BY <1>4, <1>5, <1>6, <1>7 DEF PlanNumbered

RowStatuses == {"OPEN", "RESOLVED", "DISMISSED"}
Recommended == [by : Authors, rank : Nat, type : Types, lead : Issues, status : RowStatuses]
Writings ==
    [pc : {"away", "ranked", "kept", "inserting", "replaced", "checked", "mailing", "delivered"},
     plan : {plan \in SUBSET Priorities : Apart(plan)},
     kept : SUBSET (Issues \X Nat \X RowStatuses), gone : SUBSET Recommended,
     seen : {"none", "draft", "sent", "failed"}]

WeeklyTypes == WeeklyTypeOK /\ writing \in [Authors -> Writings]

\* What has been kept of the old rows is a status the new ones can have.
LEMMA RowsAreTyped ==
    ASSUME WeeklyTypes, NEW a \in Authors, NEW p \in writing[a].plan
    PROVE  p \in Priorities /\ Row(a, p) \in Recommended
<1>1. writing[a] \in Writings BY DEF WeeklyTypes
<1>2. p \in Priorities BY <1>1 DEF Writings
<1>3. CarriedStatus(a, p) \in RowStatuses
  <2>. DEFINE had == {k \in writing[a].kept : k[1] = p.lead}
  <2>1. \A k \in had : k[3] \in RowStatuses BY <1>1 DEF Writings
  <2>2. had # {} => (CHOOSE k \in had : TRUE) \in had OBVIOUS
  <2>3. CarriedStatus(a, p) = IF had = {} THEN "OPEN" ELSE (CHOOSE k \in had : TRUE)[3]
    BY DEF CarriedStatus
  <2>. HIDE DEF had
  <2>. QED BY <2>1, <2>2, <2>3 DEF RowStatuses
<1>. QED BY <1>2, <1>3 DEF Row, Recommended, Priorities

LEMMA WeeklyTypesStep == ASSUME WeeklyTypes, [WeeklyNext]_weeklyVars PROVE WeeklyTypes'
<1>0. /\ WeeklyTypes /\ WeeklyTypeOK /\ recommendations \subseteq Recommended
      /\ writing \in [Authors -> Writings] /\ impact \in [Issues -> Impacts]
      /\ generations \in 0 .. MaxReports /\ moves \in 0 .. MaxMoves
      /\ MaxReports \in Nat /\ MaxMoves \in Nat
  BY WeeklyAssumption DEF WeeklyTypes, WeeklyTypeOK, Recommended, RowStatuses
<1>a. Apart({}) /\ {} \in SUBSET Priorities BY DEF Apart
<1>b. Away \in Writings BY <1>a DEF Away, Writings
<1>c. \A a \in Authors, pc \in {"ranked", "kept", "inserting", "replaced", "checked", "mailing",
                               "delivered"} :
          /\ [writing[a] EXCEPT !.pc = pc] \in Writings /\ [Away EXCEPT !.pc = pc] \in Writings
  BY <1>0, <1>b DEF Writings
<1>d. ASSUME UNCHANGED <<impact, moves, report, recorded, saidDone, told>>,
             generations' \in 0 .. MaxReports, recommendations' \subseteq Recommended,
             writing' \in [Authors -> Writings]
      PROVE  WeeklyTypes'
  <2>1. \A a \in Authors : writing'[a].pc \in
         {"away", "ranked", "kept", "inserting", "replaced", "checked", "mailing", "delivered"}
    BY <1>d DEF Writings
  <2>2. WeeklyTypeOK' BY <1>0, <1>d, <2>1 DEF WeeklyTypeOK, Recommended, RowStatuses
  <2>. QED BY <1>d, <2>2 DEF WeeklyTypes
<1>1. ASSUME NEW a \in Authors, Rank(a) PROVE WeeklyTypes'
  <2>1. [Away EXCEPT !.pc = "ranked", !.plan = Ranked] \in Writings
    BY <1>0, <1>b, RankedIsNumbered DEF Writings
  <2>2. generations' \in 0 .. MaxReports BY <1>0, <1>1 DEF Rank
  <2>. QED BY <1>0, <1>1, <1>d, <2>1, <2>2 DEF Rank
<1>2. ASSUME NEW a \in Authors, KeepStatuses(a) PROVE WeeklyTypes'
  <2>. DEFINE kept == {<<r.lead, r.rank, r.status>> : r \in recommendations}
  <2>1. kept \in SUBSET (Issues \X Nat \X RowStatuses) BY <1>0 DEF Recommended
  <2>2. writing' = [writing EXCEPT ![a].pc = "kept", ![a].kept = kept]
    BY <1>2 DEF KeepStatuses
  <2>. HIDE DEF kept
  <2>3. [writing[a] EXCEPT !.pc = "kept", !.kept = kept] \in Writings
    BY <1>0, <2>1 DEF Writings
  <2>4. writing' = [writing EXCEPT ![a] = [writing[a] EXCEPT !.pc = "kept", !.kept = kept]]
    BY <1>0, <2>2
  <2>5. writing' \in [Authors -> Writings] BY <1>0, <2>3, <2>4
  <2>. QED BY <1>0, <1>2, <1>d, <2>5 DEF KeepStatuses
<1>3. ASSUME NEW a \in Authors, DeleteOld(a) PROVE WeeklyTypes'
  <2>1. /\ [writing[a] EXCEPT !.pc = "inserting"] \in Writings
        /\ [writing[a] EXCEPT !.pc = "replaced", !.gone = recommendations] \in Writings
    BY <1>0 DEF Writings
  <2>2. \/ writing' = [writing EXCEPT ![a] = [writing[a] EXCEPT !.pc = "inserting"]]
        \/ writing' = [writing EXCEPT ![a] =
                          [writing[a] EXCEPT !.pc = "replaced", !.gone = recommendations]]
    BY <1>0, <1>3 DEF DeleteOld, Steps
  <2>3. writing' \in [Authors -> Writings] BY <1>0, <2>1, <2>2
  <2>4. recommendations' \subseteq Recommended BY <1>0, <1>3 DEF DeleteOld
  <2>. QED BY <1>0, <1>3, <1>d, <2>3, <2>4 DEF DeleteOld
<1>4. ASSUME NEW a \in Authors, InsertNext(a) PROVE WeeklyTypes'
  <2>. DEFINE plan == writing[a].plan
              p == CHOOSE p \in plan : \A q \in plan : p.rank <= q.rank
  <2>1. plan # {} /\ plan \in SUBSET Priorities /\ Apart(plan)
    BY <1>0, <1>4 DEF InsertNext, Writings
  <2>2. \E e \in plan : \A q \in plan : e.rank <= q.rank
    <3>. HIDE DEF plan
    <3>1. {e.rank : e \in plan} \in SUBSET Nat /\ {e.rank : e \in plan} # {}
      BY <2>1 DEF Priorities
    <3>2. \E n \in {e.rank : e \in plan} : \A m \in {e.rank : e \in plan} : n <= m
      BY <3>1, Least
    <3>. QED BY <3>2
  <2>3. p \in plan BY <2>2
  <2>4. Row(a, p) \in Recommended
    <3>. HIDE DEF p
    <3>. QED BY <1>0, <2>3, RowsAreTyped
  <2>5. /\ recommendations' = recommendations \cup {Row(a, p)}
        /\ writing' = [writing EXCEPT ![a].plan = plan \ {p}]
        /\ UNCHANGED <<impact, moves, report, recorded, generations, saidDone, told>>
    BY <1>4 DEF InsertNext
  <2>6. plan \ {p} \in SUBSET Priorities /\ Apart(plan \ {p})
    <3>. HIDE DEF p, plan
    <3>. QED BY <2>1 DEF Apart
  <2>. HIDE DEF p
  <2>7. writing' \in [Authors -> Writings] BY <1>0, <2>5, <2>6 DEF Writings
  <2>. HIDE DEF plan
  <2>. QED BY <1>0, <1>d, <2>4, <2>5, <2>7
<1>5. ASSUME NEW a \in Authors, CheckSent(a) PROVE WeeklyTypes'
  <2>1. report \in {"none", "draft", "sent", "failed"} BY <1>0 DEF WeeklyTypeOK
  <2>2. writing' \in [Authors -> Writings] BY <1>0, <1>5, <2>1 DEF CheckSent, Writings
  <2>. QED BY <1>0, <1>5, <1>d, <2>2 DEF CheckSent
<1>6. ASSUME NEW a \in Authors, SaveDraft(a) PROVE WeeklyTypes'
  <2>1. \A p \in writing[a].plan : Row(a, p) \in Recommended BY <1>0, RowsAreTyped
  <2>2. recommendations' \subseteq Recommended BY <1>0, <1>6, <2>1 DEF SaveDraft
  <2>3. [Away EXCEPT !.pc = "mailing"] \in Writings BY <1>c
  <2>4. writing' \in [Authors -> Writings] BY <1>0, <1>6, <1>b, <2>3 DEF SaveDraft
  <2>5. /\ report' \in {"none", "draft", "sent", "failed"}
        /\ UNCHANGED <<impact, moves, recorded, generations, saidDone, told>>
    BY <1>0, <1>6 DEF SaveDraft, WeeklyTypeOK
  <2>6. \A b \in Authors : writing'[b].pc \in
         {"away", "ranked", "kept", "inserting", "replaced", "checked", "mailing", "delivered"}
    BY <2>4 DEF Writings
  <2>7. WeeklyTypeOK' BY <1>0, <2>2, <2>5, <2>6 DEF WeeklyTypeOK, Recommended, RowStatuses
  <2>. QED BY <2>4, <2>7 DEF WeeklyTypes
<1>7. ASSUME NEW a \in Authors, Deliver(a) PROVE WeeklyTypes'
  <2>1. Recipients(a) \subseteq Members BY DEF Recipients, Members, Authors
  <2>2. writing' \in [Authors -> Writings] BY <1>0, <1>7, <1>c DEF Deliver, Steps
  <2>3. /\ told' \subseteq Members
        /\ UNCHANGED <<impact, moves, recommendations, report, recorded, generations, saidDone>>
    BY <1>0, <1>7, <2>1 DEF Deliver, WeeklyTypeOK
  <2>4. \A b \in Authors : writing'[b].pc \in
         {"away", "ranked", "kept", "inserting", "replaced", "checked", "mailing", "delivered"}
    BY <2>2 DEF Writings
  <2>5. WeeklyTypeOK' BY <1>0, <2>3, <2>4 DEF WeeklyTypeOK
  <2>. QED BY <2>2, <2>5 DEF WeeklyTypes
<1>8. ASSUME NEW a \in Authors, MailFails(a) \/ RecordSent(a) PROVE WeeklyTypes'
  <2>1. Recipients(a) \subseteq Members BY DEF Recipients, Members, Authors
  <2>2. writing' \in [Authors -> Writings] BY <1>0, <1>8, <1>b DEF MailFails, RecordSent
  <2>3. /\ report' \in {"none", "draft", "sent", "failed"} /\ recorded' \subseteq Members
        /\ UNCHANGED <<impact, moves, recommendations, generations, saidDone, told>>
    BY <1>0, <1>8, <2>1 DEF MailFails, RecordSent, WeeklyTypeOK
  <2>4. \A b \in Authors : writing'[b].pc \in
         {"away", "ranked", "kept", "inserting", "replaced", "checked", "mailing", "delivered"}
    BY <2>2 DEF Writings
  <2>5. WeeklyTypeOK' BY <1>0, <2>3, <2>4 DEF WeeklyTypeOK
  <2>. QED BY <2>2, <2>5 DEF WeeklyTypes
<1>9. ASSUME NEW a \in Authors, AuthorDies(a) PROVE WeeklyTypes'
  BY <1>0, <1>9, <1>b, <1>d DEF AuthorDies
<1>10. ASSUME NEW c \in Customers, AskToSend(c) PROVE WeeklyTypes'
  <2>1. generations' \in 0 .. MaxReports BY <1>0, <1>10 DEF AskToSend
  <2>2. writing' \in [Authors -> Writings] BY <1>0, <1>10, <1>c DEF AskToSend, Authors
  <2>. QED BY <1>0, <1>10, <1>d, <2>1, <2>2 DEF AskToSend
<1>11. ASSUME NEW r \in recommendations, MarkDone(r) \/ Dismiss(r) PROVE WeeklyTypes'
  <2>1. r \in Recommended /\ r.lead \in Issues BY <1>0 DEF Recommended
  <2>2. \A s \in {"RESOLVED", "DISMISSED"} : [r EXCEPT !.status = s] \in Recommended
    BY <2>1 DEF Recommended, RowStatuses
  <2>3. /\ recommendations' \subseteq Recommended /\ saidDone' \subseteq Issues
        /\ UNCHANGED <<impact, moves, report, recorded, writing, generations, told>>
    BY <1>0, <1>11, <2>1, <2>2 DEF MarkDone, Dismiss, Answer, WeeklyTypeOK
  <2>4. WeeklyTypeOK' BY <1>0, <2>3 DEF WeeklyTypeOK, Recommended, RowStatuses
  <2>. QED BY <1>0, <2>3, <2>4 DEF WeeklyTypes
<1>12. ASSUME NEW i \in Issues, NEW worth \in Impacts, IssueMoves(i, worth) PROVE WeeklyTypes'
  <2>1. moves' \in 0 .. MaxMoves /\ impact' \in [Issues -> Impacts]
    BY <1>0, <1>12 DEF IssueMoves
  <2>2. UNCHANGED <<recommendations, report, recorded, writing, generations, saidDone, told>>
    BY <1>12 DEF IssueMoves
  <2>3. WeeklyTypeOK' BY <1>0, <2>1, <2>2 DEF WeeklyTypeOK
  <2>. QED BY <1>0, <2>2, <2>3 DEF WeeklyTypes
<1>13. CASE UNCHANGED weeklyVars
  BY <1>0, <1>13 DEF weeklyVars, WeeklyTypes, WeeklyTypeOK
<1>. QED
  BY <1>1, <1>2, <1>3, <1>4, <1>5, <1>6, <1>7, <1>8, <1>9, <1>10, <1>11, <1>12, <1>13
  DEF WeeklyNext

LEMMA WeeklyTypesAlways == WeeklySpec => []WeeklyTypes
<1>1. WeeklyInit => WeeklyTypes
  BY WeeklyAssumption
  DEF WeeklyInit, WeeklyTypes, WeeklyTypeOK, Writings, Away, Apart, Priorities
<1>. QED BY <1>1, WeeklyTypesStep, PTL DEF WeeklySpec

\* Rows, plans and the record are about this website's issues and this organisation's
\* members, for any authors, issues and impacts (api/ai/plan.py, reports/runner.py).
THEOREM WeeklyTyped == WeeklySpec => []WeeklyTypeOK
BY WeeklyTypesAlways, PTL DEF WeeklyTypes

\* Whatever the issues are worth when a week is planned, the priorities are numbered from
\* one without a gap or a tie, the dearest first, and no two are of a type or about an
\* issue, in every plan an author holds (api/ai/plan.py, PlanGenerator.rank and issue_ids[0]).
THEOREM PlansAreNumbered ==
    WeeklySpec => [](PlanNumbered /\ \A a \in Authors : Apart(writing[a].plan))
<1>1. WeeklyTypes => PlanNumbered /\ \A a \in Authors : Apart(writing[a].plan)
  BY RankedIsNumbered DEF WeeklyTypes, WeeklyTypeOK, Writings
<1>. QED BY <1>1, WeeklyTypesAlways, PTL

-----------------------------------------------------------------------------
(* Alerts.                                                                  *)

AlertsShape ==
    /\ tick \in Nat
    /\ fired \in [Accounts -> Int] /\ mailed \in [Accounts -> Int]
    /\ DOMAIN pass = {"pc", "seen", "todo", "alert", "refused"}
    /\ DOMAIN incident = Fingerprints
    /\ \A f \in Fingerprints :
          DOMAIN incident[f] = {"open", "notified"} /\ incident[f].notified \in Int

\* The row of a notice is older than its mail, or as old.
RowComesFirst ==
    /\ \A a \in Accounts :
          /\ fired[a] <= tick
          /\ mailed[a] = Never \/ (fired[a] # Never /\ mailed[a] <= fired[a])
    /\ In("mailing") =>
          /\ pass.alert \in Accounts /\ fired[pass.alert] = tick
          /\ mailed[pass.alert] = Never \/ tick - mailed[pass.alert] > RepeatAfter

Said(f) == incident[f].open /\ incident[f].notified > tick - RenotifyAfter

\* Of what a pass has seen, it has said everything it has come to, unless it was refused.
SaidSoFar ==
    /\ pass.seen \subseteq Fingerprints
    /\ In("asleep") => pass.seen = {}
    /\ pass.pc \in {"opening", "announcing", "announced", "recovering"} =>
          pass.todo \subseteq pass.seen
    /\ In("announcing") \/ In("announced") =>
          pass.alert \in pass.seen /\ incident[pass.alert].open
    /\ ~ pass.refused =>
          \A f \in pass.seen :
             \/ In("opening") /\ f \in pass.todo
             \/ (In("announcing") \/ In("announced")) /\ (f \in pass.todo \/ f = pass.alert)
             \/ In("recovering") /\ f \in pass.todo
             \/ Said(f)

AlertsInv == AlertsShape /\ RowComesFirst /\ SaidSoFar

LEMMA AlertsInvStep == ASSUME AlertsInv, [AlertsNext]_alertVars PROVE AlertsInv'
<1>. USE AlertsAssumption
<1>. USE DEF AlertsInv, AlertsShape, RowComesFirst, SaidSoFar, Said, In, alertFacts, Never, Asleep
<1>1. CASE Wake
  BY <1>1 DEF Wake, Scan, SchedulerIsQuiet, JobsFailing, ConnectionsNeedReauth, Fingerprints
<1>2. ASSUME NEW f \in Fingerprints, OpenIncident(f) PROVE AlertsInv'
  <2>1. AlertsShape' BY <1>2 DEF OpenIncident
  <2>2. RowComesFirst' BY <1>2 DEF OpenIncident
  <2>3. SaidSoFar'
    <3>1. /\ pass'.seen = pass.seen /\ pass'.todo = pass.todo \ {f}
          /\ pass'.refused = pass.refused /\ f \in pass.seen
          /\ incident'[f].open /\ incident'[f].notified = incident[f].notified
          /\ \A g \in Fingerprints : g # f => incident'[g] = incident[g]
      BY <1>2 DEF OpenIncident
    <3>2. CASE Due(incident[f])
      <4>1. pass'.pc = "announcing" /\ pass'.alert = f BY <1>2, <3>2 DEF OpenIncident
      <4>. QED BY <1>2, <3>1, <4>1 DEF OpenIncident
    <3>3. CASE ~ Due(incident[f])
      <4>1. pass'.pc = "opening" BY <1>2, <3>3 DEF OpenIncident
      <4>2. Said(f)' BY <1>2, <3>1, <3>3 DEF OpenIncident, Due
      <4>. QED BY <1>2, <3>1, <4>1, <4>2 DEF OpenIncident
    <3>. QED BY <3>2, <3>3
  <2>. QED BY <2>1, <2>2, <2>3
<1>3. ASSUME NEW f \in Fingerprints, Resolve(f) PROVE AlertsInv'
  BY <1>3 DEF Resolve, NoIncident
<1>4. CASE Notify BY <1>4 DEF Notify
<1>5. CASE NotifyFails BY <1>5 DEF NotifyFails
<1>6. CASE RecordNotified BY <1>6 DEF RecordNotified
<1>7. CASE FindNotices BY <1>7 DEF FindNotices
<1>8. CASE Mail BY <1>8 DEF Mail
<1>9. CASE MailNot \/ RecordDelivered \/ Done \/ PassDies
  <2>1. CASE MailNot BY <2>1 DEF MailNot
  <2>2. CASE RecordDelivered BY <2>2 DEF RecordDelivered
  <2>3. CASE Done \/ PassDies BY <2>3 DEF Done, PassDies
  <2>. QED BY <1>9, <2>1, <2>2, <2>3
<1>10. ASSUME NEW a \in Accounts, Suppress(a) \/ Fire(a) PROVE AlertsInv'
  <2>1. CASE Suppress(a) BY <2>1 DEF Suppress
  <2>2. CASE Fire(a)
    <3>1. AlertsShape' BY <2>2 DEF Fire
    <3>2. RowComesFirst'
      <4>1. mailed[a] = Never \/ tick - mailed[a] > RepeatAfter
        BY <2>2 DEF Fire, Suppressed
      <4>2. /\ pass'.alert = a /\ fired' = [fired EXCEPT ![a] = tick]
            /\ UNCHANGED <<tick, mailed>>
        BY <2>2 DEF Fire
      <4>. QED BY <4>1, <4>2
    <3>3. SaidSoFar' BY <2>2 DEF Fire
    <3>. QED BY <3>1, <3>2, <3>3
  <2>. QED BY <1>10, <2>1, <2>2
<1>11. CASE Tick BY <1>11 DEF Tick
<1>12. ASSUME NEW c, NEW claim, NEW needing, FactsChange(c, claim, needing) PROVE AlertsInv'
  BY <1>12 DEF FactsChange
<1>13. CASE UNCHANGED alertVars BY <1>13 DEF alertVars
<1>. QED
  BY <1>1, <1>2, <1>3, <1>4, <1>5, <1>6, <1>7, <1>8, <1>9, <1>10, <1>11, <1>12, <1>13
  DEF AlertsNext

LEMMA AlertsInvAlways == AlertsSpec => []AlertsInv
<1>1. AlertsInit => AlertsInv
  BY DEF AlertsInit, AlertsInv, AlertsShape, RowComesFirst, SaidSoFar, Said, In, Never,
         NoIncident, Asleep
<1>. QED BY <1>1, AlertsInvStep, PTL DEF AlertsSpec

\* A pass that was refused nothing leaves no problem it saw unmentioned for RENOTIFY_AFTER,
\* for any jobs, accounts and lengths of time (api/alerting/operator.py).
THEOREM ProblemsAreMentioned == AlertsSpec => []StillTrueStillSaid
<1>1. AlertsInv => StillTrueStillSaid
  BY DEF AlertsInv, SaidSoFar, Said, StillTrueStillSaid, In
<1>. QED BY <1>1, AlertsInvAlways, PTL

\* Two mails about one account are more than REPEAT_AFTER apart, wherever the task is
\* killed (api/alerting/customer.py).
THEOREM MailsAreApart == AlertsSpec => NoNagging
<1>1. ASSUME AlertsInv, [AlertsNext]_alertVars
      PROVE  [\A a \in Accounts :
                 mailed'[a] # mailed[a] =>
                     mailed[a] = Never \/ mailed'[a] - mailed[a] > RepeatAfter]_mailed
  <2>1. Mail \/ UNCHANGED mailed
    BY <1>1
    DEF AlertsNext, Wake, OpenIncident, Resolve, Notify, NotifyFails, RecordNotified, FindNotices,
        MailNot, RecordDelivered, Done, PassDies, Suppress, Fire, Tick, FactsChange, alertVars
  <2>2. CASE Mail
    BY <1>1, <2>2 DEF Mail, AlertsInv, AlertsShape, RowComesFirst, In
  <2>. QED BY <2>1, <2>2
<1>. QED BY <1>1, AlertsInvAlways, PTL DEF AlertsSpec, NoNagging

Instants == {Never} \cup 0 .. LastTick

AlertsTypes ==
    /\ AlertsTypeOK /\ pass.todo \subseteq pass.seen \cup Accounts
    /\ In("mailing") \/ In("mailed") => pass.alert \in Accounts
    /\ pass.pc \in {"telling", "mailing", "mailed"} => pass.todo \subseteq Accounts

LEMMA SeveritiesAre == \A f : SeverityOf(f) \in Severities
BY DEF SeverityOf, Severities

LEMMA AlertsTypesStep ==
    ASSUME AlertsInv, AlertsTypes, [AlertsNext]_alertVars
    PROVE  AlertsTypes'
<1>0. /\ LastTick \in Nat /\ tick \in 0 .. LastTick
      /\ DOMAIN pass = {"pc", "seen", "todo", "alert", "refused"}
      /\ incident \in [Fingerprints -> [open : BOOLEAN, notified : Instants]]
      /\ fired \in [Accounts -> Instants] /\ delivered \subseteq Accounts
      /\ stale \subseteq Accounts /\ lastClaim \in 0 .. LastTick
      /\ pass.pc \in {"asleep", "opening", "announcing", "announced", "recovering", "telling",
                      "mailing", "mailed"}
  BY AlertsAssumption DEF AlertsInv, AlertsShape, AlertsTypes, AlertsTypeOK, Instants
<1>a. (\A f \in Scan : SeverityOf(f) \in Severities)'
  BY DEF SeverityOf, Severities
<1>1. ASSUME UNCHANGED alertFacts,
             incident' \in [Fingerprints -> [open : BOOLEAN, notified : Instants]],
             fired' \in [Accounts -> Instants], delivered' \subseteq Accounts,
             pass'.pc \in {"asleep", "opening", "announcing", "announced", "recovering",
                           "telling", "mailing", "mailed"},
             pass'.todo \subseteq pass'.seen \cup Accounts,
             In("mailing")' \/ In("mailed")' => pass'.alert \in Accounts,
             pass'.pc \in {"telling", "mailing", "mailed"} => pass'.todo \subseteq Accounts
      PROVE  AlertsTypes'
  BY <1>0, <1>a, <1>1 DEF AlertsTypes, AlertsTypeOK, alertFacts, Instants
<1>2. CASE Wake
  BY <1>0, <1>1, <1>2 DEF Wake, Asleep, In
<1>3. ASSUME NEW f \in Fingerprints, OpenIncident(f) PROVE AlertsTypes'
  <2>1. /\ pass'.pc \in {"opening", "announcing"} /\ pass'.todo = pass.todo \ {f}
        /\ pass'.seen = pass.seen
        /\ incident' = [incident EXCEPT ![f].open = TRUE]
        /\ UNCHANGED <<alertFacts, fired, delivered, mailed>>
    BY <1>0, <1>3 DEF OpenIncident
  <2>2. incident' \in [Fingerprints -> [open : BOOLEAN, notified : Instants]]
    BY <1>0, <2>1
  <2>. QED BY <1>0, <1>1, <2>1, <2>2 DEF AlertsTypes, In
<1>4. ASSUME NEW f \in Fingerprints, Resolve(f) PROVE AlertsTypes'
  <2>1. /\ pass'.pc \in {"opening", "recovering"} /\ pass'.todo = pass.todo
        /\ pass'.seen = pass.seen
        /\ incident' = [incident EXCEPT ![f] = NoIncident]
        /\ UNCHANGED <<alertFacts, fired, delivered, mailed>>
    BY <1>0, <1>4 DEF Resolve
  <2>2. incident' \in [Fingerprints -> [open : BOOLEAN, notified : Instants]]
    BY <1>0, <2>1 DEF NoIncident, Instants
  <2>. QED BY <1>0, <1>1, <2>1, <2>2 DEF AlertsTypes, In
<1>5. CASE Notify \/ NotifyFails
  <2>1. /\ pass'.pc \in {"announced", "opening"} /\ pass'.todo = pass.todo
        /\ pass'.seen = pass.seen
        /\ UNCHANGED <<alertFacts, incident, fired, delivered, mailed>>
    BY <1>0, <1>5 DEF Notify, NotifyFails
  <2>. QED BY <1>0, <1>1, <2>1 DEF AlertsTypes, In
<1>6. CASE RecordNotified
  <2>1. /\ pass'.pc = "opening" /\ pass'.todo = pass.todo /\ pass'.seen = pass.seen
        /\ incident' = [incident EXCEPT ![pass.alert].notified = tick]
        /\ UNCHANGED <<alertFacts, fired, delivered, mailed>>
    BY <1>0, <1>6 DEF RecordNotified
  <2>2. pass.alert \in Fingerprints
    BY <1>6 DEF RecordNotified, In, AlertsInv, SaidSoFar
  <2>3. incident' \in [Fingerprints -> [open : BOOLEAN, notified : Instants]]
    <3>1. tick \in Instants BY <1>0 DEF Instants
    <3>2. [incident[pass.alert] EXCEPT !.notified = tick] \in
              [open : BOOLEAN, notified : Instants]
      BY <1>0, <2>2, <3>1
    <3>. QED BY <1>0, <2>1, <2>2, <3>2
  <2>. QED BY <1>0, <1>1, <2>1, <2>3 DEF AlertsTypes, In
<1>7. CASE FindNotices
  BY <1>0, <1>1, <1>7 DEF FindNotices, In
<1>8. CASE Mail \/ MailNot \/ RecordDelivered
  <2>1. pass.pc \in {"mailing", "mailed"} /\ pass.alert \in Accounts /\ pass.todo \subseteq Accounts
    BY <1>8 DEF Mail, MailNot, RecordDelivered, In, AlertsTypes
  <2>2. /\ pass'.pc \in {"mailed", "telling"} /\ pass'.todo = pass.todo
        /\ pass'.seen = pass.seen
        /\ pass'.pc = "mailed" => pass'.alert = pass.alert
        /\ delivered' \in {delivered, delivered \cup {pass.alert}}
        /\ UNCHANGED <<alertFacts, incident, fired>>
    BY <1>0, <1>8 DEF Mail, MailNot, RecordDelivered
  <2>. QED BY <1>0, <1>1, <2>1, <2>2 DEF In
<1>9. CASE Done \/ PassDies
  BY <1>0, <1>1, <1>9 DEF Done, PassDies, Asleep, In
<1>10. ASSUME NEW a \in Accounts, Suppress(a) PROVE AlertsTypes'
  BY <1>0, <1>1, <1>10 DEF Suppress, AlertsTypes, In
<1>11. ASSUME NEW a \in Accounts, Fire(a) PROVE AlertsTypes'
  <2>1. fired' \in [Accounts -> Instants] BY <1>0, <1>11 DEF Fire, Instants
  <2>. QED BY <1>0, <1>1, <1>11, <2>1 DEF Fire, AlertsTypes, In
<1>12. CASE Tick
  BY <1>0, <1>a, <1>12 DEF Tick, AlertsTypes, AlertsTypeOK, In
<1>13. ASSUME NEW newCounts, NEW newClaim \in 0 .. LastTick, NEW newStale \in SUBSET Accounts,
              FactsChange(newCounts, newClaim, newStale)
       PROVE  AlertsTypes'
  BY <1>0, <1>a, <1>13 DEF FactsChange, AlertsTypes, AlertsTypeOK, In
<1>14. CASE UNCHANGED alertVars
  BY <1>0, <1>1, <1>14 DEF alertVars, AlertsTypes, In
<1>15. ASSUME NEW j \in AlertJobs, NEW c \in RunCounts,
              FactsChange([counts EXCEPT ![j] = c], IF c.total > 0 THEN tick ELSE lastClaim, stale)
       PROVE  AlertsTypes'
  <2>1. (IF c.total > 0 THEN tick ELSE lastClaim) \in 0 .. LastTick BY <1>0
  <2>. QED BY <1>0, <1>13, <1>15, <2>1
<1>16. ASSUME NEW needing \in SUBSET Accounts, FactsChange(counts, lastClaim, needing)
       PROVE  AlertsTypes'
  BY <1>0, <1>13, <1>16
<1>. QED
  BY <1>2, <1>3, <1>4, <1>5, <1>6, <1>7, <1>8, <1>9, <1>10, <1>11, <1>12, <1>14, <1>15, <1>16
  DEF AlertsNext

\* Rows are kept of what the scans look for and of the accounts there are, and what a pass
\* sees is graded (api/alerting/operator.py, customer.py).
THEOREM AlertsTyped == AlertsSpec => []AlertsTypeOK
<1>1. AlertsInit => AlertsTypes
  BY AlertsAssumption, SeveritiesAre
  DEF AlertsInit, AlertsTypes, AlertsTypeOK, In, Asleep, NoIncident
<1>2. AlertsTypes => AlertsTypeOK BY DEF AlertsTypes
<1>. QED BY <1>1, <1>2, AlertsTypesStep, AlertsInvAlways, PTL DEF AlertsSpec

-----------------------------------------------------------------------------
(* Spending.                                                                *)

Whereabouts ==
    [pc : {"resting", "asking", "calling", "answered", "cached"},
     problem : Problems \cup {Nothing}, seen : SUBSET (Problems \cup {Nothing}),
     budget : Int, cost : CallCosts \cup {0}, round : Nat, tools : Nat]

SpendingShape ==
    /\ spent \in Nat /\ bulk \in Nat /\ bulk <= spent
    /\ spending \in [Spenders -> Whereabouts]
    /\ \A c \in Chats : spending[c].pc \in {"calling", "answered"} =>
                            spending[c].round \in 1 .. MaxRounds

\* The calls that may be admitted together: one of each run of explanations, numbered 0,
\* and the rounds of each conversation.
Admissible == (Explainers \X {0}) \cup (Chats \X (1 .. MaxRounds))

\* A call that is made or may still be made, with the budget that was read, and not recorded.
IsOpen(r, where) ==
    IF r = 0
    THEN \/ where.pc \in {"calling", "answered", "cached"}
         \/ where.budget # Unread /\ Allows(where.budget)
    ELSE where.pc \in {"calling", "answered"} /\ r >= where.round

Admitted == {x \in Admissible : IsOpen(x[2], spending[x[1]])}

\* What is recorded and what is admitted stay together below the bound.
RoomLeft ==
    \/ bulk = 0 /\ Admitted = {}
    \/ bulk + Dearest * Cardinality(Admitted) < Allowance + Dearest * Cardinality(Admissible)

SpendingInv == SpendingShape /\ RoomLeft

\* No call costs more than the dearest.
LEMMA DearestIs ==
    Dearest \in Nat /\ \A cost \in CallCosts \cup {0} : cost \in Nat /\ cost <= Dearest
<1>1. Dearest \in CallCosts /\ \A y \in CallCosts : y <= Dearest
  BY CostsAssumption DEF Dearest
<1>. QED BY <1>1, CostsAssumption

\* There are as many of them as the bound has.
LEMMA AdmissibleAre ==
    /\ IsFiniteSet(Admissible)
    /\ Cardinality(Admissible) = Cardinality(Explainers) + MaxRounds * Cardinality(Chats)
    /\ Cardinality(Explainers) \in Nat /\ Cardinality(Chats) \in Nat
<1>1. IsFiniteSet(Explainers) /\ IsFiniteSet(Chats)
  BY SpendersAssumption, FS_Subset DEF Spenders
<1>2. MaxRounds \in Nat \ {0} BY CostsAssumption
<1>3. IsFiniteSet({0}) /\ Cardinality({0}) = 1 BY FS_Singleton
<1>4. IsFiniteSet(1 .. MaxRounds) /\ Cardinality(1 .. MaxRounds) = MaxRounds
  BY <1>2, FS_Interval
<1>5. Cardinality(Explainers) \in Nat /\ Cardinality(Chats) \in Nat
  BY <1>1, FS_CardinalityType
<1>6. /\ IsFiniteSet(Explainers \X {0})
      /\ Cardinality(Explainers \X {0}) = Cardinality(Explainers) * 1
  BY <1>1, <1>3, FS_Product
<1>7. /\ IsFiniteSet(Chats \X (1 .. MaxRounds))
      /\ Cardinality(Chats \X (1 .. MaxRounds)) = Cardinality(Chats) * MaxRounds
  BY <1>1, <1>4, FS_Product
<1>8. (Explainers \X {0}) \cap (Chats \X (1 .. MaxRounds)) = {}
  OBVIOUS
<1>9. Cardinality({}) = 0 BY FS_EmptySet
<1>10. /\ IsFiniteSet(Admissible)
       /\ Cardinality(Admissible) = Cardinality(Explainers \X {0})
                                       + Cardinality(Chats \X (1 .. MaxRounds)) - 0
  BY <1>6, <1>7, <1>8, <1>9, FS_Union DEF Admissible
<1>. QED BY <1>2, <1>5, <1>6, <1>7, <1>10

\* The arithmetic of it, with d for the dearest cost.
LEMMA LessToCome ==
    ASSUME NEW d \in Nat, NEW m \in Nat, NEW n \in Nat, m <= n
    PROVE  d * m \in Nat /\ d * n \in Nat /\ d * m <= d * n /\ d * (n + 1) = d * n + d
  OBVIOUS

\* If less is recorded and less is to come, the bound holds still.
LEMMA LessStill ==
    ASSUME NEW a \in Nat, NEW b \in Nat, NEW x \in Nat, NEW y \in Nat, NEW l \in Nat,
           NEW m \in Nat, a <= b, y <= x, b + x < l + m
    PROVE  a + y < l + m
  OBVIOUS

\* Any set of them is finite and costs no more than all.
LEMMA AdmittedAre ==
    ASSUME NEW A \in SUBSET Admissible
    PROVE  /\ IsFiniteSet(A) /\ Cardinality(A) \in Nat
           /\ Dearest * Cardinality(A) \in Nat
           /\ Dearest * Cardinality(A) <= Dearest * Cardinality(Admissible)
           /\ Dearest * Cardinality(Admissible) \in Nat
<1>1. IsFiniteSet(A) /\ Cardinality(A) <= Cardinality(Admissible)
  BY AdmissibleAre, FS_Subset
<1>2. Cardinality(A) \in Nat /\ Cardinality(Admissible) \in Nat
  BY <1>1, AdmissibleAre, FS_CardinalityType
<1>. QED BY <1>1, <1>2, DearestIs, LessToCome

\* Nothing new is admitted.
LEMMA RoomStays ==
    ASSUME SpendingInv, Admitted' \subseteq Admitted, bulk' \in Nat, bulk' <= bulk
    PROVE  RoomLeft'
<1>1. Admitted \in SUBSET Admissible /\ Admitted' \in SUBSET Admissible BY DEF Admitted
<1>2. Cardinality(Admitted') <= Cardinality(Admitted)
  BY <1>1, AdmittedAre, FS_Subset
<1>3. CASE bulk = 0 /\ Admitted = {}
  <2>1. bulk' = 0 BY <1>3, SMT
  <2>2. Admitted' = {} BY <1>3
  <2>. QED BY <2>1, <2>2 DEF RoomLeft
<1>4. CASE ~ (bulk = 0 /\ Admitted = {})
  <2>. DEFINE before == Cardinality(Admitted)
              after == Cardinality(Admitted')
              all == Dearest * Cardinality(Admissible)
  <2>1. /\ before \in Nat /\ after \in Nat /\ after <= before
        /\ Dearest * before \in Nat /\ Dearest * after \in Nat /\ all \in Nat
    BY <1>1, <1>2, AdmittedAre
  <2>2. bulk + Dearest * before < Allowance + all BY <1>4 DEF SpendingInv, RoomLeft
  <2>3. Dearest * after <= Dearest * before BY <2>1, DearestIs, LessToCome
  <2>4. bulk \in Nat /\ Allowance \in Nat BY CostsAssumption DEF SpendingInv, SpendingShape
  <2>. DEFINE x == Dearest * before
              y == Dearest * after
  <2>5. /\ x \in Nat /\ y \in Nat /\ all \in Nat /\ y <= x
        /\ bulk + x < Allowance + all
    BY <2>1, <2>2, <2>3
  <2>. HIDE DEF x, y, all
  <2>6. bulk' + y < Allowance + all BY <2>4, <2>5, LessStill
  <2>. QED BY <2>6 DEF RoomLeft, y, all
<1>. QED BY <1>3, <1>4

\* An admitted call is recorded, at no more than the dearest.
LEMMA RoomUsed ==
    ASSUME SpendingInv, NEW x \in Admitted, Admitted' \subseteq Admitted \ {x},
           NEW cost \in CallCosts \cup {0}, bulk' = bulk + cost
    PROVE  RoomLeft'
<1>1. Admitted \in SUBSET Admissible /\ Admitted' \in SUBSET Admissible BY DEF Admitted
<1>. DEFINE before == Cardinality(Admitted)
            after == Cardinality(Admitted')
            all == Dearest * Cardinality(Admissible)
<1>2. /\ before \in Nat /\ after \in Nat
      /\ Dearest * before \in Nat /\ Dearest * after \in Nat /\ all \in Nat
  BY <1>1, AdmittedAre
<1>3. IsFiniteSet(Admitted) BY <1>1, AdmittedAre
<1>4. IsFiniteSet(Admitted \ {x}) /\ Cardinality(Admitted \ {x}) = before - 1
  BY <1>3, FS_RemoveElement
<1>5. after <= before - 1 BY <1>4, FS_Subset
<1>6. Dearest * after + Dearest <= Dearest * before
  <2>1. after + 1 <= before BY <1>2, <1>5
  <2>2. Dearest * (after + 1) <= Dearest * before BY <1>2, <2>1, DearestIs, LessToCome
  <2>3. Dearest * (after + 1) = Dearest * after + Dearest
    BY <1>2, DearestIs, LessToCome
  <2>. QED BY <2>2, <2>3
<1>7. bulk + Dearest * before < Allowance + all BY DEF SpendingInv, RoomLeft
<1>8. bulk \in Nat /\ Allowance \in Nat BY CostsAssumption DEF SpendingInv, SpendingShape
<1>9. cost \in Nat /\ cost <= Dearest /\ Dearest \in Nat BY DearestIs
<1>. DEFINE u == Dearest * before
            v == Dearest * after
            d == Dearest
<1>10. /\ u \in Nat /\ v \in Nat /\ d \in Nat /\ v + d <= u /\ bulk + u < Allowance + all
       /\ cost \in Nat /\ cost <= d /\ all \in Nat
  BY <1>2, <1>6, <1>7, <1>9
<1>. HIDE DEF u, v, d, all
<1>11. bulk + cost + v < Allowance + all BY <1>8, <1>10
<1>. QED BY <1>11 DEF RoomLeft, v, all

\* A call is admitted while there is allowance.
LEMMA RoomTaken ==
    ASSUME SpendingInv, spent < Allowance, bulk' = bulk
    PROVE  RoomLeft'
<1>1. Admitted' \in SUBSET Admissible BY DEF Admitted
<1>. DEFINE all == Dearest * Cardinality(Admissible)
            v == Dearest * Cardinality(Admitted')
<1>2. v \in Nat /\ all \in Nat /\ v <= all BY <1>1, AdmittedAre
<1>3. bulk \in Nat /\ spent \in Nat /\ bulk <= spent /\ Allowance \in Nat
  BY CostsAssumption DEF SpendingInv, SpendingShape
<1>. HIDE DEF all, v
<1>4. bulk' + v < Allowance + all BY <1>2, <1>3
<1>. QED BY <1>4 DEF RoomLeft, v, all

\* Only what a spender itself has open can change with it.
LEMMA OneMoves ==
    ASSUME SpendingShape, NEW s \in Spenders, NEW where \in Whereabouts,
           spending' = [spending EXCEPT ![s] = where],
           \A r \in 0 .. MaxRounds :
               <<s, r>> \in Admissible /\ IsOpen(r, where) => IsOpen(r, spending[s])
    PROVE  /\ Admitted' \subseteq Admitted
           /\ \A r \in 0 .. MaxRounds : ~ IsOpen(r, where) => <<s, r>> \notin Admitted'
<1>1. spending \in [Spenders -> Whereabouts] BY DEF SpendingShape
<1>2. ASSUME NEW x \in Admissible
      PROVE  /\ x[1] \in Spenders /\ x[2] \in 0 .. MaxRounds /\ x = <<x[1], x[2]>>
  BY CostsAssumption DEF Admissible, Spenders
<1>3. ASSUME NEW x \in Admitted' PROVE x \in Admitted
  <2>1. x \in Admissible /\ IsOpen(x[2], spending'[x[1]]) BY DEF Admitted
  <2>2. CASE x[1] # s
    <3>1. spending'[x[1]] = spending[x[1]] BY <1>1, <1>2, <2>1, <2>2
    <3>. QED BY <2>1, <3>1 DEF Admitted
  <2>3. CASE x[1] = s
    <3>1. spending'[s] = where BY <1>1
    <3>2. IsOpen(x[2], where) BY <2>1, <2>3, <3>1
    <3>3. <<s, x[2]>> = x BY <1>2, <2>1, <2>3
    <3>4. IsOpen(x[2], spending[s]) BY <1>2, <2>1, <3>2, <3>3
    <3>. QED BY <2>1, <2>3, <3>4 DEF Admitted
  <2>. QED BY <2>2, <2>3
<1>4. ASSUME NEW r \in 0 .. MaxRounds, ~ IsOpen(r, where) PROVE <<s, r>> \notin Admitted'
  <2>1. spending'[s] = where BY <1>1
  <2>2. <<s, r>>[1] = s /\ <<s, r>>[2] = r OBVIOUS
  <2>. QED BY <1>4, <2>1, <2>2 DEF Admitted
<1>. QED BY <1>3, <1>4

\* The shape is kept by a spender that moves.
LEMMA ShapeKept ==
    ASSUME SpendingShape, NEW s \in Spenders, NEW where \in Whereabouts,
           spending' = [spending EXCEPT ![s] = where],
           s \in Chats /\ where.pc \in {"calling", "answered"} => where.round \in 1 .. MaxRounds,
           spent' \in Nat, bulk' \in Nat, bulk' <= spent'
    PROVE  SpendingShape'
<1>1. spending \in [Spenders -> Whereabouts] BY DEF SpendingShape
<1>2. spending' \in [Spenders -> Whereabouts] BY <1>1
<1>3. ASSUME NEW c \in Chats, spending'[c].pc \in {"calling", "answered"}
      PROVE  spending'[c].round \in 1 .. MaxRounds
  <2>1. c \in Spenders BY DEF Spenders
  <2>2. CASE c = s
    <3>1. spending'[c] = where BY <1>1, <2>2
    <3>. QED BY <1>3, <2>2, <3>1
  <2>3. CASE c # s
    <3>1. spending'[c] = spending[c] BY <1>1, <2>1, <2>3
    <3>. QED BY <1>3, <3>1 DEF SpendingShape
  <2>. QED BY <2>2, <2>3
<1>. QED BY <1>2, <1>3 DEF SpendingShape

\* A spender moves, has nothing new to come, and records nothing.
LEMMA Moves ==
    ASSUME SpendingInv, NEW s \in Spenders, NEW where \in Whereabouts,
           spending' = [spending EXCEPT ![s] = where],
           s \in Chats /\ where.pc \in {"calling", "answered"} => where.round \in 1 .. MaxRounds,
           \A r \in 0 .. MaxRounds :
               <<s, r>> \in Admissible /\ IsOpen(r, where) => IsOpen(r, spending[s]),
           spent' = spent, bulk' = bulk
    PROVE  SpendingInv'
<1>1. bulk \in Nat /\ spent \in Nat /\ bulk <= spent /\ SpendingShape
  BY DEF SpendingInv, SpendingShape
<1>2. SpendingShape' BY <1>1, ShapeKept
<1>3. Admitted' \subseteq Admitted BY <1>1, OneMoves
<1>4. RoomLeft' BY <1>1, <1>3, RoomStays
<1>. QED BY <1>2, <1>4 DEF SpendingInv

\* A spender whose calls count records the one it has open under number r.
LEMMA Records ==
    ASSUME SpendingInv, NEW s \in Explainers \cup Chats, NEW where \in Whereabouts,
           spending' = [spending EXCEPT ![s] = where],
           s \in Chats /\ where.pc \in {"calling", "answered"} => where.round \in 1 .. MaxRounds,
           NEW r \in 0 .. MaxRounds, <<s, r>> \in Admissible,
           IsOpen(r, spending[s]), ~ IsOpen(r, where),
           \A q \in 0 .. MaxRounds :
               <<s, q>> \in Admissible /\ IsOpen(q, where) => IsOpen(q, spending[s]),
           Record(s)
    PROVE  SpendingInv'
<1>. DEFINE cost == spending[s].cost
<1>1. s \in Spenders /\ s \notin Planners BY SpendersAssumption DEF Spenders
<1>2. SpendingShape /\ bulk \in Nat /\ spent \in Nat /\ bulk <= spent
  BY DEF SpendingInv, SpendingShape
<1>3. cost \in CallCosts \cup {0} BY <1>1, <1>2 DEF SpendingShape, Whereabouts
<1>4. cost \in Nat BY <1>3, DearestIs
<1>5. bulk' = bulk + cost /\ spent' = spent + cost BY <1>1 DEF Record
<1>6. spent' \in Nat /\ bulk' \in Nat /\ bulk' <= spent' BY <1>2, <1>4, <1>5
<1>7. SpendingShape' BY <1>1, <1>2, <1>6, ShapeKept
<1>8. Admitted' \subseteq Admitted /\ <<s, r>> \notin Admitted' BY <1>1, <1>2, OneMoves
<1>9. <<s, r>> \in Admitted
  <2>1. <<s, r>>[1] = s /\ <<s, r>>[2] = r OBVIOUS
  <2>. QED BY <2>1 DEF Admitted
<1>10. RoomLeft'
  <2>1. Admitted' \subseteq Admitted \ {<<s, r>>} BY <1>8
  <2>. HIDE DEF cost
  <2>. QED BY <1>3, <1>5, <1>9, <2>1, RoomUsed
<1>. QED BY <1>7, <1>10 DEF SpendingInv

\* A spender is admitted.
LEMMA IsAdmitted ==
    ASSUME SpendingInv, spent < Allowance, NEW s \in Spenders, NEW where \in Whereabouts,
           spending' = [spending EXCEPT ![s] = where],
           s \in Chats /\ where.pc \in {"calling", "answered"} => where.round \in 1 .. MaxRounds,
           spent' = spent, bulk' = bulk
    PROVE  SpendingInv'
<1>1. bulk \in Nat /\ spent \in Nat /\ bulk <= spent /\ SpendingShape
  BY DEF SpendingInv, SpendingShape
<1>2. SpendingShape' BY <1>1, ShapeKept
<1>3. RoomLeft' BY RoomTaken
<1>. QED BY <1>2, <1>3 DEF SpendingInv

\* Of a spender of any kind: what is numbered for it.
LEMMA Numbered ==
    ASSUME NEW s, NEW r
    PROVE  /\ s \in Explainers => (<<s, r>> \in Admissible <=> r = 0)
           /\ s \in Chats => (<<s, r>> \in Admissible <=> r \in 1 .. MaxRounds)
           /\ s \in Planners => <<s, r>> \notin Admissible
<1>. QED BY SpendersAssumption DEF Admissible

\* Who rests has nothing open.
LEMMA RestingIs == Resting \in Whereabouts /\ \A r \in Nat : ~ IsOpen(r, Resting)
<1>1. Resting \in Whereabouts BY DEF Resting, Whereabouts, Unread
<1>2. Resting.pc = "resting" /\ Resting.budget = Unread BY DEF Resting
<1>. QED BY <1>1, <1>2 DEF IsOpen

\* An explanation that is not asked for, or done with: the run keeps the budget it read.
LEMMA RememberIs ==
    ASSUME NEW e, NEW where \in Whereabouts
    PROVE  /\ Remember(e, where) \in Whereabouts
           /\ Remember(e, where).pc = "resting" /\ Remember(e, where).budget = where.budget
BY DEF Remember, Whereabouts

\* The steps of explanations, of a conversation and of the plan's writer.
LEMMA ExplainersStep ==
    ASSUME SpendingInv, NEW e \in Explainers,
           \/ \E p \in Problems : LookUp(e, p)
           \/ Explain(e) \/ CacheExplanation(e) \/ MeterExplanation(e) \/ ExplanationFails(e)
    PROVE  SpendingInv'
<1>. DEFINE here == spending[e]
<1>1. e \in Spenders /\ e \notin Chats BY SpendersAssumption DEF Spenders
<1>2. here \in Whereabouts BY <1>1 DEF SpendingInv, SpendingShape
<1>3. /\ spent \in Nat /\ bulk \in Nat /\ Allowance \in Nat
      /\ 0 \in 0 .. MaxRounds /\ <<e, 0>> \in Admissible
  BY CostsAssumption, Numbered DEF SpendingInv, SpendingShape
<1>4. \A r \in 0 .. MaxRounds : <<e, r>> \in Admissible => r = 0 BY Numbered
<1>5. ASSUME NEW where \in Whereabouts, spending' = [spending EXCEPT ![e] = where],
             IsOpen(0, where) => IsOpen(0, here), spent' = spent, bulk' = bulk
      PROVE  SpendingInv'
  BY <1>1, <1>4, <1>5, Moves
<1>6. ASSUME NEW p \in Problems, LookUp(e, p) PROVE SpendingInv'
  <2>. DEFINE where == [here EXCEPT !.problem = p]
              next == IF p \in explained THEN Remember(e, where) ELSE [where EXCEPT !.pc = "asking"]
  <2>1. where \in Whereabouts /\ where.budget = here.budget BY <1>2 DEF Whereabouts
  <2>2. /\ next \in Whereabouts /\ next.budget = here.budget
        /\ next.pc \in {"resting", "asking"}
    <3>. HIDE DEF where
    <3>1. CASE p \in explained BY <2>1, <3>1, RememberIs
    <3>2. CASE p \notin explained BY <2>1, <3>2 DEF Whereabouts
    <3>. QED BY <3>1, <3>2
  <2>3. /\ spending' = [spending EXCEPT ![e] = next] /\ spent' = spent /\ bulk' = bulk
    BY <1>6 DEF LookUp
  <2>. HIDE DEF next
  <2>4. IsOpen(0, next) => IsOpen(0, here) BY <2>2 DEF IsOpen
  <2>. QED BY <1>5, <2>2, <2>3, <2>4
<1>7. ASSUME Explain(e) PROVE SpendingInv'
  <2>. DEFINE where == [here EXCEPT !.budget = Budget(e)]
  <2>1. Budget(e) \in Int BY <1>2, <1>3 DEF Budget, Whereabouts
  <2>2. where \in Whereabouts /\ where.budget = Budget(e) /\ where.pc = here.pc
    BY <1>2, <2>1 DEF Whereabouts
  <2>3. spent' = spent /\ bulk' = bulk BY <1>7 DEF Explain
  <2>4. CASE Allows(Budget(e))
    <3>. DEFINE next == [where EXCEPT !.pc = "calling"]
    <3>1. next \in Whereabouts /\ next.pc = "calling" BY <2>2 DEF Whereabouts
    <3>2. spending' = [spending EXCEPT ![e] = next] BY <1>7, <2>4 DEF Explain, Call
    <3>. HIDE DEF next
    <3>3. CASE here.budget = Unread
      <4>1. spent < Allowance BY <2>4, <3>3 DEF Budget, Allows
      <4>. QED BY <1>1, <2>3, <3>1, <3>2, <4>1, IsAdmitted
    <3>4. CASE here.budget # Unread
      <4>1. IsOpen(0, here) BY <2>4, <3>4 DEF Budget, IsOpen
      <4>. QED BY <1>5, <2>3, <3>1, <3>2, <4>1
    <3>. QED BY <3>3, <3>4
  <2>5. CASE ~ Allows(Budget(e))
    <3>. DEFINE next == Remember(e, where)
    <3>1. next \in Whereabouts /\ next.pc = "resting" /\ next.budget = Budget(e)
      <4>. HIDE DEF where
      <4>. QED BY <2>2, RememberIs
    <3>2. spending' = [spending EXCEPT ![e] = next] BY <1>7, <2>5 DEF Explain
    <3>. HIDE DEF next
    <3>3. ~ IsOpen(0, next) BY <2>5, <3>1 DEF IsOpen
    <3>. QED BY <1>5, <2>3, <3>1, <3>2, <3>3
  <2>. QED BY <2>4, <2>5
<1>8. ASSUME CacheExplanation(e) PROVE SpendingInv'
  <2>. DEFINE next == [here EXCEPT !.pc = "cached"]
  <2>1. next \in Whereabouts BY <1>2 DEF Whereabouts
  <2>2. /\ spending' = [spending EXCEPT ![e] = next] /\ spent' = spent /\ bulk' = bulk
        /\ here.pc = "answered"
    BY <1>8 DEF CacheExplanation, Cached, Spends
  <2>3. IsOpen(0, here) BY <2>2 DEF IsOpen
  <2>. QED BY <1>5, <2>1, <2>2, <2>3
<1>9. ASSUME MeterExplanation(e) PROVE SpendingInv'
  <2>. DEFINE next == Recorded(e)
  <2>1. Remember(e, here) \in Whereabouts /\ Remember(e, here).pc = "resting"
    BY <1>2, RememberIs
  <2>2. next \in Whereabouts /\ next.pc = "resting" /\ next.budget = Unread
    BY <2>1 DEF Recorded, Whereabouts, Unread
  <2>3. here.pc \in {"cached", "answered"} /\ Record(e)
        /\ spending' = [spending EXCEPT ![e] = next]
    BY <1>9 DEF MeterExplanation, Spends
  <2>. HIDE DEF next
  <2>4. IsOpen(0, here) /\ ~ IsOpen(0, next) BY <2>2, <2>3 DEF IsOpen
  <2>. QED BY <1>1, <1>3, <1>4, <2>2, <2>3, <2>4, Records
<1>10. ASSUME ExplanationFails(e) PROVE SpendingInv'
  <2>. DEFINE next == Remember(e, here)
  <2>1. next \in Whereabouts BY <1>2, RememberIs
  <2>2. /\ spending' = [spending EXCEPT ![e] = next] /\ spent' = spent /\ bulk' = bulk
        /\ here.pc = "calling"
    BY <1>10 DEF ExplanationFails, Spends
  <2>. HIDE DEF next
  <2>3. IsOpen(0, here) BY <2>2 DEF IsOpen
  <2>. QED BY <1>5, <2>1, <2>2, <2>3
<1>. QED BY <1>6, <1>7, <1>8, <1>9, <1>10

LEMMA ChatsStep ==
    ASSUME SpendingInv, NEW c \in Chats, Ask(c) \/ MeterTurn(c)
    PROVE  SpendingInv'
<1>. DEFINE here == spending[c]
<1>1. c \in Spenders BY DEF Spenders
<1>2. here \in Whereabouts BY <1>1 DEF SpendingInv, SpendingShape
<1>3. \A r \in 0 .. MaxRounds : <<c, r>> \in Admissible <=> r \in 1 .. MaxRounds BY Numbered
<1>4. MaxRounds \in Nat \ {0} /\ MaxToolCalls \in Nat BY CostsAssumption
<1>. DEFINE turn(round, tools) ==
         [[Resting EXCEPT !.round = round, !.tools = tools] EXCEPT !.pc = "calling"]
<1>5. ASSUME NEW round \in 1 .. MaxRounds, NEW tools \in Nat
      PROVE  /\ turn(round, tools) \in Whereabouts
             /\ turn(round, tools).pc = "calling" /\ turn(round, tools).round = round
  <2>1. round \in Nat BY <1>4
  <2>. QED BY <2>1, RestingIs DEF Resting, Whereabouts
<1>6. ASSUME Ask(c) PROVE SpendingInv'
  <2>. DEFINE next == turn(1, MaxToolCalls)
  <2>1. 1 \in 1 .. MaxRounds BY <1>4
  <2>2. next \in Whereabouts /\ next.pc = "calling" /\ next.round = 1
    <3>. HIDE DEF turn
    <3>. QED BY <1>4, <1>5, <2>1
  <2>3. /\ spending' = [spending EXCEPT ![c] = next] /\ spent' = spent /\ bulk' = bulk
        /\ spent < Allowance
    BY <1>6 DEF Ask, Call, Allows
  <2>. HIDE DEF next
  <2>. QED BY <1>1, <2>1, <2>2, <2>3, IsAdmitted
<1>7. ASSUME MeterTurn(c) PROVE SpendingInv'
  <2>. DEFINE r == here.round
  <2>1. here.pc = "answered" /\ Record(c) BY <1>7 DEF MeterTurn, Spends
  <2>2. r \in 1 .. MaxRounds BY <2>1 DEF SpendingInv, SpendingShape
  <2>3. \A q \in 1 .. MaxRounds : IsOpen(q, here) <=> q >= r BY <2>1 DEF IsOpen
  <2>4. r \in 0 .. MaxRounds /\ <<c, r>> \in Admissible /\ IsOpen(r, here)
    BY <1>3, <1>4, <2>2, <2>3
  <2>5. ASSUME NEW where \in Whereabouts, spending' = [spending EXCEPT ![c] = where],
               where.pc \in {"calling", "answered"} => where.round \in 1 .. MaxRounds,
               ~ IsOpen(r, where),
               \A q \in 1 .. MaxRounds : IsOpen(q, where) => q >= r
        PROVE  SpendingInv'
    <3>1. \A q \in 0 .. MaxRounds :
              <<c, q>> \in Admissible /\ IsOpen(q, where) => IsOpen(q, here)
      BY <1>3, <2>3, <2>5
    <3>. QED BY <2>1, <2>4, <2>5, <3>1, Records
  <2>6. CASE spending' = [spending EXCEPT ![c] = Resting]
    <3>1. \A q \in 0 .. MaxRounds : ~ IsOpen(q, Resting) BY <1>4, RestingIs
    <3>2. Resting.pc = "resting" BY DEF Resting
    <3>3. ~ IsOpen(r, Resting) BY <2>4, <3>1
    <3>4. \A q \in 1 .. MaxRounds : ~ IsOpen(q, Resting) BY <1>4, <3>1
    <3>. HIDE DEF r
    <3>. QED BY <2>5, <2>6, <3>2, <3>3, <3>4, RestingIs
  <2>7. CASE /\ ~ LastRound(c)
             /\ \E asked \in 1..(MaxToolCalls + 1) :
                 Call(c, [Resting EXCEPT !.round = spending[c].round + 1,
                              !.tools = IF asked < spending[c].tools
                                        THEN spending[c].tools - asked ELSE 0])
    <3>1. PICK asked \in 1..(MaxToolCalls + 1) :
                 Call(c, [Resting EXCEPT !.round = spending[c].round + 1,
                              !.tools = IF asked < spending[c].tools
                                        THEN spending[c].tools - asked ELSE 0])
      BY <2>7
    <3>. DEFINE tools == IF asked < here.tools THEN here.tools - asked ELSE 0
                next == turn(r + 1, tools)
    <3>2. spending' = [spending EXCEPT ![c] = next] BY <3>1 DEF Call
    <3>3. tools \in Nat
      <4>1. here.tools \in Nat /\ asked \in Nat BY <1>2, <1>4 DEF Whereabouts
      <4>. QED BY <4>1
    <3>4. r + 1 \in 1 .. MaxRounds
      <4>1. r # MaxRounds BY <2>7 DEF LastRound
      <4>. QED BY <1>4, <2>2, <4>1
    <3>. HIDE DEF tools
    <3>5. next \in Whereabouts /\ next.pc = "calling" /\ next.round = r + 1
      <4>. HIDE DEF turn
      <4>. QED BY <1>5, <3>3, <3>4
    <3>. HIDE DEF next
    <3>6. \A q \in 1 .. MaxRounds : IsOpen(q, next) => q >= r
      BY <1>4, <2>2, <3>5 DEF IsOpen
    <3>7. ~ IsOpen(r, next) BY <1>4, <2>2, <3>5 DEF IsOpen
    <3>. QED BY <2>5, <3>2, <3>4, <3>5, <3>6, <3>7
  <2>. QED BY <1>7, <2>6, <2>7 DEF MeterTurn
<1>. QED BY <1>6, <1>7

LEMMA PlannersStep ==
    ASSUME SpendingInv, NEW p \in Planners, WritePlan(p) \/ MeterPlan(p)
    PROVE  SpendingInv'
<1>1. p \in Spenders /\ p \notin Chats BY SpendersAssumption DEF Spenders
<1>2. \A r \in 0 .. MaxRounds : <<p, r>> \notin Admissible BY Numbered
<1>3. ASSUME WritePlan(p) PROVE SpendingInv'
  <2>. DEFINE next == [Resting EXCEPT !.pc = "calling"]
  <2>1. next \in Whereabouts BY RestingIs DEF Whereabouts
  <2>2. /\ spending' = [spending EXCEPT ![p] = next] /\ spent' = spent /\ bulk' = bulk
    BY <1>3 DEF WritePlan, Call
  <2>. HIDE DEF next
  <2>. QED BY <1>1, <1>2, <2>1, <2>2, Moves
<1>4. ASSUME MeterPlan(p) PROVE SpendingInv'
  <2>1. /\ spending' = [spending EXCEPT ![p] = Resting] /\ bulk' = bulk
        /\ spent' = spent + spending[p].cost
    BY <1>4 DEF MeterPlan, Record
  <2>2. /\ SpendingShape /\ spent \in Nat /\ bulk \in Nat /\ bulk <= spent
        /\ spending[p].cost \in CallCosts \cup {0}
    BY <1>1 DEF SpendingInv, SpendingShape, Whereabouts
  <2>3. spending[p].cost \in Nat BY <2>2, DearestIs
  <2>4. spent' \in Nat /\ bulk' \in Nat /\ bulk' <= spent' /\ bulk' <= bulk
    BY <2>1, <2>2, <2>3
  <2>5. SpendingShape' BY <1>1, <2>1, <2>2, <2>4, RestingIs, ShapeKept
  <2>6. Admitted' \subseteq Admitted BY <1>1, <1>2, <2>1, <2>2, RestingIs, OneMoves
  <2>7. RoomLeft' BY <2>4, <2>6, RoomStays
  <2>. QED BY <2>5, <2>7 DEF SpendingInv
<1>. QED BY <1>3, <1>4

\* The provider, the end of things, and the month.
LEMMA SpendersStep ==
    ASSUME SpendingInv, NEW s \in Spenders,
           SpenderStops(s) \/ \E cost \in CallCosts : Answered(s, cost)
    PROVE  SpendingInv'
<1>. DEFINE here == spending[s]
<1>1. here \in Whereabouts BY DEF SpendingInv, SpendingShape
<1>2. CASE SpenderStops(s)
  <2>1. spending' = [spending EXCEPT ![s] = Resting] /\ spent' = spent /\ bulk' = bulk
    BY <1>2 DEF SpenderStops
  <2>2. \A r \in 0 .. MaxRounds : ~ IsOpen(r, Resting) BY RestingIs, CostsAssumption
  <2>3. Resting.pc = "resting" BY DEF Resting
  <2>. QED BY <2>1, <2>2, <2>3, RestingIs, Moves
<1>3. ASSUME NEW cost \in CallCosts, Answered(s, cost) PROVE SpendingInv'
  <2>. DEFINE next == [here EXCEPT !.pc = "answered", !.cost = cost]
  <2>1. /\ next \in Whereabouts /\ next.pc = "answered" /\ next.round = here.round
        /\ next.budget = here.budget
    BY <1>1 DEF Whereabouts
  <2>2. /\ spending' = [spending EXCEPT ![s] = next] /\ spent' = spent /\ bulk' = bulk
        /\ here.pc = "calling"
    BY <1>1, <1>3 DEF Answered, Spends, SpendingInv, SpendingShape
  <2>3. s \in Chats => here.round \in 1 .. MaxRounds
    BY <2>2 DEF SpendingInv, SpendingShape
  <2>. HIDE DEF next
  <2>4. \A r \in 0 .. MaxRounds : IsOpen(r, next) => IsOpen(r, here)
    BY <2>1, <2>2 DEF IsOpen
  <2>. QED BY <2>1, <2>2, <2>3, <2>4, Moves
<1>. QED BY <1>2, <1>3

\* Every step keeps the invariant.
LEMMA SpendingInvStep == ASSUME SpendingInv, [SpendingNext]_spendingVars PROVE SpendingInv'
<1>. DEFINE kept == spending' = spending /\ bulk' \in Nat /\ spent' \in Nat
                       /\ bulk' <= bulk /\ bulk' <= spent'
<1>1. ASSUME kept PROVE SpendingInv'
  <2>1. SpendingShape' BY <1>1 DEF SpendingInv, SpendingShape
  <2>2. Admitted' = Admitted BY <1>1 DEF Admitted
  <2>3. RoomLeft' BY <1>1, <2>2, RoomStays
  <2>. QED BY <2>1, <2>3 DEF SpendingInv
<1>2. CASE MonthTurns
  <2>1. kept BY <1>2 DEF MonthTurns, SpendingInv, SpendingShape
  <2>. QED BY <1>1, <2>1
<1>3. CASE UNCHANGED spendingVars
  <2>1. kept BY <1>3 DEF spendingVars, SpendingInv, SpendingShape
  <2>. QED BY <1>1, <2>1
<1>. QED BY <1>2, <1>3, ExplainersStep, ChatsStep, PlannersStep, SpendersStep DEF SpendingNext

LEMMA SpendingInvAlways == SpendingSpec => []SpendingInv
<1>1. SpendingInit => SpendingInv
  <2>. SUFFICES ASSUME SpendingInit PROVE SpendingInv OBVIOUS
  <2>1. SpendingShape
    <3>1. Resting \in Whereabouts /\ Resting.pc = "resting" BY RestingIs DEF Resting
    <3>2. \A c \in Chats : spending[c].pc = "resting" BY <3>1 DEF SpendingInit, Spenders
    <3>. QED BY <3>1, <3>2 DEF SpendingInit, SpendingShape
  <2>2. ASSUME NEW x \in Admitted PROVE FALSE
    <3>1. x[1] \in Spenders /\ x[2] \in Nat BY CostsAssumption DEF Admitted, Admissible, Spenders
    <3>2. spending[x[1]] = Resting BY <3>1 DEF SpendingInit
    <3>. QED BY <2>2, <3>1, <3>2, RestingIs DEF Admitted
  <2>3. RoomLeft BY <2>2 DEF RoomLeft, SpendingInit
  <2>. QED BY <2>1, <2>3 DEF SpendingInv
<1>. QED BY <1>1, SpendingInvStep, PTL DEF SpendingSpec

\* Whatever the spenders, the costs and the order of the calls, everything but the plan passes
\* the month's allowance by no more than the calls that were under way when it was reached.
THEOREM OverspendHasABound == SpendingSpec => []OverspendBounded
<1>1. SpendingInv => OverspendBounded
  <2>. SUFFICES ASSUME SpendingInv, bulk > 0 PROVE
           bulk < Allowance + Dearest * (Cardinality(Explainers) + MaxRounds * Cardinality(Chats))
    BY DEF OverspendBounded
  <2>. DEFINE all == Dearest * Cardinality(Admissible)
              a == Dearest * Cardinality(Admitted)
  <2>1. bulk \in Nat /\ Allowance \in Nat BY CostsAssumption DEF SpendingInv, SpendingShape
  <2>2. Admitted \in SUBSET Admissible BY DEF Admitted
  <2>3. a \in Nat /\ all \in Nat BY <2>2, AdmittedAre
  <2>4. bulk + a < Allowance + all BY <2>1 DEF SpendingInv, RoomLeft
  <2>5. all = Dearest * (Cardinality(Explainers) + MaxRounds * Cardinality(Chats))
    BY AdmissibleAre
  <2>. HIDE DEF a, all
  <2>6. bulk < Allowance + all BY <2>1, <2>3, <2>4
  <2>. QED BY <2>5, <2>6
<1>. QED BY <1>1, SpendingInvAlways, PTL

SpenderStates ==
    [pc : {"resting", "asking", "calling", "answered", "cached"},
     problem : Problems \cup {Nothing}, seen : SUBSET Problems, budget : {Unread} \cup Nat,
     cost : CallCosts \cup {0}, round : 0 .. MaxRounds, tools : 0 .. MaxToolCalls]

\* A run that is at work on something knows what it is.
SpendingTypes ==
    /\ explained \subseteq Problems /\ modelCalls \in 0 .. MaxModelCalls
    /\ spending \in [Spenders -> SpenderStates]
    /\ \A e \in Explainers : spending[e].pc # "resting" => spending[e].problem \in Problems

LEMMA SpendingTypesStep ==
    ASSUME SpendingInv, SpendingTypes, [SpendingNext]_spendingVars
    PROVE  SpendingTypes'
<1>0. /\ MaxModelCalls \in Nat /\ MaxToolCalls \in Nat /\ MaxRounds \in Nat \ {0}
      /\ modelCalls \in 0 .. MaxModelCalls /\ spent \in Nat /\ explained \subseteq Problems
      /\ spending \in [Spenders -> SpenderStates]
      /\ \A e \in Explainers : spending[e].pc # "resting" => spending[e].problem \in Problems
      /\ Explainers \subseteq Spenders /\ Chats \subseteq Spenders /\ Planners \subseteq Spenders
      /\ Explainers \cap (Chats \cup Planners) = {}
  BY CostsAssumption, SpendersAssumption
  DEF SpendingInv, SpendingShape, SpendingTypes, Spenders
<1>a. Resting \in SpenderStates /\ Resting.pc = "resting"
  BY <1>0 DEF Resting, SpenderStates, Unread
<1>b. ASSUME NEW s \in Spenders, NEW where \in SpenderStates,
             spending' = [spending EXCEPT ![s] = where],
             s \in Explainers /\ where.pc # "resting" => where.problem \in Problems,
             explained' \subseteq Problems, modelCalls' \in 0 .. MaxModelCalls
      PROVE  SpendingTypes'
  BY <1>0, <1>b DEF SpendingTypes
<1>c. ASSUME NEW s \in Spenders, NEW where \in SpenderStates, Call(s, where),
             s \in Explainers => where.problem \in Problems, explained' = explained
      PROVE  SpendingTypes'
  <2>1. [where EXCEPT !.pc = "calling"] \in SpenderStates BY <1>c DEF SpenderStates
  <2>2. [where EXCEPT !.pc = "calling"].problem = where.problem BY <1>c DEF SpenderStates
  <2>3. modelCalls' \in 0 .. MaxModelCalls BY <1>0, <1>c DEF Call
  <2>. QED BY <1>0, <1>b, <1>c, <2>1, <2>2, <2>3 DEF Call
<1>d. ASSUME NEW where \in SpenderStates, where.problem \in Problems
      PROVE  Remember("run", where) \in SpenderStates /\ Remember("run", where).pc = "resting"
  BY <1>d DEF Remember, SpenderStates
<1>e. \A e, where : Remember(e, where) = Remember("run", where) BY DEF Remember
<1>1. ASSUME NEW e \in Explainers, NEW p \in Problems, LookUp(e, p) PROVE SpendingTypes'
  <2>. DEFINE where == [spending[e] EXCEPT !.problem = p]
  <2>1. where \in SpenderStates /\ where.problem = p BY <1>0 DEF SpenderStates
  <2>2. /\ [where EXCEPT !.pc = "asking"] \in SpenderStates
        /\ [where EXCEPT !.pc = "asking"].problem = p
    BY <1>0 DEF SpenderStates
  <2>3. Remember(e, where) \in SpenderStates /\ Remember(e, where).pc = "resting"
    <3>. HIDE DEF where
    <3>. QED BY <1>d, <1>e, <2>1
  <2>4. /\ \/ spending' = [spending EXCEPT ![e] = Remember(e, where)]
           \/ spending' = [spending EXCEPT ![e] = [where EXCEPT !.pc = "asking"]]
        /\ explained' = explained /\ modelCalls' = modelCalls
    BY <1>1 DEF LookUp
  <2>. HIDE DEF where
  <2>. QED BY <1>0, <1>b, <2>2, <2>3, <2>4
<1>2. ASSUME NEW e \in Explainers, Explain(e) PROVE SpendingTypes'
  <2>. DEFINE where == [spending[e] EXCEPT !.budget = Budget(e)]
  <2>1. Budget(e) \in {Unread} \cup Nat BY <1>0 DEF Budget, SpenderStates
  <2>2. spending[e].problem \in Problems BY <1>0, <1>2 DEF Explain, Spends
  <2>3. where \in SpenderStates /\ where.problem \in Problems BY <1>0, <2>1, <2>2 DEF SpenderStates
  <2>4. Remember(e, where) \in SpenderStates /\ Remember(e, where).pc = "resting"
    <3>. HIDE DEF where
    <3>. QED BY <1>d, <1>e, <2>3
  <2>5. /\ \/ Call(e, where)
           \/ spending' = [spending EXCEPT ![e] = Remember(e, where)] /\ modelCalls' = modelCalls
        /\ explained' = explained
    BY <1>2 DEF Explain
  <2>. HIDE DEF where
  <2>. QED BY <1>0, <1>b, <1>c, <2>3, <2>4, <2>5
<1>3. ASSUME NEW e \in Explainers, MeterExplanation(e) \/ ExplanationFails(e)
      PROVE  SpendingTypes'
  <2>1. spending[e] \in SpenderStates /\ spending[e].problem \in Problems
    BY <1>0, <1>3 DEF MeterExplanation, ExplanationFails, Spends
  <2>2. Remember(e, spending[e]) \in SpenderStates /\ Remember(e, spending[e]).pc = "resting"
    BY <1>d, <1>e, <2>1
  <2>3. Recorded(e) \in SpenderStates /\ Recorded(e).pc = "resting"
    BY <2>2 DEF Recorded, SpenderStates
  <2>4. /\ \/ spending' = [spending EXCEPT ![e] = Recorded(e)]
           \/ spending' = [spending EXCEPT ![e] = Remember(e, spending[e])]
        /\ explained' = explained /\ modelCalls' = modelCalls
    BY <1>3 DEF MeterExplanation, ExplanationFails
  <2>. QED BY <1>0, <1>b, <2>2, <2>3, <2>4
<1>4. ASSUME NEW e \in Explainers, CacheExplanation(e) PROVE SpendingTypes'
  <2>1. spending[e].problem \in Problems
    BY <1>0, <1>4 DEF CacheExplanation, Cached, Spends
  <2>2. [spending[e] EXCEPT !.pc = "cached"] \in SpenderStates BY <1>0 DEF SpenderStates
  <2>3. [spending[e] EXCEPT !.pc = "cached"].problem \in Problems BY <1>0, <2>1 DEF SpenderStates
  <2>4. /\ spending' = [spending EXCEPT ![e] = [spending[e] EXCEPT !.pc = "cached"]]
        /\ explained' \subseteq Problems /\ modelCalls' = modelCalls
    BY <1>0, <1>4, <2>1 DEF CacheExplanation, Cached
  <2>. QED BY <1>0, <1>b, <2>2, <2>3, <2>4
<1>5. ASSUME NEW c \in Chats, Ask(c) PROVE SpendingTypes'
  <2>1. 1 \in 0 .. MaxRounds /\ MaxToolCalls \in 0 .. MaxToolCalls BY <1>0
  <2>2. [Resting EXCEPT !.round = 1, !.tools = MaxToolCalls] \in SpenderStates
    BY <1>a, <2>1 DEF SpenderStates
  <2>. QED BY <1>0, <1>5, <1>c, <2>2 DEF Ask
<1>6. ASSUME NEW c \in Chats, MeterTurn(c) PROVE SpendingTypes'
  <2>1. explained' = explained BY <1>6 DEF MeterTurn
  <2>2. CASE spending' = [spending EXCEPT ![c] = Resting] /\ modelCalls' = modelCalls
    BY <1>0, <1>a, <1>b, <2>1, <2>2
  <2>3. ASSUME NEW asked \in 1 .. (MaxToolCalls + 1), ~ LastRound(c),
               Call(c, [Resting EXCEPT !.round = spending[c].round + 1,
                            !.tools = IF asked < spending[c].tools
                                      THEN spending[c].tools - asked ELSE 0])
        PROVE  SpendingTypes'
    <3>. DEFINE round == spending[c].round + 1
                tools == IF asked < spending[c].tools THEN spending[c].tools - asked ELSE 0
    <3>1. spending[c].round \in 0 .. MaxRounds /\ spending[c].tools \in 0 .. MaxToolCalls
      BY <1>0 DEF SpenderStates
    <3>2. spending[c].round # MaxRounds BY <2>3 DEF LastRound
    <3>3. round \in 0 .. MaxRounds BY <1>0, <3>1, <3>2
    <3>4. tools \in 0 .. MaxToolCalls BY <1>0, <3>1
    <3>. HIDE DEF round, tools
    <3>5. [Resting EXCEPT !.round = round, !.tools = tools] \in SpenderStates
      BY <1>a, <3>3, <3>4 DEF SpenderStates
    <3>6. Call(c, [Resting EXCEPT !.round = round, !.tools = tools]) BY <2>3 DEF round, tools
    <3>. QED BY <1>0, <1>c, <2>1, <3>5, <3>6
  <2>. QED BY <1>6, <2>2, <2>3 DEF MeterTurn
<1>7. ASSUME NEW p \in Planners, WritePlan(p) PROVE SpendingTypes'
  BY <1>0, <1>7, <1>a, <1>c DEF WritePlan
<1>8. ASSUME NEW p \in Planners, MeterPlan(p) PROVE SpendingTypes'
  BY <1>0, <1>8, <1>a, <1>b DEF MeterPlan
<1>9. ASSUME NEW s \in Spenders, NEW cost \in CallCosts, Answered(s, cost) PROVE SpendingTypes'
  <2>. DEFINE where == [spending[s] EXCEPT !.pc = "answered", !.cost = cost]
  <2>1. where \in SpenderStates /\ where.problem = spending[s].problem BY <1>0 DEF SpenderStates
  <2>2. s \in Explainers => spending[s].problem \in Problems
    BY <1>0, <1>9 DEF Answered, Spends
  <2>3. spending' = [spending EXCEPT ![s] = where] BY <1>0, <1>9 DEF Answered
  <2>4. explained' = explained /\ modelCalls' = modelCalls BY <1>9 DEF Answered
  <2>. HIDE DEF where
  <2>. QED BY <1>0, <1>b, <2>1, <2>2, <2>3, <2>4
<1>10. ASSUME NEW s \in Spenders, SpenderStops(s) PROVE SpendingTypes'
  BY <1>0, <1>10, <1>a, <1>b DEF SpenderStops
<1>11. CASE MonthTurns \/ UNCHANGED spendingVars
  BY <1>0, <1>11 DEF MonthTurns, spendingVars, SpendingTypes
<1>. QED
  BY <1>1, <1>2, <1>3, <1>4, <1>5, <1>6, <1>7, <1>8, <1>9, <1>10, <1>11 DEF SpendingNext

\* A question stays within its rounds and its tools, and what is remembered or cached is a
\* problem there is (api/ai/explain.py, strategist.py).
THEOREM SpendingTyped == SpendingSpec => []SpendingTypeOK
<1>1. SpendingInit => SpendingTypes
  BY CostsAssumption
  DEF SpendingInit, SpendingTypes, SpenderStates, Resting, Unread, Spenders
<1>2. SpendingInv /\ SpendingTypes => SpendingTypeOK
  BY DEF SpendingInv, SpendingShape, SpendingTypes, SpenderStates, SpendingTypeOK
<1>. QED BY <1>1, <1>2, SpendingTypesStep, SpendingInvAlways, PTL DEF SpendingSpec

-----------------------------------------------------------------------------
(* The public scan.                                                         *)

\* Where a request of the public scan is.
Callers ==
    [pc : {"quiet", "counting", "expiring", "judged", "fetching"}, key : Counters,
     ip : Counters, reply : Nat, hops : 0..MaxRedirects]

PeekShape == PeekTypeOK /\ scanning \in [Scans -> Callers]

\* The one call that is to set a counter's expiry: nobody else has set one, and the
\* counter counts.
OneExpires ==
    \A s \in Scans : Is(s, "expiring") =>
        /\ used[scanning[s].key] > 0 /\ expires[scanning[s].key] = NoExpiry
        /\ \A u \in Scans : Is(u, "expiring") /\ scanning[u].key = scanning[s].key => u = s

\* What a counter has granted only grows.
Totals ==
    \A k \in Counters : \A t \in 0..second :
        /\ grantedBefore[k][t] <= granted[k]
        /\ \A u \in t..second : grantedBefore[k][t] <= grantedBefore[k][u]

\* A counter's window began with second b.  It ends a window's length later, if its end is
\* known; it has granted what it counted, and no more than the limit; and nor had what came
\* before it, as far back as a window's length.
Began(k, b) ==
    /\ expires[k] # NoExpiry => /\ expires[k] > second /\ expires[k] >= b + WindowOf(k)
                                /\ used[k] > 0
    /\ granted[k] - grantedBefore[k][b] <= used[k] /\ granted[k] - grantedBefore[k][b] <= Limit(k)
    /\ \A t \in 0..b : t + WindowOf(k) >= b => grantedBefore[k][b] - grantedBefore[k][t] <= Limit(k)

Windowed == \A k \in Counters : \E b \in 0..second : Began(k, b)

PeekInv == PeekShape /\ OneExpires /\ Totals /\ Windowed

\* A limit and a window are not nothing.
LEMMA CountersAre ==
    ASSUME NEW k \in Counters
    PROVE  Limit(k) \in Nat \ {0} /\ WindowOf(k) \in Nat \ {0}
BY PeekAssumption DEF Limit, WindowOf

\* A scan that moves on by itself, counting nothing.
LEMMA ScanMoves ==
    ASSUME PeekInv, NEW s \in Scans, NEW where \in Callers,
           scanning' = [scanning EXCEPT ![s] = where], where.pc # "expiring",
           UNCHANGED <<second, used, expires, granted, grantedBefore>>
    PROVE  PeekInv'
<1>1. scanning \in [Scans -> Callers] BY DEF PeekInv, PeekShape
<1>2. scanning' \in [Scans -> Callers] BY <1>1
<1>3. \A u \in Scans : scanning'[u] = IF u = s THEN where ELSE scanning[u] BY <1>1
<1>4. PeekTypeOK'
  <2>1. \A u \in Scans :
           /\ scanning'[u].pc \in {"quiet", "counting", "expiring", "judged", "fetching"}
           /\ scanning'[u].hops \in 0..MaxRedirects
    BY <1>2 DEF Callers
  <2>. QED BY <2>1 DEF PeekInv, PeekShape, PeekTypeOK
<1>5. OneExpires' BY <1>3 DEF PeekInv, OneExpires, Is
<1>6. Totals' /\ Windowed' BY DEF PeekInv, Windowed, Began, Totals
<1>. QED BY <1>2, <1>4, <1>5, <1>6 DEF PeekInv, PeekShape


\* The counters and what was granted are numbers.
LEMMA SecondsAre ==
    ASSUME PeekShape, NEW k \in Counters
    PROVE  /\ second \in Nat /\ second <= LastSecond /\ LastSecond \in Nat
           /\ granted[k] \in Nat /\ used[k] \in Nat /\ expires[k] \in {NoExpiry} \cup Nat
           /\ \A t \in 0..LastSecond : grantedBefore[k][t] \in Nat
BY PeekAssumption DEF PeekShape, PeekTypeOK

\* INCR, EXPIRE and the end of a second, each of which keeps the invariant.
LEMMA IncrementStep == ASSUME PeekInv, NEW s \in Scans, Increment(s) PROVE PeekInv'
<1>. DEFINE k == scanning[s].key
            n == IF used[k] > Limit(k) + 1 THEN used[k] ELSE used[k] + 1
            where == [scanning[s] EXCEPT !.reply = n, !.pc = IF n = 1 THEN "expiring" ELSE "judged"]
<1>1. /\ PeekShape /\ scanning[s] \in Callers /\ k \in Counters /\ Is(s, "counting")
  BY DEF PeekInv, PeekShape, Callers, Increment
<1>2. /\ used[k] \in Nat /\ Limit(k) \in Nat \ {0} /\ WindowOf(k) \in Nat \ {0}
  BY <1>1, SecondsAre, CountersAre
<1>3. n \in Nat \ {0} /\ n >= used[k] /\ (n <= Limit(k) => n = used[k] + 1) BY <1>2
<1>4. /\ used' = [used EXCEPT ![k] = n] /\ scanning' = [scanning EXCEPT ![s] = where]
      /\ granted' = IF n > Limit(k) THEN granted ELSE [granted EXCEPT ![k] = @ + 1]
      /\ second' = second /\ expires' = expires /\ grantedBefore' = grantedBefore
  BY DEF Increment, TooMany
<1>. HIDE DEF n
<1>5. where \in Callers /\ where.key = k /\ where.pc \in {"expiring", "judged"}
      /\ (where.pc = "expiring" <=> n = 1)
  BY <1>1, <1>3 DEF Callers
<1>. HIDE DEF where
<1>6. PeekShape'
  <2>1. scanning' \in [Scans -> Callers] BY <1>1, <1>4, <1>5 DEF PeekShape
  <2>2. \A u \in Scans :
           /\ scanning'[u].pc \in {"quiet", "counting", "expiring", "judged", "fetching"}
           /\ scanning'[u].hops \in 0..MaxRedirects
    BY <2>1 DEF Callers
  <2>3. used' \in [Counters -> Nat] /\ granted' \in [Counters -> Nat]
    BY <1>1, <1>3, <1>4 DEF PeekShape, PeekTypeOK
  <2>. QED BY <1>1, <1>4, <2>1, <2>2, <2>3 DEF PeekShape, PeekTypeOK
<1>7. \A u \in Scans : scanning'[u] = IF u = s THEN where ELSE scanning[u]
  BY <1>1, <1>4 DEF PeekShape
<1>8. \A c \in Counters : /\ used'[c] = IF c = k THEN n ELSE used[c]
                          /\ c # k => granted'[c] = granted[c]
                          /\ granted'[k] = IF n > Limit(k) THEN granted[k] ELSE granted[k] + 1
  BY <1>1, <1>4 DEF PeekShape, PeekTypeOK
<1>9. OneExpires'
  <2>1. CASE n = 1
    <3>1. used[k] = 0 BY <1>2, <1>3, <2>1 DEF n
    <3>2. \A u \in Scans : Is(u, "expiring") => scanning[u].key # k
      BY <3>1 DEF PeekInv, OneExpires
    <3>3. expires[k] = NoExpiry
      BY <1>1, <3>1 DEF PeekInv, Windowed, Began
    <3>. QED BY <1>1, <1>3, <1>4, <1>5, <1>7, <1>8, <3>2, <3>3 DEF PeekInv, OneExpires, Is
  <2>2. CASE n # 1
    <3>1. where.pc # "expiring" BY <1>5, <2>2
    <3>2. \A u \in Scans : used[scanning[u].key] > 0 => used'[scanning[u].key] > 0
      <4>1. \A u \in Scans : scanning[u].key \in Counters BY <1>1 DEF PeekShape, Callers
      <4>. QED BY <1>2, <1>3, <1>8, <4>1
    <3>. QED BY <1>4, <1>7, <3>1, <3>2 DEF PeekInv, OneExpires, Is
  <2>. QED BY <2>1, <2>2
<1>10. Totals'
  <2>1. \A c \in Counters : granted'[c] >= granted[c] /\ granted'[c] \in Nat /\ granted[c] \in Nat
    <3>1. \A c \in Counters : granted[c] \in Nat BY <1>1, SecondsAre
    <3>2. \A c \in Counters : granted'[c] = granted[c] \/ granted'[c] = granted[c] + 1
      BY <1>8
    <3>. QED BY <3>1, <3>2
  <2>2. \A c \in Counters : \A t \in 0..second : grantedBefore[c][t] \in Nat
    BY <1>1, SecondsAre
  <2>. QED BY <1>4, <2>1, <2>2 DEF PeekInv, Totals
<1>11. Windowed'
  <2>1. SUFFICES ASSUME NEW c \in Counters, NEW b \in 0..second, Began(c, b) PROVE Began(c, b)'
    BY <1>4 DEF PeekInv, Windowed
  <2>2. CASE c # k
    BY <1>4, <1>8, <2>1, <2>2 DEF Began
  <2>3. CASE c = k
    <3>1. second \in Nat /\ b \in 0..LastSecond /\ b \in Nat BY <1>1, <2>1, SecondsAre
    <3>2. grantedBefore[k][b] \in Nat /\ granted[k] \in Nat BY <1>1, <3>1, SecondsAre
    <3>3. /\ granted[k] - grantedBefore[k][b] <= used[k]
          /\ granted[k] - grantedBefore[k][b] <= Limit(k)
      BY <2>1, <2>3 DEF Began
    <3>4. granted'[k] - grantedBefore[k][b] <= n /\ granted'[k] - grantedBefore[k][b] <= Limit(k)
      <4>1. CASE n > Limit(k) BY <1>2, <1>3, <1>8, <1>1, <3>2, <3>3, <4>1
      <4>2. CASE n <= Limit(k)
        <5>1. n = used[k] + 1 /\ granted'[k] = granted[k] + 1 BY <1>1, <1>2, <1>3, <1>8, <4>2
        <5>. QED BY <1>2, <3>2, <3>3, <4>2, <5>1
      <4>. QED BY <1>2, <1>3, <4>1, <4>2
    <3>5. used'[k] = n /\ n > 0 BY <1>1, <1>3, <1>8
    <3>. QED BY <1>4, <2>1, <2>3, <3>4, <3>5 DEF Began
  <2>. QED BY <2>2, <2>3
<1>. QED BY <1>6, <1>9, <1>10, <1>11 DEF PeekInv

LEMMA ExpireStep == ASSUME PeekInv, NEW s \in Scans, Expire(s) PROVE PeekInv'
<1>. DEFINE k == scanning[s].key
            where == [scanning[s] EXCEPT !.pc = "judged"]
<1>1. PeekShape /\ scanning[s] \in Callers /\ k \in Counters /\ Is(s, "expiring")
  BY DEF PeekInv, PeekShape, Callers, Expire
<1>2. /\ second \in Nat /\ WindowOf(k) \in Nat \ {0} /\ used[k] > 0 /\ used[k] \in Nat
  BY <1>1, SecondsAre, CountersAre DEF PeekInv, OneExpires
<1>3. /\ expires' = [expires EXCEPT ![k] = second + WindowOf(k)]
      /\ scanning' = [scanning EXCEPT ![s] = where]
      /\ second' = second /\ used' = used /\ granted' = granted /\ grantedBefore' = grantedBefore
  BY <1>2, <1>1 DEF Expire, PeekShape, PeekTypeOK
<1>4. where \in Callers /\ where.pc = "judged" BY <1>1 DEF Callers
<1>. HIDE DEF where
<1>5. PeekShape'
  <2>1. scanning' \in [Scans -> Callers] BY <1>1, <1>3, <1>4 DEF PeekShape
  <2>2. \A u \in Scans :
           /\ scanning'[u].pc \in {"quiet", "counting", "expiring", "judged", "fetching"}
           /\ scanning'[u].hops \in 0..MaxRedirects
    BY <2>1 DEF Callers
  <2>3. expires' \in [Counters -> {NoExpiry} \cup Nat]
    BY <1>1, <1>2, <1>3 DEF PeekShape, PeekTypeOK
  <2>. QED BY <1>1, <1>3, <2>1, <2>2, <2>3 DEF PeekShape, PeekTypeOK
<1>6. /\ \A u \in Scans : scanning'[u] = IF u = s THEN where ELSE scanning[u]
      /\ \A c \in Counters : expires'[c] = IF c = k THEN second + WindowOf(k) ELSE expires[c]
  BY <1>1, <1>3 DEF PeekShape, PeekTypeOK
<1>7. OneExpires'
  <2>1. \A u \in Scans : scanning[u].key \in Counters BY <1>1 DEF PeekShape, Callers
  <2>2. \A u \in Scans : Is(u, "expiring") /\ u # s => scanning[u].key # k
    BY <1>1 DEF PeekInv, OneExpires
  <2>. QED BY <1>3, <1>4, <1>6, <2>1, <2>2 DEF PeekInv, OneExpires, Is
<1>8. Totals' BY <1>3 DEF PeekInv, Totals
<1>9. Windowed'
  <2>1. SUFFICES ASSUME NEW c \in Counters, NEW b \in 0..second, Began(c, b) PROVE Began(c, b)'
    BY <1>3 DEF PeekInv, Windowed
  <2>2. CASE c # k BY <1>3, <1>6, <2>1, <2>2 DEF Began
  <2>3. CASE c = k
    <3>1. /\ expires'[k] > second /\ expires'[k] >= b + WindowOf(k)
      BY <1>1, <1>2, <1>6
    <3>. QED BY <1>2, <1>3, <2>1, <2>3, <3>1 DEF Began
  <2>. QED BY <2>2, <2>3
<1>. QED BY <1>5, <1>7, <1>8, <1>9 DEF PeekInv

LEMMA SecondStep == ASSUME PeekInv, Second PROVE PeekInv'
<1>. DEFINE now == second + 1
<1>1. PeekShape /\ second \in Nat /\ now \in Nat /\ now \in 0..LastSecond /\ LastSecond \in Nat
  BY PeekAssumption DEF PeekInv, PeekShape, PeekTypeOK, Second
<1>2. /\ second' = now /\ scanning' = scanning /\ granted' = granted
      /\ used' = [k \in Counters |-> IF expires[k] = now THEN 0 ELSE used[k]]
      /\ expires' = [k \in Counters |-> IF expires[k] = now THEN NoExpiry ELSE expires[k]]
      /\ grantedBefore' = [k \in Counters |-> [grantedBefore[k] EXCEPT ![now] = granted[k]]]
  BY DEF Second
<1>3. PeekShape'
  <2>1. used' \in [Counters -> Nat] /\ expires' \in [Counters -> {NoExpiry} \cup Nat]
    BY <1>1, <1>2 DEF PeekShape, PeekTypeOK
  <2>2. grantedBefore' \in [Counters -> [0..LastSecond -> Nat]]
    BY <1>1, <1>2 DEF PeekShape, PeekTypeOK
  <2>. QED BY <1>1, <1>2, <2>1, <2>2 DEF PeekShape, PeekTypeOK
<1>4. ASSUME NEW k \in Counters
      PROVE  /\ grantedBefore'[k][now] = granted[k]
             /\ \A t \in 0..second : /\ grantedBefore'[k][t] = grantedBefore[k][t]
                                      /\ grantedBefore[k][t] \in Nat
             /\ granted[k] \in Nat
  BY <1>1, <1>2, <1>4 DEF PeekShape, PeekTypeOK
<1>5. OneExpires'
  <2>1. \A u \in Scans : scanning[u].key \in Counters
    BY <1>1 DEF PeekShape, Callers
  <2>2. NoExpiry # now BY <1>1 DEF NoExpiry
  <2>. QED BY <1>2, <2>1, <2>2 DEF PeekInv, OneExpires, Is
<1>6. Totals'
  <2>1. SUFFICES ASSUME NEW k \in Counters, NEW t \in 0..now
        PROVE  /\ grantedBefore'[k][t] <= granted[k]
               /\ \A u \in t..now : grantedBefore'[k][t] <= grantedBefore'[k][u]
    BY <1>2 DEF Totals
  <2>2. CASE t = now
    BY <1>1, <1>4, <2>2
  <2>3. CASE t # now
    <3>1. t \in 0..second BY <1>1, <2>1, <2>3
    <3>2. /\ grantedBefore[k][t] <= granted[k]
          /\ \A u \in t..second : grantedBefore[k][t] <= grantedBefore[k][u]
      BY <3>1 DEF PeekInv, Totals
    <3>3. ASSUME NEW u \in t..now PROVE grantedBefore'[k][t] <= grantedBefore'[k][u]
      <4>1. CASE u = now BY <1>4, <3>1, <3>2, <4>1
      <4>2. CASE u # now
        <5>1. u \in t..second /\ u \in 0..second BY <1>1, <3>1, <3>3, <4>2
        <5>. QED BY <1>4, <3>1, <3>2, <5>1
      <4>. QED BY <4>1, <4>2
    <3>. QED BY <1>4, <3>1, <3>2, <3>3
  <2>. QED BY <2>2, <2>3
<1>7. Windowed'
  <2>1. SUFFICES ASSUME NEW k \in Counters PROVE \E b \in 0..now : Began(k, b)'
    BY <1>2 DEF Windowed
  <2>2. PICK b \in 0..second : Began(k, b) BY DEF PeekInv, Windowed
  <2>3. Limit(k) \in Nat \ {0} /\ WindowOf(k) \in Nat \ {0} BY CountersAre
  <2>4. expires[k] \in {NoExpiry} \cup Nat /\ used[k] \in Nat BY <1>1, SecondsAre
  <2>5. b \in Nat /\ b \in 0..now /\ 0..b \subseteq 0..second BY <1>1
  <2>6. grantedBefore'[k][b] = grantedBefore[k][b] BY <1>4
  <2>7. CASE expires[k] = now
    <3>1. used'[k] = 0 /\ expires'[k] = NoExpiry BY <1>2, <2>7
    <3>2. now >= b + WindowOf(k) BY <1>1, <2>2, <2>7 DEF Began, NoExpiry
    <3>3. ASSUME NEW t \in 0..now, t + WindowOf(k) >= now
          PROVE  grantedBefore'[k][now] - grantedBefore'[k][t] <= Limit(k)
      <4>1. CASE t = now BY <1>4, <2>3, <4>1
      <4>2. CASE t # now
        <5>1. t \in 0..second /\ t \in Nat /\ b <= t BY <1>1, <2>3, <2>5, <3>2, <3>3, <4>2
        <5>2. grantedBefore[k][b] <= grantedBefore[k][t]
          <6>1. t \in b..second BY <1>1, <2>5, <5>1
          <6>. QED BY <6>1 DEF PeekInv, Totals
        <5>3. granted[k] - grantedBefore[k][b] <= Limit(k) BY <2>2 DEF Began
        <5>. QED BY <1>4, <2>3, <5>1, <5>2, <5>3
      <4>. QED BY <4>1, <4>2
    <3>4. granted'[k] - grantedBefore'[k][now] = 0 BY <1>2, <1>4
    <3>. QED BY <1>1, <1>2, <2>3, <3>1, <3>3, <3>4 DEF Began
  <2>8. CASE expires[k] # now
    <3>1. used'[k] = used[k] /\ expires'[k] = expires[k] BY <1>2, <2>8
    <3>2. expires[k] # NoExpiry => expires[k] > now BY <1>1, <2>2, <2>4, <2>8 DEF Began
    <3>3. \A t \in 0..b : grantedBefore'[k][t] = grantedBefore[k][t] BY <1>4, <2>5
    <3>4. Began(k, b)' BY <1>2, <2>2, <2>6, <3>1, <3>2, <3>3 DEF Began
    <3>. QED BY <2>5, <3>4
  <2>. QED BY <2>7, <2>8
<1>. QED BY <1>3, <1>5, <1>6, <1>7 DEF PeekInv

\* Every step keeps the invariant.
LEMMA PeekInvStep == ASSUME PeekInv, [PeekNext]_peekVars PROVE PeekInv'
<1>1. ASSUME NEW s \in Scans PROVE scanning[s] \in Callers /\ Quiet \in Callers
  <2>1. MaxRedirects \in Nat /\ 0 \in 0..MaxRedirects BY PeekAssumption
  <2>. QED BY <2>1 DEF PeekInv, PeekShape, Callers, Quiet, Counters
<1>2. ASSUME NEW s \in Scans, NEW a \in Addresses, AskForScan(s, a) PROVE PeekInv'
  <2>. DEFINE where == [Quiet EXCEPT !.pc = "counting", !.key = a, !.ip = a]
  <2>1. where \in Callers /\ where.pc # "expiring" BY <1>1 DEF Callers, Counters, Quiet
  <2>. QED BY <1>2, <2>1, ScanMoves DEF AskForScan
<1>3. ASSUME NEW s \in Scans, TurnAway(s) \/ EndScan(s) PROVE PeekInv'
  <2>1. Quiet.pc # "expiring" BY DEF Quiet
  <2>. QED BY <1>1, <1>3, <2>1, ScanMoves DEF TurnAway, EndScan
<1>4. ASSUME NEW s \in Scans, CountEverybody(s) PROVE PeekInv'
  <2>. DEFINE where == [scanning[s] EXCEPT !.pc = "counting", !.key = All]
  <2>1. where \in Callers /\ where.pc # "expiring" BY <1>1 DEF Callers, Counters
  <2>. QED BY <1>4, <2>1, ScanMoves DEF CountEverybody
<1>5. ASSUME NEW s \in Scans, Begin(s) PROVE PeekInv'
  <2>. DEFINE where == [scanning[s] EXCEPT !.pc = "fetching", !.hops = MaxRedirects]
  <2>1. MaxRedirects \in 0..MaxRedirects BY PeekAssumption
  <2>2. where \in Callers /\ where.pc # "expiring" BY <1>1, <2>1 DEF Callers
  <2>. QED BY <1>5, <2>2, ScanMoves DEF Begin
<1>6. ASSUME NEW s \in Scans, Redirected(s) PROVE PeekInv'
  <2>. DEFINE where == [scanning[s] EXCEPT !.hops = scanning[s].hops - 1]
  <2>1. scanning[s].hops \in 0..MaxRedirects BY <1>1 DEF Callers
  <2>2. scanning[s].hops - 1 \in 0..MaxRedirects
    BY <1>6, <2>1, PeekAssumption DEF Redirected
  <2>3. where \in Callers /\ where.pc = "fetching" BY <1>1, <1>6, <2>2 DEF Callers, Redirected, Is
  <2>. QED BY <1>6, <2>3, ScanMoves DEF Redirected
<1>7. CASE UNCHANGED peekVars
  BY <1>7 DEF peekVars, PeekInv, PeekShape, PeekTypeOK, OneExpires, Is, Totals, Windowed, Began
<1>. QED BY <1>2, <1>3, <1>4, <1>5, <1>6, <1>7, IncrementStep, ExpireStep, SecondStep DEF PeekNext

LEMMA PeekInvAlways == PeekSpec => []PeekInv
<1>1. PeekInit => PeekInv
  <2>. SUFFICES ASSUME PeekInit PROVE PeekInv OBVIOUS
  <2>1. LastSecond \in Nat /\ MaxRedirects \in Nat /\ 0 \in 0..MaxRedirects /\ 0 \in 0..LastSecond
    BY PeekAssumption
  <2>2. Quiet \in Callers /\ Quiet.pc = "quiet" /\ Quiet.hops = 0
    BY <2>1 DEF Quiet, Callers, Counters
  <2>3. PeekShape BY <2>1, <2>2 DEF PeekInit, PeekShape, PeekTypeOK
  <2>4. OneExpires BY <2>2 DEF PeekInit, OneExpires, Is
  <2>5. 0..second = {0} BY DEF PeekInit
  <2>6. ASSUME NEW k \in Counters
        PROVE  grantedBefore[k][0] = 0 /\ granted[k] = 0 /\ used[k] = 0 /\ expires[k] = NoExpiry
               /\ Limit(k) \in Nat
    BY <2>1, CountersAre DEF PeekInit
  <2>7. Totals BY <2>5, <2>6 DEF Totals
  <2>8. \A k \in Counters : Began(k, 0) BY <2>6 DEF Began
  <2>9. Windowed BY <2>5, <2>8 DEF Windowed
  <2>. QED BY <2>3, <2>4, <2>7, <2>9 DEF PeekInv
<1>2. PeekInv /\ [PeekNext]_peekVars => PeekInv' BY PeekInvStep
<1>. QED BY <1>1, <1>2, PTL DEF PeekSpec

\* The variables of the public scan keep their types.
THEOREM PeekTyped == PeekSpec => []PeekTypeOK
<1>1. PeekInv => PeekTypeOK BY DEF PeekInv, PeekShape
<1>. QED BY <1>1, PeekInvAlways, PTL

\* No span as long as a window is granted more than two windows' worth, for any visitors,
\* limits and windows, however requests interleave and wherever they die (peek/limits.py).
THEOREM CeilingIsDouble == PeekSpec => []PeekBounded
<1>1. PeekInv => PeekBounded
  <2>. SUFFICES ASSUME PeekInv, NEW k \in Counters, NEW t \in 0..second, t > second - WindowOf(k)
                PROVE  granted[k] - grantedBefore[k][t] <= 2 * Limit(k)
    BY DEF PeekBounded, GrantedSince
  <2>1. PICK b \in 0..second : Began(k, b) BY DEF PeekInv, Windowed
  <2>2. Limit(k) \in Nat \ {0} /\ WindowOf(k) \in Nat \ {0} BY CountersAre
  <2>3. second \in Nat /\ second <= LastSecond /\ LastSecond \in Nat /\ granted[k] \in Nat
        /\ \A u \in 0..second : grantedBefore[k][u] \in Nat
    <3>1. PeekShape BY DEF PeekInv
    <3>. QED BY <3>1, SecondsAre
  <2>4. granted[k] - grantedBefore[k][b] <= Limit(k) BY <2>1 DEF Began
  <2>5. CASE t >= b
    <3>1. grantedBefore[k][b] <= grantedBefore[k][t]
      <4>1. t \in b..second BY <2>3, <2>5
      <4>. QED BY <4>1 DEF PeekInv, Totals
    <3>. QED BY <2>2, <2>3, <2>4, <3>1
  <2>6. CASE t < b
    <3>1. t \in 0..b /\ t + WindowOf(k) >= b BY <2>2, <2>3, <2>6
    <3>2. grantedBefore[k][b] - grantedBefore[k][t] <= Limit(k) BY <2>1, <3>1 DEF Began
    <3>. QED BY <2>2, <2>3, <2>4, <3>2
  <2>. QED BY <2>3, <2>5, <2>6
<1>. QED BY <1>1, PeekInvAlways, PTL

-----------------------------------------------------------------------------
(* Side by side.                                                            *)

\* The components run side by side as each runs alone: a behaviour of all of them is one
\* of each, so that what is proved of a component holds where TLC checks it.
THEOREM EachRunsAsAlone ==
    PlatformSpec => /\ SyncSpec /\ PropertiesSpec /\ FetchingSpec /\ IssuesSpec /\ WeeklySpec
                    /\ SpendingSpec /\ AlertsSpec /\ DeletionSpec /\ PeekSpec
                    /\ WebsitesInit /\ [][WebsitesNext]_websitesVars
<1>1. PlatformInit => /\ SyncInit /\ PropertiesInit /\ FetchingInit /\ IssuesInit /\ WeeklyInit
                      /\ SpendingInit /\ AlertsInit /\ DeletionInit /\ PeekInit /\ WebsitesInit
  BY DEF PlatformInit
<1>2. ASSUME [PlatformNext]_platformVars
      PROVE  /\ [SyncNext]_syncVars /\ [WebsitesNext]_websitesVars
             /\ [PropertiesNext]_propertiesVars /\ [FetchingNext]_fetchingVars
             /\ [IssuesNext]_issueVars /\ [WeeklyNext]_weeklyVars
             /\ [SpendingNext]_spendingVars /\ [AlertsNext]_alertVars
             /\ [DeletionNext]_deletionVars /\ [PeekNext]_peekVars
  BY <1>2 DEF PlatformNext, platformVars
<1>. QED
  BY <1>1, <1>2, PTL
  DEF PlatformSpec, SyncSpec, PropertiesSpec, FetchingSpec, IssuesSpec, WeeklySpec, SpendingSpec,
      AlertsSpec, DeletionSpec, PeekSpec

\* Every component keeps to its types, for any instance of each.
THEOREM PlatformTyped == PlatformSpec => []PlatformTypeOK
<1>1. PlatformInit => part \in Parts BY DEF PlatformInit
<1>2. part \in Parts /\ [PlatformNext]_platformVars => (part \in Parts)'
  BY DEF PlatformNext, platformVars
<1>3. /\ WebsitesInv => WebsitesTypeOK
      /\ DeletionInv => DeletionTypeOK
  BY DEF WebsitesInv, DeletionInv
<1>4. /\ part \in Parts /\ SyncTypeOK /\ WebsitesTypeOK /\ PropertiesTypeOK /\ FetchingTypeOK
      /\ IssuesTypeOK /\ WeeklyTypeOK /\ SpendingTypeOK /\ AlertsTypeOK /\ DeletionTypeOK
      /\ PeekTypeOK
      => PlatformTypeOK
  BY DEF PlatformTypeOK, Parts
<1>5. PlatformSpec => [](part \in Parts) BY <1>1, <1>2, PTL DEF PlatformSpec
<1>. QED
  BY <1>3, <1>4, <1>5, EachRunsAsAlone, SyncTyped, WebsitesAlwaysTyped, PropertiesTyped,
     FetchingTyped, IssuesTyped, WeeklyTyped, SpendingTyped, AlertsTyped, RowGoesLast, PeekTyped,
     PTL
=============================================================================
