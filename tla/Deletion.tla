------------------------------ MODULE Deletion ------------------------------
(***************************************************************************)
(* Ending an account: api/account/routes.py, deletion.py and identity.py,  *)
(* with revoke_organisation of api/hub/services/revocation.py.  Every      *)
(* statement commits, object storage and the sign-in live elsewhere, the   *)
(* call may end anywhere and be made again, two owners may leave at once,  *)
(* and the organisation's jobs and callbacks run on meanwhile.             *)
(***************************************************************************)
EXTENDS FiniteSets, Naturals

CONSTANTS
    People, Organizations,
    OwnersAtFirst,      \* who owns each organisation
    MaxCalls, MaxJobs   \* calls of DELETE /account, jobs and callbacks (bounds)

\* What an organisation leaves behind: the token in `secrets`, objects by website prefix,
\* rows of the UNREACHABLE tables.  Everything else goes with the organisation's row.
Belongings == {"token", "objects", "rows"}
NoOne == "no one"

ASSUME DeletionAssumption ==
    /\ OwnersAtFirst \in [Organizations -> SUBSET People]
    /\ MaxCalls \in Nat /\ MaxJobs \in Nat
    /\ NoOne \notin Organizations

VARIABLES
    owners, accounts, signIns,  \* organization_members (role owner), users, the provider's
    exists,                     \* rows of organizations
    held,                       \* what is kept for each organisation
    deleting,                   \* each person's call of delete_user
    receipts,                   \* deletion_receipts: who, which organisations, is the sign-in gone
    jobs, calls,
    lateWrites                        \* history: what a running job wrote after it had been deleted

deletionVars == <<owners, accounts, signIns, exists, held, deleting, receipts, jobs, calls, lateWrites>>

NotDeleting == [pc |-> "idle", todo |-> {}, org |-> NoOne, gone |-> {}, identity |-> FALSE]

DeletionInit ==
    /\ owners = OwnersAtFirst
    /\ accounts = People /\ signIns = People
    /\ exists = Organizations
    /\ held = [o \in Organizations |-> Belongings]
    /\ deleting = [p \in People |-> NotDeleting]
    /\ receipts = {}
    /\ jobs = {} /\ calls = 0
    /\ lateWrites = [o \in Organizations |-> {}]

Does(p, pc) == deleting[p].pc = pc
Goes(p, pc) == deleting' = [deleting EXCEPT ![p].pc = pc]

-----------------------------------------------------------------------------
(* delete_user.                                                             *)

SoleOwnerOrganizations(p) == {o \in exists : owners[o] = {p}}

\* The confirmation is typed; which organisations go is read once.
AskToDelete(p) ==
    /\ Does(p, "idle") /\ p \in signIns /\ calls < MaxCalls
    /\ calls' = calls + 1
    /\ deleting' = [deleting EXCEPT ![p] =
                        [NotDeleting EXCEPT !.pc = "next", !.todo = SoleOwnerOrganizations(p)]]
    /\ UNCHANGED <<owners, accounts, signIns, exists, held, receipts, jobs, lateWrites>>

TakeOrganization(p, o) ==
    /\ Does(p, "next") /\ o \in deleting[p].todo
    /\ deleting' = [deleting EXCEPT ![p].pc = "token", ![p].org = o,
                                             ![p].todo = @ \ {o}]
    /\ UNCHANGED <<owners, accounts, signIns, exists, held, receipts, jobs, calls, lateWrites>>

\* MUTANT: the organisation goes first, and its cascade is trusted with the rest.
After_CascadeFirst == [token |-> "organization", organization |-> "objects",
                       objects |-> "rows", rows |-> "next"]

After == [token |-> "objects", objects |-> "rows", rows |-> "organization",
          organization |-> "next"]

\* A secret is found through its connection, objects through the websites' rows: both
\* belong to the organisation.  Tables are emptied by organization_id.
Reachable(o) == IF o \in exists THEN Belongings ELSE {"rows"}

\* Google may refuse the revocation; the secret is destroyed all the same.
Purge(p, kind) ==
    /\ Does(p, kind)
    /\ LET o == deleting[p].org
       IN  /\ held' = [held EXCEPT ![o] = @ \ ({kind} \cap Reachable(o))]
           /\ lateWrites' = [lateWrites EXCEPT ![o] = @ \ {kind}]
    /\ Goes(p, After[kind])
    /\ UNCHANGED <<owners, accounts, signIns, exists, receipts, jobs, calls>>

DeleteOrganization(p) ==
    /\ Does(p, "organization")
    /\ LET o == deleting[p].org
       IN  /\ exists' = exists \ {o}
           /\ owners' = [owners EXCEPT ![o] = {}]
           /\ deleting' = [deleting EXCEPT ![p].pc = After["organization"],
                                           ![p].gone = @ \cup {o}]
    /\ UNCHANGED <<accounts, signIns, held, receipts, jobs, calls, lateWrites>>

\* The memberships of organisations with another owner go with the user's row.
DeleteUser(p) ==
    /\ Does(p, "next") /\ deleting[p].todo = {}
    /\ accounts' = accounts \ {p}
    /\ owners' = [o \in Organizations |-> owners[o] \ {p}]
    /\ Goes(p, "identity")
    /\ UNCHANGED <<signIns, exists, held, receipts, jobs, calls, lateWrites>>

\* The provider answers that it is gone, or anything else, or nothing.
DeleteIdentity(p, answers) ==
    /\ Does(p, "identity")
    /\ signIns' = IF answers THEN signIns \ {p} ELSE signIns
    /\ deleting' = [deleting EXCEPT ![p].pc = "receipt", ![p].identity = answers]
    /\ UNCHANGED <<owners, accounts, exists, held, receipts, jobs, calls, lateWrites>>

WriteReceipt(p) ==
    /\ Does(p, "receipt")
    /\ receipts' = receipts \cup
           {[who |-> p, organizations |-> deleting[p].gone, signIn |-> deleting[p].identity]}
    /\ deleting' = [deleting EXCEPT ![p] = NotDeleting]
    /\ UNCHANGED <<owners, accounts, signIns, exists, held, jobs, calls, lateWrites>>

\* The request is cut off, the store or a statement fails: nothing is undone.
CallDies(p) ==
    /\ ~ Does(p, "idle")
    /\ deleting' = [deleting EXCEPT ![p] = NotDeleting]
    /\ UNCHANGED <<owners, accounts, signIns, exists, held, receipts, jobs, calls, lateWrites>>

-----------------------------------------------------------------------------
(* The organisation's crawl, synchronisation and consent callback.          *)

\* What each writes that no foreign key refuses once the organisation is gone.
Writes == [crawl |-> {"objects", "rows"}, sync |-> {"rows"}, callback |-> {"token"}]

StartJob(o, work) ==
    /\ o \in exists /\ Cardinality(jobs) < MaxJobs
    /\ jobs' = jobs \cup {<<o, work>>}
    /\ UNCHANGED <<owners, accounts, signIns, exists, held, deleting, receipts, calls, lateWrites>>

JobWrites(o, work, kind) ==
    /\ <<o, work>> \in jobs /\ kind \in Writes[work]
    /\ held' = [held EXCEPT ![o] = @ \cup {kind}]
    /\ lateWrites' = [lateWrites EXCEPT ![o] = IF kind \in held[o] THEN @ ELSE @ \cup {kind}]
    /\ UNCHANGED <<owners, accounts, signIns, exists, deleting, receipts, jobs, calls>>

EndJob(o, work) ==
    /\ <<o, work>> \in jobs
    /\ jobs' = jobs \ {<<o, work>>}
    /\ UNCHANGED <<owners, accounts, signIns, exists, held, deleting, receipts, calls, lateWrites>>

DeletionNext ==
    \/ \E p \in People :
           \/ AskToDelete(p) \/ DeleteOrganization(p) \/ DeleteUser(p)
           \/ WriteReceipt(p) \/ CallDies(p)
           \/ \E o \in Organizations : TakeOrganization(p, o)
           \/ \E kind \in Belongings : Purge(p, kind)
           \/ \E answers \in BOOLEAN : DeleteIdentity(p, answers)
    \/ \E o \in Organizations, work \in DOMAIN Writes :
           \/ StartJob(o, work) \/ EndJob(o, work)
           \/ \E kind \in Belongings : JobWrites(o, work, kind)

DeletionSpec == DeletionInit /\ [][DeletionNext]_deletionVars

-----------------------------------------------------------------------------
DeletionTypeOK ==
    /\ owners \in [Organizations -> SUBSET People]
    /\ accounts \subseteq People /\ signIns \subseteq People /\ exists \subseteq Organizations
    /\ held \in [Organizations -> SUBSET Belongings] /\ lateWrites \in [Organizations -> SUBSET Belongings]
    /\ \A p \in People :
           /\ deleting[p].pc \in Belongings \cup {"idle", "next", "organization", "identity", "receipt"}
           /\ deleting[p].org \in Organizations \cup {NoOne}
    /\ receipts \subseteq
         [who : People, organizations : SUBSET Organizations, signIn : BOOLEAN]
    /\ jobs \subseteq Organizations \X DOMAIN Writes
    /\ calls \in 0..MaxCalls

\* A receipt means what it says (deletion.py: "The cascade is not enough"): of an
\* organisation it names, and of one whose row is gone with nobody at work on it, nothing
\* is kept that was there when it was deleted, whatever calls failed or were repeated
\* before.  What a job that was still running wrote afterwards is the exception: nothing
\* stops it, and nothing deletes that again.
ReceiptMeansGone ==
    \A o \in Organizations :
        (\/ \E r \in receipts : o \in r.organizations
         \/ o \notin exists /\ \A p \in People : deleting[p].org # o)
            => held[o] \subseteq lateWrites[o]
=============================================================================
