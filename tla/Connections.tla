----------------------------- MODULE Connections -----------------------------
(***************************************************************************)
(* One organisation's connection to one Google account: api/hub, with the  *)
(* table `connections', the vault `secrets.oauth_tokens' and the OAuth     *)
(* states in Redis.                                                        *)
(*                                                                         *)
(* A request is one transaction: what it writes is seen at its commit, and *)
(* a request that raises has written nothing, though what it told Google   *)
(* or Redis stays said.  A nightly job commits each statement.             *)
(***************************************************************************)
EXTENDS Integers

CONSTANTS
    Flows,          \* authorisations somebody starts, each with its state id
    Callbacks,      \* the requests that carry one back
    Refreshers,     \* whoever needs an access token: jobs and requests
    NoFlow,
    MaxTokens       \* bound: the refresh tokens Google ever issues

ASSUME MaxTokensAssumption == MaxTokens \in Nat
ASSUME NoFlowAssumption == NoFlow \notin Flows

None   == 0
Tokens == 1 .. MaxTokens

\* A row of the vault is named after the first token it held.
Secrets == Tokens

VARIABLES
    status, hidden, token,  \* the connections row; hidden is a revoked_at set
    vault,                  \* the token each secret holds; None is no row
    issued, live, granted,  \* Google: tokens issued, those that work, the grant
    started, states, consent,   \* flows begun, those in Redis, prompt=consent
    cb, carries, got,       \* a callback: where it is, its flow, its new token
    exchanges,              \* history: how often a flow's code was exchanged
    origin,                 \* history: the secret a token was issued for
    pc, mode, secret, hand, \* a refresh: where it is, its secret and token
    closing, held, told     \* a disconnection, or the account's deletion

row       == <<status, hidden, token>>
google    == <<issued, live, granted, origin>>
flowVars  == <<started, states, consent, exchanges>>
cbVars    == <<cb, carries, got>>
refreshes == <<pc, mode, secret, hand>>
closeVars == <<closing, held, told>>
vars == <<row, vault, google, flowVars, cbVars, refreshes, closeVars>>

Exists == status \notin {"absent", "deleted"}

Init ==
    /\ status = "absent" /\ hidden = FALSE /\ token = None
    /\ vault = [s \in Secrets |-> None]
    /\ issued = 0 /\ live = {} /\ granted = FALSE
    /\ started = {} /\ states = {} /\ consent = [f \in Flows |-> TRUE]
    /\ cb = [c \in Callbacks |-> "idle"]
    /\ carries = [c \in Callbacks |-> NoFlow]
    /\ got = [c \in Callbacks |-> None]
    /\ exchanges = [f \in Flows |-> 0]
    /\ origin = [t \in Tokens |-> None]
    /\ pc = [r \in Refreshers |-> "idle"]
    /\ mode = [r \in Refreshers |-> "job"]
    /\ secret = [r \in Refreshers |-> None]
    /\ hand = [r \in Refreshers |-> None]
    /\ closing = "idle" /\ held = None /\ told = None

-----------------------------------------------------------------------------
(* Connecting.                                                              *)

\* GET /connect: the state goes to Redis; Google is asked to show its consent
\* screen only when no connection in the list is active.
Connect(f) ==
    /\ f \notin started
    /\ status # "deleted"
    /\ started' = started \cup {f}
    /\ states' = states \cup {f}
    /\ consent' = [consent EXCEPT ![f] = ~(status = "active" /\ ~hidden)]
    /\ UNCHANGED <<row, vault, google, exchanges, cbVars, refreshes, closeVars>>

\* Its time is over, or the callback carried an error and it just lies there.
Expire(f) ==
    /\ f \in states
    /\ states' = states \ {f}
    /\ UNCHANGED <<row, vault, google, started, consent, exchanges, cbVars, refreshes,
                   closeVars>>

\* MUTANT: GET instead of GETDEL.
TakeState_Get(c, f) ==
    /\ cb[c] = "idle"
    /\ f \in states
    /\ cb' = [cb EXCEPT ![c] = "taken"]
    /\ carries' = [carries EXCEPT ![c] = f]
    /\ UNCHANGED <<row, vault, google, flowVars, got, refreshes, closeVars>>

\* A callback, which may come twice: the one that finds its state goes on.
TakeState(c, f) ==
    /\ cb[c] = "idle"
    /\ f \in states
    /\ cb' = [cb EXCEPT ![c] = "taken"]
    /\ carries' = [carries EXCEPT ![c] = f]
    /\ states' = states \ {f}
    /\ UNCHANGED <<row, vault, google, started, consent, exchanges, got, refreshes,
                   closeVars>>

\* Google issues a token for a secret s: s is the token's own, or one that it
\* is to replace the token of.
Issue(t, s) ==
    /\ t = issued + 1 /\ t \in Tokens
    /\ issued' = t
    /\ origin' = [origin EXCEPT ![t] = s]

\* exchange_code: a refresh token comes with a consent given now, or with the
\* first grant; a grant that stands and is not asked for again brings none.
Exchange(c) ==
    LET f == carries[c]
    IN  /\ cb[c] = "taken"
        /\ cb' = [cb EXCEPT ![c] = "exchanged"]
        /\ exchanges' = [exchanges EXCEPT ![f] = @ + 1]
        /\ granted' = TRUE
        /\ IF consent[f] \/ ~granted
           THEN \E t \in Tokens :
                   /\ Issue(t, t)
                   /\ live' = live \cup {t}
                   /\ got' = [got EXCEPT ![c] = t]
           ELSE UNCHANGED <<issued, origin, live, got>>
        /\ UNCHANGED <<row, vault, started, states, consent, carries, refreshes, closeVars>>

CallbackEnds(c) ==
    /\ cb' = [cb EXCEPT ![c] = "idle"]
    /\ got' = [got EXCEPT ![c] = None]
    /\ carries' = [carries EXCEPT ![c] = NoFlow]

\* MUTANT: no coalesce.
CommitConnection_Null(c) ==
    /\ cb[c] = "exchanged"
    /\ status # "deleted"
    /\ vault' = [s \in Secrets |-> IF s = got[c] THEN got[c] ELSE vault[s]]
    /\ token' = got[c]
    /\ status' = "active"
    /\ hidden' = FALSE
    /\ CallbackEnds(c)
    /\ UNCHANGED <<google, flowVars, refreshes, closeVars>>

\* The vault's new row and upsert_connection, committed together: a reconnection
\* without a token keeps the one there is.
CommitConnection(c) ==
    /\ cb[c] = "exchanged"
    /\ status # "deleted"
    /\ vault' = [s \in Secrets |-> IF s = got[c] THEN got[c] ELSE vault[s]]
    /\ token' = IF got[c] # None THEN got[c] ELSE token
    /\ status' = "active"
    /\ hidden' = FALSE
    /\ CallbackEnds(c)
    /\ UNCHANGED <<google, flowVars, refreshes, closeVars>>

\* The exchange or the discovery fails, the process dies, or the organisation
\* the row refers to is gone: nothing is written.
CallbackFails(c) ==
    /\ cb[c] # "idle"
    /\ CallbackEnds(c)
    /\ UNCHANGED <<row, vault, google, flowVars, refreshes, closeVars>>

-----------------------------------------------------------------------------
(* An access token (TokenService).                                          *)

Step(r, from, to) == pc[r] = from /\ pc' = [pc EXCEPT ![r] = to]

\* MUTANT: the token kept after its use.
Done_KeepHand(r) ==
    /\ pc' = [pc EXCEPT ![r] = "idle"]
    /\ mode' = [mode EXCEPT ![r] = "job"]
    /\ secret' = [secret EXCEPT ![r] = None]
    /\ UNCHANGED hand

Done(r) ==
    /\ pc' = [pc EXCEPT ![r] = "idle"]
    /\ mode' = [mode EXCEPT ![r] = "job"]
    /\ secret' = [secret EXCEPT ![r] = None]
    /\ hand' = [hand EXCEPT ![r] = None]

\* sync_website finds an active connection, or a request looks at its link only.
BeginRefresh(r, m) ==
    /\ Step(r, "idle", "linked")
    /\ IF m = "job" THEN status = "active" ELSE Exists
    /\ mode' = [mode EXCEPT ![r] = m]
    /\ UNCHANGED <<row, vault, google, flowVars, cbVars, secret, hand, closeVars>>

Usable == Exists /\ status # "revoked" /\ token # None

ReadRow(r) ==
    /\ Step(r, "linked", "read")
    /\ Usable
    /\ secret' = [secret EXCEPT ![r] = token]
    /\ UNCHANGED <<row, vault, google, flowVars, cbVars, mode, hand, closeVars>>

NotUsable(r) ==
    /\ pc[r] = "linked" /\ ~Usable
    /\ Done(r)
    /\ UNCHANGED <<row, vault, google, flowVars, cbVars, closeVars>>

ReadSecret(r) ==
    /\ Step(r, "read", IF vault[secret[r]] = None THEN "refused" ELSE "asking")
    /\ hand' = [hand EXCEPT ![r] = vault[secret[r]]]
    /\ UNCHANGED <<row, vault, google, flowVars, cbVars, mode, secret, closeVars>>

\* Google answers; it may issue a new token in the place of the old one.
GoogleAnswers(r) ==
    /\ Step(r, "asking", "answered")
    /\ hand[r] \in live
    /\ \/ /\ hand' = [hand EXCEPT ![r] = None]
          /\ UNCHANGED google
       \/ \E t \in Tokens :
             /\ Issue(t, secret[r])
             /\ live' = (live \ {hand[r]}) \cup {t}
             /\ hand' = [hand EXCEPT ![r] = t]
             /\ UNCHANGED granted
    /\ UNCHANGED <<row, vault, flowVars, cbVars, mode, secret, closeVars>>

\* invalid_grant.
GoogleRefuses(r) ==
    /\ Step(r, "asking", "refused")
    /\ hand[r] \notin live
    /\ UNCHANGED <<row, vault, google, flowVars, cbVars, mode, secret, hand, closeVars>>

\* Any other error, a process that dies, a request that raises later on: what a
\* request had not committed is gone.
RefreshFails(r) ==
    /\ pc[r] # "idle"
    /\ Done(r)
    /\ UNCHANGED <<row, vault, google, flowVars, cbVars, closeVars>>

SetStatus(s) == status' = IF Exists THEN s ELSE status

\* MUTANT: the refusal raised, and not noted.
MarkNeedsReauth_Raise(r) ==
    /\ pc[r] = "refused" /\ mode[r] = "job"
    /\ Done(r)
    /\ UNCHANGED <<row, vault, google, flowVars, cbVars, closeVars>>

\* What a request writes here is rolled back by the exception that follows.
MarkNeedsReauth(r) ==
    /\ pc[r] = "refused" /\ mode[r] = "job"
    /\ SetStatus("needs_reauth")
    /\ Done(r)
    /\ UNCHANGED <<hidden, token, vault, google, flowVars, cbVars, closeVars>>

\* MUTANT: the new token put where the row points by now.
Replaced_Current(r) == [vault EXCEPT ![IF token = None THEN secret[r] ELSE token] = hand[r]]

\* MUTANT: an upsert, which brings back a secret that was destroyed.
Replaced_Upsert(r) == [vault EXCEPT ![secret[r]] = hand[r]]

\* vault.replace updates, it does not insert.
Replaced(r) ==
    IF hand[r] # None /\ vault[secret[r]] # None
    THEN [vault EXCEPT ![secret[r]] = hand[r]] ELSE vault

Replace(r) ==
    /\ Step(r, "answered", "replaced")
    /\ mode[r] = "job"
    /\ vault' = Replaced(r)
    /\ UNCHANGED <<row, google, flowVars, cbVars, mode, secret, hand, closeVars>>

\* The update has no condition but the id.
MarkActive(r) ==
    /\ pc[r] = "replaced"
    /\ SetStatus("active")
    /\ Done(r)
    /\ UNCHANGED <<hidden, token, vault, google, flowVars, cbVars, closeVars>>

CommitRefresh(r) ==
    /\ pc[r] = "answered" /\ mode[r] = "request"
    /\ vault' = Replaced(r)
    /\ SetStatus("active")
    /\ Done(r)
    /\ UNCHANGED <<hidden, token, google, flowVars, cbVars, closeVars>>

-----------------------------------------------------------------------------
(* Disconnecting, and deleting the account.                                 *)

\* Both begin by reading the row, and the vault if the row names a secret; the
\* deletion takes up only a connection that does.
BeginClosing(how) ==
    /\ closing = "idle"
    /\ Exists
    /\ closing' = IF how = "deleting" /\ token = None THEN "destroyed" ELSE how
    /\ held' = token
    /\ told' = IF token = None THEN None ELSE vault[token]
    /\ UNCHANGED <<row, vault, google, flowVars, cbVars, refreshes>>

\* Best effort: Google may not be reached, or know the token no more.
RevokeAtGoogle(from, to) ==
    /\ closing = from /\ closing' = to
    /\ \/ /\ told \in live
          /\ live' = {} /\ granted' = FALSE
       \/ UNCHANGED <<live, granted>>
    /\ UNCHANGED <<row, vault, issued, origin, flowVars, cbVars, refreshes, held, told>>

ClosingEnds == closing' = "idle" /\ held' = None /\ told' = None

\* A secret that goes takes the reference to it along (on delete set null).
Unreferenced == IF token = held THEN None ELSE token

\* MUTANT: the row's reference to its secret kept.
CommitDisconnect_Keep ==
    /\ closing = "revoked" /\ Exists
    /\ vault' = [s \in Secrets |-> IF s = held THEN None ELSE vault[s]]
    /\ status' = "revoked" /\ hidden' = TRUE /\ UNCHANGED token
    /\ ClosingEnds
    /\ UNCHANGED <<google, flowVars, cbVars, refreshes>>

\* vault.destroy and mark_revoked, committed together.
CommitDisconnect ==
    /\ closing = "revoked" /\ Exists
    /\ vault' = [s \in Secrets |-> IF s = held THEN None ELSE vault[s]]
    /\ status' = "revoked" /\ hidden' = TRUE /\ token' = None
    /\ ClosingEnds
    /\ UNCHANGED <<google, flowVars, cbVars, refreshes>>

\* revoke_organisation, in a job that commits each statement.
Destroy ==
    /\ closing = "gone_at_google" /\ closing' = "destroyed"
    /\ vault' = [s \in Secrets |-> IF s = held THEN None ELSE vault[s]]
    /\ token' = Unreferenced
    /\ UNCHANGED <<status, hidden, google, flowVars, cbVars, refreshes, held, told>>

\* The organisation goes, and its connections with it.
DeleteOrganisation ==
    /\ closing = "destroyed"
    /\ status' = "deleted" /\ hidden' = FALSE /\ token' = None
    /\ ClosingEnds
    /\ UNCHANGED <<vault, google, flowVars, cbVars, refreshes>>

ClosingFails ==
    /\ closing # "idle"
    /\ ClosingEnds
    /\ UNCHANGED <<row, vault, google, flowVars, cbVars, refreshes>>

\* The customer takes the permission back at Google, or Google lets it lapse.
RevokedElsewhere ==
    /\ live # {} \/ granted
    /\ live' = {} /\ granted' = FALSE
    /\ UNCHANGED <<row, vault, issued, origin, flowVars, cbVars, refreshes, closeVars>>

-----------------------------------------------------------------------------
Next ==
    \/ \E f \in Flows : Connect(f) \/ Expire(f)
    \/ \E c \in Callbacks : \/ \E f \in Flows : TakeState(c, f)
                            \/ Exchange(c) \/ CommitConnection(c) \/ CallbackFails(c)
    \/ \E r \in Refreshers :
          \/ BeginRefresh(r, "job") \/ BeginRefresh(r, "request")
          \/ ReadRow(r) \/ NotUsable(r) \/ ReadSecret(r)
          \/ GoogleAnswers(r) \/ GoogleRefuses(r) \/ RefreshFails(r)
          \/ MarkNeedsReauth(r) \/ Replace(r) \/ MarkActive(r) \/ CommitRefresh(r)
    \/ BeginClosing("disconnecting") \/ BeginClosing("deleting")
    \/ RevokeAtGoogle("disconnecting", "revoked")
    \/ RevokeAtGoogle("deleting", "gone_at_google")
    \/ CommitDisconnect \/ Destroy \/ DeleteOrganisation \/ ClosingFails
    \/ RevokedElsewhere

Spec == Init /\ [][Next]_vars

\* The nightly jobs use an active connection every night; a job may fail in any
\* of its steps, but not always in the same one.  Nothing else is assumed.
Fairness ==
    \A r \in Refreshers :
        /\ SF_vars(BeginRefresh(r, "job"))
        /\ SF_vars(mode[r] = "job" /\ ReadRow(r))
        /\ SF_vars(mode[r] = "job" /\ ReadSecret(r))
        /\ SF_vars(mode[r] = "job" /\ GoogleRefuses(r))
        /\ SF_vars(MarkNeedsReauth(r))
        /\ WF_vars(RefreshFails(r))

FairSpec == Spec /\ Fairness

-----------------------------------------------------------------------------
RefreshesOK ==
    /\ pc \in [Refreshers -> {"idle", "linked", "read", "asking", "answered", "refused",
                             "replaced"}]
    /\ mode \in [Refreshers -> {"job", "request"}]
    /\ secret \in [Refreshers -> Secrets \cup {None}]
    /\ hand \in [Refreshers -> Tokens \cup {None}]
    /\ \A r \in Refreshers :
          IF pc[r] \in {"idle", "linked"} THEN secret[r] = None /\ hand[r] = None
          ELSE secret[r] \in Secrets

\* The values each variable ranges over.
TypeOK ==
    /\ status \in {"absent", "active", "needs_reauth", "revoked", "deleted"}
    /\ hidden \in BOOLEAN /\ granted \in BOOLEAN
    /\ token \in Secrets \cup {None}
    /\ vault \in [Secrets -> Tokens \cup {None}]
    /\ issued \in Tokens \cup {None}
    /\ live \subseteq Tokens
    /\ origin \in [Tokens -> Secrets \cup {None}]
    /\ started \subseteq Flows /\ states \subseteq Flows
    /\ consent \in [Flows -> BOOLEAN]
    /\ exchanges \in [Flows -> Nat]
    /\ cb \in [Callbacks -> {"idle", "taken", "exchanged"}]
    /\ carries \in [Callbacks -> Flows \cup {NoFlow}]
    /\ \A c \in Callbacks : cb[c] # "idle" => carries[c] \in Flows
    /\ got \in [Callbacks -> Tokens \cup {None}]
    /\ RefreshesOK
    /\ closing \in {"idle", "disconnecting", "revoked", "deleting", "gone_at_google",
                    "destroyed"}
    /\ held \in Secrets \cup {None}
    /\ told \in Tokens \cup {None}

\* An authorisation is used once, whatever is delivered twice: its state is the
\* only way to its code (oauth_state.take).
StateOnce == \A f \in Flows : exchanges[f] <= 1

\* A connection that names a secret has it: no disconnection, however it races
\* with a reconnection or a rotation, leaves a row naming what is gone.
SecretThere == token # None => vault[token] # None

\* What a secret holds was issued for it: a rotation answered late never lands
\* in the secret of a newer authorisation (vault.replace).
OwnToken == \A s \in Secrets : vault[s] # None => origin[vault[s]] = s

\* Disconnected is disconnected until the customer connects again: no refresh in
\* flight gives the connection a token, or the vault a secret, it had lost.
\* (A late refresh does set the row's status to active.)
StaysGone ==
    [][/\ hidden /\ hidden' => token' = None
       /\ \A s \in Secrets : vault[s] = None /\ vault'[s] # None => token' = s]_vars

\* A reconnection that brings no token costs none (upsert_connection).
TokenKept ==
    [][token # None /\ token' = None
          => status' \in {"revoked", "deleted"} \/ vault'[token] = None]_vars

\* A connection whose token works no more does not pass for active for ever,
\* while jobs use it (access_token_for).
DeadToken == status = "active" /\ token # None /\ vault[token] \notin live
DeadTokenNoticed == DeadToken ~> ~DeadToken

\* "Revoke and destroy every stored token for one organisation"
\* (revocation.py): nothing of it is left once the organisation is deleted.
NothingKept == status = "deleted" => \A s \in Secrets : vault[s] = None

-----------------------------------------------------------------------------
(* Why it holds: the inductive invariant.                                   *)

\* A code that was not exchanged yet waits in Redis or is in one callback's
\* hands, never in both, and in no other's.
Waiting ==
    /\ states \subseteq started
    /\ \A f \in Flows : f \in states \/ f \notin started => exchanges[f] = 0
    /\ \A c \in Callbacks :
          cb[c] = "taken" =>
              /\ carries[c] \in started \ states
              /\ exchanges[carries[c]] = 0
              /\ \A d \in Callbacks \ {c} : cb[d] = "taken" => carries[d] # carries[c]

\* Every token somebody has was issued, and for the secret it is meant for.
Origins ==
    /\ \A s \in Secrets : vault[s] <= issued
    /\ \A c \in Callbacks : got[c] <= issued /\ (got[c] # None => origin[got[c]] = got[c])
    /\ \A r \in Refreshers :
          hand[r] <= issued /\ (hand[r] # None => origin[hand[r]] = secret[r])

HiddenEmpty == hidden => token = None

Inductive ==
    TypeOK /\ StateOnce /\ Waiting /\ SecretThere /\ OwnToken /\ Origins /\ HiddenEmpty
=============================================================================
