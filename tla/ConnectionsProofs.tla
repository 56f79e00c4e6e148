-------------------------- MODULE ConnectionsProofs --------------------------
(***************************************************************************)
(* Proofs about Connections, for any flows, callbacks and refreshers, and  *)
(* any number of tokens.                                                   *)
(***************************************************************************)
EXTENDS Connections, TLAPS

\* No step takes a variable out of its type.
LEMMA TypeStep == ASSUME TypeOK, [Next]_vars PROVE TypeOK'
<1>. USE MaxTokensAssumption, NoFlowAssumption
<1>. USE DEF TypeOK, Secrets, Tokens, None, Step, Done, CallbackEnds, ClosingEnds, SetStatus,
             Exists, row, google, flowVars, cbVars, refreshes, closeVars
<1>0. ASSUME UNCHANGED refreshes PROVE RefreshesOK'
  BY <1>0 DEF RefreshesOK
<1>1. ASSUME NEW f \in Flows, Connect(f) \/ Expire(f) PROVE TypeOK'
  BY ZenonT(60), <1>0, <1>1 DEF Connect, Expire
<1>2. ASSUME NEW c \in Callbacks, NEW f \in Flows, TakeState(c, f) PROVE TypeOK'
  BY <1>0, <1>2 DEF TakeState
<1>3. ASSUME NEW c \in Callbacks, Exchange(c) PROVE TypeOK'
  <2>1. CASE \E t \in Tokens : /\ Issue(t, t) /\ live' = live \cup {t}
                              /\ got' = [got EXCEPT ![c] = t]
    BY <1>0, <1>3, <2>1 DEF Exchange, Issue
  <2>2. CASE UNCHANGED <<issued, origin, live, got>>
    BY <1>0, <1>3, <2>2 DEF Exchange
  <2>. QED BY <1>3, <2>1, <2>2 DEF Exchange
<1>4. ASSUME NEW c \in Callbacks, CommitConnection(c) \/ CallbackFails(c) PROVE TypeOK'
  BY ZenonT(60), <1>0, <1>4 DEF CommitConnection, CallbackFails
<1>5. ASSUME NEW r \in Refreshers, NEW m \in {"job", "request"}, BeginRefresh(r, m) PROVE TypeOK'
  BY <1>5 DEF BeginRefresh, RefreshesOK
<1>6. ASSUME NEW r \in Refreshers, ReadRow(r) PROVE TypeOK'
  BY <1>6 DEF ReadRow, Usable, RefreshesOK
<1>7. ASSUME NEW r \in Refreshers, ReadSecret(r) PROVE TypeOK'
  <2>1. RefreshesOK'
    BY <1>7 DEF ReadSecret, RefreshesOK
  <2>. QED BY <1>7, <2>1 DEF ReadSecret
<1>8. ASSUME NEW r \in Refreshers, GoogleAnswers(r) PROVE TypeOK'
  <2>1. RefreshesOK'
    BY ZenonT(60), <1>8 DEF GoogleAnswers, RefreshesOK
  <2>2. secret[r] \in Secrets
    BY <1>8 DEF GoogleAnswers, RefreshesOK
  <2>3. CASE UNCHANGED google
    BY <1>8, <2>1, <2>3 DEF GoogleAnswers
  <2>4. CASE \E t \in Tokens : /\ Issue(t, secret[r]) /\ UNCHANGED granted
                              /\ live' = (live \ {hand[r]}) \cup {t}
    <3>1. PICK t \in Tokens : /\ Issue(t, secret[r]) /\ UNCHANGED granted
                             /\ live' = (live \ {hand[r]}) \cup {t}
      BY <2>4
    <3>2. /\ issued' \in Tokens /\ live' \subseteq Tokens /\ granted' \in BOOLEAN
          /\ origin' \in [Tokens -> Secrets \cup {None}]
      BY <2>2, <3>1 DEF Issue
    <3>. HIDE DEF RefreshesOK
    <3>. QED BY <1>8, <2>1, <3>2 DEF GoogleAnswers
  <2>. QED BY <1>8, <2>3, <2>4 DEF GoogleAnswers
<1>9. ASSUME NEW r \in Refreshers, GoogleRefuses(r) PROVE TypeOK'
  BY <1>9 DEF GoogleRefuses, RefreshesOK
<1>13. ASSUME NEW r \in Refreshers, Done(r) PROVE RefreshesOK'
  BY <1>13 DEF RefreshesOK
<1>14. ASSUME NEW r \in Refreshers,
              NotUsable(r) \/ RefreshFails(r) \/ MarkNeedsReauth(r) \/ MarkActive(r)
       PROVE  TypeOK'
  BY ZenonT(60), <1>14, <1>13 DEF NotUsable, RefreshFails, MarkNeedsReauth, MarkActive
<1>15. ASSUME NEW r \in Refreshers, Replace(r) PROVE TypeOK'
  BY <1>15 DEF Replace, Replaced, RefreshesOK
<1>16. ASSUME NEW r \in Refreshers, CommitRefresh(r) PROVE TypeOK'
  <2>1. vault' \in [Secrets -> Tokens \cup {None}]
    BY <1>16 DEF CommitRefresh, Replaced, RefreshesOK
  <2>. QED BY <1>16, <1>13, <2>1 DEF CommitRefresh
<1>10. ASSUME NEW how \in {"disconnecting", "deleting"}, BeginClosing(how) PROVE TypeOK'
  BY <1>0, <1>10 DEF BeginClosing
<1>11. CASE \/ RevokeAtGoogle("disconnecting", "revoked")
            \/ RevokeAtGoogle("deleting", "gone_at_google")
  BY <1>0, <1>11 DEF RevokeAtGoogle
<1>12. CASE \/ CommitDisconnect \/ Destroy \/ DeleteOrganisation \/ ClosingFails
            \/ RevokedElsewhere \/ UNCHANGED vars
  BY ZenonT(60), <1>0, <1>12 DEF CommitDisconnect, Destroy, DeleteOrganisation, ClosingFails,
               RevokedElsewhere, Unreferenced, vars
<1>. QED
  BY <1>1, <1>2, <1>3, <1>4, <1>5, <1>6, <1>7, <1>8, <1>9, <1>10, <1>11, <1>12,
     <1>13, <1>14, <1>15, <1>16 DEF Next

\* A state goes to one callback, and its code to Google once.
LEMMA WaitingStep ==
    ASSUME TypeOK, StateOnce, Waiting, [Next]_vars
    PROVE  StateOnce' /\ Waiting'
<1>. USE DEF TypeOK, StateOnce, Waiting, CallbackEnds, row, google, flowVars, cbVars,
             refreshes, closeVars
<1>1. ASSUME NEW f \in Flows, Connect(f) \/ Expire(f) PROVE StateOnce' /\ Waiting'
  BY <1>1 DEF Connect, Expire
<1>2. ASSUME NEW c \in Callbacks, NEW f \in Flows, TakeState(c, f)
      PROVE  StateOnce' /\ Waiting'
  <2>1. StateOnce'
    BY <1>2 DEF TakeState
  <2>2. /\ f \in started /\ exchanges[f] = 0
        /\ exchanges' = exchanges /\ started' = started /\ states' = states \ {f}
    BY <1>2 DEF TakeState
  <2>3. \A g \in Flows : g \in states' \/ g \notin started' => exchanges'[g] = 0
    BY <2>2
  <2>4. \A d \in Callbacks : /\ cb'[d] = IF d = c THEN "taken" ELSE cb[d]
                            /\ carries'[d] = IF d = c THEN f ELSE carries[d]
    BY <1>2 DEF TakeState
  <2>5. \A d \in Callbacks \ {c} :
           cb[d] = "taken" => carries[d] \in started \ states /\ carries[d] # f
    BY <1>2 DEF TakeState
  <2>6. ASSUME NEW d \in Callbacks, cb'[d] = "taken"
        PROVE  /\ carries'[d] \in started' \ states'
               /\ exchanges'[carries'[d]] = 0
               /\ \A e \in Callbacks \ {d} : cb'[e] = "taken" => carries'[e] # carries'[d]
    <3>1. CASE d = c
      <4>1. carries'[d] = f /\ f \in started' \ states' /\ exchanges'[f] = 0
        BY <2>2, <2>4, <3>1
      <4>2. ASSUME NEW e \in Callbacks \ {d}, cb'[e] = "taken" PROVE carries'[e] # f
        BY <2>4, <2>5, <3>1, <4>2
      <4>. QED BY <4>1, <4>2
    <3>2. CASE d # c
      BY <2>2, <2>4, <2>5, <2>6, <3>2
    <3>. QED BY <3>1, <3>2
  <2>7. states' \subseteq started'
    BY <2>2
  <2>. QED BY <2>1, <2>3, <2>6, <2>7
<1>3. ASSUME NEW c \in Callbacks, Exchange(c) PROVE StateOnce' /\ Waiting'
  BY <1>3 DEF Exchange
<1>4. ASSUME NEW c \in Callbacks, CommitConnection(c) \/ CallbackFails(c)
      PROVE  StateOnce' /\ Waiting'
  BY <1>4 DEF CommitConnection, CallbackFails
<1>5. CASE UNCHANGED <<flowVars, cbVars>>
  BY <1>5
<1>. QED
  BY <1>1, <1>2, <1>3, <1>4, <1>5
  DEF Next, BeginRefresh, ReadRow, NotUsable, ReadSecret, GoogleAnswers, GoogleRefuses,
      RefreshFails, MarkNeedsReauth, Replace, MarkActive, CommitRefresh, BeginClosing,
      RevokeAtGoogle, CommitDisconnect, Destroy, DeleteOrganisation, ClosingFails,
      RevokedElsewhere, vars

\* What the row names, the vault has; what the vault has was issued for it.
Kept == SecretThere /\ OwnToken /\ Origins /\ HiddenEmpty

LEMMA KeptStep == ASSUME TypeOK, Kept, [Next]_vars PROVE Kept'
<1>. USE MaxTokensAssumption DEF Secrets, Tokens, None
<1>1. /\ token \in 0 .. MaxTokens /\ issued \in 0 .. MaxTokens
      /\ vault \in [1 .. MaxTokens -> 0 .. MaxTokens]
      /\ origin \in [1 .. MaxTokens -> 0 .. MaxTokens]
      /\ got \in [Callbacks -> 0 .. MaxTokens]
      /\ secret \in [Refreshers -> 0 .. MaxTokens]
      /\ hand \in [Refreshers -> 0 .. MaxTokens]
  BY DEF TypeOK, RefreshesOK
<1>2. ASSUME NEW r \in Refreshers, pc[r] \notin {"idle", "linked"} PROVE secret[r] \in Secrets
  BY <1>2 DEF TypeOK, RefreshesOK
<1>3. ASSUME NEW r \in Refreshers, pc[r] \in {"idle", "linked"} PROVE hand[r] = None
  BY <1>3 DEF TypeOK, RefreshesOK
<1>. USE DEF Kept, SecretThere, OwnToken, Origins, HiddenEmpty, Step, Done, CallbackEnds,
             row, google, flowVars, cbVars, refreshes, closeVars
<1>4. ASSUME NEW t \in Tokens, NEW x \in Secrets, Issue(t, x)
      PROVE  /\ issued' \in 0 .. MaxTokens /\ issued < issued' /\ issued' = t
             /\ origin'[t] = x
             /\ \A u \in Tokens : u <= issued => origin'[u] = origin[u]
  BY <1>1, <1>4 DEF Issue
<1>20. /\ token \in 0 .. MaxTokens /\ issued \in 0 .. MaxTokens
       /\ \A s \in Secrets : vault[s] \in 0 .. MaxTokens
       /\ \A d \in Callbacks : got[d] \in 0 .. MaxTokens
       /\ \A q \in Refreshers : hand[q] \in 0 .. MaxTokens
  BY <1>1
<1>5. ASSUME NEW c \in Callbacks, Exchange(c) PROVE Kept'
  <2>1. CASE \E t \in Tokens : Issue(t, t) /\ got' = [got EXCEPT ![c] = t]
    <3>1. PICK t \in Tokens : Issue(t, t) /\ got' = [got EXCEPT ![c] = t]
      BY <2>1
    <3>2. UNCHANGED <<token, hidden, vault, secret, hand>>
      BY <1>5 DEF Exchange
    <3>3. /\ issued' \in 0 .. MaxTokens /\ issued < issued' /\ issued' = t /\ origin'[t] = t
          /\ \A u \in Tokens : u <= issued => origin'[u] = origin[u]
      BY <1>4, <3>1
    <3>4. \A d \in Callbacks : got'[d] = IF d = c THEN t ELSE got[d]
      BY <1>1, <3>1
    <3>. QED BY <3>2, <3>3, <3>4, <1>20
  <2>2. CASE UNCHANGED <<issued, origin, live, got>>
    BY <1>5, <2>2 DEF Exchange
  <2>. QED BY <1>5, <2>1, <2>2 DEF Exchange
<1>6. ASSUME NEW c \in Callbacks, CommitConnection(c) PROVE Kept'
  BY <1>1, <1>6 DEF CommitConnection
<1>7. ASSUME NEW c \in Callbacks, CallbackFails(c) PROVE Kept'
  BY <1>1, <1>7 DEF CallbackFails
<1>8. ASSUME NEW r \in Refreshers, ReadRow(r) PROVE Kept'
  BY <1>1, <1>3, <1>8 DEF ReadRow
<1>9. ASSUME NEW r \in Refreshers, ReadSecret(r) PROVE Kept'
  BY <1>1, <1>2, <1>9 DEF ReadSecret
<1>10. ASSUME NEW r \in Refreshers, GoogleAnswers(r) PROVE Kept'
  <2>1. CASE \E t \in Tokens : Issue(t, secret[r]) /\ hand' = [hand EXCEPT ![r] = t]
    <3>1. PICK t \in Tokens : Issue(t, secret[r]) /\ hand' = [hand EXCEPT ![r] = t]
      BY <2>1
    <3>2. secret[r] \in Secrets
      BY <1>2, <1>10 DEF GoogleAnswers
    <3>3. UNCHANGED <<token, hidden, vault, secret, got>>
      BY <1>10 DEF GoogleAnswers
    <3>4. /\ issued' \in 0 .. MaxTokens /\ issued < issued' /\ issued' = t
          /\ origin'[t] = secret[r]
          /\ \A u \in Tokens : u <= issued => origin'[u] = origin[u]
      BY <1>4, <3>1, <3>2
    <3>5. \A q \in Refreshers : hand'[q] = IF q = r THEN t ELSE hand[q]
      BY <1>1, <3>1
    <3>. QED BY <3>3, <3>4, <3>5, <1>20
  <2>2. CASE hand' = [hand EXCEPT ![r] = None] /\ UNCHANGED google
    <3>1. UNCHANGED <<token, hidden, vault, secret, got>>
      BY <1>10 DEF GoogleAnswers
    <3>2. \A q \in Refreshers : hand'[q] = IF q = r THEN 0 ELSE hand[q]
      BY <1>1, <2>2
    <3>. QED BY <1>1, <2>2, <3>1, <3>2
  <2>. QED BY <1>10, <2>1, <2>2 DEF GoogleAnswers
<1>11. ASSUME NEW r \in Refreshers, Done(r)
       PROVE  \A q \in Refreshers :
                 hand'[q] = 0 \/ (hand'[q] = hand[q] /\ secret'[q] = secret[q])
  BY <1>1, <1>11
<1>12. ASSUME NEW r \in Refreshers, Done(r),
              UNCHANGED <<hidden, token, vault, issued, origin, got>>
       PROVE  Kept'
  <2>. HIDE DEF Done
  <2>. QED BY <1>1, <1>11, <1>12
<1>13. ASSUME NEW r \in Refreshers, pc[r] \notin {"idle", "linked"}
       PROVE  LET v == Replaced(r)
              IN  /\ v \in [1 .. MaxTokens -> 0 .. MaxTokens]
                  /\ \A s \in Secrets : vault[s] # 0 => v[s] # 0
                  /\ \A s \in Secrets : v[s] # 0 => origin[v[s]] = s /\ v[s] <= issued
                  /\ \A s \in Secrets : v[s] <= issued
  <2>1. CASE hand[r] # None /\ vault[secret[r]] # None
    <3>1. /\ secret[r] \in Secrets /\ hand[r] \in Tokens /\ hand[r] <= issued
          /\ origin[hand[r]] = secret[r]
      BY <1>1, <1>2, <1>13, <2>1
    <3>2. \A s \in Secrets : Replaced(r)[s] = IF s = secret[r] THEN hand[r] ELSE vault[s]
      BY <1>1, <2>1, <3>1 DEF Replaced
    <3>3. Replaced(r) \in [1 .. MaxTokens -> 0 .. MaxTokens]
      BY <1>1, <2>1, <3>1 DEF Replaced
    <3>. QED BY SMTT(30), <3>1, <3>2, <3>3
  <2>2. CASE Replaced(r) = vault
    BY <1>1, <2>2
  <2>. QED BY <2>1, <2>2 DEF Replaced
<1>14. ASSUME NEW r \in Refreshers, Replace(r) PROVE Kept'
  <2>1. pc[r] \notin {"idle", "linked"}
    BY <1>14 DEF Replace
  <2>2. vault' = Replaced(r) /\ UNCHANGED <<hidden, token, issued, origin, got, secret, hand>>
    BY <1>14 DEF Replace
  <2>3. SecretThere' /\ HiddenEmpty' /\ OwnToken'
    BY SMTT(30), <1>1, <1>13, <2>1, <2>2
  <2>4. Origins'
    BY <1>13, <2>1, <2>2
  <2>. QED BY <2>3, <2>4
<1>16. ASSUME NEW r \in Refreshers, CommitRefresh(r) PROVE Kept'
  <2>1. Done(r) /\ vault' = Replaced(r) /\ UNCHANGED <<hidden, token, issued, origin, got>>
    BY <1>16 DEF CommitRefresh
  <2>2. pc[r] \notin {"idle", "linked"}
    BY <1>16 DEF CommitRefresh
  <2>. HIDE DEF Done
  <2>3. SecretThere' /\ HiddenEmpty' /\ OwnToken'
    BY SMTT(30), <1>1, <1>13, <2>1, <2>2
  <2>4. Origins'
    BY <1>1, <1>11, <1>13, <2>1, <2>2
  <2>. QED BY <2>3, <2>4
<1>17. CASE \/ CommitDisconnect \/ Destroy \/ DeleteOrganisation
  <2>1. UNCHANGED <<issued, origin, got, secret, hand>>
    BY <1>17 DEF CommitDisconnect, Destroy, DeleteOrganisation
  <2>2. \A s \in Secrets : vault'[s] = 0 \/ vault'[s] = vault[s]
    BY <1>17, <1>1 DEF CommitDisconnect, Destroy, DeleteOrganisation
  <2>3. OwnToken'
    BY <1>1, <2>1, <2>2
  <2>4. Origins'
    BY <1>20, <2>1, <2>2
  <2>5. HiddenEmpty'
    BY <1>17 DEF CommitDisconnect, Destroy, DeleteOrganisation, Unreferenced
  <2>6. SecretThere'
    <3>1. CASE CommitDisconnect \/ DeleteOrganisation
      BY <3>1 DEF CommitDisconnect, DeleteOrganisation
    <3>2. CASE Destroy
      BY <1>1, <3>2 DEF Destroy, Unreferenced
    <3>. QED BY <1>17, <3>1, <3>2
  <2>. QED BY <2>3, <2>4, <2>5, <2>6
<1>15. CASE UNCHANGED <<hidden, token, vault, issued, origin, got, secret, hand>>
  BY <1>15
<1>. QED
  <2>. HIDE DEF Kept, Done
  <2>1. ASSUME NEW r \in Refreshers,
               NotUsable(r) \/ RefreshFails(r) \/ MarkNeedsReauth(r) \/ MarkActive(r)
        PROVE  Kept'
    BY <2>1, <1>12 DEF NotUsable, RefreshFails, MarkNeedsReauth, MarkActive
  <2>. QED
    BY <1>5, <1>6, <1>7, <1>8, <1>9, <1>10, <1>14, <1>15, <1>16, <1>17, <2>1
    DEF Next, Connect, Expire, TakeState, BeginRefresh, GoogleRefuses, BeginClosing,
        RevokeAtGoogle, ClosingFails, RevokedElsewhere, vars

\* The inductive invariant holds of every state of the connection.
THEOREM Consistent == Spec => []Inductive
<1>1. Init => Inductive
  <2>. SUFFICES ASSUME Init PROVE Inductive
    OBVIOUS
  <2>. USE MaxTokensAssumption DEF Init, Secrets, Tokens, None
  <2>1. TypeOK
    BY DEF TypeOK, RefreshesOK
  <2>2. StateOnce /\ Waiting
    BY DEF StateOnce, Waiting
  <2>3. SecretThere /\ OwnToken /\ Origins /\ HiddenEmpty
    BY DEF SecretThere, OwnToken, Origins, HiddenEmpty
  <2>. QED BY <2>1, <2>2, <2>3 DEF Inductive
<1>2. Inductive /\ [Next]_vars => Inductive'
  BY TypeStep, WaitingStep, KeptStep DEF Inductive, Kept
<1>. QED BY <1>1, <1>2, PTL DEF Spec

\* Every variable keeps to its values, and a refresh that has read the row to a
\* secret of the vault.
THEOREM Typed == Spec => []TypeOK
BY Consistent, PTL DEF Inductive

\* An authorisation's code is exchanged at most once (oauth_state.take).
THEOREM UsedOnce == Spec => []StateOnce
BY Consistent, PTL DEF Inductive

\* A connection that names a secret has it (disconnect, upsert_connection).
THEOREM NamesWhatIsThere == Spec => []SecretThere
BY Consistent, PTL DEF Inductive

\* A secret holds a token that was issued for it (vault.replace).
THEOREM RotatedInPlace == Spec => []OwnToken
BY Consistent, PTL DEF Inductive

\* No step gives a disconnected connection a token, or the vault a secret but the
\* one a reconnection names (Replaced, CommitConnection).
THEOREM Gone == Spec => StaysGone
<1>. DEFINE New == \A s \in Secrets : vault[s] = None /\ vault'[s] # None => token' = s
<1>. USE DEF Secrets, Tokens, None
<1>1. ASSUME TypeOK, [Next]_vars PROVE New
  <2>1. vault \in [Secrets -> Tokens \cup {None}]
    BY <1>1 DEF TypeOK
  <2>2. ASSUME NEW c \in Callbacks, CommitConnection(c) PROVE New
    BY <2>1, <2>2 DEF CommitConnection
  <2>3. ASSUME NEW r \in Refreshers, Replace(r) \/ CommitRefresh(r) PROVE New
    BY <2>1, <2>3 DEF Replace, CommitRefresh, Replaced
  <2>4. CASE CommitDisconnect \/ Destroy
    BY <2>1, <2>4 DEF CommitDisconnect, Destroy
  <2>5. CASE UNCHANGED vault
    BY <2>5
  <2>. HIDE DEF New
  <2>. QED
    BY <1>1, <2>2, <2>3, <2>4, <2>5
    DEF Next, Connect, Expire, TakeState, Exchange, CallbackFails, BeginRefresh, ReadRow,
        NotUsable, ReadSecret, GoogleAnswers, GoogleRefuses, RefreshFails, MarkNeedsReauth,
        MarkActive, BeginClosing, RevokeAtGoogle, DeleteOrganisation, ClosingFails,
        RevokedElsewhere, vars
<1>2. Inductive /\ Inductive' /\ [Next]_vars => (hidden /\ hidden' => token' = None) /\ New
  BY <1>1 DEF Inductive, HiddenEmpty
<1>. QED BY <1>2, Consistent, PTL DEF Spec, StaysGone

\* A reconnection that brings no token costs none (upsert_connection).
THEOREM Coalesced == Spec => TokenKept
<1>. DEFINE Lost == token # None /\ token' = None
            Right == status' \in {"revoked", "deleted"} \/ vault'[token] = None
<1>1. ASSUME TypeOK, [Next]_vars, Lost PROVE Right
  <2>1. /\ token \in Secrets /\ vault \in [Secrets -> Tokens \cup {None}]
    BY <1>1 DEF TypeOK
  <2>2. CASE Destroy
    BY <1>1, <2>1, <2>2 DEF Destroy, Unreferenced
  <2>3. CASE CommitDisconnect \/ DeleteOrganisation
    BY <2>3 DEF CommitDisconnect, DeleteOrganisation
  <2>4. CASE \E c \in Callbacks : CommitConnection(c)
    BY <1>1, <2>4 DEF CommitConnection
  <2>5. CASE UNCHANGED token
    BY <1>1, <2>5
  <2>. HIDE DEF Lost, Right
  <2>. QED
    BY <1>1, <2>2, <2>3, <2>4, <2>5
    DEF Next, Connect, Expire, TakeState, Exchange, CallbackFails, BeginRefresh, ReadRow,
        NotUsable, ReadSecret, GoogleAnswers, GoogleRefuses, RefreshFails, MarkNeedsReauth,
        Replace, MarkActive, CommitRefresh, BeginClosing, RevokeAtGoogle, ClosingFails,
        RevokedElsewhere, row, vars
<1>2. Inductive /\ [Next]_vars => (Lost => Right)
  BY <1>1 DEF Inductive
<1>. QED BY <1>2, Consistent, PTL DEF Spec, TokenKept
=============================================================================
