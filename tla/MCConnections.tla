---------------------------- MODULE MCConnections ----------------------------
(***************************************************************************)
(* Two authorisations and two callbacks, so that one can be delivered      *)
(* twice, race the other or come after a disconnection; a refresher, which *)
(* is a job or a request each time; three tokens, so that a secret can be  *)
(* replaced and the old one's token rotated meanwhile.                     *)
(***************************************************************************)
EXTENDS Connections, FiniteSets

ASSUME BigEnough ==
    Cardinality(Flows) >= 2 /\ Cardinality(Callbacks) >= 2 /\ MaxTokens >= 3
=============================================================================
