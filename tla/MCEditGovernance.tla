-------------------------- MODULE MCEditGovernance --------------------------
(* Small instances of EditGovernance for TLC: every suggestion has the same *)
(* author and is about the same column.                                     *)
EXTENDS EditGovernance, TLC

CONSTANTS author, field, entity0

MCAuthor == [s \in Suggestions |-> author]
MCField == [s \in Suggestions |-> field]
MCFields == {field}

\* The entity a suggestion names is the first one, which may or may not be there;
\* the run is about the liveness of the suggestion too, so no symmetry is used.
MCInit == Init /\ entity = [s \in Suggestions |-> entity0]
MCSpec == MCInit /\ [][Next]_vars /\ Fairness
=============================================================================
