------------------------- MODULE MCRefreshSessions -------------------------
(* Small instances of RefreshSessions for TLC. *)
EXTENDS RefreshSessions, TLC

\* Tokens are interchangeable, and so are requests.
Symmetry == Permutations(Tokens) \cup Permutations(Handlers)
=============================================================================
