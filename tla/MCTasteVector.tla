--------------------------- MODULE MCTasteVector ---------------------------
(* A small instance of TasteVector for TLC.  Calls and dishes are alike. *)
EXTENDS TasteVector, TLC

CONSTANTS d1, d2, h1, h2
MCDishes == {d1, d2}
MCCalls == {h1, h2}
Symmetry == Permutations(MCDishes) \cup Permutations(MCCalls)
=============================================================================
