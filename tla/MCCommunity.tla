---------------------------- MODULE MCCommunity ----------------------------
(* A small instance of Community for TLC.  Users and handlers are alike. *)
EXTENDS Community, TLC

CONSTANTS u1, u2, h1, h2
MCUsers == {u1, u2}
MCHandlers == {h1, h2}
MCTables == [dish |-> <<"reaction", "vote", "intent", "image">>, restaurant |-> <<"rating", "report">>]
Symmetry == Permutations(MCUsers) \cup Permutations(MCHandlers)
=============================================================================
