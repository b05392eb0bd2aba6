--------------------------- MODULE MCClientSession ---------------------------
(* A small instance of ClientSession for TLC: two accounts on one device, two *)
(* requests at once, one of them a purchase.  Liveness is checked, so there   *)
(* is no symmetry.                                                            *)
EXTENDS ClientSession
=============================================================================
