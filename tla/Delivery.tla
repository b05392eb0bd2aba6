------------------------------ MODULE Delivery ------------------------------
(***************************************************************************)
(* What the incremental download promises a device, whatever pages and      *)
(* cursors it is made of: a version of a row that was published in order is *)
(* owed to the device until the device has it.  A version published late,   *)
(* behind what was already handed out, carries no promise.                  *)
(***************************************************************************)
EXTENDS Integers

CONSTANT Rows

VARIABLES
    version,    \* the newest version of each row on the server, 0 if there is none
    copy,       \* the version the device has
    owed        \* the rows whose newest version the device will still get

vars == <<version, copy, owed>>

Init ==
    /\ version = [r \in Rows |-> 0]
    /\ copy = [r \in Rows |-> 0]
    /\ owed = {}

Newer(f, g) == \A r \in Rows : f[r] >= g[r]

\* Some rows get new versions, those in order are owed from now on.
Publish ==
    /\ version' \in [Rows -> Nat] /\ Newer(version', version)
    /\ \E late \in SUBSET Rows :
         owed' = (owed \cup {r \in Rows : version'[r] # version[r]}) \ late
    /\ \A r \in owed \ owed' : version'[r] # version[r]
    /\ UNCHANGED copy

\* The device gets some rows; only what it has is no longer owed.
Deliver ==
    /\ copy' \in [Rows -> Nat] /\ Newer(copy', copy)
    /\ owed' = {r \in owed : copy'[r] # version[r]}
    /\ UNCHANGED version

Next == Publish \/ Deliver

Spec == Init /\ [][Next]_vars
=============================================================================
