-------------------------- MODULE MCClassification --------------------------
(* A small instance of Classification for TLC: its cfg checks liveness too,  *)
(* so no symmetry is used.                                                   *)
EXTENDS Classification

CONSTANTS first, spent

\* The run starts from states a fresh process reaches: the first dish, alone or in a
\* batch, is inserted and not enqueued yet, and one permit is lost to an earlier
\* notification that hangs.  Before a restart the dishes share one permit, after
\* it two of which each may hang.
MCInit ==
    /\ \E c \in Creators, D \in {{first}, Dishes} :
         /\ state = [d \in Dishes |-> IF d \in D THEN "classifying" ELSE "absent"]
         /\ creating = [b \in Creators |-> IF b = c THEN D ELSE {}]
    /\ priors = {} /\ stale = {} /\ lost = {} /\ doubled = {}
    /\ queue = <<>> /\ held = None /\ sweep = NoSweep
    /\ task = [p \in Permits |-> IF p = spent THEN [pc |-> "hung", dish |-> None] ELSE Unused]
    /\ disturbances = 0

MCSpec == MCInit /\ [][Next]_vars /\ Fairness
=============================================================================
