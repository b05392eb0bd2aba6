---------------------------- MODULE TasteVector ----------------------------
(***************************************************************************)
(* The taste vector of one user (vectors of different users never meet):    *)
(* user_taste_vectors.reaction_count, which upsert_reaction (dishes.rs) and *)
(* post_bootstrap (timeline.rs) increment in statements of their own, and   *)
(* the gate of compatibility signals that trusts it.                        *)
(*                                                                         *)
(* Only the count is modelled: the preferences move a tenth of the way with *)
(* every update and are never compared with anything.                       *)
(***************************************************************************)
EXTENDS Integers, FiniteSets

CONSTANTS
    Dishes,
    Calls,          \* requests of the user that can be in flight at once
    MaxItems,       \* reactions of a bootstrap request; 15 in the code
    Threshold,      \* the confidence gate; 10 in the code
    MaxRequests     \* bound: requests

ASSUME TasteAssumption ==
    /\ IsFiniteSet(Dishes)
    /\ MaxItems \in Nat /\ Threshold \in Nat \ {0} /\ MaxRequests \in Nat

VARIABLES
    reacted,        \* dishes the user has a dish_reactions row for
    classified,     \* dishes with priors
    count,          \* reaction_count
    bootstrapped,   \* users.bootstrapped_at is set
    call,           \* what each request in flight knows
    requests,
    \* History variables, never read by the actions.
    counted,        \* dishes whose first reaction was counted
    items,          \* bootstrap reactions counted
    spoiled         \* two bootstraps overlapped, or one died before its mark

tasteVars == <<reacted, classified, count, bootstrapped, call, requests, counted, items, spoiled>>

\* pc names the next statement: "priors" SELECT of the dish's priors, "vector" UPDATE of
\* the vector, "items" the next UPDATE of a bootstrap, "mark" its last.
NoCall == [pc |-> "idle"]
CallStates ==
    {NoCall}
    \cup [pc : {"priors", "vector"}, dish : Dishes, new : BOOLEAN]
    \cup [pc : {"items"}, left : 0 .. MaxItems]

TasteTypeOK ==
    /\ reacted \subseteq Dishes /\ classified \subseteq Dishes
    /\ count \in Nat
    /\ bootstrapped \in BOOLEAN
    /\ call \in [Calls -> CallStates]
    /\ requests \in 0 .. MaxRequests
    /\ counted \subseteq reacted
    /\ items \in Nat
    /\ spoiled \in BOOLEAN

TasteInit ==
    /\ reacted = {} /\ classified = {}
    /\ count = 0
    /\ bootstrapped = FALSE
    /\ call = [h \in Calls |-> NoCall]
    /\ requests = 0
    /\ counted = {} /\ items = 0 /\ spoiled = FALSE

At(h, pc) == call[h].pc = pc
Arrives(h) == At(h, "idle") /\ requests < MaxRequests /\ requests' = requests + 1

-----------------------------------------------------------------------------
\* Mutant: every reaction is taken for a new one.
React_New(h, d) ==
    /\ Arrives(h)
    /\ reacted' = reacted \cup {d}
    /\ call' = [call EXCEPT ![h] = [pc |-> "priors", dish |-> d, new |-> TRUE]]
    /\ UNCHANGED <<classified, count, bootstrapped, counted, items, spoiled>>

\* upsert_reaction: the transaction.  The upsert itself tells whether it inserted the
\* row (xmax = 0), and a second request waits for the first.
React(h, d) ==
    /\ Arrives(h)
    /\ reacted' = reacted \cup {d}
    /\ call' = [call EXCEPT ![h] = [pc |-> "priors", dish |-> d, new |-> d \notin reacted]]
    /\ UNCHANGED <<classified, count, bootstrapped, counted, items, spoiled>>

\* Rows that are uploaded, or copied by a merge, are not counted.
UploadReaction(d) ==
    /\ requests < MaxRequests
    /\ requests' = requests + 1
    /\ reacted' = reacted \cup {d}
    /\ UNCHANGED <<classified, count, bootstrapped, call, counted, items, spoiled>>

\* A reaction to a dish without priors leaves the vector alone, for good.
ReadPriors(h) ==
    /\ At(h, "priors")
    /\ call' = [call EXCEPT ![h] = IF @.dish \in classified THEN [@ EXCEPT !.pc = "vector"] ELSE NoCall]
    /\ UNCHANGED <<reacted, classified, count, bootstrapped, requests, counted, items, spoiled>>

UpdateVector(h) ==
    /\ At(h, "vector")
    /\ IF call[h].new
       THEN count' = count + 1 /\ counted' = counted \cup {call[h].dish}
       ELSE UNCHANGED <<count, counted>>
    /\ call' = [call EXCEPT ![h] = NoCall]
    /\ UNCHANGED <<reacted, classified, bootstrapped, requests, items, spoiled>>

\* The worker classifies a dish.
ClassifyDish(d) ==
    /\ classified' = classified \cup {d}
    /\ UNCHANGED <<reacted, count, bootstrapped, call, requests, counted, items, spoiled>>

-----------------------------------------------------------------------------
(* post_bootstrap: nothing but a check of bootstrapped_at makes it idempotent *)

Bootstrapping(h) == At(h, "items")

\* Mutant: the flag is not looked at.
BeginBootstrap_Always(h, n) ==
    /\ Arrives(h)
    /\ call' = [call EXCEPT ![h] = [pc |-> "items", left |-> n]]
    /\ spoiled' = (spoiled \/ \E g \in Calls : Bootstrapping(g))
    /\ UNCHANGED <<reacted, classified, count, bootstrapped, counted, items>>

\* n of the request's reactions are positive; the others are skipped.
BeginBootstrap(h, n) ==
    /\ Arrives(h)
    /\ ~ bootstrapped
    /\ call' = [call EXCEPT ![h] = [pc |-> "items", left |-> n]]
    /\ spoiled' = (spoiled \/ \E g \in Calls : Bootstrapping(g))
    /\ UNCHANGED <<reacted, classified, count, bootstrapped, counted, items>>

\* One UPDATE per reaction.
BootstrapItem(h) ==
    /\ Bootstrapping(h) /\ call[h].left > 0
    /\ count' = count + 1
    /\ items' = items + 1
    /\ call' = [call EXCEPT ![h].left = @ - 1]
    /\ UNCHANGED <<reacted, classified, bootstrapped, requests, counted, spoiled>>

MarkBootstrapped(h) ==
    /\ Bootstrapping(h) /\ call[h].left = 0
    /\ bootstrapped' = TRUE
    /\ call' = [call EXCEPT ![h] = NoCall]
    /\ UNCHANGED <<reacted, classified, count, requests, counted, items, spoiled>>

\* The client disconnects, a statement fails or the server restarts.
CutOff(h) ==
    /\ ~ At(h, "idle")
    /\ call' = [call EXCEPT ![h] = NoCall]
    /\ spoiled' = (spoiled \/ Bootstrapping(h))
    /\ UNCHANGED <<reacted, classified, count, bootstrapped, requests, counted, items>>

TasteNext ==
    \/ \E h \in Calls :
         \/ \E d \in Dishes : React(h, d)
         \/ ReadPriors(h) \/ UpdateVector(h)
         \/ \E n \in 0 .. MaxItems : BeginBootstrap(h, n)
         \/ BootstrapItem(h) \/ MarkBootstrapped(h) \/ CutOff(h)
    \/ \E d \in Dishes : UploadReaction(d) \/ ClassifyDish(d)

TasteSpec == TasteInit /\ [][TasteNext]_tasteVars

-----------------------------------------------------------------------------
(* Properties *)

\* get_compatibility, taste_profile_status: the user has reacted enough.
Unlocked == count >= Threshold

\* The count never exceeds what the user gave: a first reaction per dish, however
\* many requests raced for it, and the reactions of one bootstrap, unless two
\* bootstraps overlapped or one died half way.
NeverOvercounted ==
    ~ spoiled => count <= Cardinality(reacted) + MaxItems

\* Hence nobody gets compatibility signals by reacting to the same dishes again.
UnlockedHonestly ==
    Unlocked /\ items = 0 => Cardinality(reacted) >= Threshold
=============================================================================
