------------------------------ MODULE Catalog ------------------------------
(***************************************************************************)
(* How one eating place and its menu come into the database: by users       *)
(* (create_restaurant of restaurants.rs, batch_create_dishes of dishes.rs), *)
(* by the crawler (upsert_restaurant of crawler.rs), and by the first view  *)
(* of the restaurant, which claims the seeding of its menu (get_restaurant, *)
(* seed_dishes).  Neither restaurants without a place id nor dishes have a  *)
(* unique key: what keeps them single is checked in statements of its own.  *)
(***************************************************************************)
EXTENDS Integers, FiniteSets, Sequences

CONSTANTS
    Items,          \* dishes, by name and category in lower case
    Name,           \* the name of each, [Items -> STRING]
    Menu,           \* what is on the website of the place, a sequence of items
    Handlers,       \* requests of users that can be in flight at once
    Seeders,        \* seedings that can be in progress at once
    MaxRequests,    \* bound: requests that create something
    MaxFailures     \* bound: seedings that fail, and restarts

ASSUME ConstantsAssumption ==
    /\ IsFiniteSet(Items)
    /\ DOMAIN Name = Items
    /\ Menu \in Seq(Items) /\ Menu # <<>>
    /\ MaxRequests \in Nat /\ MaxFailures \in Nat

VARIABLES
    placed,         \* there is a row of restaurants with the place's google_place_id
    unplaced,       \* number of rows for the place without one
    enriched,       \* enriched_at of the row: never set, at most 90 days old, or older
    copies,         \* number of its dishes per item; those of rows without a place id are
                    \* neither seeded nor counted here
    req,            \* what each request in flight knows
    seed,           \* what each seeding is doing
    requests, failures,
    \* History variables, never read by the actions.
    raced,          \* items that arrived while another request was about to insert them
    doubled         \* a restaurant arrived while a request was about to insert it, or
                    \* the crawler found it without a place id

bounds == <<requests, failures>>
restaurant == <<placed, unplaced, enriched, doubled>>
dishes == <<copies, raced>>
vars == <<restaurant, dishes, req, seed, bounds>>

Listed == placed \/ unplaced > 0
Present == {i \in Items : copies[i] > 0}
SameName(i) == {j \in Items : Name[j] = Name[i]}

Idle == [pc |-> "idle"]
Requests ==
    {Idle}
    \cup [pc : {"create"}, place : BOOLEAN]
    \cup [pc : {"batch"}, new : SUBSET Items]
Seedings ==
    {Idle} \cup [pc : {"details", "count", "menu"}]
    \cup [pc : {"insert"}, left : Seq(Items) \ {<<>>}]

TypeOK ==
    /\ placed \in BOOLEAN /\ unplaced \in Nat
    /\ enriched \in {"never", "fresh", "stale"}
    /\ copies \in [Items -> Nat]
    /\ req \in [Handlers -> Requests]
    /\ seed \in [Seeders -> Seedings]
    /\ requests \in 0 .. MaxRequests /\ failures \in 0 .. MaxFailures
    /\ raced \subseteq Items
    /\ doubled \in BOOLEAN

Init ==
    /\ placed = FALSE /\ unplaced = 0
    /\ enriched = "never"
    /\ copies = [i \in Items |-> 0]
    /\ req = [h \in Handlers |-> Idle]
    /\ seed = [s \in Seeders |-> Idle]
    /\ requests = 0 /\ failures = 0
    /\ raced = {} /\ doubled = FALSE

On(h, pc) == req[h].pc = pc
Seeding == {s \in Seeders : seed[s].pc # "idle"}
Arrives(h) == On(h, "idle") /\ requests < MaxRequests /\ requests' = requests + 1 /\ UNCHANGED failures
Fail == failures < MaxFailures /\ failures' = failures + 1 /\ UNCHANGED requests
Creating == {h \in Handlers : On(h, "create")}

-----------------------------------------------------------------------------
(* Restaurants *)

\* Mutant: no look at what is there.
CreateCheck_Blind(h, place) ==
    /\ Arrives(h)
    /\ req' = [req EXCEPT ![h] = [pc |-> "create", place |-> place]]
    /\ UNCHANGED <<restaurant, dishes, seed>>

\* create_restaurant: no row of a like name within 100 m, whoever made it.
CreateCheck(h, place) ==
    /\ Arrives(h)
    /\ ~ Listed
    /\ req' = [req EXCEPT ![h] = [pc |-> "create", place |-> place]]
    /\ UNCHANGED <<restaurant, dishes, seed>>

\* The INSERT; the unique index on the place id refuses a second row with it (409).
CreateInsert(h) ==
    /\ On(h, "create")
    /\ IF req[h].place
       THEN placed' = TRUE /\ UNCHANGED unplaced
       ELSE unplaced' = unplaced + 1 /\ UNCHANGED placed
    /\ doubled' = (doubled \/ Creating # {h})
    /\ req' = [req EXCEPT ![h] = Idle]
    /\ UNCHANGED <<enriched, dishes, seed, bounds>>

\* upsert_restaurant: ON CONFLICT (google_place_id) DO NOTHING, and no look at names.
CrawlerUpsert ==
    /\ ~ placed
    /\ placed' = TRUE
    /\ doubled' = (doubled \/ unplaced > 0 \/ Creating # {})
    /\ UNCHANGED <<unplaced, enriched, dishes, req, seed, bounds>>

-----------------------------------------------------------------------------
(* Dishes *)

\* Items that appear while a batch is about to insert them are there twice.
Insert(S) ==
    /\ copies' = [i \in Items |-> copies[i] + IF i \in S THEN 1 ELSE 0]
    /\ raced' = raced \cup {i \in S : \E h \in Handlers : On(h, "batch") /\ i \in req[h].new}

\* batch_create_dishes: the row's dishes are read before the transaction begins.
BatchRead(h, B) ==
    /\ Arrives(h) /\ placed
    /\ req' = [req EXCEPT ![h] = [pc |-> "batch", new |-> B \ Present]]
    /\ UNCHANGED <<restaurant, dishes, seed>>

\* The others are inserted, all or none.
BatchCommit(h) ==
    /\ On(h, "batch")
    /\ copies' = [i \in Items |-> copies[i] + IF i \in req[h].new THEN 1 ELSE 0]
    /\ raced' = raced \cup {i \in req[h].new : \E g \in Handlers \ {h} :
                                On(g, "batch") /\ i \in req[g].new}
    /\ req' = [req EXCEPT ![h] = Idle]
    /\ UNCHANGED <<restaurant, seed, bounds>>

Drop(h) ==
    /\ ~ On(h, "idle")
    /\ req' = [req EXCEPT ![h] = Idle]
    /\ UNCHANGED <<restaurant, dishes, seed, bounds>>

-----------------------------------------------------------------------------
(* Seeding *)

SeederAt(s, pc) == seed[s].pc = pc
Become(s, state) == seed' = [seed EXCEPT ![s] = state]

\* Mutant: enriched_at is read, and set only when the details have come.
View_NoClaim(s) ==
    /\ placed /\ SeederAt(s, "idle")
    /\ enriched # "fresh"
    /\ Become(s, [pc |-> "details"])
    /\ UNCHANGED <<restaurant, dishes, req, bounds>>

\* Mutant: a restaurant is claimed once and for all.
View_Once(s) ==
    /\ placed /\ SeederAt(s, "idle")
    /\ enriched = "never"
    /\ enriched' = "fresh"
    /\ Become(s, [pc |-> "details"])
    /\ UNCHANGED <<placed, unplaced, doubled, dishes, req, bounds>>

\* get_restaurant: the UPDATE of enriched_at that changes a row is the claim, and the
\* winner spawns the rest; only a row with a place id can be looked up.
View(s) ==
    /\ placed /\ SeederAt(s, "idle")
    /\ enriched # "fresh"
    /\ enriched' = "fresh"
    /\ Become(s, [pc |-> "details"])
    /\ UNCHANGED <<placed, unplaced, doubled, dishes, req, bounds>>

\* place_details answered: its fields are stored, enriched_at set again.
Details(s) ==
    /\ SeederAt(s, "details")
    /\ enriched' = "fresh"
    /\ Become(s, [pc |-> "count"])
    /\ UNCHANGED <<placed, unplaced, doubled, dishes, req, bounds>>

\* seed_dishes: a row with dishes of its own is left alone.
CountDishes(s) ==
    /\ SeederAt(s, "count")
    /\ Become(s, IF Present = {} THEN [pc |-> "menu"] ELSE Idle)
    /\ UNCHANGED <<restaurant, dishes, req, bounds>>

\* The website is fetched and its text parsed.
ParseMenu(s) ==
    /\ SeederAt(s, "menu")
    /\ Become(s, [pc |-> "insert", left |-> Menu])
    /\ UNCHANGED <<restaurant, dishes, req, bounds>>

Go(s) ==
    LET left == seed[s].left IN
    Become(s, IF Len(left) > 1 THEN [pc |-> "insert", left |-> Tail(left)] ELSE Idle)

\* Mutant: no guard on the INSERT.
SeedDish_Unguarded(s) ==
    /\ SeederAt(s, "insert")
    /\ Insert({Head(seed[s].left)})
    /\ Go(s)
    /\ UNCHANGED <<restaurant, req, bounds>>

\* INSERT ... WHERE NOT EXISTS a dish of that name, committed at once.
SeedDish(s) ==
    LET i == Head(seed[s].left) IN
    /\ SeederAt(s, "insert")
    /\ IF Present \cap SameName(i) = {} THEN Insert({i}) ELSE UNCHANGED dishes
    /\ Go(s)
    /\ UNCHANGED <<restaurant, req, bounds>>

\* No details, no menu, no parse, a failed INSERT: the task ends and the claim stays, as
\* it does if the Places or the LLM call never returns.
SeedingFails(s) ==
    /\ s \in Seeding
    /\ Fail
    /\ Become(s, Idle)
    /\ UNCHANGED <<restaurant, dishes, req>>

Restart ==
    /\ Fail
    /\ seed' = [s \in Seeders |-> Idle]
    /\ req' = [h \in Handlers |-> Idle]
    /\ UNCHANGED <<restaurant, dishes>>

\* Ninety days pass; a seeding takes minutes.
Age ==
    /\ enriched = "fresh" /\ Seeding = {}
    /\ enriched' = "stale"
    /\ UNCHANGED <<placed, unplaced, doubled, dishes, req, seed, bounds>>

SeedStep(s) == Details(s) \/ CountDishes(s) \/ ParseMenu(s) \/ SeedDish(s)

Next ==
    \/ \E h \in Handlers :
         \/ \E place \in BOOLEAN : CreateCheck(h, place)
         \/ CreateInsert(h)
         \/ \E B \in SUBSET Items : BatchRead(h, B)
         \/ BatchCommit(h) \/ Drop(h)
    \/ CrawlerUpsert
    \/ \E s \in Seeders : View(s) \/ SeedStep(s) \/ SeedingFails(s)
    \/ Restart
    \/ Age

Spec == Init /\ [][Next]_vars

\* The crawler finds the place, people go on viewing it, spawned tasks run, time passes.
FairSpec ==
    /\ Spec
    /\ WF_vars(CrawlerUpsert) /\ WF_vars(Age)
    /\ \A s \in Seeders : WF_vars(View(s)) /\ WF_vars(SeedStep(s))

-----------------------------------------------------------------------------
(* Properties *)

\* However many requests view a restaurant, one seeding of its menu is in progress:
\* two would both find it without dishes, and double the menu.
OneSeeding == Cardinality(Seeding) <= 1

\* A dish is there twice only if two writers overlapped that both were to insert it.
TwiceOnlyByRace ==
    \A i \in Items : copies[i] > 1 => i \in raced

\* A restaurant is there twice only if its creations overlapped, or the crawler found
\* a place that a user had added by hand.
DoubledOnlyByRace ==
    unplaced + (IF placed THEN 1 ELSE 0) > 1 => doubled

\* A claim that failed costs ninety days and no more: the place has a menu in the end.
EventuallySeeded == <>(Present # {})
=============================================================================
