--------------------------- MODULE Catalog_proofs ---------------------------
(***************************************************************************)
(* Proofs, for any menu, any number of requests and of seeding tasks, that  *)
(* a claim admits one seeding at a time and that dishes and restaurants are *)
(* only doubled by races.                                                   *)
(***************************************************************************)
EXTENDS Catalog, FiniteSetTheorems, TLAPS

\* A seeding runs under a claim, and alone.
Claimed ==
    \A s \in Seeders : ~ SeederAt(s, "idle") =>
        enriched = "fresh" /\ \A r \in Seeders : ~ SeederAt(r, "idle") => r = s

\* A batch inserts what is not there, unless it was overtaken.
BatchFresh ==
    \A h \in Handlers : On(h, "batch") => \A i \in req[h].new \ raced : copies[i] = 0

\* A restaurant is created where there is none, unless somebody was faster.
CreateFresh ==
    ~ doubled /\ (\E h \in Handlers : On(h, "create")) => ~ Listed

IInv == TypeOK /\ Claimed /\ TwiceOnlyByRace /\ BatchFresh /\ DoubledOnlyByRace /\ CreateFresh

-----------------------------------------------------------------------------
\* The fields of requests and seedings, by their program counters.
LEMMA Shapes ==
    ASSUME TypeOK
    PROVE  /\ \A h \in Handlers :
                /\ req[h].pc \in {"idle", "create", "batch"}
                /\ On(h, "create") => req[h].place \in BOOLEAN
                /\ On(h, "batch") => req[h].new \subseteq Items
           /\ \A s \in Seeders :
                /\ seed[s].pc \in {"idle", "details", "count", "menu", "insert"}
                /\ SeederAt(s, "insert") =>
                     /\ seed[s] = [pc |-> "insert", left |-> seed[s].left]
                     /\ seed[s].left \in Seq(Items) /\ seed[s].left # <<>>
  <1>1. \A h \in Handlers : req[h] \in Requests
    BY DEF TypeOK
  <1>2. \A s \in Seeders : seed[s] \in Seedings
    BY DEF TypeOK
  <1> QED
    BY <1>1, <1>2 DEF Requests, Seedings, Idle, On, SeederAt

\* The new state of one request, and the old one of the others.
LEMMA Answered ==
    ASSUME TypeOK, NEW h \in Handlers, NEW q \in Requests, req' = [req EXCEPT ![h] = q]
    PROVE  /\ req' \in [Handlers -> Requests]
           /\ req'[h] = q /\ \A g \in Handlers \ {h} : req'[g] = req[g]
  BY DEF TypeOK

\* The same for seedings.
LEMMA Seeded ==
    ASSUME TypeOK, NEW s \in Seeders, NEW q \in Seedings, Become(s, q)
    PROVE  /\ seed' \in [Seeders -> Seedings]
           /\ seed'[s] = q /\ \A r \in Seeders \ {s} : seed'[r] = seed[r]
  BY DEF TypeOK, Become

LEMMA IdleTyped == Idle \in Requests /\ Idle \in Seedings
  BY DEF Requests, Seedings

LEMMA ArrivesTyped ==
    ASSUME TypeOK, NEW h \in Handlers, Arrives(h)
    PROVE  requests' \in 0 .. MaxRequests /\ failures' = failures
  BY ConstantsAssumption DEF TypeOK, Arrives

LEMMA FailTyped ==
    ASSUME TypeOK, Fail
    PROVE  failures' \in 0 .. MaxFailures /\ requests' = requests
  BY ConstantsAssumption DEF TypeOK, Fail

\* Rows that stay keep what is said of them, if no request begins to insert.
LEMMA DishesKept ==
    ASSUME TwiceOnlyByRace, BatchFresh, UNCHANGED dishes,
           \A h \in Handlers : On(h, "batch")' => On(h, "batch") /\ req'[h].new = req[h].new
    PROVE  TwiceOnlyByRace' /\ BatchFresh'
  BY DEF TwiceOnlyByRace, BatchFresh, dishes

LEMMA PlacesKept ==
    ASSUME DoubledOnlyByRace, CreateFresh, UNCHANGED <<placed, unplaced, doubled>>,
           \A h \in Handlers : On(h, "create")' => On(h, "create")
    PROVE  DoubledOnlyByRace' /\ CreateFresh'
  BY DEF DoubledOnlyByRace, CreateFresh, Listed

\* A seeding that goes on or ends leaves the others and the claim.
LEMMA ClaimKept ==
    ASSUME Claimed, enriched = "fresh" => enriched' = "fresh",
           \A s \in Seeders : ~ SeederAt(s, "idle")' => ~ SeederAt(s, "idle")
    PROVE  Claimed'
  BY DEF Claimed

-----------------------------------------------------------------------------
LEMMA InitIInv == Init => IInv
  <1> SUFFICES ASSUME Init PROVE IInv
    OBVIOUS
  <1>1. req \in [Handlers -> Requests] /\ seed \in [Seeders -> Seedings]
    BY IdleTyped DEF Init
  <1>2. requests \in 0 .. MaxRequests /\ failures \in 0 .. MaxFailures
    BY ConstantsAssumption DEF Init
  <1>3. TypeOK
    BY <1>1, <1>2 DEF Init, TypeOK
  <1>4. /\ \A h \in Handlers : ~ On(h, "batch") /\ ~ On(h, "create")
        /\ \A s \in Seeders : SeederAt(s, "idle")
    BY DEF Init, Idle, On, SeederAt
  <1>5. TwiceOnlyByRace /\ DoubledOnlyByRace
    BY DEF Init, TwiceOnlyByRace, DoubledOnlyByRace
  <1> QED
    BY <1>3, <1>4, <1>5 DEF IInv, Claimed, BatchFresh, CreateFresh

LEMMA CreateCheckIInv ==
    ASSUME IInv, NEW h \in Handlers, NEW place \in BOOLEAN, CreateCheck(h, place)
    PROVE  IInv'
  <1> DEFINE q == [pc |-> "create", place |-> place]
  <1>1. /\ Arrives(h) /\ ~ Listed /\ req' = [req EXCEPT ![h] = q]
        /\ UNCHANGED <<placed, unplaced, enriched, doubled, dishes, seed>>
    BY DEF CreateCheck, restaurant
  <1>2. q \in Requests
    BY DEF Requests
  <1>3. /\ req' \in [Handlers -> Requests]
        /\ req'[h] = q /\ \A g \in Handlers \ {h} : req'[g] = req[g]
    BY <1>1, <1>2, Answered DEF IInv
  <1>4. TypeOK'
    BY <1>1, <1>3, ArrivesTyped DEF IInv, TypeOK, dishes
  <1>5. TwiceOnlyByRace' /\ BatchFresh'
    <2>1. \A g \in Handlers : On(g, "batch")' => On(g, "batch") /\ req'[g].new = req[g].new
      BY <1>3 DEF On
    <2> QED
      BY <1>1, <2>1, DishesKept DEF IInv
  <1>6. DoubledOnlyByRace' /\ CreateFresh'
    BY <1>1 DEF IInv, DoubledOnlyByRace, CreateFresh, Listed
  <1>7. Claimed'
    BY <1>1 DEF IInv, Claimed, SeederAt
  <1> QED
    BY <1>4, <1>5, <1>6, <1>7 DEF IInv

LEMMA CreateInsertIInv ==
    ASSUME IInv, NEW h \in Handlers, CreateInsert(h)
    PROVE  IInv'
  <1>1. /\ On(h, "create") /\ req' = [req EXCEPT ![h] = Idle]
        /\ doubled' = (doubled \/ Creating # {h})
        /\ UNCHANGED <<enriched, dishes, seed, bounds>>
    BY DEF CreateInsert
  <1>2. \/ placed' = TRUE /\ unplaced' = unplaced
        \/ unplaced' = unplaced + 1 /\ placed' = placed
    BY DEF CreateInsert
  <1>3. /\ req' \in [Handlers -> Requests]
        /\ req'[h] = Idle /\ \A g \in Handlers \ {h} : req'[g] = req[g]
    BY <1>1, IdleTyped, Answered DEF IInv
  <1>4. TypeOK'
    <2>1. placed' \in BOOLEAN
      BY <1>2, Zenon DEF IInv, TypeOK
    <2>3. unplaced' \in Nat
      BY <1>2 DEF IInv, TypeOK
    <2>2. doubled' \in BOOLEAN
      BY <1>1 DEF IInv, TypeOK
    <2> QED
      BY <1>1, <1>3, <2>1, <2>2, <2>3 DEF IInv, TypeOK, dishes, bounds
  <1>5. TwiceOnlyByRace' /\ BatchFresh'
    <2>1. \A g \in Handlers : On(g, "batch")' => On(g, "batch") /\ req'[g].new = req[g].new
      BY <1>3 DEF On, Idle
    <2> QED
      BY <1>1, <2>1, DishesKept DEF IInv
  <1>6. DoubledOnlyByRace' /\ CreateFresh'
    <2>1. CASE doubled'
      BY <2>1 DEF DoubledOnlyByRace, CreateFresh
    <2>2. CASE ~ doubled'
      <3>1. ~ doubled /\ Creating = {h}
        BY <1>1, <2>2
      <3>2. ~ Listed
        BY <1>1, <3>1 DEF IInv, CreateFresh
      <3>3. placed = FALSE /\ unplaced = 0
        BY <3>2 DEF Listed, IInv, TypeOK
      <3>4. DoubledOnlyByRace'
        BY <1>2, <3>3 DEF DoubledOnlyByRace
      <3>5. \A g \in Handlers : ~ On(g, "create")'
        BY <1>3, <3>1 DEF Creating, On, Idle
      <3> QED
        BY <3>4, <3>5 DEF CreateFresh
    <2> QED
      BY <2>1, <2>2
  <1>7. Claimed'
    BY <1>1 DEF IInv, Claimed, SeederAt
  <1> QED
    BY <1>4, <1>5, <1>6, <1>7 DEF IInv

LEMMA CrawlerUpsertIInv == ASSUME IInv, CrawlerUpsert PROVE IInv'
  <1>1. /\ placed = FALSE /\ placed' = TRUE
        /\ doubled' = (doubled \/ unplaced > 0 \/ Creating # {})
        /\ UNCHANGED <<unplaced, enriched, dishes, req, seed, bounds>>
    BY DEF CrawlerUpsert, IInv, TypeOK
  <1>2. TypeOK'
    BY <1>1 DEF IInv, TypeOK, dishes, bounds
  <1>3. TwiceOnlyByRace' /\ BatchFresh'
    BY <1>1, DishesKept DEF IInv, On
  <1>4. DoubledOnlyByRace' /\ CreateFresh'
    <2>1. CASE doubled'
      BY <2>1 DEF DoubledOnlyByRace, CreateFresh
    <2>2. CASE ~ doubled'
      <3>1. ~ (unplaced > 0) /\ Creating = {}
        BY <1>1, <2>2
      <3>2. unplaced = 0
        BY <3>1 DEF IInv, TypeOK
      <3>3. \A g \in Handlers : ~ On(g, "create")'
        BY <1>1, <3>1 DEF Creating, On
      <3> QED
        BY <1>1, <3>2, <3>3 DEF DoubledOnlyByRace, CreateFresh
    <2> QED
      BY <2>1, <2>2
  <1>5. Claimed'
    BY <1>1 DEF IInv, Claimed, SeederAt
  <1> QED
    BY <1>2, <1>3, <1>4, <1>5 DEF IInv

-----------------------------------------------------------------------------
LEMMA BatchReadIInv ==
    ASSUME IInv, NEW h \in Handlers, NEW B \in SUBSET Items, BatchRead(h, B)
    PROVE  IInv'
  <1> DEFINE q == [pc |-> "batch", new |-> B \ Present]
  <1>1. /\ Arrives(h) /\ req' = [req EXCEPT ![h] = q]
        /\ UNCHANGED <<placed, unplaced, enriched, doubled, copies, raced, seed>>
    BY DEF BatchRead, restaurant, dishes
  <1>2. q \in Requests
    BY DEF Requests
  <1>3. /\ req' \in [Handlers -> Requests]
        /\ req'[h] = q /\ \A g \in Handlers \ {h} : req'[g] = req[g]
    BY <1>1, <1>2, Answered DEF IInv
  <1>4. TypeOK'
    BY <1>1, <1>3, ArrivesTyped DEF IInv, TypeOK
  <1>5. TwiceOnlyByRace'
    BY <1>1 DEF IInv, TwiceOnlyByRace
  <1>6. BatchFresh'
    <2>1. \A i \in B \ Present : copies[i] = 0
      BY DEF Present, IInv, TypeOK
    <2>2. \A g \in Handlers \ {h} : On(g, "batch")' = On(g, "batch") /\ req'[g].new = req[g].new
      BY <1>3 DEF On
    <2>3. req'[h].new = B \ Present
      BY <1>3
    <2> QED
      BY <1>1, <2>1, <2>2, <2>3 DEF IInv, BatchFresh
  <1>7. DoubledOnlyByRace' /\ CreateFresh'
    <2>1. \A g \in Handlers : On(g, "create")' => On(g, "create")
      BY <1>3 DEF On
    <2> QED
      BY <1>1, <2>1, PlacesKept DEF IInv
  <1>8. Claimed'
    BY <1>1 DEF IInv, Claimed, SeederAt
  <1> QED
    BY <1>4, <1>5, <1>6, <1>7, <1>8 DEF IInv

\* Of the items of a batch, those that another batch holds are recorded, and those
\* that were there are recorded already.
LEMMA BatchCommitIInv ==
    ASSUME IInv, NEW h \in Handlers, BatchCommit(h)
    PROVE  IInv'
  <1>1. /\ On(h, "batch") /\ req' = [req EXCEPT ![h] = Idle]
        /\ copies' = [i \in Items |-> copies[i] + IF i \in req[h].new THEN 1 ELSE 0]
        /\ raced' = raced \cup {i \in req[h].new : \E g \in Handlers \ {h} :
                                    On(g, "batch") /\ i \in req[g].new}
        /\ UNCHANGED <<placed, unplaced, enriched, doubled, seed, bounds>>
    BY DEF BatchCommit, restaurant
  <1>2. /\ req' \in [Handlers -> Requests]
        /\ req'[h] = Idle /\ \A g \in Handlers \ {h} : req'[g] = req[g]
    BY <1>1, IdleTyped, Answered DEF IInv
  <1>3. req[h].new \subseteq Items
    BY <1>1, Shapes DEF IInv
  <1>4. copies \in [Items -> Nat] /\ raced \subseteq Items
    BY DEF IInv, TypeOK
  <1>5. copies' \in [Items -> Nat] /\ raced' \subseteq Items
    BY <1>1, <1>3, <1>4
  <1>6. TypeOK'
    BY <1>1, <1>2, <1>5 DEF IInv, TypeOK, bounds
  <1>7. \A i \in Items : copies'[i] = IF i \in req[h].new THEN copies[i] + 1 ELSE copies[i]
    BY <1>1, <1>4
  <1>8. TwiceOnlyByRace'
    <2> SUFFICES ASSUME NEW i \in Items, copies'[i] > 1, i \notin raced PROVE i \in raced'
      BY <1>1 DEF TwiceOnlyByRace
    <2>1. ~ (copies[i] > 1)
      BY DEF IInv, TwiceOnlyByRace
    <2>2. i \in req[h].new => copies[i] = 0
      BY <1>1 DEF IInv, BatchFresh
    <2> QED
      BY <1>4, <1>7, <2>1, <2>2
  <1>9. BatchFresh'
    <2> SUFFICES ASSUME NEW g \in Handlers, On(g, "batch")', NEW i \in req'[g].new \ raced'
                 PROVE  copies'[i] = 0
      BY DEF BatchFresh
    <2>1. g # h /\ req'[g] = req[g] /\ On(g, "batch")
      BY <1>2 DEF On, Idle
    <2>2. i \in req[g].new /\ i \notin raced /\ i \notin req[h].new
      BY <1>1, <2>1
    <2>3. copies[i] = 0 /\ i \in Items
      BY <2>1, <2>2, Shapes DEF IInv, BatchFresh
    <2> QED
      BY <1>7, <2>2, <2>3
  <1>10. DoubledOnlyByRace' /\ CreateFresh'
    <2>1. \A g \in Handlers : On(g, "create")' => On(g, "create")
      BY <1>2 DEF On, Idle
    <2> QED
      BY <1>1, <2>1, PlacesKept DEF IInv
  <1>11. Claimed'
    BY <1>1 DEF IInv, Claimed, SeederAt
  <1> QED
    BY <1>6, <1>8, <1>9, <1>10, <1>11 DEF IInv

LEMMA DropIInv ==
    ASSUME IInv, NEW h \in Handlers, Drop(h)
    PROVE  IInv'
  <1>1. /\ req' = [req EXCEPT ![h] = Idle]
        /\ UNCHANGED <<placed, unplaced, enriched, doubled, dishes, seed, bounds>>
    BY DEF Drop, restaurant
  <1>2. /\ req' \in [Handlers -> Requests]
        /\ req'[h] = Idle /\ \A g \in Handlers \ {h} : req'[g] = req[g]
    BY <1>1, IdleTyped, Answered DEF IInv
  <1>3. TypeOK'
    BY <1>1, <1>2 DEF IInv, TypeOK, dishes, bounds
  <1>4. /\ \A g \in Handlers : On(g, "batch")' => On(g, "batch") /\ req'[g].new = req[g].new
        /\ \A g \in Handlers : On(g, "create")' => On(g, "create")
    BY <1>2 DEF On, Idle
  <1>5. Claimed'
    BY <1>1 DEF IInv, Claimed, SeederAt
  <1> QED
    BY <1>1, <1>3, <1>4, <1>5, DishesKept, PlacesKept DEF IInv

-----------------------------------------------------------------------------
\* The claim is won by one view: no seeding was under way, for each has one.
LEMMA ViewIInv ==
    ASSUME IInv, NEW s \in Seeders, View(s)
    PROVE  IInv'
  <1> DEFINE q == [pc |-> "details"]
  <1>1. /\ enriched # "fresh" /\ enriched' = "fresh" /\ Become(s, q)
        /\ UNCHANGED <<placed, unplaced, doubled, dishes, req, bounds>>
    BY DEF View
  <1>2. q \in Seedings
    BY DEF Seedings
  <1>3. /\ seed' \in [Seeders -> Seedings]
        /\ seed'[s] = q /\ \A r \in Seeders \ {s} : seed'[r] = seed[r]
    BY <1>1, <1>2, Seeded DEF IInv
  <1>4. TypeOK'
    BY <1>1, <1>3 DEF IInv, TypeOK, dishes, bounds
  <1>5. Claimed'
    <2>1. \A r \in Seeders : SeederAt(r, "idle")
      BY <1>1 DEF IInv, Claimed
    <2>2. \A r \in Seeders \ {s} : SeederAt(r, "idle")'
      BY <1>3, <2>1 DEF SeederAt
    <2> QED
      BY <1>1, <2>2 DEF Claimed
  <1>6. TwiceOnlyByRace' /\ BatchFresh'
    BY <1>1, DishesKept DEF IInv, On
  <1>7. DoubledOnlyByRace' /\ CreateFresh'
    BY <1>1, PlacesKept DEF IInv, On
  <1> QED
    BY <1>4, <1>5, <1>6, <1>7 DEF IInv

\* Steps of a seeding that insert nothing.
LEMMA ProceedIInv ==
    ASSUME IInv, NEW s \in Seeders, NEW q \in Seedings, ~ SeederAt(s, "idle"), Become(s, q),
           enriched' \in {enriched, "fresh"},
           UNCHANGED <<placed, unplaced, doubled, dishes, req>>,
           requests' = requests, failures' \in 0 .. MaxFailures
    PROVE  IInv'
  <1>1. /\ seed' \in [Seeders -> Seedings]
        /\ seed'[s] = q /\ \A r \in Seeders \ {s} : seed'[r] = seed[r]
    BY Seeded DEF IInv
  <1>2. TypeOK'
    BY <1>1 DEF IInv, TypeOK, dishes
  <1>3. Claimed'
    <2>1. \A r \in Seeders : ~ SeederAt(r, "idle")' => ~ SeederAt(r, "idle")
      BY <1>1 DEF SeederAt
    <2> QED
      BY <2>1, ClaimKept DEF IInv
  <1>4. TwiceOnlyByRace' /\ BatchFresh'
    BY DishesKept DEF IInv, On
  <1>5. DoubledOnlyByRace' /\ CreateFresh'
    BY PlacesKept DEF IInv, On
  <1> QED
    BY <1>2, <1>3, <1>4, <1>5 DEF IInv

LEMMA SeedingIInv ==
    ASSUME IInv, NEW s \in Seeders, Details(s) \/ CountDishes(s) \/ ParseMenu(s)
    PROVE  IInv'
  <1>1. failures \in 0 .. MaxFailures
    BY DEF IInv, TypeOK
  <1>2. CASE Details(s)
    <2>1. [pc |-> "count"] \in Seedings
      BY DEF Seedings
    <2> QED
      BY <1>1, <1>2, <2>1, ProceedIInv DEF Details, SeederAt, bounds
  <1>3. CASE CountDishes(s)
    <2>1. (IF Present = {} THEN [pc |-> "menu"] ELSE Idle) \in Seedings
      BY IdleTyped DEF Seedings
    <2> QED
      BY <1>1, <1>3, <2>1, ProceedIInv DEF CountDishes, SeederAt, restaurant, bounds
  <1>4. CASE ParseMenu(s)
    <2>1. [pc |-> "insert", left |-> Menu] \in Seedings
      BY ConstantsAssumption DEF Seedings
    <2> QED
      BY <1>1, <1>4, <2>1, ProceedIInv DEF ParseMenu, SeederAt, restaurant, bounds
  <1> QED
    BY <1>2, <1>3, <1>4

LEMMA SeedingFailsIInv ==
    ASSUME IInv, NEW s \in Seeders, SeedingFails(s)
    PROVE  IInv'
  BY IdleTyped, FailTyped, ProceedIInv DEF SeedingFails, Seeding, SeederAt, restaurant, IInv

\* The rest of a sequence of two or more is a sequence that is not empty.
LEMMA TailTyped ==
    ASSUME NEW S, NEW s \in Seq(S), Len(s) > 1
    PROVE  Tail(s) \in Seq(S) /\ Tail(s) # <<>>
  <1>1. Tail(s) \in Seq(S) /\ Len(Tail(s)) = Len(s) - 1
    OBVIOUS
  <1>2. Len(s) \in Nat
    OBVIOUS
  <1>3. Len(Tail(s)) # 0
    BY <1>1, <1>2
  <1>4. Len(<<>>) = 0
    OBVIOUS
  <1> QED
    BY <1>1, <1>3, <1>4, Zenon

LEMMA GoTyped ==
    ASSUME TypeOK, NEW s \in Seeders, SeederAt(s, "insert"), Go(s)
    PROVE  \E q \in Seedings : Become(s, q)
  <1> DEFINE l == seed[s].left
             q == IF Len(l) > 1 THEN [pc |-> "insert", left |-> Tail(l)] ELSE Idle
  <1>1. seed[s] = [pc |-> "insert", left |-> l] /\ l \in Seq(Items)
    BY Shapes
  <1>2. Len(l) > 1 => Tail(l) \in Seq(Items) /\ Tail(l) # <<>>
    BY <1>1, TailTyped
  <1>3. q \in Seedings
    <2>1. CASE Len(l) > 1
      <3>1. [pc |-> "insert", left |-> Tail(l)] \in Seedings
        BY <1>2, <2>1 DEF Seedings
      <3> QED
        BY <2>1, <3>1
    <2>2. CASE ~ (Len(l) > 1)
      BY <2>2, IdleTyped
    <2> QED
      BY <2>1, <2>2
  <1>4. Become(s, q)
    BY DEF Go
  <1> QED
    BY <1>3, <1>4

\* The guard of the INSERT looks at the item itself, among its namesakes.
LEMMA SeedDishIInv ==
    ASSUME IInv, NEW s \in Seeders, SeedDish(s)
    PROVE  IInv'
  <1> DEFINE i == Head(seed[s].left)
  <1>1. /\ SeederAt(s, "insert") /\ Go(s)
        /\ UNCHANGED <<placed, unplaced, enriched, doubled, req, bounds>>
    BY DEF SeedDish, restaurant
  <1>2. PICK q \in Seedings : Become(s, q)
    BY <1>1, GoTyped DEF IInv
  <1>3. failures \in 0 .. MaxFailures
    BY DEF IInv, TypeOK
  <1>4. CASE UNCHANGED dishes
    BY <1>1, <1>2, <1>3, <1>4, ProceedIInv DEF SeederAt, bounds
  <1>5. CASE Present \cap SameName(i) = {} /\ Insert({i})
    <2>1. i \in Items
      <3>1. seed[s].left \in Seq(Items) /\ seed[s].left # <<>>
        BY <1>1, Shapes DEF IInv
      <3> QED
        BY <3>1
    <2>2. copies \in [Items -> Nat] /\ raced \subseteq Items
      BY DEF IInv, TypeOK
    <2>3. copies[i] = 0
      BY <1>5, <2>1, <2>2 DEF Present, SameName
    <2>4. \A j \in Items : copies'[j] = IF j = i THEN 1 ELSE copies[j]
      BY <1>5, <2>2, <2>3 DEF Insert
    <2>5. copies' \in [Items -> Nat]
      BY <1>5, <2>2 DEF Insert
    <2>6. /\ raced \subseteq raced' /\ raced' \subseteq Items
          /\ \A h \in Handlers : On(h, "batch") /\ i \in req[h].new => i \in raced'
      BY <1>5, <2>1, <2>2 DEF Insert
    <2>7. /\ seed' \in [Seeders -> Seedings]
          /\ seed'[s] = q /\ \A r \in Seeders \ {s} : seed'[r] = seed[r]
      BY <1>2, Seeded DEF IInv
    <2>8. TypeOK'
      BY <1>1, <2>5, <2>6, <2>7 DEF IInv, TypeOK, bounds
    <2>9. TwiceOnlyByRace'
      BY <2>4, <2>6 DEF IInv, TwiceOnlyByRace
    <2>10. BatchFresh'
      <3> SUFFICES ASSUME NEW h \in Handlers, On(h, "batch"), NEW j \in req[h].new \ raced'
                   PROVE  copies'[j] = 0
        BY <1>1 DEF BatchFresh, On
      <3>1. j \in Items /\ j # i /\ j \notin raced
        BY <2>6, Shapes DEF IInv
      <3>2. copies[j] = 0
        BY <3>1 DEF IInv, BatchFresh
      <3> QED
        BY <2>4, <3>1, <3>2
    <2>11. DoubledOnlyByRace' /\ CreateFresh'
      BY <1>1, PlacesKept DEF IInv, On
    <2>12. Claimed'
      <3>1. \A r \in Seeders : ~ SeederAt(r, "idle")' => ~ SeederAt(r, "idle")
        BY <1>1, <2>7 DEF SeederAt
      <3> QED
        BY <1>1, <3>1, ClaimKept DEF IInv
    <2> QED
      BY <2>8, <2>9, <2>10, <2>11, <2>12 DEF IInv
  <1> QED
    BY <1>4, <1>5 DEF SeedDish

-----------------------------------------------------------------------------
LEMMA RestartIInv == ASSUME IInv, Restart PROVE IInv'
  <1>1. /\ Fail /\ seed' = [s \in Seeders |-> Idle] /\ req' = [h \in Handlers |-> Idle]
        /\ UNCHANGED <<placed, unplaced, enriched, doubled, dishes>>
    BY DEF Restart, restaurant
  <1>2. /\ \A h \in Handlers : ~ On(h, "batch")' /\ ~ On(h, "create")'
        /\ \A s \in Seeders : SeederAt(s, "idle")'
    BY <1>1 DEF Idle, On, SeederAt
  <1>3. seed' \in [Seeders -> Seedings] /\ req' \in [Handlers -> Requests]
    BY <1>1, IdleTyped
  <1>4. TypeOK'
    BY <1>1, <1>3, FailTyped DEF IInv, TypeOK, dishes
  <1>5. TwiceOnlyByRace' /\ BatchFresh' /\ DoubledOnlyByRace' /\ CreateFresh'
    BY <1>1, <1>2, DishesKept, PlacesKept DEF IInv
  <1>6. Claimed'
    BY <1>2 DEF Claimed
  <1> QED
    BY <1>4, <1>5, <1>6 DEF IInv

LEMMA AgeIInv == ASSUME IInv, Age PROVE IInv'
  <1>1. /\ Seeding = {} /\ enriched' = "stale"
        /\ UNCHANGED <<placed, unplaced, doubled, dishes, req, seed, bounds>>
    BY DEF Age
  <1>2. TypeOK'
    BY <1>1 DEF IInv, TypeOK, dishes, bounds
  <1>3. Claimed'
    BY <1>1 DEF Claimed, Seeding, SeederAt
  <1>4. TwiceOnlyByRace' /\ BatchFresh' /\ DoubledOnlyByRace' /\ CreateFresh'
    BY <1>1, DishesKept, PlacesKept DEF IInv, On
  <1> QED
    BY <1>2, <1>3, <1>4 DEF IInv

LEMMA StutterIInv == ASSUME IInv, UNCHANGED vars PROVE IInv'
  <1>1. UNCHANGED <<placed, unplaced, enriched, doubled, copies, raced, req, seed, requests, failures>>
    BY DEF vars, restaurant, dishes, bounds
  <1> QED
    BY <1>1 DEF IInv, TypeOK, Claimed, TwiceOnlyByRace, BatchFresh, DoubledOnlyByRace, CreateFresh,
                On, SeederAt, Listed

LEMMA NextIInv == IInv /\ [Next]_vars => IInv'
  <1> SUFFICES ASSUME IInv, [Next]_vars PROVE IInv'
    OBVIOUS
  <1>1. CASE UNCHANGED vars
    BY <1>1, StutterIInv
  <1>2. ASSUME NEW h \in Handlers, NEW place \in BOOLEAN, CreateCheck(h, place) PROVE IInv'
    BY <1>2, CreateCheckIInv
  <1>3. ASSUME NEW h \in Handlers, CreateInsert(h) PROVE IInv'
    BY <1>3, CreateInsertIInv
  <1>4. ASSUME NEW h \in Handlers, NEW B \in SUBSET Items, BatchRead(h, B) PROVE IInv'
    BY <1>4, BatchReadIInv
  <1>5. ASSUME NEW h \in Handlers, BatchCommit(h) \/ Drop(h) PROVE IInv'
    BY <1>5, BatchCommitIInv, DropIInv
  <1>6. CASE CrawlerUpsert
    BY <1>6, CrawlerUpsertIInv
  <1>7. ASSUME NEW s \in Seeders, View(s) PROVE IInv'
    BY <1>7, ViewIInv
  <1>8. ASSUME NEW s \in Seeders, SeedStep(s) PROVE IInv'
    BY <1>8, SeedingIInv, SeedDishIInv DEF SeedStep
  <1>9. ASSUME NEW s \in Seeders, SeedingFails(s) PROVE IInv'
    BY <1>9, SeedingFailsIInv
  <1>10. CASE Restart \/ Age
    BY <1>10, RestartIInv, AgeIInv
  <1> QED
    BY <1>1, <1>2, <1>3, <1>4, <1>5, <1>6, <1>7, <1>8, <1>9, <1>10 DEF Next

\* Claims, batches and creations are accounted for in every reachable state.
THEOREM Invariant == Spec => []IInv
  BY InitIInv, NextIInv, PTL DEF Spec

-----------------------------------------------------------------------------
\* Rows, requests and seedings are well formed in every reachable state.
THEOREM TypeCorrect == Spec => []TypeOK
  <1>1. IInv => TypeOK
    BY DEF IInv
  <1> QED
    BY <1>1, Invariant, PTL

\* However many views race for the claim, one seeding runs at a time.
THEOREM SingleSeeding == Spec => []OneSeeding
  <1>1. ASSUME IInv PROVE OneSeeding
    <2>1. \A r, s \in Seeding : r = s
      BY <1>1 DEF IInv, Claimed, Seeding, SeederAt
    <2>2. Seeding = {} \/ \E s : Seeding = {s}
      BY <2>1
    <2>3. Cardinality(Seeding) \in {0, 1}
      BY <2>2, FS_EmptySet, FS_Singleton
    <2> QED
      BY <2>3 DEF OneSeeding
  <1> QED
    BY <1>1, Invariant, PTL

\* A dish is doubled only by two writers that overlapped.
THEOREM DishesSingle == Spec => []TwiceOnlyByRace
  <1>1. IInv => TwiceOnlyByRace
    BY DEF IInv
  <1> QED
    BY <1>1, Invariant, PTL

\* A restaurant is doubled only by creations that overlapped, or by the crawler.
THEOREM RestaurantsSingle == Spec => []DoubledOnlyByRace
  <1>1. IInv => DoubledOnlyByRace
    BY DEF IInv
  <1> QED
    BY <1>1, Invariant, PTL
=============================================================================
