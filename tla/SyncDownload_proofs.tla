------------------------ MODULE SyncDownload_proofs ------------------------
(***************************************************************************)
(* Proofs, for any rows of two collections, any page size and any number of *)
(* pages and failures, that the download skips nothing that was committed   *)
(* in order, and that it implements the promise of module Delivery.         *)
(***************************************************************************)
EXTENDS SyncDownload, FiniteSetTheorems, TLAPS

\* Versions grow, and a page never takes the device back.
Ordered ==
    \A i \in Rows :
        /\ received[i] <= version[i] /\ version[i] <= writes
        /\ version[i] # 0 => at[i] # 0
        /\ worker.pc \in {"second", "apply"} => worker.got[i] <= version[i]
        /\ worker.pc \in {"second", "apply"} /\ worker.got[i] # 0 => received[i] <= worker.got[i]

\* No position of a row or of a cursor is newer than the newest.
Highest ==
    /\ \A i \in Rows : at[i] # 0 => ~ Before(high, Position(i))
    /\ ~ Before(high, saved)
    /\ worker.pc # "idle" => ~ Before(high, worker.since)
    /\ worker.pc = "second" => ~ Before(high, worker.last)
    /\ worker.pc = "apply" => ~ Before(high, worker.next)

\* What is owed is beyond the position p.
Ahead(p) == \A i \in Owed : Before(p, Position(i))

\* What is owed is on the page or beyond the cursor that goes with it.
Covered ==
    /\ Ahead(saved)
    /\ worker.pc # "idle" => Ahead(worker.since)
    /\ worker.pc = "second" =>
         /\ worker.more => worker.last # NoCursor
         /\ \A i \in Owed \cap Reactions :
              worker.got[i] = version[i] \/ (worker.more /\ Before(worker.last, Position(i)))
    /\ worker.pc = "apply" =>
         \A i \in Owed : worker.got[i] = version[i] \/ Before(worker.next, Position(i))

IInv == TypeOK /\ Ordered /\ Highest /\ Covered

-----------------------------------------------------------------------------
(* The order of positions *)

LEMMA Coordinates ==
    ASSUME NEW p \in Positions
    PROVE  p[1] \in Nat /\ p[2] \in Nat
  <1>1. 0 .. MaxTime \subseteq Nat
    BY ConstantsAssumption
  <1>2. Rows \cup {0} \subseteq Nat
    BY ConstantsAssumption DEF Rows
  <1>3. p[1] \in 0 .. MaxTime /\ p[2] \in Rows \cup {0}
    BY DEF Positions
  <1> QED
    BY <1>1, <1>2, <1>3

LEMMA Order ==
    ASSUME NEW p \in Positions, NEW q \in Positions, NEW r \in Positions
    PROVE  /\ ~ Before(p, p)
           /\ ~ Before(q, p) /\ Before(q, r) => Before(p, r)
           /\ ~ Before(q, p) /\ ~ Before(r, q) => ~ Before(r, p)
           /\ Before(p, q) => ~ Before(q, p)
  BY Coordinates DEF Before

LEMMA NoCursorFirst ==
    /\ NoCursor \in Positions
    /\ \A p \in Positions : ~ Before(p, NoCursor)
  <1>1. NoCursor \in Positions
    BY ConstantsAssumption DEF NoCursor, Positions
  <1>2. ASSUME NEW p \in Positions PROVE ~ Before(p, NoCursor)
    BY Coordinates DEF Before, NoCursor
  <1> QED
    BY <1>1, <1>2

LEMMA PositionTyped ==
    ASSUME TypeOK, NEW i \in Rows
    PROVE  Position(i) \in Positions
  BY DEF TypeOK, Position, Positions

\* Two rows are never at the same position.
LEMMA Distinct ==
    ASSUME TypeOK, NEW i \in Rows, NEW j \in Rows, i # j, ~ Before(Position(i), Position(j))
    PROVE  Before(Position(j), Position(i))
  <1>1. at[i] \in Nat /\ at[j] \in Nat /\ i \in Nat /\ j \in Nat
    BY ConstantsAssumption DEF TypeOK, Rows
  <1> QED
    BY <1>1 DEF Position, Before

\* next_cursor takes one of the two last positions, and never one beyond the last
\* position of a collection that has more rows.
LEMMA NextCursor ==
    ASSUME NEW a \in Positions, NEW b \in Positions, NEW aMore \in BOOLEAN, NEW bMore \in BOOLEAN,
           aMore => a # NoCursor, bMore => b # NoCursor
    PROVE  /\ next_cursor(a, aMore, b, bMore) \in {a, b}
           /\ aMore => ~ Before(a, next_cursor(a, aMore, b, bMore))
           /\ bMore => ~ Before(b, next_cursor(a, aMore, b, bMore))
  <1>1. ~ Before(a, a) /\ ~ Before(b, b) /\ (Before(b, a) => ~ Before(a, b))
    BY Order
  <1>2. CASE aMore /\ bMore
    BY <1>1, <1>2 DEF next_cursor, Earlier
  <1>3. CASE aMore /\ ~ bMore
    BY <1>1, <1>3 DEF next_cursor, Or
  <1>4. CASE ~ aMore /\ bMore
    BY <1>1, <1>4 DEF next_cursor, Or
  <1>5. CASE ~ aMore /\ ~ bMore
    BY <1>5 DEF next_cursor, Later
  <1> QED
    BY <1>2, <1>3, <1>4, <1>5

-----------------------------------------------------------------------------
\* The fields of the worker, by its program counter.
LEMMA WorkerShape ==
    ASSUME TypeOK
    PROVE  /\ worker.pc \in {"idle", "first", "second", "apply"}
           /\ worker.pc # "idle" => worker.since \in Positions /\ worker.page \in 1 .. MaxPages
           /\ worker.pc \in {"second", "apply"} =>
                worker.got \in [Rows -> Versions] /\ worker.more \in BOOLEAN
           /\ worker.pc = "second" => worker.last \in Positions
           /\ worker.pc = "apply" => worker.next \in Positions
  BY DEF TypeOK, WorkerStates, Idle

LEMMA Numbers ==
    ASSUME TypeOK, NEW i \in Rows
    PROVE  /\ at[i] \in Nat /\ version[i] \in Nat /\ received[i] \in Nat /\ writes \in Nat
           /\ worker.pc \in {"second", "apply"} => worker.got[i] \in Nat
  <1>1. Versions \subseteq Nat /\ 0 .. MaxTime \subseteq Nat
    BY ConstantsAssumption DEF Versions
  <1> QED
    BY <1>1, WorkerShape DEF TypeOK

\* A page of a collection: what is owed of it is on the page, or beyond its last row.
LEMMA Page ==
    ASSUME TypeOK, NEW C \in SUBSET Rows, NEW since \in Positions, NEW P, NEW l \in Positions,
           FirstOf(P, After(C, since)), LastOf(P, l)
    PROVE  /\ P \subseteq C
           /\ Cardinality(P) = Limit => l # NoCursor
           /\ l = NoCursor \/ \E j \in P : at[j] # 0 /\ l = Position(j)
           /\ \A i \in C \ P : at[i] # 0 /\ Before(since, Position(i)) =>
                Cardinality(P) = Limit /\ Before(l, Position(i))
  <1>1. P \subseteq C /\ P \subseteq Rows /\ \A j \in P : at[j] # 0
    BY DEF FirstOf, After
  <1>2. IsFiniteSet(P)
    BY <1>1, FS_Subset, ConstantsAssumption
  <1>3. Cardinality(P) \in Nat
    BY <1>2, FS_CardinalityType
  <1>4. Cardinality(P) = Limit => P # {}
    BY FS_EmptySet, ConstantsAssumption
  <1>5. P # {} => \E j \in P : l = Position(j) /\ \A k \in P : ~ Before(l, Position(k))
    BY DEF LastOf
  <1>6. P # {} => l # NoCursor
    <2>1. ASSUME NEW j \in P PROVE Position(j) # NoCursor
      BY <1>1 DEF Position, NoCursor
    <2> QED
      BY <1>5, <2>1
  <1>7. l = NoCursor \/ \E j \in P : at[j] # 0 /\ l = Position(j)
    BY <1>1 DEF LastOf
  <1>8. ASSUME NEW i \in C \ P, at[i] # 0, Before(since, Position(i))
        PROVE  Cardinality(P) = Limit /\ Before(l, Position(i))
    <2>1. i \in After(C, since) /\ i \in Rows
      BY <1>8 DEF After
    <2>2. Cardinality(P) <= Limit /\ ~ (Cardinality(P) < Limit)
      BY <1>8, <2>1 DEF FirstOf
    <2>3. Cardinality(P) = Limit
      BY <1>3, <2>2, ConstantsAssumption
    <2>4. PICK j \in P : l = Position(j)
      BY <1>4, <1>5, <2>3
    <2>5. ~ Before(Position(i), Position(j))
      BY <1>8, <2>1, <2>4 DEF FirstOf
    <2>6. Before(Position(j), Position(i))
      BY <1>1, <1>8, <2>1, <2>4, <2>5, Distinct
    <2> QED
      BY <2>3, <2>4, <2>6
  <1> QED
    BY <1>1, <1>4, <1>6, <1>7, <1>8

-----------------------------------------------------------------------------
LEMMA InitIInv == Init => IInv
  <1> SUFFICES ASSUME Init PROVE IInv
    OBVIOUS
  <1>1. worker = Idle /\ worker.pc = "idle"
    BY DEF Init, Idle
  <1>2. TypeOK
    <2>1. 0 \in Versions /\ 0 \in 0 .. MaxTime /\ 0 \in 0 .. MaxFailures
      BY ConstantsAssumption DEF Versions
    <2> QED
      BY <1>1, <2>1, NoCursorFirst DEF Init, TypeOK, WorkerStates
  <1>3. \A i \in Rows : at[i] = 0 /\ version[i] = 0 /\ received[i] = 0
    BY DEF Init
  <1>4. Ordered
    BY <1>1, <1>3 DEF Init, Ordered
  <1>5. Highest
    BY <1>1, <1>3, NoCursorFirst DEF Init, Highest
  <1>6. Covered
    BY <1>1, <1>3 DEF Covered, Ahead, Owed
  <1> QED
    BY <1>2, <1>4, <1>5, <1>6 DEF IInv

-----------------------------------------------------------------------------
(* A write *)

\* The rows that are owed after a write were owed before it, or are new and beyond
\* everything that was ever committed.
LEMMA OwedAfterLand ==
    ASSUME TypeOK, NEW S \in SUBSET Rows, NEW t \in 1 .. MaxTime, Land(S, t), received' = received,
           NEW i \in Owed'
    PROVE  i \in Rows /\ \/ /\ i \in Owed \ S
                            /\ version'[i] = version[i] /\ Position(i)' = Position(i)
                         \/ /\ i \in S /\ Before(high, <<t, i>>) /\ Position(i)' = <<t, i>>
                            /\ ~ (i \in Reactions /\ worker.pc = "second")
  <1>1. i \in Rows /\ i \notin late' /\ received[i] # version'[i]
    BY DEF Owed
  <1>2. CASE i \in S
    BY <1>1, <1>2 DEF Land, Position
  <1>3. CASE i \notin S
    <2>1. i \notin late /\ version'[i] = version[i] /\ at'[i] = at[i]
      BY <1>1, <1>3 DEF Land
    <2> QED
      BY <1>1, <1>3, <2>1 DEF Owed, Position
  <1> QED
    BY <1>1, <1>2, <1>3

LEMMA LandTyped ==
    ASSUME TypeOK, NEW S \in SUBSET Rows, NEW t \in 1 .. MaxTime, Land(S, t),
           UNCHANGED <<received, own, saved, worker, failures>>
    PROVE  TypeOK' /\ t \in Nat \ {0} /\ \A i \in S : <<t, i>> \in Positions
  <1>1. t \in 0 .. MaxTime /\ t \in Nat \ {0}
    BY ConstantsAssumption
  <1>2. \A i \in S : <<t, i>> \in Positions
    BY <1>1 DEF Positions
  <1>3. at' \in [Rows -> 0 .. MaxTime]
    BY <1>1 DEF TypeOK, Land
  <1>4. writes + 1 \in Versions /\ writes' \in Versions
    BY ConstantsAssumption DEF TypeOK, Land, Versions
  <1>5. version' \in [Rows -> Versions]
    BY <1>4 DEF TypeOK, Land
  <1>6. high' \in Positions
    BY <1>2 DEF TypeOK, Land
  <1>7. late' \subseteq Rows
    BY DEF TypeOK, Land
  <1> QED
    BY <1>1, <1>2, <1>3, <1>4, <1>5, <1>6, <1>7 DEF TypeOK

LEMMA LandIInv ==
    ASSUME IInv, NEW S \in SUBSET Rows, NEW t \in 1 .. MaxTime, Land(S, t),
           UNCHANGED <<received, own, saved, worker, failures>>
    PROVE  IInv'
  <1> USE DEF IInv
  <1>1. TypeOK' /\ t \in Nat \ {0} /\ \A i \in S : <<t, i>> \in Positions
    BY LandTyped
  <1>2. ~ Before(high', high) /\ \A i \in S : ~ Before(high', <<t, i>>)
    BY DEF Land
  <1>3. high \in Positions /\ high' \in Positions
    BY <1>1 DEF TypeOK
  <1>4. ASSUME NEW p \in Positions, ~ Before(high, p) PROVE ~ Before(high', p)
    BY <1>2, <1>3, <1>4, Order
  <1>5. Highest'
    <2>1. ASSUME NEW i \in Rows, at'[i] # 0 PROVE ~ Before(high', Position(i)')
      <3>1. CASE i \in S
        BY <1>2, <3>1 DEF Land, Position
      <3>2. CASE i \notin S
        <4>1. at'[i] = at[i] /\ Position(i)' = Position(i)
          BY <3>2 DEF Land, Position
        <4>2. Position(i) \in Positions
          BY PositionTyped
        <4> QED
          BY <1>4, <2>1, <4>1, <4>2 DEF Highest
      <3> QED
        BY <3>1, <3>2
    <2>2. ~ Before(high', saved)
      BY <1>4 DEF Highest, TypeOK
    <2>3. worker.pc # "idle" => ~ Before(high', worker.since)
      BY <1>4, WorkerShape DEF Highest
    <2>4. worker.pc = "second" => ~ Before(high', worker.last)
      BY <1>4, WorkerShape DEF Highest
    <2>5. worker.pc = "apply" => ~ Before(high', worker.next)
      BY <1>4, WorkerShape DEF Highest
    <2> QED
      BY <2>1, <2>2, <2>3, <2>4, <2>5 DEF Highest
  <1>6. Ordered'
    <2> SUFFICES ASSUME NEW i \in Rows
                 PROVE  /\ received[i] <= version'[i] /\ version'[i] <= writes'
                        /\ version'[i] # 0 => at'[i] # 0
                        /\ worker.pc \in {"second", "apply"} => worker.got[i] <= version'[i]
                        /\ worker.pc \in {"second", "apply"} /\ worker.got[i] # 0
                             => received[i] <= worker.got[i]
      BY DEF Ordered
    <2>1. /\ received[i] <= version[i] /\ version[i] <= writes
          /\ version[i] # 0 => at[i] # 0
          /\ worker.pc \in {"second", "apply"} => worker.got[i] <= version[i]
          /\ worker.pc \in {"second", "apply"} /\ worker.got[i] # 0 => received[i] <= worker.got[i]
      BY DEF Ordered
    <2>2. writes' = writes + 1
      BY DEF Land
    <2>3. CASE i \in S
      <3>1. version'[i] = writes + 1 /\ at'[i] = t
        BY <2>3 DEF Land
      <3> QED
        BY <1>1, <2>1, <2>2, <3>1, Numbers
    <2>4. CASE i \notin S
      <3>1. version'[i] = version[i] /\ at'[i] = at[i]
        BY <2>4 DEF Land
      <3> QED
        BY <2>1, <2>2, <3>1, Numbers
    <2> QED
      BY <2>3, <2>4
  <1>7. ASSUME NEW p \in Positions, ~ Before(high, p), NEW i \in Owed',
               i \in Owed => Before(p, Position(i))
        PROVE  Before(p, Position(i)')
    <2>1. i \in S => <<t, i>> \in Positions
      BY <1>1
    <2> QED
      BY <1>3, <1>7, <2>1, OwedAfterLand, Order
  <1>8. Covered'
    <2>1. Ahead(saved)'
      BY <1>7 DEF Covered, Ahead, Highest, TypeOK
    <2>2. worker.pc # "idle" => Ahead(worker.since)'
      BY <1>7, WorkerShape DEF Covered, Ahead, Highest
    <2>3. ASSUME worker.pc = "second", NEW i \in Owed' \cap Reactions
          PROVE  worker.got[i] = version'[i] \/ (worker.more /\ Before(worker.last, Position(i)'))
      <3>1. i \in Owed \ S /\ version'[i] = version[i] /\ Position(i)' = Position(i)
        BY <2>3, OwedAfterLand
      <3>2. worker.got[i] = version[i] \/ (worker.more /\ Before(worker.last, Position(i)))
        BY <2>3, <3>1 DEF Covered
      <3> QED
        BY <3>1, <3>2
    <2>4. ASSUME worker.pc = "apply", NEW i \in Owed'
          PROVE  worker.got[i] = version'[i] \/ Before(worker.next, Position(i)')
      <3>1. worker.next \in Positions /\ ~ Before(high, worker.next)
        BY <2>4, WorkerShape DEF Highest
      <3>2. CASE i \in S
        <4>1. <<t, i>> \in Positions /\ Before(high, <<t, i>>) /\ Position(i)' = <<t, i>>
          BY <1>1, <2>4, <3>2, OwedAfterLand
        <4>2. Before(worker.next, <<t, i>>)
          BY <1>3, <3>1, <4>1, Order
        <4> QED
          BY <4>1, <4>2
      <3>3. CASE i \notin S
        BY <2>4, <3>3, OwedAfterLand DEF Covered
      <3> QED
        BY <3>2, <3>3
    <2> QED
      BY <2>1, <2>2, <2>3, <2>4 DEF Covered
  <1> QED
    BY <1>1, <1>5, <1>6, <1>8

-----------------------------------------------------------------------------
(* The steps of the download, which change no row of the server *)

LEMMA SameServer ==
    ASSUME UNCHANGED server
    PROVE  /\ at' = at /\ version' = version /\ writes' = writes /\ high' = high /\ late' = late
           /\ \A i \in Rows : Position(i)' = Position(i)
  BY DEF server, Position

LEMMA BeginCycleIInv ==
    ASSUME IInv, BeginCycle
    PROVE  IInv'
  <1> USE DEF IInv
  <1>1. /\ at' = at /\ version' = version /\ writes' = writes /\ high' = high /\ late' = late
        /\ \A i \in Rows : Position(i)' = Position(i)
        /\ received' = received /\ own' = own /\ saved' = saved /\ failures' = failures
    BY SameServer DEF BeginCycle
  <1>2. worker' = [pc |-> "first", since |-> saved, page |-> 1]
    BY DEF BeginCycle
  <1>3. worker'.pc = "first" /\ worker'.since = saved
    BY <1>2
  <1>4. TypeOK'
    <2>1. 1 \in 1 .. MaxPages
      BY ConstantsAssumption
    <2>2. worker' \in WorkerStates
      BY <1>2, <2>1 DEF TypeOK, WorkerStates
    <2> QED
      BY <1>1, <2>2 DEF TypeOK
  <1>5. Ordered' /\ Highest'
    BY <1>1, <1>3 DEF Ordered, Highest
  <1>6. Owed' = Owed
    BY <1>1 DEF Owed
  <1>7. Covered'
    <2>1. Ahead(saved)' /\ Ahead(worker.since)'
      BY <1>1, <1>3, <1>6 DEF Covered, Ahead, Owed
    <2> QED
      BY <1>3, <2>1 DEF Covered
  <1> QED
    BY <1>4, <1>5, <1>7

LEMMA SelectReactionsIInv ==
    ASSUME IInv, SelectReactions
    PROVE  IInv'
  <1> USE DEF IInv
  <1>1. /\ at' = at /\ version' = version /\ writes' = writes /\ high' = high /\ late' = late
        /\ \A i \in Rows : Position(i)' = Position(i)
        /\ received' = received /\ own' = own /\ saved' = saved /\ failures' = failures
    BY SameServer DEF SelectReactions
  <1>2. worker.pc = "first"
    BY DEF SelectReactions
  <1>3. PICK P \in SUBSET After(Reactions, worker.since), l \in Positions :
           /\ FirstOf(P, After(Reactions, worker.since))
           /\ LastOf(P, l)
           /\ worker' = [pc |-> "second", since |-> worker.since, page |-> worker.page,
                         got |-> [i \in Rows |-> IF i \in P THEN version[i] ELSE 0],
                         last |-> l, more |-> Cardinality(P) = Limit]
    BY DEF SelectReactions
  <1>4. /\ worker'.pc = "second" /\ worker'.since = worker.since /\ worker'.last = l
        /\ worker'.got = [i \in Rows |-> IF i \in P THEN version[i] ELSE 0]
        /\ worker'.more = (Cardinality(P) = Limit)
    BY <1>3
  <1>5. worker.since \in Positions /\ worker.page \in 1 .. MaxPages
    BY <1>2, WorkerShape
  <1>6. Reactions \subseteq Rows
    BY DEF Rows
  <1>7. /\ P \subseteq Reactions
        /\ Cardinality(P) = Limit => l # NoCursor
        /\ l = NoCursor \/ \E j \in P : at[j] # 0 /\ l = Position(j)
        /\ \A i \in Reactions \ P : at[i] # 0 /\ Before(worker.since, Position(i)) =>
             Cardinality(P) = Limit /\ Before(l, Position(i))
    BY <1>3, <1>5, <1>6, Page
  <1>8. TypeOK'
    <2>1. 0 \in Versions
      BY ConstantsAssumption DEF Versions
    <2>2. [i \in Rows |-> IF i \in P THEN version[i] ELSE 0] \in [Rows -> Versions]
      BY <2>1 DEF TypeOK
    <2>3. (Cardinality(P) = Limit) \in BOOLEAN
      OBVIOUS
    <2>4. worker' \in [pc : {"second"}, since : Positions, page : 1 .. MaxPages,
                       got : [Rows -> Versions], last : Positions, more : BOOLEAN]
      BY <1>3, <1>5, <2>2, <2>3
    <2>5. worker' \in WorkerStates
      BY <2>4 DEF WorkerStates
    <2> QED
      BY <1>1, <2>5 DEF TypeOK
  <1>9. Ordered'
    <2> SUFFICES ASSUME NEW i \in Rows
                 PROVE  /\ received[i] <= version[i] /\ version[i] <= writes
                        /\ version[i] # 0 => at[i] # 0
                        /\ worker'.got[i] <= version[i]
                        /\ worker'.got[i] # 0 => received[i] <= worker'.got[i]
      BY <1>1 DEF Ordered
    <2>1. worker'.got[i] = version[i] \/ worker'.got[i] = 0
      BY <1>4
    <2> QED
      BY <2>1, Numbers DEF Ordered
  <1>10. ~ Before(high, l)
    BY <1>6, <1>7, NoCursorFirst DEF Highest, TypeOK
  <1>11. Highest'
    BY <1>1, <1>2, <1>4, <1>10 DEF Highest
  <1>12. Owed' = Owed
    BY <1>1 DEF Owed
  <1>13. ASSUME NEW i \in Owed \cap Reactions
         PROVE  worker'.got[i] = version[i] \/ (worker'.more /\ Before(l, Position(i)))
    <2>1. CASE i \in P
      BY <1>4, <1>6, <2>1
    <2>2. CASE i \notin P
      <3>1. received[i] # version[i] /\ i \in Rows
        BY DEF Owed
      <3>2. at[i] # 0
        BY <3>1, Numbers DEF Ordered
      <3>3. Before(worker.since, Position(i))
        BY <1>2 DEF Covered, Ahead
      <3> QED
        BY <1>4, <1>7, <2>2, <3>2, <3>3
    <2> QED
      BY <2>1, <2>2
  <1>14. Covered'
    <2>1. Ahead(saved)' /\ Ahead(worker.since)'
      BY <1>1, <1>2, <1>4, <1>12 DEF Covered, Ahead, Owed
    <2>2. worker'.more => worker'.last # NoCursor
      BY <1>4, <1>7
    <2>3. \A i \in Owed' \cap Reactions :
            worker'.got[i] = version'[i] \/ (worker'.more /\ Before(worker'.last, Position(i)'))
      BY <1>1, <1>4, <1>6, <1>12, <1>13
    <2> QED
      BY <1>4, <2>1, <2>2, <2>3 DEF Covered
  <1> QED
    BY <1>8, <1>9, <1>11, <1>14

LEMMA SelectRatingsIInv ==
    ASSUME IInv, SelectRatings
    PROVE  IInv'
  <1> USE DEF IInv
  <1>1. /\ at' = at /\ version' = version /\ writes' = writes /\ high' = high /\ late' = late
        /\ \A i \in Rows : Position(i)' = Position(i)
        /\ received' = received /\ own' = own /\ saved' = saved /\ failures' = failures
    BY SameServer DEF SelectRatings
  <1>2. worker.pc = "second"
    BY DEF SelectRatings
  <1> DEFINE next(P, l) == next_cursor(worker.last, worker.more, l, Cardinality(P) = Limit)
  <1>3. PICK P \in SUBSET After(Ratings, worker.since), l \in Positions :
           /\ FirstOf(P, After(Ratings, worker.since))
           /\ LastOf(P, l)
           /\ worker' = [pc |-> "apply", page |-> worker.page, since |-> worker.since,
                         got |-> [i \in Rows |-> IF i \in P THEN version[i] ELSE worker.got[i]],
                         next |-> next(P, l),
                         more |-> worker.more \/ Cardinality(P) = Limit]
    BY DEF SelectRatings
  <1>4. /\ worker'.pc = "apply" /\ worker'.since = worker.since /\ worker'.next = next(P, l)
        /\ worker'.got = [i \in Rows |-> IF i \in P THEN version[i] ELSE worker.got[i]]
    BY <1>3
  <1>5. /\ worker.since \in Positions /\ worker.page \in 1 .. MaxPages
        /\ worker.last \in Positions /\ worker.got \in [Rows -> Versions] /\ worker.more \in BOOLEAN
    BY <1>2, WorkerShape
  <1>6. Ratings \subseteq Rows
    BY DEF Rows
  <1>7. /\ P \subseteq Ratings
        /\ Cardinality(P) = Limit => l # NoCursor
        /\ l = NoCursor \/ \E j \in P : at[j] # 0 /\ l = Position(j)
        /\ \A i \in Ratings \ P : at[i] # 0 /\ Before(worker.since, Position(i)) =>
             Cardinality(P) = Limit /\ Before(l, Position(i))
    BY <1>3, <1>5, <1>6, Page
  <1>8. /\ next(P, l) \in {worker.last, l}
        /\ worker.more => ~ Before(worker.last, next(P, l))
        /\ Cardinality(P) = Limit => ~ Before(l, next(P, l))
    <2>1. worker.more => worker.last # NoCursor
      BY <1>2 DEF Covered
    <2>2. (Cardinality(P) = Limit) \in BOOLEAN
      OBVIOUS
    <2> HIDE DEF next
    <2> QED
      BY <1>5, <1>7, <2>1, <2>2, NextCursor DEF next
  <1> HIDE DEF next
  <1>9. next(P, l) \in Positions
    BY <1>5, <1>8
  <1>10. TypeOK'
    <2>1. [i \in Rows |-> IF i \in P THEN version[i] ELSE worker.got[i]] \in [Rows -> Versions]
      BY <1>5 DEF TypeOK
    <2>2. (worker.more \/ Cardinality(P) = Limit) \in BOOLEAN
      BY <1>5
    <2>3. worker' \in [pc : {"apply"}, page : 1 .. MaxPages, since : Positions,
                       got : [Rows -> Versions], next : Positions, more : BOOLEAN]
      BY <1>3, <1>5, <1>9, <2>1, <2>2
    <2>4. worker' \in WorkerStates
      BY <2>3 DEF WorkerStates
    <2> QED
      BY <1>1, <2>4 DEF TypeOK
  <1>11. Ordered'
    <2> SUFFICES ASSUME NEW i \in Rows
                 PROVE  /\ received[i] <= version[i] /\ version[i] <= writes
                        /\ version[i] # 0 => at[i] # 0
                        /\ worker'.got[i] <= version[i]
                        /\ worker'.got[i] # 0 => received[i] <= worker'.got[i]
      BY <1>1 DEF Ordered
    <2>1. worker'.got[i] = version[i] \/ worker'.got[i] = worker.got[i]
      BY <1>4
    <2> QED
      BY <1>2, <2>1, Numbers DEF Ordered
  <1>12. Highest'
    <2>1. ~ Before(high, l)
      BY <1>6, <1>7, NoCursorFirst DEF Highest, TypeOK
    <2>2. ~ Before(high, worker'.next)
      BY <1>2, <1>4, <1>8, <2>1 DEF Highest
    <2> QED
      BY <1>1, <1>2, <1>4, <2>2 DEF Highest
  <1>13. Owed' = Owed
    BY <1>1 DEF Owed
  <1>14. ASSUME NEW i \in Owed
         PROVE  worker'.got[i] = version[i] \/ Before(next(P, l), Position(i))
    <2>1. i \in Rows /\ received[i] # version[i]
      BY DEF Owed
    <2>2. Position(i) \in Positions /\ at[i] # 0
      BY <2>1, PositionTyped, Numbers DEF Ordered
    <2>3. Before(worker.since, Position(i))
      BY <1>2 DEF Covered, Ahead
    <2>4. CASE i \in P
      BY <1>4, <2>1, <2>4
    <2>5. CASE i \in Ratings \ P
      <3>1. Cardinality(P) = Limit /\ Before(l, Position(i))
        BY <1>7, <2>2, <2>3, <2>5
      <3> QED
        BY <1>8, <1>9, <2>2, <3>1, Order
    <2>6. CASE i \notin Ratings
      <3>1. i \in Reactions /\ i \notin P
        BY <1>7, <2>1, <2>6 DEF Rows
      <3>2. worker.got[i] = version[i] \/ (worker.more /\ Before(worker.last, Position(i)))
        BY <1>2, <3>1 DEF Covered
      <3>3. worker'.got[i] = worker.got[i]
        BY <1>4, <2>1, <3>1
      <3>4. ASSUME worker.more, Before(worker.last, Position(i))
            PROVE  Before(next(P, l), Position(i))
        BY <1>5, <1>8, <1>9, <2>2, <3>4, Order
      <3> QED
        BY <3>2, <3>3, <3>4
    <2> QED
      BY <2>4, <2>5, <2>6
  <1>15. Covered'
    <2>1. Ahead(saved)' /\ Ahead(worker.since)'
      BY <1>1, <1>2, <1>4, <1>13 DEF Covered, Ahead, Owed
    <2>2. \A i \in Owed' : worker'.got[i] = version'[i] \/ Before(worker'.next, Position(i)')
      <3>1. \A i \in Owed : i \in Rows
        BY DEF Owed
      <3> QED
        BY <1>1, <1>4, <1>13, <1>14, <3>1
    <2> QED
      BY <1>4, <2>1, <2>2 DEF Covered
  <1> QED
    BY <1>10, <1>11, <1>12, <1>15

\* Storing rows of the page brings versions forward, never back and never beyond the
\* server's; of what is still owed, what was stored is beyond the page's cursor.
LEMMA ReceiveForward ==
    ASSUME IInv, worker.pc = "apply", NEW S \in SUBSET Rows, Receive(S), UNCHANGED server
    PROVE  /\ received' \in [Rows -> Versions]
           /\ \A i \in Rows : received[i] <= received'[i] /\ received'[i] <= version[i]
           /\ Owed' = {i \in Owed : received'[i] # version[i]}
           /\ \A i \in Owed' \cap S : Before(worker.next, Position(i))
  <1> USE DEF IInv
  <1>1. version' = version /\ late' = late
    BY SameServer
  <1>2. received' = [i \in Rows |-> IF i \in S /\ worker.got[i] # 0 THEN worker.got[i] ELSE received[i]]
    BY DEF Receive
  <1>3. received' \in [Rows -> Versions]
    BY <1>2, WorkerShape DEF TypeOK
  <1>4. ASSUME NEW i \in Rows
        PROVE  received[i] <= received'[i] /\ received'[i] <= version[i]
    <2>1. \/ worker.got[i] # 0 /\ received'[i] = worker.got[i]
          \/ received'[i] = received[i]
      BY <1>2
    <2> QED
      BY <2>1, Numbers DEF Ordered
  <1>5. Owed' = {i \in Owed : received'[i] # version[i]}
    <2>1. ASSUME NEW i \in Rows, received'[i] # version[i]
          PROVE  received[i] # version[i]
      <3>1. received'[i] \in Nat
        BY <1>3, ConstantsAssumption DEF Versions
      <3> QED
        BY <1>4, <2>1, <3>1, Numbers
    <2> QED
      BY <1>1, <2>1 DEF Owed
  <1>6. ASSUME NEW i \in Owed' \cap S
        PROVE  Before(worker.next, Position(i))
    <2>1. i \in Owed /\ received'[i] # version[i]
      BY <1>5
    <2>2. i \in Rows /\ received[i] # version[i]
      BY <2>1 DEF Owed
    <2>3. worker.got[i] # version[i]
      <3>1. version[i] # 0
        BY <2>2, Numbers DEF Ordered
      <3> QED
        BY <1>2, <2>1, <2>2, <3>1
    <2> QED
      BY <2>1, <2>3 DEF Covered
  <1> QED
    BY <1>3, <1>4, <1>5, <1>6

\* The cursor of a page may be used, saved or in memory, once the whole page is stored.
LEMMA StoreIInv ==
    ASSUME IInv, worker.pc = "apply", NEW S \in SUBSET Rows, Receive(S), UNCHANGED <<server, own>>,
           failures' \in 0 .. MaxFailures,
           saved' = saved \/ (S = Rows /\ saved' = worker.next),
           \/ worker' = Idle
           \/ /\ S = Rows /\ worker.page < MaxPages
              /\ worker' = [pc |-> "first", since |-> worker.next, page |-> worker.page + 1]
    PROVE  IInv'
  <1> USE DEF IInv
  <1>1. /\ at' = at /\ version' = version /\ writes' = writes /\ high' = high /\ late' = late
        /\ \A i \in Rows : Position(i)' = Position(i)
    BY SameServer
  <1>2. /\ received' \in [Rows -> Versions]
        /\ \A i \in Rows : received[i] <= received'[i] /\ received'[i] <= version[i]
        /\ Owed' = {i \in Owed : received'[i] # version[i]}
        /\ \A i \in Owed' \cap S : Before(worker.next, Position(i))
    BY ReceiveForward
  <1>3. worker.next \in Positions /\ worker.page \in 1 .. MaxPages
    BY WorkerShape
  <1>4. worker'.pc = "idle" \/ (S = Rows /\ worker'.pc = "first" /\ worker'.since = worker.next)
    BY DEF Idle
  <1>5. TypeOK'
    <2>1. worker' \in WorkerStates
      <3>1. worker.page < MaxPages => worker.page + 1 \in 1 .. MaxPages
        BY <1>3, ConstantsAssumption
      <3> QED
        BY <1>3, <3>1 DEF WorkerStates
    <2> QED
      BY <1>1, <1>2, <1>3, <2>1 DEF TypeOK
  <1>6. Ordered'
    BY <1>1, <1>2, <1>4 DEF Ordered
  <1>7. Highest'
    BY <1>1, <1>4 DEF Highest
  <1>8. \A i \in Owed' : i \in Owed /\ i \in Rows /\ Position(i)' = Position(i)
    BY <1>1, <1>2 DEF Owed
  <1>9. S = Rows => \A i \in Owed' : Before(worker.next, Position(i)')
    BY <1>2, <1>8
  <1>10. Ahead(saved)'
    BY <1>8, <1>9 DEF Covered, Ahead
  <1>11. worker'.pc = "first" => Ahead(worker.since)'
    BY <1>4, <1>9 DEF Ahead
  <1>12. Covered'
    BY <1>4, <1>10, <1>11 DEF Covered
  <1> QED
    BY <1>5, <1>6, <1>7, <1>12

LEMMA RowsStored == Receive(Rows) => \E S \in SUBSET Rows : S = Rows /\ Receive(S)
  OBVIOUS

LEMMA ApplyPageIInv ==
    ASSUME IInv, ApplyPage \/ ApplyUnsaved
    PROVE  IInv'
  <1> USE DEF IInv
  <1>1. worker.pc = "apply" /\ Receive(Rows) /\ UNCHANGED <<server, own>>
    BY DEF ApplyPage, ApplyUnsaved
  <1>2. saved' = saved \/ saved' = worker.next
    BY DEF ApplyPage, ApplyUnsaved
  <1>3. failures' \in 0 .. MaxFailures
    BY ConstantsAssumption DEF ApplyPage, ApplyUnsaved, TypeOK
  <1>4. \/ worker' = Idle
        \/ /\ worker.page < MaxPages
           /\ worker' = [pc |-> "first", since |-> worker.next, page |-> worker.page + 1]
    BY DEF ApplyPage, ApplyUnsaved, Continue
  <1>5. PICK S \in SUBSET Rows : S = Rows /\ Receive(S)
    BY <1>1, RowsStored
  <1> QED
    BY <1>1, <1>2, <1>3, <1>4, <1>5, StoreIInv

LEMMA InterruptedIInv ==
    ASSUME IInv, Interrupted
    PROVE  IInv'
  <1> USE DEF IInv
  <1>1. worker.pc # "idle" /\ worker' = Idle /\ saved' = saved /\ UNCHANGED <<server, own>>
    BY DEF Interrupted
  <1>2. failures' \in 0 .. MaxFailures
    BY ConstantsAssumption DEF Interrupted, TypeOK
  <1>3. CASE worker.pc = "apply"
    <2>1. PICK S \in SUBSET Rows : Receive(S)
      BY <1>3 DEF Interrupted
    <2> QED
      BY <1>1, <1>2, <1>3, <2>1, StoreIInv
  <1>4. CASE worker.pc # "apply"
    <2>1. /\ at' = at /\ version' = version /\ writes' = writes /\ high' = high /\ late' = late
          /\ \A i \in Rows : Position(i)' = Position(i)
          /\ received' = received /\ worker'.pc = "idle"
      BY <1>1, <1>4, SameServer DEF Interrupted, Idle
    <2>2. TypeOK'
      BY <1>1, <1>2, <2>1 DEF TypeOK, WorkerStates
    <2>3. Ordered' /\ Highest'
      BY <1>1, <2>1 DEF Ordered, Highest
    <2>4. Owed' = Owed
      BY <2>1 DEF Owed
    <2>5. Covered'
      BY <1>1, <2>1, <2>4 DEF Covered, Ahead, Owed
    <2> QED
      BY <2>2, <2>3, <2>5
  <1> QED
    BY <1>3, <1>4

\* A tap changes nothing the download goes by, but whether it starts.
LEMMA TapIInv == ASSUME IInv, Tap PROVE IInv'
  <1> USE DEF IInv
  <1>1. /\ at' = at /\ version' = version /\ writes' = writes /\ high' = high /\ late' = late
        /\ \A i \in Rows : Position(i)' = Position(i)
        /\ received' = received /\ saved' = saved /\ worker' = worker /\ failures' = failures
        /\ own' \in BOOLEAN
    BY SameServer DEF Tap
  <1>2. TypeOK'
    BY <1>1 DEF TypeOK
  <1>3. Ordered' /\ Highest'
    BY <1>1 DEF Ordered, Highest
  <1>4. Covered'
    BY <1>1 DEF Covered, Ahead, Owed
  <1> QED
    BY <1>2, <1>3, <1>4

LEMMA WriteLands ==
    ASSUME IInv, Write
    PROVE  \E S \in SUBSET Rows, t \in 1 .. MaxTime :
             Land(S, t) /\ UNCHANGED <<received, own, saved, worker, failures>>
  <1>1. PICK t \in 1 .. MaxTime : \/ \E i \in Rows : Upsert(i, t)
                                  \/ \E B \in SUBSET Rows : Upload(B, t)
    BY DEF Write
  <1>2. CASE \E i \in Rows : Upsert(i, t)
    <2>1. PICK i \in Rows : Upsert(i, t)
      BY <1>2
    <2>2. {i} \in SUBSET Rows /\ Land({i}, t) /\ UNCHANGED <<received, own, saved, worker, failures>>
      BY <2>1 DEF Upsert
    <2> QED
      BY <2>2
  <1>3. CASE \E B \in SUBSET Rows : Upload(B, t)
    <2>1. PICK B \in SUBSET Rows : Upload(B, t)
      BY <1>3
    <2> DEFINE S == {i \in B : t > at[i]}
    <2>2. S \in SUBSET Rows /\ Land(S, t) /\ UNCHANGED <<received, own, saved, worker, failures>>
      BY <2>1 DEF Upload
    <2> HIDE DEF S
    <2> QED
      BY <2>2
  <1> QED
    BY <1>1, <1>2, <1>3

LEMMA NextIInv == IInv /\ [Next]_vars => IInv'
  <1> SUFFICES ASSUME IInv, [Next]_vars PROVE IInv'
    OBVIOUS
  <1>1. CASE Write
    BY <1>1, WriteLands, LandIInv
  <1>2. CASE BeginCycle
    BY <1>2, BeginCycleIInv
  <1>3. CASE SelectReactions
    BY <1>3, SelectReactionsIInv
  <1>4. CASE SelectRatings
    BY <1>4, SelectRatingsIInv
  <1>5. CASE ApplyPage \/ ApplyUnsaved
    BY <1>5, ApplyPageIInv
  <1>6. CASE Interrupted
    BY <1>6, InterruptedIInv
  <1>7. CASE UNCHANGED vars
    BY <1>7 DEF vars, IInv, TypeOK, Ordered, Highest, Covered, Ahead, Owed, Position
  <1>8. CASE Tap
    BY <1>8, TapIInv
  <1> QED
    BY <1>1, <1>2, <1>3, <1>4, <1>5, <1>6, <1>7, <1>8 DEF Next, Download

\* The inductive invariant of the download.
THEOREM Invariant == Spec => []IInv
  BY InitIInv, NextIInv, PTL DEF Spec

\* Every variable keeps its type.
THEOREM TypeCorrect == Spec => []TypeOK
  BY Invariant, PTL DEF IInv

\* The download skips no row that was committed in order, for any page size, cap on
\* pages and number of failures (download_full, _pullFromCloud).
THEOREM NoneSkipped == Spec => []NothingSkipped
  <1>1. IInv => NothingSkipped
    BY DEF IInv, Covered, Ahead, NothingSkipped
  <1> QED
    BY <1>1, Invariant, PTL

-----------------------------------------------------------------------------
(* The refinement *)

\* What the mapping calls owed is owed, all of it beyond the cursor.
LEMMA OwedMapped ==
    ASSUME IInv, IInv'
    PROVE  /\ {i \in Rows \ late : received[i] # version[i] /\ Before(saved, Position(i))} = Owed
           /\ {i \in Rows \ late : received[i] # version[i] /\ Before(saved, Position(i))}' = Owed'
  BY DEF IInv, Covered, Ahead, Owed

LEMMA InitPromise == Init => Promise!Init
  <1> SUFFICES ASSUME Init PROVE Promise!Init
    OBVIOUS
  <1>1. {i \in Rows \ late : received[i] # version[i] /\ Before(saved, Position(i))} = {}
    BY DEF Init
  <1> QED
    BY <1>1 DEF Init, Promise!Init

\* A write publishes.
LEMMA LandPublishes ==
    ASSUME IInv, IInv', NEW S \in SUBSET Rows, NEW t \in 1 .. MaxTime, Land(S, t),
           UNCHANGED <<received, own, saved, worker, failures>>
    PROVE  Promise!Publish
  <1> USE DEF IInv
  <1>1. version' \in [Rows -> Nat]
    BY ConstantsAssumption DEF TypeOK, Versions
  <1>2. \A i \in Rows : /\ version[i] \in Nat /\ received[i] \in Nat /\ writes \in Nat
                        /\ version[i] <= writes /\ received[i] <= version[i]
    BY Numbers DEF Ordered
  <1>3. \A i \in Rows : version'[i] = IF i \in S THEN writes + 1 ELSE version[i]
    BY DEF Land
  <1>4. \A r \in Rows : version'[r] >= version[r]
    BY <1>2, <1>3
  <1>5. \A r \in Rows : version'[r] # version[r] <=> r \in S
    BY <1>2, <1>3
  <1>6. late' \in SUBSET Rows /\ late' \ late \subseteq S
    BY DEF TypeOK, Land
  <1>7. Owed' = (Owed \cup {r \in Rows : version'[r] # version[r]}) \ late'
    <2>1. ASSUME NEW r \in Rows, r \notin late'
          PROVE  received[r] # version'[r] <=> (r \in Owed \/ version'[r] # version[r])
      <3>1. CASE r \in S
        BY <1>2, <1>3, <1>5, <3>1
      <3>2. CASE r \notin S
        <4>1. r \notin late
          BY <2>1, <3>2 DEF Land
        <4> QED
          BY <1>3, <1>5, <3>2, <4>1 DEF Owed
      <3> QED
        BY <3>1, <3>2
    <2> QED
      BY <2>1 DEF Owed
  <1>8. \A r \in Owed \ Owed' : version'[r] # version[r]
    BY <1>5, <1>6, <1>7 DEF Owed
  <1>9. /\ {i \in Rows \ late : received[i] # version[i] /\ Before(saved, Position(i))} = Owed
        /\ {i \in Rows \ late : received[i] # version[i] /\ Before(saved, Position(i))}' = Owed'
    BY OwedMapped
  <1> QED
    BY <1>1, <1>4, <1>6, <1>7, <1>8, <1>9 DEF Promise!Publish, Promise!Newer

\* Storing rows of a page delivers, whether its cursor is saved or not.
LEMMA StoreDelivers ==
    ASSUME IInv, IInv', worker.pc = "apply", NEW S \in SUBSET Rows, Receive(S), UNCHANGED server
    PROVE  Promise!Deliver
  <1> USE DEF IInv
  <1>1. version' = version
    BY SameServer
  <1>2. received' \in [Rows -> Nat]
    BY ConstantsAssumption DEF TypeOK, Versions
  <1>3. \A r \in Rows : received'[r] >= received[r]
    BY <1>2, ReceiveForward, Numbers
  <1>4. Owed' = {i \in Owed : received'[i] # version[i]}
    BY ReceiveForward
  <1>5. /\ {i \in Rows \ late : received[i] # version[i] /\ Before(saved, Position(i))} = Owed
        /\ {i \in Rows \ late : received[i] # version[i] /\ Before(saved, Position(i))}' = Owed'
    BY OwedMapped
  <1> QED
    BY <1>1, <1>2, <1>3, <1>4, <1>5 DEF Promise!Deliver, Promise!Newer

\* Every other step of the download is a stutter.
LEMMA ReadStutters ==
    ASSUME IInv, IInv', UNCHANGED server, received' = received
    PROVE  UNCHANGED Promise!vars
  <1>1. Owed' = Owed /\ version' = version
    BY SameServer DEF Owed
  <1>2. /\ {i \in Rows \ late : received[i] # version[i] /\ Before(saved, Position(i))} = Owed
        /\ {i \in Rows \ late : received[i] # version[i] /\ Before(saved, Position(i))}' = Owed'
    BY OwedMapped
  <1> QED
    BY <1>1, <1>2 DEF Promise!vars

LEMMA NextPromise == IInv /\ IInv' /\ [Next]_vars => [Promise!Next]_(Promise!vars)
  <1> SUFFICES ASSUME IInv, IInv', [Next]_vars PROVE Promise!Next \/ UNCHANGED Promise!vars
    OBVIOUS
  <1>1. CASE Write
    BY <1>1, WriteLands, LandPublishes DEF Promise!Next
  <1>2. CASE Tap \/ BeginCycle \/ SelectReactions \/ SelectRatings
    BY <1>2, ReadStutters DEF Tap, BeginCycle, SelectReactions, SelectRatings
  <1>3. CASE ApplyPage \/ ApplyUnsaved
    <2>1. worker.pc = "apply" /\ Receive(Rows) /\ UNCHANGED server
      BY <1>3 DEF ApplyPage, ApplyUnsaved
    <2>2. PICK S \in SUBSET Rows : S = Rows /\ Receive(S)
      BY <2>1, RowsStored
    <2> QED
      BY <2>1, <2>2, StoreDelivers DEF Promise!Next
  <1>4. CASE Interrupted
    <2>1. CASE worker.pc = "apply"
      <3>1. PICK S \in SUBSET Rows : Receive(S)
        BY <1>4, <2>1 DEF Interrupted
      <3> QED
        BY <1>4, <2>1, <3>1, StoreDelivers DEF Interrupted, Promise!Next
    <2>2. CASE worker.pc # "apply"
      BY <1>4, <2>2, ReadStutters DEF Interrupted
    <2> QED
      BY <2>1, <2>2
  <1>5. CASE UNCHANGED vars
    BY <1>5, ReadStutters DEF vars, server
  <1> QED
    BY <1>1, <1>2, <1>3, <1>4, <1>5 DEF Next, Download

\* The paged download implements the abstract promise of module Delivery.
THEOREM DownloadDelivers == Spec => ImplementsDelivery
  BY InitPromise, NextPromise, Invariant, PTL DEF Spec, ImplementsDelivery, Promise!Spec
=============================================================================
