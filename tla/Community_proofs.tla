-------------------------- MODULE Community_proofs --------------------------
(****************************************************************************)
(* Proofs about what users give, for any users, requests, tables and dishes:*)
(* that the aggregates of a place are exact, that a merge loses no row and  *)
(* orphans none, and that listed images have their files, but for the       *)
(* overlaps the properties name; and that the taste vector never counts more*)
(* than the user gave.                                                      *)
(****************************************************************************)
EXTENDS Community, TasteVector, FiniteSetTheorems, TLAPS

-----------------------------------------------------------------------------
(* Community *)

\* The order of a merge: a level is recounted after its source is deleted, which
\* comes after its tables are done.
Progress ==
    Merging =>
        /\ "source" \notin gone
        /\ merge.stale \subseteq merge.counted /\ merge.counted \subseteq merge.done
        /\ merge.recounted \subseteq merge.deleted
        /\ \A l \in merge.deleted : Of(l) \subseteq merge.done
        /\ \A l \in merge.recounted : (Of(l) \cap Counted) \ {"vote"} \subseteq merge.counted
        /\ merge.counted \subseteq UNION {Of(l) : l \in merge.recounted}
        /\ \A r \in merge.seen : r.kind \in merge.counted

\* An open transaction holds a row of a place that is there, and not of one that the
\* merge has deleted.
OpenRows ==
    \A h \in Handlers :
        /\ Open(h) =>
             /\ req[h].row.kind \in Counted /\ req[h].row.place \notin gone
             /\ Merging /\ req[h].row.place = "source" =>
                  \A l \in merge.deleted : req[h].row.kind \notin Of(l)
        /\ On(h, "insert") => req[h].row.kind = "image"

\* What a merge has taken is still there, and what it is going to put clashes with
\* nothing that is there or on its way.
Moves ==
    Merging =>
        /\ \A t \in merge.taken :
             t \in rows /\ t.place = "source" /\ t.kind \in Pointers /\ AtTarget(t) \in merge.moved
        /\ \A m \in merge.moved :
             /\ m.place = "target" /\ m.kind \in merge.done
             /\ m.kind = "image" => \E t \in merge.taken : m = AtTarget(t)
             /\ m.kind # "image" =>
                  /\ \A r \in rows : ~ Clash(r, m)
                  /\ \A h \in Handlers : ~ Holds(h, m.kind, "target", m.user)
                  /\ \A n \in merge.moved : Clash(m, n) => m = n

\* Every file belongs to one image, listed or about to be.
Files ==
    /\ ImagesHaveFiles
    /\ \A r \in rows : r.kind = "image" => r.w <= writes
    /\ \A r, s \in rows : r.kind = "image" /\ s.kind = "image" /\ r.w = s.w => r = s
    /\ \A h \in Handlers : On(h, "insert") =>
         /\ req[h].row.w \in bucket /\ req[h].row.w <= writes
         /\ \A r \in rows : r.kind = "image" => r.w # req[h].row.w
    /\ \A g, h \in Handlers :
         On(g, "insert") /\ On(h, "insert") /\ req[g].row.w = req[h].row.w => g = h

\* A row that points to the source is taken along, or came behind the merge's back.
Orphans ==
    /\ NoOrphans
    /\ \A h \in Handlers :
         On(h, "insert") /\ req[h].row.place \in gone => <<"image", req[h].row.user>> \in slipped
    /\ Merging =>
         \A r \in rows : r.place = "source" /\ r.kind \in merge.done \cap Pointers =>
             r \in merge.taken \/ <<r.kind, r.user>> \in merge.behind

\* What a table held when it was copied is at the target, or about to be.
AtTargetToo(ku) ==
    \E r \in rows \cup merge.moved : r.place = "target" /\ r.kind = ku[1] /\ r.user = ku[2]
Survives ==
    /\ NothingLost
    /\ Merging =>
         \A ku \in given \ (slipped \cup merge.behind) :
             ku[1] \in merge.done \ Pointers => AtTargetToo(ku)

\* What a recount that nothing has overtaken has seen is what will be there when it commits.
SeenAll(q) == q.seen = (RowsOf(q.row.kind, q.row.place) \ AnyOf(q.row, rows)) \cup {q.row}
MergedAll(k) ==
    {r \in merge.seen : r.kind = k} = RowsOf(k, "target") \cup {m \in merge.moved : m.kind = k}
Exact ==
    /\ AggregatesExact
    /\ \A h \in Handlers : On(h, "commit") /\ req[h].counted /\ ~ req[h].stale => SeenAll(req[h])
    /\ Merging => \A k \in merge.counted \ merge.stale : MergedAll(k)

IInv ==
    /\ TypeOK /\ Progress /\ OpenRows /\ Moves
    /\ Files /\ Orphans /\ Survives /\ Exact

-----------------------------------------------------------------------------
\* Tables, rows and records

LEMMA Tabled ==
    /\ \A l \in Levels : Of(l) \subseteq Kinds
    /\ Kinds \subseteq Counted \cup Toggled \cup Pointers
    /\ Of("dish") \cap Of("restaurant") = {}
    /\ \A k \in Kinds : \E l \in Levels : k \in Of(l)
  <1>1. /\ \A x \in Of("dish") : x \in {"reaction", "vote", "favorite", "intent", "image"}
        /\ \A x \in Of("restaurant") : x \in {"rating", "report"}
    BY ConstantsAssumption DEF Of, Range
  <1> QED
    BY <1>1 DEF Levels, Kinds, Counted, Toggled, Pointers

\* A merge comes to each table once.
LEMMA NextTableFresh ==
    ASSUME NEW l \in Levels, NEW k, NextTable(l, k)
    PROVE  k \in Of(l) /\ k \notin merge.done
  <1>1. PICK i \in DOMAIN Tables[l] :
            Tables[l][i] = k /\ merge.done \cap Of(l) = Range(SubSeq(Tables[l], 1, i - 1))
    BY DEF NextTable
  <1>2. PICK S : Tables[l] \in Seq(S)
    BY ConstantsAssumption DEF Levels
  <1>3. \A x, y \in DOMAIN Tables[l] : Tables[l][x] = Tables[l][y] => x = y
    BY ConstantsAssumption DEF Levels, IsInjective
  <1>4. k \in Of(l)
    BY <1>1 DEF Of, Range
  <1>5. ASSUME k \in merge.done PROVE FALSE
    <2> DEFINE before == SubSeq(Tables[l], 1, i - 1)
    <2>1. i \in 1 .. Len(Tables[l])
      BY <1>1, <1>2
    <2>2. /\ Len(before) = i - 1 /\ DOMAIN before = 1 .. i - 1
          /\ \A j \in 1 .. i - 1 : before[j] = Tables[l][j] /\ j \in DOMAIN Tables[l]
      BY <1>2, <2>1
    <2>3. PICK j \in DOMAIN before : before[j] = k
      BY <1>1, <1>4, <1>5 DEF Range
    <2> QED
      BY <1>1, <1>3, <2>1, <2>2, <2>3
  <1> QED
    BY <1>4, <1>5

LEMMA RowFields ==
    ASSUME NEW r \in Row
    PROVE  /\ r.kind \in Kinds /\ r.place \in Places /\ r.user \in Users /\ r.w \in 1 .. MaxWrites
           /\ AtTarget(r) \in Row
           /\ AtTarget(r).kind = r.kind /\ AtTarget(r).user = r.user /\ AtTarget(r).w = r.w
           /\ AtTarget(r).place = "target"
  BY DEF Row, AtTarget, Places

LEMMA ReqShapes ==
    ASSUME TypeOK
    PROVE  \A h \in Handlers :
             /\ req[h] \in Requests
             /\ req[h].pc \in {"idle", "clear", "recount", "insert", "commit"}
             /\ req[h].pc \in {"recount", "insert", "commit"} => req[h].row \in Row
             /\ On(h, "clear") => req[h].place \in Places /\ req[h].user \in Users
             /\ On(h, "commit") => req[h].seen \subseteq Row /\ req[h].counted \in BOOLEAN
                                   /\ req[h].stale \in BOOLEAN
             /\ On(h, "commit") => req[h] \in [pc : {"commit"}, row : Row, counted : BOOLEAN,
                                               seen : SUBSET Row, stale : BOOLEAN]
  <1>1. \A h \in Handlers : req[h] \in Requests
    BY DEF TypeOK
  <1> QED
    BY <1>1 DEF Requests, Idle, On

\* The new state of one request, and the old one of the others.
LEMMA Answered ==
    ASSUME TypeOK, NEW h \in Handlers, NEW q \in Requests, req' = [req EXCEPT ![h] = q]
    PROVE  /\ req' \in [Handlers -> Requests]
           /\ req'[h] = q /\ \A g \in Handlers \ {h} : req'[g] = req[g]
  BY DEF TypeOK

LEMMA IdleTyped == Idle \in Requests /\ Idle.pc = "idle"
  BY DEF Requests, Idle

\* The fields of a merge.
LEMMA MergeShape ==
    ASSUME TypeOK, Merging
    PROVE  /\ merge.pc = "moving"
           /\ merge.done \subseteq Kinds /\ merge.deleted \subseteq Levels
           /\ merge.moved \subseteq Row /\ merge.taken \subseteq Row
           /\ merge.counted \subseteq Counted /\ merge.seen \subseteq Row
           /\ merge.stale \subseteq Counted /\ merge.recounted \subseteq Levels
           /\ merge.behind \subseteq Kinds \X Users
           /\ merge = [pc |-> "moving", done |-> merge.done, deleted |-> merge.deleted,
                       moved |-> merge.moved, taken |-> merge.taken, counted |-> merge.counted,
                       seen |-> merge.seen, stale |-> merge.stale, recounted |-> merge.recounted,
                       behind |-> merge.behind]
  BY DEF TypeOK, Merges, NoMerge, Merging

-----------------------------------------------------------------------------
\* What other requests change, and what a merge in progress knows of it

\* The merge goes on as it was, but it is told of rows that come behind its back.
MergeAware(S, R) ==
    /\ merge' \in Merges /\ merge'.pc = merge.pc
    /\ Merging =>
         /\ merge'.done = merge.done /\ merge'.deleted = merge.deleted
         /\ merge'.moved = merge.moved /\ merge'.taken = merge.taken
         /\ merge'.counted = merge.counted /\ merge'.seen = merge.seen
         /\ merge'.recounted = merge.recounted
         /\ merge.stale \subseteq merge'.stale /\ merge'.stale \subseteq merge.counted
         /\ merge.behind \subseteq merge'.behind
         /\ \A r \in R : r.place = "source" /\ r.kind \in merge.done =>
              <<r.kind, r.user>> \in merge'.behind
         /\ \A r \in S \cup R : r.place = "target" /\ r.kind \in merge.counted =>
              r.kind \in merge'.stale

\* No request opens a transaction or puts an image.
NothingBegins ==
    \A g \in Handlers :
        /\ Open(g)' => Open(g) /\ req'[g].row = req[g].row
        /\ On(g, "insert")' => On(g, "insert") /\ req'[g].row = req[g].row

LEMMA MissesAware ==
    ASSUME TypeOK, Progress, NEW r \in Row, MergeMisses(r),
           NEW S, NEW R \in {{}, {r}}, \A s \in S : Clash(r, s)
    PROVE  MergeAware(S, R)
  <1>1. CASE ~ Merging
    BY <1>1 DEF MergeMisses, MergeAware, TypeOK, Merging
  <1>2. CASE Merging
    <2> DEFINE late == {k \in merge.counted : r.place = "target" /\ r.kind = k}
               missed == {ku \in {<<r.kind, r.user>>} : r.place = "source" /\ r.kind \in merge.done}
    <2> HIDE DEF late, missed
    <2>1. merge' = [merge EXCEPT !.stale = @ \cup late, !.behind = @ \cup missed]
      BY <1>2 DEF MergeMisses, late, missed
    <2>2. merge' = [pc |-> "moving", done |-> merge.done, deleted |-> merge.deleted,
                    moved |-> merge.moved, taken |-> merge.taken, counted |-> merge.counted,
                    seen |-> merge.seen, stale |-> merge.stale \cup late,
                    recounted |-> merge.recounted, behind |-> merge.behind \cup missed]
      BY <1>2, <2>1, MergeShape
    <2>3. late \subseteq merge.counted /\ missed \subseteq Kinds \X Users
      BY RowFields DEF late, missed
    <2>4. merge' \in Merges /\ merge'.pc = merge.pc
      BY <1>2, <2>2, <2>3, MergeShape DEF Merges
    <2>5. \A q \in R : q.place = "source" /\ q.kind \in merge.done =>
            <<q.kind, q.user>> \in merge'.behind
      BY <2>2 DEF missed
    <2>6. \A q \in S \cup R : q.place = "target" /\ q.kind \in merge.counted =>
            q.kind \in merge'.stale
      BY <2>2 DEF late, Clash
    <2>7. merge'.stale \subseteq merge.counted
      BY <1>2, <2>2, <2>3 DEF Progress
    <2> QED
      BY <2>2, <2>4, <2>5, <2>6, <2>7 DEF MergeAware
  <1> QED
    BY <1>1, <1>2

LEMMA UnseenAware ==
    ASSUME TypeOK, Progress, UNCHANGED merge, NEW S, \A s \in S : s.kind \notin Counted
    PROVE  MergeAware(S, {})
  <1>1. Merging => merge.counted \subseteq Counted /\ merge.stale \subseteq merge.counted
    BY MergeShape DEF Progress
  <1> QED
    BY <1>1 DEF TypeOK, MergeAware

\* The rows keep their types and their keys.
LEMMA RowsTyped ==
    ASSUME TypeOK, NEW r \in Row, NEW S \in SUBSET rows, NEW R \in {{}, {r}}, Change(S, R),
           R = {} \/ r.kind = "image" \/ AnyOf(r, rows) \subseteq S
    PROVE  /\ rows' \subseteq Row /\ OneRowPerKey'
           /\ given' \subseteq Kinds \X Users
  <1>1. rows' \subseteq Row
    BY DEF TypeOK, Change
  <1>2. OneRowPerKey'
    <2> SUFFICES ASSUME NEW x \in rows', NEW y \in rows', Clash(x, y), x.kind # "image"
                 PROVE  x = y
      BY DEF OneRowPerKey, Clash
    <2>1. Clash(y, x) /\ y.kind # "image"
      BY DEF Clash
    <2>2. CASE x \in rows /\ y \in rows
      BY <2>2 DEF TypeOK, OneRowPerKey
    <2>3. CASE x \notin rows \/ y \notin rows
      BY <2>1, <2>3 DEF Change, AnyOf
    <2> QED
      BY <2>2, <2>3
  <1>3. given' \subseteq Kinds \X Users
    BY RowFields DEF TypeOK, Change
  <1> QED
    BY <1>1, <1>2, <1>3

LEMMA ProgressKept ==
    ASSUME Progress, UNCHANGED gone, NEW S, NEW R, MergeAware(S, R)
    PROVE  Progress'
  BY DEF Progress, MergeAware, Merging

LEMMA OpenRowsKept ==
    ASSUME OpenRows, UNCHANGED gone, NEW S, NEW R, MergeAware(S, R), NothingBegins
    PROVE  OpenRows'
  BY DEF OpenRows, MergeAware, Merging, NothingBegins

\* Nobody takes a row the merge has updated, or writes a key it has copied.
LEMMA MovesKept ==
    ASSUME Moves, NEW S, NEW R, Change(S, R), MergeAware(S, R), NothingBegins,
           Merging => S \cap merge.taken = {},
           Merging => \A r \in R, m \in merge.moved : m.kind # "image" => ~ Clash(r, m)
    PROVE  Moves'
  <1> SUFFICES ASSUME Merging PROVE Moves'
    BY DEF Moves, MergeAware, Merging
  <1>1. merge'.done = merge.done /\ merge'.moved = merge.moved /\ merge'.taken = merge.taken
    BY DEF MergeAware
  <1>2. \A t \in merge.taken : t \in rows'
    BY DEF Moves, Change
  <1>3. \A m \in merge.moved : m.kind # "image" => \A r \in rows' : ~ Clash(r, m)
    BY DEF Moves, Change
  <1>4. \A m \in merge.moved : m.kind # "image" =>
          \A h \in Handlers : ~ Holds(h, m.kind, "target", m.user)'
    BY DEF Moves, Holds, NothingBegins
  <1> QED
    BY <1>1, <1>2, <1>3, <1>4 DEF Moves

LEMMA FilesKept ==
    ASSUME TypeOK, Files, NEW S, NEW R, Change(S, R), \A r \in R : r.kind # "image",
           UNCHANGED bucket, writes' \in Nat, writes <= writes', NothingBegins
    PROVE  Files'
  <1>1. \A r \in rows' : r.kind = "image" => r \in rows
    BY DEF Change
  <1>2. \A r \in rows' : r.kind = "image" => r.w <= writes'
    BY <1>1 DEF TypeOK, Row, Files
  <1>3. \A h \in Handlers : On(h, "insert")' => req'[h].row.w <= writes'
    BY ReqShapes, RowFields DEF TypeOK, Files, NothingBegins, On
  <1>4. \A h \in Handlers : On(h, "insert")' =>
          /\ req'[h].row.w \in bucket
          /\ \A r \in rows' : r.kind = "image" => r.w # req'[h].row.w
    BY <1>1 DEF Files, NothingBegins
  <1>5. \A g, h \in Handlers :
          On(g, "insert")' /\ On(h, "insert")' /\ req'[g].row.w = req'[h].row.w => g = h
    BY DEF Files, NothingBegins
  <1> QED
    BY <1>1, <1>2, <1>3, <1>4, <1>5 DEF Files, ImagesHaveFiles

LEMMA OrphansKept ==
    ASSUME Orphans, UNCHANGED gone, slipped \subseteq slipped',
           NEW S, NEW R, Change(S, R), MergeAware(S, R), NothingBegins,
           \A r \in R : r.place \in gone => r.kind \in Pointers /\ <<r.kind, r.user>> \in slipped'
    PROVE  Orphans'
  <1>1. NoOrphans'
    BY DEF Orphans, NoOrphans, Change
  <1>2. \A h \in Handlers : On(h, "insert")' /\ req'[h].row.place \in gone' =>
          <<"image", req'[h].row.user>> \in slipped'
    BY DEF Orphans, NothingBegins
  <1>3. Merging' => \A r \in rows' : r.place = "source" /\ r.kind \in merge'.done \cap Pointers =>
          r \in merge'.taken \/ <<r.kind, r.user>> \in merge'.behind
    BY DEF Orphans, Change, MergeAware, Merging
  <1> QED
    BY <1>1, <1>2, <1>3 DEF Orphans

LEMMA SurvivesKept ==
    ASSUME TypeOK, Survives, slipped \subseteq slipped',
           NEW S \in SUBSET rows, NEW R \in SUBSET Row, Change(S, R), MergeAware(S, R)
    PROVE  Survives'
  <1>1. ASSUME NEW ku \in given', NEW r \in rows, r.kind = ku[1], r.user = ku[2],
               ku \notin {<<q.kind, q.user>> : q \in R}
        PROVE  r \in rows'
    <2>1. ku \in given /\ ku \notin {<<q.kind, q.user>> : q \in S}
      BY <1>1 DEF Change
    <2>2. ku = <<r.kind, r.user>>
      BY <1>1, <2>1 DEF TypeOK
    <2> QED
      BY <2>1, <2>2 DEF Change
  <1>2. NothingLost'
    <2> SUFFICES ASSUME NEW ku \in given' \ slipped'
                 PROVE  \E r \in rows' : r.kind = ku[1] /\ r.user = ku[2]
      BY DEF NothingLost
    <2>1. CASE ku \in {<<q.kind, q.user>> : q \in R}
      BY <2>1 DEF Change
    <2>2. CASE ku \notin {<<q.kind, q.user>> : q \in R}
      <3>1. PICK r \in rows : r.kind = ku[1] /\ r.user = ku[2]
        BY <2>2 DEF Change, Survives, NothingLost
      <3> QED
        BY <1>1, <2>2, <3>1
    <2> QED
      BY <2>1, <2>2
  <1>3. ASSUME Merging', NEW ku \in given' \ (slipped' \cup merge'.behind),
               ku[1] \in merge'.done \ Pointers
        PROVE  AtTargetToo(ku)'
    <2>1. /\ Merging /\ merge'.done = merge.done /\ merge'.moved = merge.moved
          /\ merge.behind \subseteq merge'.behind
          /\ \A r \in R : r.place = "source" /\ r.kind \in merge.done =>
               <<r.kind, r.user>> \in merge'.behind
      BY <1>3 DEF MergeAware, Merging
    <2>2. CASE ku \in {<<q.kind, q.user>> : q \in R}
      <3>1. PICK q \in R : ku = <<q.kind, q.user>>
        BY <2>2
      <3>2. q.place = "target" /\ q \in rows'
        BY <1>3, <2>1, <3>1, RowFields DEF Change, Places
      <3> QED
        BY <3>1, <3>2 DEF AtTargetToo
    <2>3. CASE ku \notin {<<q.kind, q.user>> : q \in R}
      <3>1. ku \in given
        BY <2>3 DEF Change
      <3>2. AtTargetToo(ku)
        BY <1>3, <2>1, <3>1 DEF Survives
      <3>3. PICK r \in rows \cup merge.moved :
                r.place = "target" /\ r.kind = ku[1] /\ r.user = ku[2]
        BY <3>2 DEF AtTargetToo
      <3>4. r \in rows' \cup merge'.moved
        BY <1>1, <2>1, <2>3, <3>3
      <3> QED
        BY <3>3, <3>4 DEF AtTargetToo
    <2> QED
      BY <2>2, <2>3
  <1> QED
    BY <1>2, <1>3 DEF Survives

\* An aggregate's rows change, and whoever has seen them before knows.
LEMMA ExactElsewhere ==
    ASSUME TypeOK, Exact, UNCHANGED gone, NEW k \in Counted, NEW p \in Places,
           NEW S, NEW R, Change(S, R), MergeAware(S, R), R # {},
           \A r \in S \cup R : r.kind = k /\ r.place = p,
           \A g \in Handlers : On(g, "commit")' /\ req'[g].counted /\ ~ req'[g].stale =>
             /\ On(g, "commit") /\ req'[g] = req[g]
             /\ <<req[g].row.kind, req[g].row.place>> # <<k, p>>,
           \A c \in Counted, d \in Places : <<c, d>> # <<k, p>> =>
             cache'[<<c, d>>] = cache[<<c, d>>] /\ (<<c, d>> \in unsettled => <<c, d>> \in unsettled'),
           <<k, p>> \notin unsettled' => cache'[<<k, p>>] = RowsOf(k, p)'
    PROVE  Exact'
  <1>1. \A c, d : <<c, d>> # <<k, p>> =>
          /\ RowsOf(c, d)' = RowsOf(c, d)
          /\ \A r : r.kind = c /\ r.place = d => AnyOf(r, rows)' = AnyOf(r, rows)
    BY DEF Change, RowsOf, AnyOf, Clash
  <1>2. AggregatesExact'
    <2> SUFFICES ASSUME NEW c \in Counted, NEW d \in Places \ gone, <<c, d>> \notin unsettled'
                 PROVE  cache'[<<c, d>>] = RowsOf(c, d)'
      BY DEF AggregatesExact
    <2>1. CASE <<c, d>> = <<k, p>>
      BY <2>1
    <2>2. CASE <<c, d>> # <<k, p>>
      <3>1. cache[<<c, d>>] = RowsOf(c, d)
        BY <2>2 DEF Exact, AggregatesExact
      <3> QED
        BY <1>1, <2>2, <3>1
    <2> QED
      BY <2>1, <2>2
  <1>3. ASSUME NEW h \in Handlers, On(h, "commit")', req'[h].counted, ~ req'[h].stale
        PROVE  SeenAll(req[h])'
    <2>1. /\ On(h, "commit") /\ req'[h] = req[h]
          /\ <<req[h].row.kind, req[h].row.place>> # <<k, p>>
      BY <1>3
    <2>2. SeenAll(req[h])
      BY <1>3, <2>1 DEF Exact
    <2> QED
      BY <1>1, <2>1, <2>2 DEF SeenAll
  <1>4. ASSUME Merging', NEW c \in merge'.counted \ merge'.stale
        PROVE  MergedAll(c)'
    <2>1. /\ Merging /\ merge'.counted = merge.counted /\ merge'.seen = merge.seen
          /\ merge'.moved = merge.moved /\ merge.stale \subseteq merge'.stale
          /\ \A r \in S \cup R : r.place = "target" /\ r.kind \in merge.counted =>
               r.kind \in merge'.stale
      BY <1>4 DEF MergeAware, Merging
    <2>2. <<c, "target">> # <<k, p>>
      BY <1>4, <2>1
    <2>3. MergedAll(c)
      BY <1>4, <2>1 DEF Exact
    <2> QED
      BY <1>1, <2>1, <2>2, <2>3 DEF MergedAll
  <1> QED
    BY <1>2, <1>3, <1>4 DEF Exact

\* Rows that no aggregate is computed from.
LEMMA ExactKept ==
    ASSUME TypeOK, Progress, OpenRows, Exact, UNCHANGED <<gone, cache, unsettled>>,
           NEW S, NEW R, Change(S, R), MergeAware(S, R),
           \A r \in S \cup R : r.kind \notin Counted,
           \A g \in Handlers : On(g, "commit")' => On(g, "commit") /\ req'[g] = req[g]
    PROVE  Exact'
  <1>1. \A k \in Counted : /\ \A p : RowsOf(k, p)' = RowsOf(k, p)
                           /\ \A r : r.kind = k => AnyOf(r, rows)' = AnyOf(r, rows)
    BY DEF Change, RowsOf, AnyOf, Clash
  <1>2. AggregatesExact'
    BY <1>1 DEF Exact, AggregatesExact
  <1>3. ASSUME NEW h \in Handlers, On(h, "commit")', req'[h].counted, ~ req'[h].stale
        PROVE  SeenAll(req[h])'
    <2>1. On(h, "commit") /\ req'[h] = req[h] /\ req[h].row.kind \in Counted
      BY <1>3 DEF OpenRows, Open, On
    <2>2. SeenAll(req[h])
      BY <1>3, <2>1 DEF Exact
    <2> QED
      BY <1>1, <2>1, <2>2 DEF SeenAll
  <1>4. ASSUME Merging', NEW c \in merge'.counted \ merge'.stale
        PROVE  MergedAll(c)'
    <2>1. /\ Merging /\ merge'.counted = merge.counted /\ merge'.seen = merge.seen
          /\ merge'.moved = merge.moved /\ merge.stale \subseteq merge'.stale
      BY <1>4 DEF MergeAware, Merging
    <2>2. c \in Counted
      BY <1>4, <2>1, MergeShape
    <2>3. MergedAll(c)
      BY <1>4, <2>1 DEF Exact
    <2> QED
      BY <1>1, <2>1, <2>2, <2>3 DEF MergedAll
  <1> QED
    BY <1>2, <1>3, <1>4 DEF Exact

-----------------------------------------------------------------------------
LEMMA InitIInv == Init => IInv
  <1> SUFFICES ASSUME Init PROVE IInv
    OBVIOUS
  <1>1. /\ \A h \in Handlers : req[h] = Idle /\ req[h].pc = "idle"
        /\ ~ Merging
    BY DEF Init, Idle, NoMerge, Merging
  <1>2. TypeOK
    <2>1. req \in [Handlers -> Requests] /\ merge \in Merges
      BY IdleTyped DEF Init, Merges
    <2>2. writes \in 0 .. MaxWrites /\ failures \in 0 .. MaxFailures
      BY ConstantsAssumption DEF Init
    <2>3. OneRowPerKey
      BY DEF Init, OneRowPerKey
    <2> QED
      BY <2>1, <2>2, <2>3 DEF Init, TypeOK
  <1>3. OpenRows
    BY <1>1 DEF OpenRows, Open, On
  <1>4. Files
    BY <1>1 DEF Init, Files, ImagesHaveFiles, On
  <1>5. Orphans /\ Survives
    BY <1>1 DEF Init, Orphans, NoOrphans, Survives, NothingLost, On
  <1>6. Exact
    <2>1. AggregatesExact
      BY DEF Init, AggregatesExact, RowsOf
    <2> QED
      BY <1>1, <2>1 DEF Exact, On
  <1> QED
    BY <1>1, <1>2, <1>3, <1>4, <1>5, <1>6 DEF IInv, Progress, Moves

\* What a request writes.
LEMMA WrittenTyped ==
    ASSUME TypeOK, Spend, NEW k \in Kinds, NEW p \in Places, NEW u \in Users
    PROVE  /\ Written(k, p, u) \in Row
           /\ Written(k, p, u).kind = k /\ Written(k, p, u).place = p
           /\ Written(k, p, u).user = u /\ Written(k, p, u).w = writes + 1
           /\ writes' \in 0 .. MaxWrites /\ writes' = writes + 1
           /\ failures' = failures
  <1>1. writes + 1 \in 1 .. MaxWrites
    BY ConstantsAssumption DEF TypeOK, Spend
  <1>2. writes' \in 0 .. MaxWrites /\ writes' = writes + 1 /\ failures' = failures
    BY ConstantsAssumption DEF TypeOK, Spend
  <1> QED
    BY <1>1, <1>2 DEF Written, Row

LEMMA WriteIInv ==
    ASSUME IInv, NEW h \in Handlers, NEW k \in Kinds, NEW p \in Places, NEW u \in Users,
           Write(h, k, p, u)
    PROVE  IInv'
  <1> DEFINE r == Written(k, p, u)
             q == [pc |-> "recount", row |-> r]
  <1>1. /\ k \in Counted /\ p \notin gone /\ ~ Locked(k, p, u) /\ Spend
        /\ req' = [req EXCEPT ![h] = q]
        /\ UNCHANGED <<rows, cache, priors, gone, bucket, merge, given, slipped, unsettled>>
    BY DEF Write
  <1>2. /\ r \in Row /\ r.kind = k /\ r.place = p /\ r.user = u
        /\ writes' \in 0 .. MaxWrites /\ writes' = writes + 1 /\ failures' = failures
    BY <1>1, WrittenTyped DEF IInv
  <1> HIDE DEF r
  <1>3. /\ req' \in [Handlers -> Requests]
        /\ req'[h] = q /\ \A g \in Handlers \ {h} : req'[g] = req[g]
    <2>1. q \in Requests
      BY <1>2 DEF Requests
    <2> QED
      BY <1>1, <2>1, Answered DEF IInv
  <1>4. TypeOK'
    BY <1>1, <1>2, <1>3 DEF IInv, TypeOK, OneRowPerKey
  <1>5. Progress'
    BY <1>1 DEF IInv, Progress, Merging
  <1>6. OpenRows'
    <2>1. Merging /\ p = "source" => \A l \in merge.deleted : k \notin Of(l)
      BY <1>1 DEF Locked, MergeHolds
    <2> QED
      BY <1>1, <1>2, <1>3, <2>1 DEF IInv, OpenRows, Open, On, Merging
  <1>7. Moves'
    <2>1. Merging /\ p = "target" => \A m \in merge.moved : ~ (m.kind = k /\ m.user = u)
      BY <1>1 DEF Locked, MergeHolds
    <2> QED
      BY <1>1, <1>2, <1>3, <2>1 DEF IInv, Moves, Merging, Holds, Open
  <1>8. Files'
    <2>1. \A g \in Handlers : On(g, "insert")' => On(g, "insert") /\ req'[g] = req[g]
      BY <1>3 DEF On
    <2>2. \A x : x \in Row => x.w \in Int
      BY DEF Row
    <2> QED
      BY <1>1, <1>2, <2>1, <2>2, ReqShapes DEF IInv, TypeOK, Files, ImagesHaveFiles, On
  <1>9. Orphans' /\ Survives'
    BY <1>1, <1>3 DEF IInv, Orphans, NoOrphans, Survives, NothingLost, AtTargetToo, On, Merging
  <1>10. Exact'
    <2>1. \A g \in Handlers : On(g, "commit")' => On(g, "commit") /\ req'[g] = req[g]
      BY <1>3 DEF On
    <2> QED
      BY <1>1, <2>1 DEF IInv, Exact, SeenAll, MergedAll, AggregatesExact, RowsOf, AnyOf, On, Merging
  <1> QED
    BY <1>4, <1>5, <1>6, <1>7, <1>8, <1>9, <1>10 DEF IInv

\* What every change of the rows by a request has to respect.
LEMMA Kept ==
    ASSUME IInv, UNCHANGED gone, slipped \subseteq slipped',
           NEW S \in SUBSET rows, NEW R \in SUBSET Row,
           Change(S, R), MergeAware(S, R), NothingBegins,
           Merging => S \cap merge.taken = {},
           Merging => \A r \in R, m \in merge.moved : m.kind # "image" => ~ Clash(r, m),
           \A r \in R : r.place \in gone => r.kind \in Pointers /\ <<r.kind, r.user>> \in slipped'
    PROVE  Progress' /\ OpenRows' /\ Moves' /\ Orphans' /\ Survives'
  BY ProgressKept, OpenRowsKept, MovesKept, OrphansKept, SurvivesKept DEF IInv

\* A step that leaves the rows and the merge alone.
LEMMA NothingChanges ==
    ASSUME IInv, UNCHANGED <<rows, given, merge>>
    PROVE  Change({}, {}) /\ MergeAware({}, {})
  BY UnseenAware DEF IInv, Change

LEMMA RecountIInv == ASSUME IInv, NEW h \in Handlers, Recount(h) PROVE IInv'
  <1> DEFINE r == req[h].row
             counts == r.kind = "vote" => r.place \in priors
             seen == IF counts THEN (RowsOf(r.kind, r.place) \ AnyOf(r, rows)) \cup {r} ELSE {}
             q == [pc |-> "commit", row |-> r, counted |-> counts, seen |-> seen, stale |-> FALSE]
  <1>1. /\ On(h, "recount") /\ req' = [req EXCEPT ![h] = q]
        /\ UNCHANGED <<rows, cache, priors, gone, bucket, merge, bounds, given, slipped, unsettled>>
    BY DEF Recount
  <1>2. r \in Row
    BY <1>1, ReqShapes DEF IInv, On
  <1>3. seen \subseteq Row
    BY <1>2 DEF RowsOf, IInv, TypeOK
  <1>4. counts => seen = (RowsOf(r.kind, r.place) \ AnyOf(r, rows)) \cup {r}
    OBVIOUS
  <1> HIDE DEF seen
  <1>5. counts \in BOOLEAN
    OBVIOUS
  <1> HIDE DEF counts
  <1>6. /\ req' \in [Handlers -> Requests]
        /\ req'[h] = q /\ \A g \in Handlers \ {h} : req'[g] = req[g]
    <2>1. q \in Requests
      BY <1>2, <1>3, <1>5 DEF Requests
    <2> QED
      BY <1>1, <2>1, Answered DEF IInv
  <1>7. TypeOK'
    BY <1>1, <1>6 DEF IInv, TypeOK, OneRowPerKey, bounds
  <1>8. NothingBegins
    BY <1>1, <1>6 DEF NothingBegins, Open, On
  <1>9. Progress' /\ OpenRows' /\ Moves' /\ Orphans' /\ Survives'
    BY <1>1, <1>8, NothingChanges, Kept
  <1>10. Files'
    BY <1>1, <1>8, NothingChanges, FilesKept DEF IInv, bounds, TypeOK
  <1>11. Exact'
    <2>1. \A g \in Handlers : On(g, "commit")' /\ req'[g].counted /\ ~ req'[g].stale => SeenAll(req[g])'
      <3> SUFFICES ASSUME NEW g \in Handlers, On(g, "commit")', req'[g].counted, ~ req'[g].stale
                   PROVE  SeenAll(req[g])'
        OBVIOUS
      <3>1. CASE g = h
        BY <1>1, <1>4, <1>6, <3>1 DEF SeenAll, RowsOf, AnyOf
      <3>2. CASE g # h
        BY <1>1, <1>6, <3>2 DEF IInv, Exact, SeenAll, RowsOf, AnyOf, On
      <3> QED
        BY <3>1, <3>2
    <2> QED
      BY <1>1, <2>1 DEF IInv, Exact, AggregatesExact, MergedAll, RowsOf, Merging
  <1> QED
    BY <1>7, <1>9, <1>10, <1>11 DEF IInv

LEMMA DropIInv == ASSUME IInv, NEW h \in Handlers, Drop(h) PROVE IInv'
  <1>1. /\ req' = [req EXCEPT ![h] = Idle]
        /\ UNCHANGED <<rows, cache, priors, gone, bucket, merge, bounds, given, slipped, unsettled>>
    BY DEF Drop
  <1>2. /\ req' \in [Handlers -> Requests]
        /\ req'[h] = Idle /\ \A g \in Handlers \ {h} : req'[g] = req[g]
    BY <1>1, IdleTyped, Answered DEF IInv
  <1>3. TypeOK'
    BY <1>1, <1>2 DEF IInv, TypeOK, OneRowPerKey, bounds
  <1>4. NothingBegins /\ \A g \in Handlers : On(g, "commit")' => On(g, "commit") /\ req'[g] = req[g]
    BY <1>2, IdleTyped DEF NothingBegins, Open, On
  <1>5. Progress' /\ OpenRows' /\ Moves' /\ Orphans' /\ Survives'
    BY <1>1, <1>4, NothingChanges, Kept
  <1>6. Files'
    BY <1>1, <1>4, NothingChanges, FilesKept DEF IInv, bounds, TypeOK
  <1>7. Exact'
    BY <1>1, <1>4, NothingChanges, ExactKept DEF IInv
  <1> QED
    BY <1>3, <1>5, <1>6, <1>7 DEF IInv

\* The recounts that a commit overtakes.
LEMMA OvertakenFacts ==
    ASSUME NEW f \in [Handlers -> Requests], NEW k, NEW p
    PROVE  LET o == Overtaken(f, k, p) IN
           /\ o \in [Handlers -> Requests]
           /\ \A g \in Handlers :
                /\ o[g].pc = f[g].pc
                /\ f[g].pc # "commit" => o[g] = f[g]
                /\ f[g].pc = "commit" =>
                     /\ o[g].row = f[g].row
                     /\ ~ o[g].stale =>
                          o[g] = f[g] /\ <<f[g].row.kind, f[g].row.place>> # <<k, p>>
  <1> DEFINE o == Overtaken(f, k, p)
  <1>1. ASSUME NEW g \in Handlers, f[g].pc = "commit"
        PROVE  /\ [f[g] EXCEPT !.stale = TRUE] \in Requests
               /\ [f[g] EXCEPT !.stale = TRUE].pc = "commit"
               /\ [f[g] EXCEPT !.stale = TRUE].row = f[g].row
               /\ [f[g] EXCEPT !.stale = TRUE].stale = TRUE
    <2>1. f[g] \in [pc : {"commit"}, row : Row, counted : BOOLEAN, seen : SUBSET Row, stale : BOOLEAN]
      BY <1>1 DEF Requests, Idle
    <2> QED
      BY <2>1 DEF Requests
  <1>2. \A g \in Handlers :
          o[g] = IF f[g].pc = "commit" /\ f[g].row.kind = k /\ f[g].row.place = p
                 THEN [f[g] EXCEPT !.stale = TRUE] ELSE f[g]
    BY DEF Overtaken
  <1>3. o \in [Handlers -> Requests]
    BY <1>1, <1>2 DEF Overtaken
  <1>4. ASSUME NEW g \in Handlers
        PROVE  /\ o[g].pc = f[g].pc
               /\ f[g].pc # "commit" => o[g] = f[g]
               /\ f[g].pc = "commit" =>
                    /\ o[g].row = f[g].row
                    /\ ~ o[g].stale =>
                         o[g] = f[g] /\ <<f[g].row.kind, f[g].row.place>> # <<k, p>>
    BY <1>1, <1>2
  <1> QED
    BY <1>3, <1>4

LEMMA CommitIInv == ASSUME IInv, NEW h \in Handlers, Commit(h) PROVE IInv'
  <1>1. On(h, "commit")
    BY DEF Commit
  <1>2. PICK r \in Row : r = req[h].row
    BY <1>1, ReqShapes DEF IInv, On
  <1> DEFINE after == IF r.kind = "reaction"
                      THEN [pc |-> "clear", place |-> r.place, user |-> r.user] ELSE Idle
             f == [req EXCEPT ![h] = after]
             S == AnyOf(r, rows)
  <1>3. /\ On(h, "commit") /\ Change(S, {r})
        /\ cache' = IF req[h].counted THEN [cache EXCEPT ![<<r.kind, r.place>>] = req[h].seen] ELSE cache
        /\ Settle(r.kind, r.place, req[h].counted /\ ~ req[h].stale)
        /\ req' = Overtaken(f, r.kind, r.place)
        /\ MergeMisses(r)
        /\ UNCHANGED <<priors, gone, bucket, bounds, slipped>>
    BY <1>2 DEF Commit
  <1>4. /\ r \in Row /\ req[h].seen \subseteq Row /\ req[h].counted \in BOOLEAN
        /\ r.kind \in Counted /\ r.place \in Places /\ r.place \notin gone
    BY <1>3, <1>2, ReqShapes, RowFields DEF IInv, OpenRows, Open, On
  <1>5. after \in Requests /\ after.pc \in {"clear", "idle"}
    BY <1>4, RowFields DEF Requests, Idle
  <1> HIDE DEF after
  <1>6. f \in [Handlers -> Requests] /\ f[h] = after /\ \A g \in Handlers \ {h} : f[g] = req[g]
    BY <1>5 DEF IInv, TypeOK
  <1>7. /\ req' \in [Handlers -> Requests]
        /\ NothingBegins
        /\ \A g \in Handlers : On(g, "commit")' /\ ~ req'[g].stale =>
             /\ On(g, "commit") /\ req'[g] = req[g]
             /\ <<req[g].row.kind, req[g].row.place>> # <<r.kind, r.place>>
    <2> HIDE DEF f
    <2>1. \A g \in Handlers :
            /\ req'[g].pc = f[g].pc
            /\ f[g].pc # "commit" => req'[g] = f[g]
            /\ f[g].pc = "commit" =>
                 /\ req'[g].row = f[g].row
                 /\ ~ req'[g].stale =>
                      req'[g] = f[g] /\ <<f[g].row.kind, f[g].row.place>> # <<r.kind, r.place>>
      BY <1>3, <1>6, OvertakenFacts
    <2>2. req' \in [Handlers -> Requests]
      BY <1>3, <1>6, OvertakenFacts
    <2> QED
      BY <1>5, <1>6, <2>1, <2>2 DEF NothingBegins, Open, On
  <1>8. S \subseteq rows /\ \A s \in S : Clash(r, s)
    BY DEF AnyOf
  <1>9. MergeAware(S, {r})
    BY <1>3, <1>4, <1>8, MissesAware DEF IInv
  <1>10. TypeOK'
    <2>1. rows' \subseteq Row /\ OneRowPerKey' /\ given' \subseteq Kinds \X Users
      BY <1>3, <1>4, <1>8, RowsTyped DEF IInv
    <2>2. cache' \in [Counted \X Places -> SUBSET Row]
      BY <1>3, <1>4 DEF IInv, TypeOK
    <2>3. unsettled' \subseteq Counted \X Places
      BY <1>3, <1>4 DEF IInv, TypeOK, Settle
    <2>4. merge' \in Merges
      BY <1>9 DEF MergeAware
    <2> QED
      BY <1>3, <1>7, <2>1, <2>2, <2>3, <2>4 DEF IInv, TypeOK, bounds
  <1>11. Progress' /\ OpenRows' /\ Moves' /\ Orphans' /\ Survives'
    <2>1. Merging => S \cap merge.taken = {}
      BY <1>4, <1>8 DEF IInv, Moves, Clash, Counted, Pointers
    <2>2. Merging => \A m \in merge.moved : m.kind # "image" => ~ Clash(r, m)
      <3>1. Merging => \A m \in merge.moved : m.kind # "image" =>
              m.place = "target" /\ ~ Holds(h, m.kind, "target", m.user)
        BY DEF IInv, Moves
      <3> QED
        BY <1>3, <1>2, <3>1 DEF Holds, Open, On, Clash
    <2> QED
      BY <1>3, <1>4, <1>7, <1>8, <1>9, <2>1, <2>2, Kept
  <1>12. Files'
    <2>1. writes' \in Nat /\ writes <= writes'
      BY <1>3 DEF IInv, TypeOK, bounds
    <2>2. r.kind # "image"
      BY <1>4 DEF Counted
    <2> QED
      BY <1>3, <1>7, <2>1, <2>2, FilesKept DEF IInv
  <1>13. Exact'
    <2>1. \A s \in S \cup {r} : s.kind = r.kind /\ s.place = r.place
      BY <1>8 DEF Clash
    <2>2. \A c \in Counted, d \in Places : <<c, d>> # <<r.kind, r.place>> =>
            cache'[<<c, d>>] = cache[<<c, d>>] /\ (<<c, d>> \in unsettled => <<c, d>> \in unsettled')
      BY <1>3, <1>4 DEF IInv, TypeOK, Settle
    <2>3. <<r.kind, r.place>> \notin unsettled' => cache'[<<r.kind, r.place>>] = RowsOf(r.kind, r.place)'
      <3> SUFFICES ASSUME <<r.kind, r.place>> \notin unsettled'
                   PROVE  cache'[<<r.kind, r.place>>] = RowsOf(r.kind, r.place)'
        OBVIOUS
      <3>1. req[h].counted /\ ~ req[h].stale
        BY <1>3 DEF Settle
      <3>2. cache'[<<r.kind, r.place>>] = req[h].seen
        BY <1>3, <1>4, <3>1 DEF IInv, TypeOK
      <3>3. req[h].seen = (RowsOf(r.kind, r.place) \ S) \cup {r}
        BY <1>3, <1>2, <3>1 DEF IInv, Exact, SeenAll
      <3>4. RowsOf(r.kind, r.place)' = (RowsOf(r.kind, r.place) \ S) \cup {r}
        BY <1>3 DEF Change, RowsOf
      <3> QED
        BY <3>2, <3>3, <3>4
    <2> HIDE DEF S, f
    <2> QED
      BY <1>3, <1>4, <1>7, <1>9, <2>1, <2>2, <2>3, ExactElsewhere DEF IInv
  <1> QED
    BY <1>10, <1>11, <1>12, <1>13 DEF IInv

LEMMA UploadIInv ==
    ASSUME IInv, NEW k \in Kinds, NEW p \in Places, NEW u \in Users, Upload(k, p, u)
    PROVE  IInv'
  <1> DEFINE r == Written(k, p, u)
             S == AnyOf(r, rows)
  <1>1. /\ k \in {"reaction", "rating"} /\ p \notin gone /\ ~ Locked(k, p, u)
        /\ Spend /\ Change(S, {r}) /\ Settle(k, p, FALSE)
        /\ req' = Overtaken(req, k, p) /\ MergeMisses(r)
        /\ UNCHANGED <<cache, priors, gone, bucket, slipped>>
    BY DEF Upload
  <1>2. /\ r \in Row /\ r.kind = k /\ r.place = p /\ r.user = u
        /\ writes' \in 0 .. MaxWrites /\ writes' = writes + 1 /\ failures' = failures
    BY <1>1, WrittenTyped DEF IInv
  <1> HIDE DEF r
  <1>3. k \in Counted
    BY <1>1 DEF Counted
  <1>4. /\ req' \in [Handlers -> Requests]
        /\ NothingBegins
        /\ \A g \in Handlers : On(g, "commit")' /\ ~ req'[g].stale =>
             /\ On(g, "commit") /\ req'[g] = req[g]
             /\ <<req[g].row.kind, req[g].row.place>> # <<k, p>>
    <2>1. \A g \in Handlers :
            /\ req'[g].pc = req[g].pc
            /\ req[g].pc # "commit" => req'[g] = req[g]
            /\ req[g].pc = "commit" =>
                 /\ req'[g].row = req[g].row
                 /\ ~ req'[g].stale =>
                      req'[g] = req[g] /\ <<req[g].row.kind, req[g].row.place>> # <<k, p>>
      BY <1>1, OvertakenFacts DEF IInv, TypeOK
    <2>2. req' \in [Handlers -> Requests]
      BY <1>1, OvertakenFacts DEF IInv, TypeOK
    <2> QED
      BY <2>1, <2>2 DEF NothingBegins, Open, On
  <1>5. S \subseteq rows /\ \A s \in S : Clash(r, s)
    BY DEF AnyOf
  <1>6. MergeAware(S, {r})
    BY <1>1, <1>2, <1>5, MissesAware DEF IInv
  <1>7. TypeOK'
    <2>1. rows' \subseteq Row /\ OneRowPerKey' /\ given' \subseteq Kinds \X Users
      BY <1>1, <1>2, <1>5, RowsTyped DEF IInv
    <2>2. unsettled' \subseteq Counted \X Places
      BY <1>1, <1>3 DEF IInv, TypeOK, Settle
    <2>3. merge' \in Merges
      BY <1>6 DEF MergeAware
    <2> QED
      BY <1>1, <1>2, <1>4, <2>1, <2>2, <2>3 DEF IInv, TypeOK
  <1>8. Progress' /\ OpenRows' /\ Moves' /\ Orphans' /\ Survives'
    <2>1. Merging => S \cap merge.taken = {}
      BY <1>2, <1>3, <1>5 DEF IInv, Moves, Clash, Counted, Pointers
    <2>2. Merging => \A m \in merge.moved : ~ Clash(r, m)
      BY <1>1, <1>2 DEF IInv, Moves, Locked, MergeHolds, Clash
    <2> QED
      BY <1>1, <1>2, <1>4, <1>5, <1>6, <2>1, <2>2, Kept
  <1>9. Files'
    <2>1. writes' \in Nat /\ writes <= writes'
      BY <1>2 DEF IInv, TypeOK
    <2>2. r.kind # "image"
      BY <1>2, <1>3 DEF Counted
    <2> QED
      BY <1>1, <1>4, <2>1, <2>2, FilesKept DEF IInv
  <1>10. Exact'
    <2>1. \A s \in S \cup {r} : s.kind = k /\ s.place = p
      BY <1>2, <1>5 DEF Clash
    <2>2. \A c \in Counted, d \in Places : <<c, d>> # <<k, p>> =>
            cache'[<<c, d>>] = cache[<<c, d>>] /\ (<<c, d>> \in unsettled => <<c, d>> \in unsettled')
      BY <1>1 DEF Settle
    <2>3. <<k, p>> \in unsettled'
      BY <1>1 DEF Settle
    <2> HIDE DEF S
    <2> QED
      BY <1>1, <1>3, <1>4, <1>6, <2>1, <2>2, <2>3, ExactElsewhere DEF IInv
  <1> QED
    BY <1>7, <1>8, <1>9, <1>10 DEF IInv

LEMMA ClearIInv == ASSUME IInv, NEW h \in Handlers, Clear(h) PROVE IInv'
  <1> DEFINE S == {r \in RowsOf("intent", req[h].place) : r.user = req[h].user}
  <1>1. /\ On(h, "clear") /\ Change(S, {}) /\ req' = [req EXCEPT ![h] = Idle]
        /\ UNCHANGED <<cache, priors, gone, bucket, merge, bounds, slipped, unsettled>>
    BY DEF Clear
  <1>2. S \subseteq rows /\ \A s \in S : s.kind = "intent"
    BY DEF RowsOf
  <1> HIDE DEF S
  <1>3. /\ req' \in [Handlers -> Requests]
        /\ req'[h] = Idle /\ \A g \in Handlers \ {h} : req'[g] = req[g]
    BY <1>1, IdleTyped, Answered DEF IInv
  <1>4. NothingBegins /\ \A g \in Handlers : On(g, "commit")' => On(g, "commit") /\ req'[g] = req[g]
    BY <1>3, IdleTyped DEF NothingBegins, Open, On
  <1>5. MergeAware(S, {})
    BY <1>1, <1>2, UnseenAware DEF IInv, Counted
  <1>6. TypeOK'
    <2>1. rows' \subseteq Row /\ OneRowPerKey' /\ given' \subseteq Kinds \X Users
      BY <1>1 DEF Change, IInv, TypeOK, OneRowPerKey
    <2> QED
      BY <1>1, <1>3, <2>1 DEF IInv, TypeOK, bounds
  <1>7. Progress' /\ OpenRows' /\ Moves' /\ Orphans' /\ Survives'
    <2>1. Merging => S \cap merge.taken = {}
      BY <1>2 DEF IInv, Moves, Pointers
    <2> QED
      BY <1>1, <1>2, <1>4, <1>5, <2>1, Kept
  <1>8. Files'
    BY <1>1, <1>4, FilesKept DEF IInv, TypeOK, bounds
  <1>9. Exact'
    BY <1>1, <1>2, <1>4, <1>5, ExactKept DEF IInv, Counted
  <1> QED
    BY <1>6, <1>7, <1>8, <1>9 DEF IInv

LEMMA ToggleIInv ==
    ASSUME IInv, NEW k \in Kinds, NEW p \in Places, NEW u \in Users, Toggle(k, p, u)
    PROVE  IInv'
  <1> DEFINE r == Written(k, p, u)
             S == AnyOf(r, rows)
             R == IF S = {} THEN {r} ELSE {}
  <1>1. /\ k \in Toggled /\ p \notin gone /\ ~ Locked(k, p, u)
        /\ Spend /\ Change(S, R) /\ MergeMisses(r)
        /\ UNCHANGED <<cache, priors, gone, bucket, req, slipped, unsettled>>
    BY DEF Toggle
  <1>2. /\ r \in Row /\ r.kind = k /\ r.place = p /\ r.user = u
        /\ writes' \in 0 .. MaxWrites /\ writes' = writes + 1 /\ failures' = failures
    BY <1>1, WrittenTyped DEF IInv
  <1> HIDE DEF r
  <1>3. S \subseteq rows /\ \A s \in S : Clash(r, s)
    BY DEF AnyOf
  <1>4. R \in {{}, {r}}
    OBVIOUS
  <1>5. k \notin Counted /\ k \notin Pointers
    BY <1>1 DEF Toggled, Counted, Pointers
  <1>6. \A s \in S \cup R : s.kind = k
    BY <1>2, <1>3, <1>4 DEF Clash
  <1>7. MergeAware(S, R)
    BY <1>1, <1>2, <1>3, <1>4, MissesAware DEF IInv
  <1>8. AnyOf(r, rows) \subseteq S
    OBVIOUS
  <1> HIDE DEF S, R
  <1>9. NothingBegins /\ \A g \in Handlers : On(g, "commit")' => On(g, "commit") /\ req'[g] = req[g]
    BY <1>1 DEF NothingBegins, Open, On
  <1>10. TypeOK'
    <2>1. rows' \subseteq Row /\ OneRowPerKey' /\ given' \subseteq Kinds \X Users
      BY <1>1, <1>2, <1>3, <1>4, <1>8, RowsTyped DEF IInv
    <2>2. merge' \in Merges
      BY <1>7 DEF MergeAware
    <2> QED
      BY <1>1, <1>2, <2>1, <2>2 DEF IInv, TypeOK
  <1>11. Progress' /\ OpenRows' /\ Moves' /\ Orphans' /\ Survives'
    <2>1. Merging => S \cap merge.taken = {}
      BY <1>5, <1>6 DEF IInv, Moves
    <2>2. Merging => \A m \in merge.moved : ~ Clash(r, m)
      BY <1>1, <1>2 DEF IInv, Moves, Locked, MergeHolds, Clash
    <2> QED
      BY <1>1, <1>2, <1>3, <1>4, <1>7, <1>9, <2>1, <2>2, Kept
  <1>12. Files'
    <2>1. writes' \in Nat /\ writes <= writes'
      BY <1>2 DEF IInv, TypeOK
    <2>2. \A s \in R : s.kind # "image"
      BY <1>5, <1>6 DEF Pointers
    <2> QED
      BY <1>1, <1>9, <2>1, <2>2, FilesKept DEF IInv
  <1>13. Exact'
    BY <1>1, <1>5, <1>6, <1>7, <1>9, ExactKept DEF IInv
  <1> QED
    BY <1>10, <1>11, <1>12, <1>13 DEF IInv

LEMMA ReportIInv ==
    ASSUME IInv, "report" \in Kinds, NEW p \in Places, NEW u \in Users, Report(p, u)
    PROVE  IInv'
  <1> DEFINE r == Written("report", p, u)
  <1>1. /\ AnyOf(r, rows) = {} /\ ~ Locked("report", "target", u)
        /\ Spend /\ Change({}, {r}) /\ MergeMisses(r)
        /\ slipped' = IF p \in gone THEN slipped \cup {<<"report", u>>} ELSE slipped
        /\ UNCHANGED <<cache, priors, gone, bucket, req, unsettled>>
    BY DEF Report
  <1>2. /\ r \in Row /\ r.kind = "report" /\ r.place = p /\ r.user = u
        /\ writes' \in 0 .. MaxWrites /\ writes' = writes + 1 /\ failures' = failures
    BY <1>1, WrittenTyped DEF IInv
  <1> HIDE DEF r
  <1>3. MergeAware({}, {r})
    BY <1>1, <1>2, MissesAware DEF IInv
  <1>4. NothingBegins /\ \A g \in Handlers : On(g, "commit")' => On(g, "commit") /\ req'[g] = req[g]
    BY <1>1 DEF NothingBegins, Open, On
  <1>5. TypeOK'
    <2>1. rows' \subseteq Row /\ OneRowPerKey' /\ given' \subseteq Kinds \X Users
      BY <1>1, <1>2, RowsTyped DEF IInv
    <2>2. merge' \in Merges
      BY <1>3 DEF MergeAware
    <2>3. slipped' \subseteq Kinds \X Users
      BY <1>1 DEF IInv, TypeOK
    <2> QED
      BY <1>1, <1>2, <2>1, <2>2, <2>3 DEF IInv, TypeOK
  <1>6. Progress' /\ OpenRows' /\ Moves' /\ Orphans' /\ Survives'
    <2>1. Merging => \A m \in merge.moved : ~ Clash(r, m)
      BY <1>1, <1>2 DEF IInv, Moves, Locked, MergeHolds, Clash
    <2>2. r.place \in gone => r.kind \in Pointers /\ <<r.kind, r.user>> \in slipped'
      BY <1>1, <1>2 DEF Pointers
    <2> QED
      BY <1>1, <1>2, <1>3, <1>4, <2>1, <2>2, Kept
  <1>7. Files'
    BY <1>1, <1>2, <1>4, FilesKept DEF IInv, TypeOK
  <1>8. Exact'
    BY <1>1, <1>2, <1>3, <1>4, ExactKept DEF IInv, Counted
  <1> QED
    BY <1>5, <1>6, <1>7, <1>8 DEF IInv

LEMMA ActionReportIInv == ASSUME IInv, NEW r \in rows, ActionReport(r) PROVE IInv'
  <1>1. /\ r.kind = "report" /\ ~ Repointed(r) /\ Change({r}, {})
        /\ UNCHANGED <<cache, priors, gone, bucket, req, merge, bounds, slipped, unsettled>>
    BY DEF ActionReport
  <1>2. MergeAware({r}, {})
    BY <1>1, UnseenAware DEF IInv, Counted
  <1>3. NothingBegins /\ \A g \in Handlers : On(g, "commit")' => On(g, "commit") /\ req'[g] = req[g]
    BY <1>1 DEF NothingBegins, Open, On
  <1>4. TypeOK'
    <2>1. rows' \subseteq Row /\ OneRowPerKey' /\ given' \subseteq Kinds \X Users
      BY <1>1 DEF Change, IInv, TypeOK, OneRowPerKey
    <2> QED
      BY <1>1, <2>1 DEF IInv, TypeOK, bounds
  <1>5. Progress' /\ OpenRows' /\ Moves' /\ Orphans' /\ Survives'
    BY <1>1, <1>2, <1>3, Kept DEF Repointed
  <1>6. Files'
    BY <1>1, <1>3, FilesKept DEF IInv, TypeOK, bounds
  <1>7. Exact'
    BY <1>1, <1>2, <1>3, ExactKept DEF IInv, Counted
  <1> QED
    BY <1>4, <1>5, <1>6, <1>7 DEF IInv

LEMMA RemoveImageIInv == ASSUME IInv, NEW r \in rows, RemoveImage(r) PROVE IInv'
  <1>1. /\ r.kind = "image" /\ ~ Repointed(r) /\ Change({r}, {})
        /\ bucket' \in {bucket, bucket \ {r.w}}
        /\ UNCHANGED <<cache, priors, gone, req, merge, bounds, slipped, unsettled>>
    BY DEF RemoveImage
  <1>2. MergeAware({r}, {})
    BY <1>1, UnseenAware DEF IInv, Counted
  <1>3. NothingBegins /\ \A g \in Handlers : On(g, "commit")' => On(g, "commit") /\ req'[g] = req[g]
    BY <1>1 DEF NothingBegins, Open, On
  <1>4. TypeOK'
    <2>1. rows' \subseteq Row /\ OneRowPerKey' /\ given' \subseteq Kinds \X Users
      BY <1>1 DEF Change, IInv, TypeOK, OneRowPerKey
    <2> QED
      BY <1>1, <2>1 DEF IInv, TypeOK, bounds
  <1>5. Progress' /\ OpenRows' /\ Moves' /\ Orphans' /\ Survives'
    BY <1>1, <1>2, <1>3, Kept DEF Repointed
  <1>6. Files'
    <2>1. rows' = rows \ {r} /\ writes' = writes /\ req' = req
      BY <1>1 DEF Change, bounds
    <2>2. \A s \in rows' : s.kind = "image" => s.w \in bucket'
      BY <1>1, <2>1 DEF IInv, Files, ImagesHaveFiles
    <2>3. \A h \in Handlers : On(h, "insert") => req[h].row.w \in bucket'
      BY <1>1 DEF IInv, Files
    <2> QED
      BY <2>1, <2>2, <2>3 DEF IInv, Files, ImagesHaveFiles, On
  <1>7. Exact'
    BY <1>1, <1>2, <1>3, ExactKept DEF IInv, Counted
  <1> QED
    BY <1>4, <1>5, <1>6, <1>7 DEF IInv

LEMMA PutImageIInv ==
    ASSUME IInv, "image" \in Kinds, NEW h \in Handlers, NEW p \in Places, NEW u \in Users,
           PutImage(h, p, u)
    PROVE  IInv'
  <1> DEFINE r == Written("image", p, u)
             q == [pc |-> "insert", row |-> r]
  <1>1. /\ On(h, "idle") /\ p \notin gone /\ Spend
        /\ bucket' = bucket \cup {writes + 1}
        /\ req' = [req EXCEPT ![h] = q]
        /\ UNCHANGED <<rows, cache, priors, gone, merge, given, slipped, unsettled>>
    BY DEF PutImage
  <1>2. /\ r \in Row /\ r.kind = "image" /\ r.place = p /\ r.user = u /\ r.w = writes + 1
        /\ writes' \in 0 .. MaxWrites /\ writes' = writes + 1 /\ failures' = failures
    BY <1>1, WrittenTyped DEF IInv
  <1> HIDE DEF r
  <1>3. /\ req' \in [Handlers -> Requests]
        /\ req'[h] = q /\ \A g \in Handlers \ {h} : req'[g] = req[g]
    <2>1. q \in Requests
      BY <1>2 DEF Requests
    <2> QED
      BY <1>1, <2>1, Answered DEF IInv
  <1>4. TypeOK'
    <2>1. writes + 1 \in 1 .. MaxWrites
      BY <1>2, RowFields
    <2> QED
      BY <1>1, <1>2, <1>3, <2>1 DEF IInv, TypeOK, OneRowPerKey
  <1>5. \A g \in Handlers : /\ Open(g)' => g # h /\ Open(g) /\ req'[g] = req[g]
                            /\ On(g, "commit")' => On(g, "commit") /\ req'[g] = req[g]
                            /\ On(g, "insert")' /\ g # h => On(g, "insert") /\ req'[g] = req[g]
    BY <1>3 DEF Open, On
  <1>6. Progress' /\ OpenRows' /\ Moves'
    <2>1. OpenRows'
      BY <1>1, <1>2, <1>3, <1>5 DEF IInv, OpenRows, Merging
    <2> QED
      BY <1>1, <1>5, <2>1 DEF IInv, Progress, Moves, Merging, Holds
  <1>7. Files'
    <2>1. \A x \in rows : x.kind = "image" => x.w \in Nat /\ x.w <= writes /\ x.w \in bucket'
      BY <1>1, RowFields DEF IInv, TypeOK, Files, ImagesHaveFiles
    <2>2. \A g \in Handlers : On(g, "insert") =>
            req[g].row.w \in Nat /\ req[g].row.w <= writes /\ req[g].row.w \in bucket'
      BY <1>1, ReqShapes, RowFields DEF IInv, Files, On
    <2>3. writes \in Nat
      BY DEF IInv, TypeOK
    <2>4. ImagesHaveFiles' /\ \A x \in rows' : x.kind = "image" => x.w <= writes'
      BY <1>1, <1>2, <2>1, <2>3 DEF ImagesHaveFiles
    <2>5. ASSUME NEW g \in Handlers, On(g, "insert")'
          PROVE  /\ req'[g].row.w \in bucket' /\ req'[g].row.w <= writes'
                 /\ \A x \in rows' : x.kind = "image" => x.w # req'[g].row.w
      <3>1. CASE g = h
        BY <1>1, <1>2, <1>3, <2>1, <2>3, <3>1
      <3>2. CASE g # h
        BY <1>1, <1>2, <1>5, <2>2, <2>3, <2>5, <3>2 DEF IInv, Files
      <3> QED
        BY <3>1, <3>2
    <2>6. ASSUME NEW f \in Handlers, NEW g \in Handlers, On(f, "insert")', On(g, "insert")',
                 req'[f].row.w = req'[g].row.w
          PROVE  f = g
      BY <1>2, <1>3, <1>5, <2>2, <2>3, <2>6 DEF IInv, Files
    <2> QED
      BY <1>1, <2>4, <2>5, <2>6 DEF IInv, Files
  <1>8. Orphans' /\ Survives'
    BY <1>1, <1>2, <1>3, <1>5
       DEF IInv, Orphans, NoOrphans, Survives, NothingLost, AtTargetToo, Merging
  <1>9. Exact'
    BY <1>1, <1>5, NothingChanges, ExactKept DEF IInv
  <1> QED
    BY <1>4, <1>6, <1>7, <1>8, <1>9 DEF IInv

LEMMA InsertImageIInv == ASSUME IInv, NEW h \in Handlers, InsertImage(h) PROVE IInv'
  <1>1. On(h, "insert")
    BY DEF InsertImage
  <1>2. PICK r \in Row : r = req[h].row /\ r.kind = "image"
    BY <1>1, ReqShapes DEF IInv, OpenRows, On
  <1>3. /\ Change({}, {r}) /\ req' = [req EXCEPT ![h] = Idle] /\ MergeMisses(r)
        /\ UNCHANGED <<cache, priors, gone, bucket, bounds, slipped, unsettled>>
    BY <1>2 DEF InsertImage
  <1>4. /\ req' \in [Handlers -> Requests]
        /\ req'[h] = Idle /\ \A g \in Handlers \ {h} : req'[g] = req[g]
    BY <1>3, IdleTyped, Answered DEF IInv
  <1>5. /\ NothingBegins
        /\ \A g \in Handlers : On(g, "commit")' => On(g, "commit") /\ req'[g] = req[g]
        /\ \A g \in Handlers : On(g, "insert")' => g # h
    BY <1>4, IdleTyped DEF NothingBegins, Open, On
  <1>6. MergeAware({}, {r})
    BY <1>3, MissesAware DEF IInv
  <1>7. TypeOK'
    <2>1. rows' \subseteq Row /\ OneRowPerKey' /\ given' \subseteq Kinds \X Users
      BY <1>2, <1>3, RowsTyped DEF IInv
    <2>2. merge' \in Merges
      BY <1>6 DEF MergeAware
    <2> QED
      BY <1>3, <1>4, <2>1, <2>2 DEF IInv, TypeOK, bounds
  <1>8. Progress' /\ OpenRows' /\ Moves' /\ Orphans' /\ Survives'
    <2>1. \A m : m.kind # "image" => ~ Clash(r, m)
      BY <1>2 DEF Clash
    <2>2. r.place \in gone => <<"image", r.user>> \in slipped
      BY <1>1, <1>2 DEF IInv, Orphans
    <2> QED
      BY <1>2, <1>3, <1>5, <1>6, <2>1, <2>2, Kept DEF Pointers
  <1>9. Files'
    <2>1. rows' = rows \cup {r}
      BY <1>3 DEF Change
    <2>2. /\ r.w \in bucket /\ r.w <= writes
          /\ \A x \in rows : x.kind = "image" => x.w # r.w
          /\ \A g \in Handlers : On(g, "insert") /\ g # h => req[g].row.w # r.w
      BY <1>1, <1>2 DEF IInv, Files
    <2>3. ImagesHaveFiles'
      BY <1>3, <2>1, <2>2 DEF IInv, Files, ImagesHaveFiles
    <2>4. \A g \in Handlers : On(g, "insert")' =>
            /\ req'[g].row.w \in bucket /\ req'[g].row.w <= writes
            /\ \A x \in rows' : x.kind = "image" => x.w # req'[g].row.w
      BY <1>5, <2>1, <2>2 DEF IInv, Files, NothingBegins
    <2>5. \A f, g \in Handlers :
            On(f, "insert")' /\ On(g, "insert")' /\ req'[f].row.w = req'[g].row.w => f = g
      BY <1>5 DEF IInv, Files, NothingBegins
    <2> QED
      BY <1>3, <2>1, <2>2, <2>3, <2>4, <2>5 DEF IInv, Files, bounds
  <1>10. Exact'
    BY <1>2, <1>3, <1>5, <1>6, ExactKept DEF IInv, Counted
  <1> QED
    BY <1>7, <1>8, <1>9, <1>10 DEF IInv

LEMMA ClassifyIInv == ASSUME IInv, NEW p \in Places, Classify(p) PROVE IInv'
  <1>1. /\ priors' = priors \cup {p}
        /\ Settle("vote", p, RowsOf("vote", p) = {} /\ <<"vote", p>> \notin unsettled)
        /\ UNCHANGED <<rows, cache, gone, bucket, req, merge, bounds, given, slipped>>
    BY DEF Classify
  <1>2. unsettled \subseteq unsettled' /\ unsettled' \subseteq unsettled \cup {<<"vote", p>>}
    BY <1>1 DEF Settle
  <1>3. TypeOK'
    BY <1>1, <1>2 DEF IInv, TypeOK, OneRowPerKey, bounds, Counted
  <1>4. NothingBegins
    BY <1>1 DEF NothingBegins, Open, On
  <1>5. Progress' /\ OpenRows' /\ Moves' /\ Orphans' /\ Survives'
    BY <1>1, <1>4, NothingChanges, Kept
  <1>6. Files'
    BY <1>1, <1>4, NothingChanges, FilesKept DEF IInv, bounds, TypeOK
  <1>7. Exact'
    BY <1>1, <1>2 DEF IInv, Exact, AggregatesExact, SeenAll, MergedAll, RowsOf, AnyOf, On, Merging
  <1> QED
    BY <1>3, <1>5, <1>6, <1>7 DEF IInv

-----------------------------------------------------------------------------
\* The merge

\* What the statements of a merge leave alone.
Outside == <<rows, cache, priors, gone, bucket, req, bounds, given, slipped, unsettled>>

LEMMA OutsideKept ==
    ASSUME IInv, UNCHANGED Outside, merge' \in Merges
    PROVE  /\ TypeOK' /\ Files' /\ NoOrphans' /\ NothingLost' /\ AggregatesExact'
           /\ \A h \in Handlers : On(h, "insert")' /\ req'[h].row.place \in gone' =>
                <<"image", req'[h].row.user>> \in slipped'
           /\ \A h \in Handlers : On(h, "commit")' /\ req'[h].counted /\ ~ req'[h].stale =>
                SeenAll(req[h])'
  <1>1. TypeOK'
    BY DEF IInv, Outside, TypeOK, OneRowPerKey, bounds
  <1>2. Files' /\ NoOrphans' /\ NothingLost' /\ AggregatesExact'
    BY DEF IInv, Outside, bounds, Files, ImagesHaveFiles, Orphans, NoOrphans, Survives,
           NothingLost, Exact, AggregatesExact, RowsOf, On
  <1>3. \A h \in Handlers : On(h, "commit")' /\ req'[h].counted /\ ~ req'[h].stale => SeenAll(req[h])'
    BY DEF IInv, Outside, Exact, SeenAll, RowsOf, AnyOf, On
  <1> QED
    BY <1>1, <1>2, <1>3 DEF IInv, Outside, Orphans, On

LEMMA MergeBeginIInv == ASSUME IInv, MergeBegin PROVE IInv'
  <1> DEFINE m == [pc |-> "moving", done |-> {}, deleted |-> {}, moved |-> {}, taken |-> {},
                   counted |-> {}, seen |-> {}, stale |-> {}, recounted |-> {}, behind |-> {}]
  <1>1. "source" \notin gone /\ merge' = m /\ UNCHANGED Outside
    BY DEF MergeBegin, Outside
  <1>2. m \in Merges
    BY DEF Merges
  <1>3. /\ merge'.done = {} /\ merge'.deleted = {} /\ merge'.moved = {} /\ merge'.taken = {}
        /\ merge'.counted = {} /\ merge'.seen = {} /\ merge'.stale = {}
        /\ merge'.recounted = {} /\ merge'.behind = {}
    BY <1>1
  <1> HIDE DEF m
  <1>4. Progress' /\ OpenRows' /\ Moves'
    BY <1>1, <1>3 DEF IInv, Progress, OpenRows, Moves, Outside, Open, On
  <1>5. Orphans' /\ Survives' /\ Exact'
    BY <1>1, <1>2, <1>3, OutsideKept DEF Orphans, Survives, Exact
  <1> QED
    BY <1>1, <1>2, <1>4, <1>5, OutsideKept DEF IInv

LEMMA MergeFailsIInv == ASSUME IInv, MergeFails PROVE IInv'
  <1>1. /\ failures' = failures + 1 /\ failures < MaxFailures /\ merge' = NoMerge
        /\ UNCHANGED <<rows, cache, priors, gone, bucket, req, writes, given, slipped, unsettled>>
    BY DEF MergeFails
  <1>2. ~ Merging'
    BY <1>1 DEF Merging, NoMerge
  <1>3. TypeOK'
    <2>1. failures' \in 0 .. MaxFailures
      BY <1>1, ConstantsAssumption DEF IInv, TypeOK
    <2> QED
      BY <1>1, <2>1 DEF IInv, TypeOK, OneRowPerKey, Merges
  <1>4. Progress' /\ OpenRows' /\ Moves'
    BY <1>1, <1>2 DEF IInv, Progress, OpenRows, Moves, Open, On
  <1>5. Files' /\ Orphans' /\ Survives'
    BY <1>1, <1>2 DEF IInv, Files, ImagesHaveFiles, Orphans, NoOrphans, Survives, NothingLost, On
  <1>6. Exact'
    BY <1>1, <1>2 DEF IInv, Exact, AggregatesExact, SeenAll, RowsOf, AnyOf, On
  <1> QED
    BY <1>3, <1>4, <1>5, <1>6 DEF IInv

\* A statement that goes through a table puts rows where they clash with nothing.
LEMMA TableMoved ==
    ASSUME IInv, Merging, UNCHANGED Outside, NEW k \in Kinds, k \notin merge.done,
           NEW D, D \subseteq RowsOf(k, "source"), NEW T, NEW new, new = {AtTarget(r) : r \in D},
           k \in Pointers => T = D /\ D = RowsOf(k, "source"),
           k \notin Pointers => T = {},
           merge' = [pc |-> "moving", done |-> merge.done \cup {k}, deleted |-> merge.deleted,
                     moved |-> merge.moved \cup new, taken |-> merge.taken \cup T,
                     counted |-> merge.counted, seen |-> merge.seen, stale |-> merge.stale,
                     recounted |-> merge.recounted, behind |-> merge.behind],
           \A r \in D : k # "image" =>
             AnyOf(AtTarget(r), rows) = {} /\ \A h \in Handlers : ~ Holds(h, k, "target", r.user),
           \A r \in RowsOf(k, "source") \ D : AnyOf(AtTarget(r), rows) # {}
    PROVE  IInv'
  <1>1. \A r \in D : r \in rows /\ r \in Row /\ r.kind = k /\ r.place = "source"
    BY DEF RowsOf, IInv, TypeOK
  <1>2. \A m \in new : /\ m \in Row /\ m.kind = k /\ m.place = "target"
                       /\ \E r \in D : m = AtTarget(r)
    BY <1>1, RowFields
  <1>3. \A m \in new : k # "image" => /\ \A r \in rows : ~ Clash(r, m)
                                      /\ \A h \in Handlers : ~ Holds(h, k, "target", m.user)
    <2>1. \A r \in D : k # "image" => \A s \in rows : ~ Clash(AtTarget(r), s)
      BY DEF AnyOf
    <2> QED
      BY <1>1, <2>1, RowFields DEF Clash
  <1>4. \A m, n \in new : k # "image" /\ Clash(m, n) => m = n
    <2> SUFFICES ASSUME NEW r \in D, NEW s \in D, k # "image", Clash(AtTarget(r), AtTarget(s))
                 PROVE  r = s
      OBVIOUS
    <2>1. Clash(r, s)
      BY <1>1, RowFields DEF Clash
    <2> QED
      BY <1>1, <2>1 DEF IInv, TypeOK, OneRowPerKey
  <1>5. merge' \in Merges
    <2>1. T \subseteq Row
      BY <1>1
    <2> QED
      BY <1>2, <2>1, MergeShape DEF IInv, Merges
  <1>6. /\ Merging' /\ merge'.done = merge.done \cup {k} /\ merge'.deleted = merge.deleted
        /\ merge'.moved = merge.moved \cup new /\ merge'.taken = merge.taken \cup T
        /\ merge'.counted = merge.counted /\ merge'.seen = merge.seen
        /\ merge'.stale = merge.stale /\ merge'.recounted = merge.recounted
        /\ merge'.behind = merge.behind
    BY DEF Merging
  <1>7. /\ rows' = rows /\ cache' = cache /\ gone' = gone /\ req' = req
        /\ given' = given /\ slipped' = slipped
    BY DEF Outside
  <1>8. Progress'
    BY <1>6, <1>7 DEF IInv, Progress
  <1>9. OpenRows'
    BY <1>6, <1>7 DEF IInv, OpenRows, Open, On
  <1>10. Moves'
    <2>1. \A t \in merge'.taken :
            t \in rows' /\ t.place = "source" /\ t.kind \in Pointers /\ AtTarget(t) \in merge'.moved
      BY <1>1, <1>6, <1>7 DEF IInv, Moves
    <2>2. ASSUME NEW m \in merge'.moved
          PROVE  /\ m.place = "target" /\ m.kind \in merge'.done
                 /\ m.kind = "image" => \E t \in merge'.taken : m = AtTarget(t)
      <3>1. CASE m \in new
        BY <1>2, <1>6, <3>1 DEF Pointers
      <3>2. CASE m \in merge.moved
        BY <1>6, <3>2 DEF IInv, Moves
      <3> QED
        BY <1>6, <3>1, <3>2
    <2>3. ASSUME NEW m \in merge'.moved, m.kind # "image"
          PROVE  /\ \A r \in rows' : ~ Clash(r, m)
                 /\ \A h \in Handlers : ~ Holds(h, m.kind, "target", m.user)'
                 /\ \A n \in merge'.moved : Clash(m, n) => m = n
      <3>1. \A h \in Handlers : ~ Holds(h, m.kind, "target", m.user)
        BY <1>2, <1>3, <1>6, <2>3 DEF IInv, Moves
      <3>2. \A h \in Handlers : ~ Holds(h, m.kind, "target", m.user)'
        BY <1>7, <3>1 DEF Holds, Open
      <3>3. \A r \in rows' : ~ Clash(r, m)
        BY <1>2, <1>3, <1>6, <1>7, <2>3 DEF IInv, Moves
      <3>4. ASSUME NEW n \in merge'.moved, Clash(m, n) PROVE m = n
        <4>1. m.kind = n.kind
          BY <3>4 DEF Clash
        <4>2. \A x \in merge.moved : x.kind # k
          BY DEF IInv, Moves
        <4>3. CASE m \in new
          BY <1>2, <1>4, <1>6, <2>3, <3>4, <4>1, <4>2, <4>3
        <4>4. CASE m \in merge.moved
          BY <1>2, <1>6, <2>3, <3>4, <4>1, <4>2, <4>4 DEF IInv, Moves
        <4> QED
          BY <1>6, <4>3, <4>4
      <3> QED
        BY <3>2, <3>3, <3>4
    <2> QED
      BY <2>1, <2>2, <2>3 DEF Moves
  <1>11. Orphans'
    <2>1. \A r \in rows' : r.place = "source" /\ r.kind \in merge'.done \cap Pointers =>
            r \in merge'.taken \/ <<r.kind, r.user>> \in merge'.behind
      BY <1>6, <1>7 DEF IInv, Orphans, RowsOf
    <2> QED
      BY <1>5, <2>1, OutsideKept DEF Orphans
  <1>12. Survives'
    <2>1. ASSUME NEW ku \in given' \ (slipped' \cup merge'.behind), ku[1] \in merge'.done \ Pointers
          PROVE  AtTargetToo(ku)'
      <3>1. CASE ku[1] = k
        <4>1. PICK r \in rows : r.kind = k /\ r.user = ku[2]
          BY <1>7, <2>1, <3>1 DEF IInv, Survives, NothingLost
        <4>2. r \in Row
          BY <4>1 DEF IInv, TypeOK
        <4>3. CASE r.place = "target"
          BY <1>7, <3>1, <4>1, <4>3 DEF AtTargetToo
        <4>4. CASE r \in D
          <5>1. AtTarget(r) \in merge'.moved
            BY <1>6, <4>4
          <5> QED
            BY <3>1, <4>1, <4>2, <5>1, RowFields DEF AtTargetToo
        <4>5. CASE r \notin D /\ r.place = "source"
          <5>1. PICK s \in rows : Clash(AtTarget(r), s)
            BY <4>1, <4>5 DEF AnyOf, RowsOf
          <5> QED
            BY <1>7, <3>1, <4>1, <4>2, <5>1, RowFields DEF AtTargetToo, Clash
        <4> QED
          BY <4>2, <4>3, <4>4, <4>5, RowFields DEF Places
      <3>2. CASE ku[1] # k
        <4>1. AtTargetToo(ku)
          BY <1>6, <1>7, <2>1, <3>2 DEF IInv, Survives
        <4> QED
          BY <1>6, <1>7, <4>1 DEF AtTargetToo
      <3> QED
        BY <3>1, <3>2
    <2> QED
      BY <1>5, <2>1, OutsideKept DEF Survives
  <1>13. Exact'
    <2>1. ASSUME NEW c \in merge'.counted \ merge'.stale PROVE MergedAll(c)'
      <3>1. MergedAll(c) /\ c # k
        BY <1>6, <2>1 DEF IInv, Exact, Progress
      <3>2. {m \in merge'.moved : m.kind = c} = {m \in merge.moved : m.kind = c}
        BY <1>2, <1>6, <3>1
      <3> QED
        BY <1>6, <1>7, <3>1, <3>2 DEF MergedAll, RowsOf
    <2> QED
      BY <1>5, <2>1, OutsideKept DEF Exact
  <1> QED
    BY <1>5, <1>8, <1>9, <1>10, <1>11, <1>12, <1>13, OutsideKept DEF IInv

LEMMA CopyIInv ==
    ASSUME IInv, NEW l \in Levels, NEW k \in Of(l), Copy(l, k)
    PROVE  IInv'
  <1> DEFINE found == {AtTarget(r) : r \in RowsOf(k, "source")}
             D == {r \in RowsOf(k, "source") : AnyOf(AtTarget(r), rows) = {}}
             new == {r \in found : AnyOf(r, rows) = {}}
             T == {r \in D : k \in Pointers}
  <1>1. /\ NextTable(l, k) /\ k \notin Pointers /\ UNCHANGED Outside
        /\ \A r \in found, h \in Handlers : ~ Holds(h, k, "target", r.user)
        /\ merge' = [merge EXCEPT !.done = @ \cup {k}, !.moved = @ \cup new]
    BY DEF Copy, Outside
  <1>2. Merging /\ k \in Kinds /\ k \notin merge.done
    BY <1>1, NextTableFresh, Tabled DEF NextTable, Turn
  <1>3. new = {AtTarget(r) : r \in D} /\ D \subseteq RowsOf(k, "source") /\ T = {}
    BY <1>1
  <1>4. \A r \in D : AnyOf(AtTarget(r), rows) = {} /\ \A h \in Handlers : ~ Holds(h, k, "target", r.user)
    BY <1>1, RowFields DEF RowsOf, IInv, TypeOK
  <1>5. \A r \in RowsOf(k, "source") \ D : AnyOf(AtTarget(r), rows) # {}
    OBVIOUS
  <1> HIDE DEF found, D, new, T
  <1>6. merge' = [pc |-> "moving", done |-> merge.done \cup {k}, deleted |-> merge.deleted,
                  moved |-> merge.moved \cup new, taken |-> merge.taken \cup T,
                  counted |-> merge.counted, seen |-> merge.seen, stale |-> merge.stale,
                  recounted |-> merge.recounted, behind |-> merge.behind]
    BY <1>1, <1>2, <1>3, MergeShape DEF IInv
  <1>7. /\ k \in Pointers => T = D /\ D = RowsOf(k, "source")
        /\ k \notin Pointers => T = {}
        /\ UNCHANGED Outside
    BY <1>1, <1>3
  <1>8. D \subseteq RowsOf(k, "source") /\ new = {AtTarget(r) : r \in D}
    BY <1>3
  <1> QED
    BY <1>2, <1>4, <1>5, <1>6, <1>7, <1>8, TableMoved

LEMMA RepointIInv ==
    ASSUME IInv, NEW l \in Levels, NEW k \in Of(l), Repoint(l, k)
    PROVE  IInv'
  <1> DEFINE D == RowsOf(k, "source")
             new == {AtTarget(r) : r \in D}
  <1>1. /\ NextTable(l, k) /\ k \in Pointers /\ UNCHANGED Outside
        /\ k = "report" => ~ ClashingReports
        /\ merge' = [merge EXCEPT !.done = @ \cup {k}, !.taken = @ \cup D, !.moved = @ \cup new]
    BY DEF Repoint, Outside
  <1>2. Merging /\ k \in Kinds /\ k \notin merge.done
    BY <1>1, NextTableFresh, Tabled DEF NextTable, Turn
  <1>3. \A r \in D : k # "image" =>
          AnyOf(AtTarget(r), rows) = {} /\ \A h \in Handlers : ~ Holds(h, k, "target", r.user)
    <2> SUFFICES ASSUME NEW r \in D, k = "report"
                 PROVE  /\ AnyOf(AtTarget(r), rows) = {}
                        /\ \A h \in Handlers : ~ Holds(h, k, "target", r.user)
      BY <1>1 DEF Pointers
    <2>1. r \in rows /\ r \in Row /\ r.kind = "report" /\ r.place = "source"
      BY DEF RowsOf, IInv, TypeOK
    <2>2. \A s \in rows : ~ Clash(AtTarget(r), s)
      BY <1>1, <2>1, RowFields DEF ClashingReports, Clash
    <2>3. \A h \in Handlers : ~ Holds(h, k, "target", r.user)
      BY DEF Holds, IInv, OpenRows, Counted
    <2> QED
      BY <2>2, <2>3 DEF AnyOf
  <1> HIDE DEF D
  <1>4. new = {AtTarget(r) : r \in D}
    OBVIOUS
  <1> HIDE DEF new
  <1>5. merge' = [pc |-> "moving", done |-> merge.done \cup {k}, deleted |-> merge.deleted,
                  moved |-> merge.moved \cup new, taken |-> merge.taken \cup D,
                  counted |-> merge.counted, seen |-> merge.seen, stale |-> merge.stale,
                  recounted |-> merge.recounted, behind |-> merge.behind]
    BY <1>1, <1>2, MergeShape DEF IInv
  <1>6. D = RowsOf(k, "source")
    BY DEF D
  <1> QED
    BY <1>1, <1>2, <1>3, <1>4, <1>5, <1>6, TableMoved

LEMMA DeleteSourceIInv == ASSUME IInv, NEW l \in Levels, DeleteSource(l) PROVE IInv'
  <1>1. /\ Merging /\ Of(l) \subseteq merge.done /\ UNCHANGED Outside
        /\ \A h \in Handlers :
             ~ (Open(h) /\ req[h].row.kind \in Of(l) /\ req[h].row.place = "source")
        /\ merge' = [merge EXCEPT !.deleted = @ \cup {l}]
    BY DEF DeleteSource, Turn, Outside
  <1>2. merge' = [pc |-> "moving", done |-> merge.done, deleted |-> merge.deleted \cup {l},
                  moved |-> merge.moved, taken |-> merge.taken,
                  counted |-> merge.counted, seen |-> merge.seen, stale |-> merge.stale,
                  recounted |-> merge.recounted, behind |-> merge.behind]
    BY <1>1, MergeShape DEF IInv
  <1>3. /\ Merging' /\ merge'.done = merge.done /\ merge'.deleted = merge.deleted \cup {l}
        /\ merge'.moved = merge.moved /\ merge'.taken = merge.taken
        /\ merge'.counted = merge.counted /\ merge'.seen = merge.seen
        /\ merge'.stale = merge.stale /\ merge'.recounted = merge.recounted
        /\ merge'.behind = merge.behind
    BY <1>2 DEF Merging
  <1>4. merge' \in Merges
    BY <1>1, <1>2, MergeShape DEF IInv, Merges
  <1>5. /\ rows' = rows /\ cache' = cache /\ gone' = gone /\ req' = req
        /\ given' = given /\ slipped' = slipped
    BY <1>1 DEF Outside
  <1>6. Progress' /\ OpenRows'
    BY <1>1, <1>3, <1>5 DEF IInv, Progress, OpenRows, Open, On
  <1>7. Moves'
    BY <1>1, <1>3, <1>5 DEF IInv, Moves, Holds, Open
  <1>8. Orphans' /\ Survives' /\ Exact'
    <2>1. /\ \A r \in rows' : r.place = "source" /\ r.kind \in merge'.done \cap Pointers =>
               r \in merge'.taken \/ <<r.kind, r.user>> \in merge'.behind
          /\ \A ku \in given' \ (slipped' \cup merge'.behind) :
               ku[1] \in merge'.done \ Pointers => AtTargetToo(ku)'
          /\ \A c \in merge'.counted \ merge'.stale : MergedAll(c)'
      BY <1>1, <1>3, <1>5 DEF IInv, Orphans, Survives, Exact, AtTargetToo, MergedAll, RowsOf
    <2> QED
      BY <1>1, <1>4, <2>1, OutsideKept DEF Orphans, Survives, Exact
  <1> QED
    BY <1>1, <1>4, <1>6, <1>7, <1>8, OutsideKept DEF IInv

LEMMA RecountTargetIInv == ASSUME IInv, NEW l \in Levels, RecountTarget(l) PROVE IInv'
  <1> DEFINE ks == {k \in Of(l) \cap Counted : k = "vote" => "target" \in priors}
             own == UNION {RowsOf(k, "target") : k \in ks}
             got == {r \in merge.moved : r.kind \in ks}
  <1>1. /\ Merging /\ l \in merge.deleted \ merge.recounted /\ UNCHANGED Outside
        /\ merge' = [merge EXCEPT !.recounted = @ \cup {l}, !.counted = @ \cup ks,
                                  !.seen = @ \cup got \cup own]
    BY DEF RecountTarget, Turn, Outside
  <1>2. /\ ks \subseteq Of(l) /\ ks \subseteq Counted
        /\ (Of(l) \cap Counted) \ {"vote"} \subseteq ks
    OBVIOUS
  <1>3. \A r \in own : r \in Row /\ r.kind \in ks /\ r.place = "target" /\ r \in rows
    BY DEF RowsOf, IInv, TypeOK
  <1>4. \A r \in rows : r.kind \in ks /\ r.place = "target" => r \in own
    BY DEF RowsOf
  <1>5. \A r \in got : r \in Row /\ r.kind \in ks /\ r \in merge.moved
    BY <1>1, MergeShape DEF IInv
  <1>6. \A r \in merge.moved : r.kind \in ks => r \in got
    OBVIOUS
  <1> HIDE DEF ks, own, got
  <1>7. merge' = [pc |-> "moving", done |-> merge.done, deleted |-> merge.deleted,
                  moved |-> merge.moved, taken |-> merge.taken,
                  counted |-> merge.counted \cup ks, seen |-> merge.seen \cup got \cup own,
                  stale |-> merge.stale, recounted |-> merge.recounted \cup {l},
                  behind |-> merge.behind]
    BY <1>1, MergeShape DEF IInv
  <1>8. /\ Merging' /\ merge'.done = merge.done /\ merge'.deleted = merge.deleted
        /\ merge'.moved = merge.moved /\ merge'.taken = merge.taken
        /\ merge'.counted = merge.counted \cup ks /\ merge'.seen = merge.seen \cup got \cup own
        /\ merge'.stale = merge.stale /\ merge'.recounted = merge.recounted \cup {l}
        /\ merge'.behind = merge.behind
    BY <1>7 DEF Merging
  <1>9. merge' \in Merges
    BY <1>1, <1>2, <1>3, <1>5, <1>7, MergeShape DEF IInv, Merges
  <1>10. /\ rows' = rows /\ cache' = cache /\ gone' = gone /\ req' = req
         /\ given' = given /\ slipped' = slipped
    BY <1>1 DEF Outside
  <1>11. Progress'
    <2>1. merge'.counted \subseteq merge'.done
      BY <1>1, <1>2, <1>8 DEF IInv, Progress
    <2>2. \A r \in merge'.seen : r.kind \in merge'.counted
      BY <1>1, <1>3, <1>5, <1>8 DEF IInv, Progress
    <2>3. merge'.counted \subseteq UNION {Of(x) : x \in merge'.recounted}
      BY <1>1, <1>2, <1>8 DEF IInv, Progress
    <2> QED
      BY <1>1, <1>2, <1>8, <1>10, <2>1, <2>2, <2>3 DEF IInv, Progress
  <1>12. OpenRows' /\ Moves'
    BY <1>1, <1>8, <1>10 DEF IInv, OpenRows, Moves, Holds, Open, On
  <1>13. Orphans' /\ Survives'
    <2>1. /\ \A r \in rows' : r.place = "source" /\ r.kind \in merge'.done \cap Pointers =>
               r \in merge'.taken \/ <<r.kind, r.user>> \in merge'.behind
          /\ \A ku \in given' \ (slipped' \cup merge'.behind) :
               ku[1] \in merge'.done \ Pointers => AtTargetToo(ku)'
      BY <1>1, <1>8, <1>10 DEF IInv, Orphans, Survives, AtTargetToo
    <2> QED
      BY <1>1, <1>9, <2>1, OutsideKept DEF Orphans, Survives
  <1>14. Exact'
    <2>1. ks \cap merge.counted = {}
      <3>1. \A c \in merge.counted : \E x \in merge.recounted : c \in Of(x)
        BY <1>1 DEF IInv, Progress
      <3>2. \A x \in merge.recounted : x \in Levels /\ x # l
        BY <1>1, MergeShape DEF IInv
      <3> QED
        BY <1>2, <3>1, <3>2, Tabled DEF Levels
    <2>2. ASSUME NEW c \in merge'.counted \ merge'.stale PROVE MergedAll(c)'
      <3>1. CASE c \in ks
        <4>1. \A r \in merge.seen : r.kind # c
          BY <1>1, <2>1, <3>1 DEF IInv, Progress
        <4>2. {r \in merge'.seen : r.kind = c} = RowsOf(c, "target") \cup {m \in merge.moved : m.kind = c}
          BY <1>3, <1>4, <1>5, <1>6, <1>8, <3>1, <4>1 DEF RowsOf
        <4> QED
          BY <1>8, <1>10, <4>2 DEF MergedAll, RowsOf
      <3>2. CASE c \notin ks
        <4>1. MergedAll(c)
          BY <1>1, <1>8, <2>2, <3>2 DEF IInv, Exact
        <4>2. {r \in merge'.seen : r.kind = c} = {r \in merge.seen : r.kind = c}
          BY <1>3, <1>5, <1>8, <3>2
        <4> QED
          BY <1>8, <1>10, <4>1, <4>2 DEF MergedAll, RowsOf
      <3> QED
        BY <3>1, <3>2
    <2> QED
      BY <1>1, <1>9, <2>2, OutsideKept DEF Exact
  <1> QED
    BY <1>1, <1>9, <1>11, <1>12, <1>13, <1>14, OutsideKept DEF IInv

\* When a merge commits, every table is done and nobody writes to the source any more.
LEMMA AllDone ==
    ASSUME IInv, Merging, merge.recounted = Levels
    PROVE  /\ Kinds \subseteq merge.done
           /\ \A h \in Handlers : Open(h) => req[h].row.place = "target"
           /\ \A k \in Counted \cap Kinds : k \notin merge.counted => k = "vote"
  <1>1. merge.deleted = Levels
    BY MergeShape DEF IInv, Progress
  <1>2. Kinds \subseteq merge.done
    BY <1>1, Tabled DEF IInv, Progress
  <1>3. ASSUME NEW h \in Handlers, Open(h) PROVE req[h].row.place = "target"
    <2>1. req[h].row \in Row
      BY <1>3, ReqShapes DEF IInv, Open, On
    <2>2. req[h].row.place # "source"
      BY <1>1, <1>3, <2>1, RowFields, Tabled DEF IInv, OpenRows
    <2> QED
      BY <2>1, <2>2, RowFields DEF Places
  <1>4. \A k \in Counted \cap Kinds : k \notin merge.counted => k = "vote"
    BY Tabled DEF IInv, Progress
  <1> QED
    BY <1>2, <1>3, <1>4

\* What the commit of a merge makes of the rows.
LEMMA CommittedRows ==
    ASSUME IInv, Merging,
           rows' = {r \in rows \ merge.taken : r.place = "source" => r.kind \in Pointers}
                   \cup merge.moved
    PROVE  /\ \A r \in rows : r.place = "target" => r \in rows'
           /\ \A m \in merge.moved : m \in rows'
           /\ \A r \in rows' : \/ r \in merge.moved
                               \/ /\ r \in rows /\ r \notin merge.taken
                                  /\ r.place = "source" => r.kind \in Pointers
           /\ \A r \in rows : r.kind \in Pointers => r \in rows' \/ AtTarget(r) \in rows'
           /\ \A k : RowsOf(k, "target")' =
                     RowsOf(k, "target") \cup {m \in merge.moved : m.kind = k}
  <1>1. /\ \A t \in merge.taken : t.place = "source" /\ AtTarget(t) \in merge.moved
        /\ \A m \in merge.moved : m.place = "target"
    BY DEF IInv, Moves
  <1>2. \A r \in rows : r.place = "target" => r \in rows'
    BY <1>1
  <1>3. \A k : RowsOf(k, "target")' = RowsOf(k, "target") \cup {m \in merge.moved : m.kind = k}
    BY <1>1, <1>2 DEF RowsOf
  <1> QED
    BY <1>1, <1>2, <1>3

LEMMA MergeCommitIInv == ASSUME IInv, MergeCommit PROVE IInv'
  <1>1. /\ Merging /\ merge.recounted = Levels
        /\ rows' = {r \in rows \ merge.taken : r.place = "source" => r.kind \in Pointers}
                   \cup merge.moved
        /\ cache' = [kp \in DOMAIN cache |->
                       IF kp[2] = "source" THEN {}
                       ELSE IF kp[1] \in merge.counted THEN {r \in merge.seen : r.kind = kp[1]}
                       ELSE cache[kp]]
        /\ gone' = {"source"} /\ priors' = priors \ {"source"}
        /\ merge' = NoMerge
        /\ UNCHANGED <<bucket, bounds, given>>
    BY DEF MergeCommit
  <1>2. unsettled' = {kp \in unsettled : kp[2] = "target" /\ kp[1] \notin merge.counted}
                     \cup {<<k, "target">> : k \in merge.stale}
                     \cup {<<k, "target">> : k \in {k \in {"vote"} \ merge.counted : Merged(k)}}
    BY DEF MergeCommit
  <1>3. slipped' = slipped \cup merge.behind
                   \cup {<<"image", u>> : u \in {v \in Users : \E h \in Handlers :
                           On(h, "insert") /\ req[h].row.place = "source" /\ req[h].row.user = v}}
    BY DEF MergeCommit
  <1>4. req' = [h \in Handlers |->
                  IF On(h, "commit") /\ req[h].row.place = "target" /\ Merged(req[h].row.kind)
                  THEN [req[h] EXCEPT !.stale = TRUE] ELSE req[h]]
    BY DEF MergeCommit
  <1>5. ~ Merging'
    BY <1>1 DEF Merging, NoMerge
  <1>6. /\ req' \in [Handlers -> Requests]
        /\ \A h \in Handlers :
             /\ req'[h].pc = req[h].pc
             /\ ~ On(h, "commit") => req'[h] = req[h]
             /\ On(h, "commit") => req'[h].row = req[h].row
             /\ On(h, "commit") /\ ~ req'[h].stale =>
                  req'[h] = req[h] /\ ~ (req[h].row.place = "target" /\ Merged(req[h].row.kind))
    <2>1. ASSUME NEW h \in Handlers, On(h, "commit")
          PROVE  /\ [req[h] EXCEPT !.stale = TRUE] \in Requests
                 /\ [req[h] EXCEPT !.stale = TRUE].pc = "commit"
                 /\ [req[h] EXCEPT !.stale = TRUE].row = req[h].row
                 /\ [req[h] EXCEPT !.stale = TRUE].stale = TRUE
      <3>1. req[h] \in [pc : {"commit"}, row : Row, counted : BOOLEAN, seen : SUBSET Row, stale : BOOLEAN]
        BY <2>1, ReqShapes DEF IInv
      <3> QED
        BY <3>1 DEF Requests
    <2>2. \A h \in Handlers : req[h] \in Requests
      BY ReqShapes DEF IInv
    <2> QED
      BY <1>4, <2>1, <2>2 DEF On
  <1>7. /\ \A r \in rows : r.place = "target" => r \in rows'
        /\ \A m \in merge.moved : m \in rows'
        /\ \A r \in rows' : \/ r \in merge.moved
                            \/ /\ r \in rows /\ r \notin merge.taken
                               /\ r.place = "source" => r.kind \in Pointers
        /\ \A r \in rows : r.kind \in Pointers => r \in rows' \/ AtTarget(r) \in rows'
        /\ \A k : RowsOf(k, "target")' =
                  RowsOf(k, "target") \cup {m \in merge.moved : m.kind = k}
    BY <1>1, CommittedRows
  <1>8. /\ Kinds \subseteq merge.done
        /\ \A h \in Handlers : Open(h) => req[h].row.place = "target"
        /\ \A k \in Counted \cap Kinds : k \notin merge.counted => k = "vote"
    BY <1>1, AllDone
  <1>9. \A m \in merge.moved : /\ m \in Row /\ m.place = "target"
                               /\ m.kind = "image" => \E t \in merge.taken : m = AtTarget(t)
    BY <1>1, MergeShape DEF IInv, Moves
  <1>10. TypeOK'
    <2>1. rows' \subseteq Row
      BY <1>7, <1>9 DEF IInv, TypeOK
    <2>2. OneRowPerKey'
      <3> SUFFICES ASSUME NEW r \in rows', NEW s \in rows', Clash(r, s), r.kind # "image"
                   PROVE  r = s
        BY DEF OneRowPerKey
      <3>1. Clash(s, r) /\ s.kind # "image"
        BY DEF Clash
      <3>2. CASE r \in merge.moved
        BY <1>1, <1>7, <3>1, <3>2 DEF IInv, Moves
      <3>3. CASE s \in merge.moved
        BY <1>1, <1>7, <3>1, <3>3 DEF IInv, Moves
      <3>4. CASE r \in rows /\ s \in rows
        BY <3>4 DEF IInv, TypeOK, OneRowPerKey
      <3> QED
        BY <1>7, <3>2, <3>3, <3>4
    <2>3. cache' \in [Counted \X Places -> SUBSET Row]
      <3>1. merge.seen \subseteq Row
        BY <1>1, MergeShape DEF IInv
      <3> QED
        BY <1>1, <3>1 DEF IInv, TypeOK
    <2>4. unsettled' \subseteq Counted \X Places
      <3>1. merge.stale \subseteq Counted
        BY <1>1, MergeShape DEF IInv
      <3> QED
        BY <1>2, <3>1 DEF IInv, TypeOK, Counted, Places
    <2>5. slipped' \subseteq Kinds \X Users
      <3>1. merge.behind \subseteq Kinds \X Users
        BY <1>1, MergeShape DEF IInv
      <3>2. \A h \in Handlers : On(h, "insert") => "image" \in Kinds
        BY ReqShapes, RowFields DEF IInv, OpenRows, On
      <3> QED
        BY <1>3, <3>1, <3>2 DEF IInv, TypeOK
    <2> QED
      BY <1>1, <1>6, <2>1, <2>2, <2>3, <2>4, <2>5 DEF IInv, TypeOK, Merges, bounds
  <1>11. OpenRows'
    BY <1>1, <1>5, <1>6, <1>8 DEF IInv, OpenRows, Open, On
  <1>12. Files'
    <2>1. \A r \in rows' : r.kind = "image" =>
            \E t \in rows : /\ t.kind = "image" /\ t.w = r.w /\ t \in Row
                            /\ \/ r = t /\ t \notin merge.taken
                               \/ r = AtTarget(t) /\ t \in merge.taken
      <3> SUFFICES ASSUME NEW r \in rows', r.kind = "image"
                   PROVE  \E t \in rows : /\ t.kind = "image" /\ t.w = r.w /\ t \in Row
                                          /\ \/ r = t /\ t \notin merge.taken
                                             \/ r = AtTarget(t) /\ t \in merge.taken
        OBVIOUS
      <3>1. CASE r \in merge.moved
        <4>1. PICK t \in merge.taken : r = AtTarget(t)
          BY <1>9, <3>1
        <4>2. t \in rows /\ t \in Row
          BY <1>1 DEF IInv, TypeOK, Moves
        <4> QED
          BY <4>1, <4>2, RowFields
      <3>2. CASE r \notin merge.moved
        BY <1>7, <3>2 DEF IInv, TypeOK
      <3> QED
        BY <3>1, <3>2
    <2>2. \A r, s \in rows' : r.kind = "image" /\ s.kind = "image" /\ r.w = s.w => r = s
      BY <2>1 DEF IInv, Files
    <2>3. \A r \in rows' : r.kind = "image" => r.w \in bucket' /\ r.w <= writes'
      BY <1>1, <2>1 DEF IInv, Files, ImagesHaveFiles, bounds
    <2>4. \A h \in Handlers : On(h, "insert")' =>
            /\ req'[h].row.w \in bucket' /\ req'[h].row.w <= writes'
            /\ \A r \in rows' : r.kind = "image" => r.w # req'[h].row.w
      BY <1>1, <1>6, <2>1 DEF IInv, Files, bounds, On
    <2>5. \A g, h \in Handlers :
            On(g, "insert")' /\ On(h, "insert")' /\ req'[g].row.w = req'[h].row.w => g = h
      BY <1>6 DEF IInv, Files, On
    <2> QED
      BY <2>2, <2>3, <2>4, <2>5 DEF Files, ImagesHaveFiles
  <1>13. Orphans'
    <2>1. NoOrphans'
      <3> SUFFICES ASSUME NEW r \in rows', r.place = "source"
                   PROVE  r.kind \in Pointers /\ <<r.kind, r.user>> \in slipped'
        BY <1>1 DEF NoOrphans
      <3>1. r \in rows /\ r \notin merge.taken /\ r.kind \in Pointers
        BY <1>7, <1>9
      <3>2. r.kind \in merge.done
        BY <1>8, <3>1, RowFields DEF IInv, TypeOK
      <3> QED
        BY <1>1, <1>3, <3>1, <3>2 DEF IInv, Orphans
    <2>2. \A h \in Handlers : On(h, "insert")' /\ req'[h].row.place \in gone' =>
            <<"image", req'[h].row.user>> \in slipped'
      <3>1. \A h \in Handlers : On(h, "insert") => req[h].row.user \in Users
        BY ReqShapes, RowFields DEF IInv, On
      <3> QED
        BY <1>1, <1>3, <1>6, <3>1 DEF On
    <2> QED
      BY <1>5, <2>1, <2>2 DEF Orphans
  <1>14. Survives'
    <2>1. ASSUME NEW ku \in given' \ slipped'
          PROVE  \E r \in rows' : r.kind = ku[1] /\ r.user = ku[2]
      <3>1. ku \in given \ (slipped \cup merge.behind) /\ ku[1] \in Kinds
        BY <1>1, <1>3, <2>1 DEF IInv, TypeOK
      <3>2. CASE ku[1] \in Pointers
        <4>1. PICK r \in rows : r.kind = ku[1] /\ r.user = ku[2]
          BY <3>1 DEF IInv, Survives, NothingLost
        <4>2. AtTarget(r).kind = r.kind /\ AtTarget(r).user = r.user
          BY RowFields DEF IInv, TypeOK
        <4> QED
          BY <1>7, <3>2, <4>1, <4>2
      <3>3. CASE ku[1] \notin Pointers
        <4>1. AtTargetToo(ku)
          BY <1>1, <1>8, <3>1, <3>3 DEF IInv, Survives
        <4> QED
          BY <1>7, <4>1 DEF AtTargetToo
      <3> QED
        BY <3>2, <3>3
    <2> QED
      BY <1>5, <2>1 DEF Survives, NothingLost
  <1>15. Exact'
    <2>1. \A k \in Counted : k \notin merge.counted /\ Merged(k) => k = "vote"
      BY <1>8, <1>9, RowFields DEF Merged
    <2>2. AggregatesExact'
      <3> SUFFICES ASSUME NEW k \in Counted, NEW p \in Places \ gone', <<k, p>> \notin unsettled'
                   PROVE  cache'[<<k, p>>] = RowsOf(k, p)'
        BY DEF AggregatesExact
      <3>1. p = "target" /\ <<k, p>> \in DOMAIN cache /\ p \notin gone
        BY <1>1 DEF Places, IInv, TypeOK
      <3>2. CASE k \in merge.counted
        <4>1. k \notin merge.stale
          BY <1>2, <3>1
        <4>2. {r \in merge.seen : r.kind = k} =
              RowsOf(k, "target") \cup {m \in merge.moved : m.kind = k}
          BY <1>1, <3>2, <4>1 DEF IInv, Exact, MergedAll
        <4>3. cache'[<<k, p>>] = {r \in merge.seen : r.kind = k}
          BY <1>1, <3>1, <3>2
        <4> QED
          BY <1>7, <3>1, <4>2, <4>3
      <3>3. CASE k \notin merge.counted
        <4>1. ~ Merged(k) /\ <<k, p>> \notin unsettled
          BY <1>2, <2>1, <3>1, <3>3
        <4>2. cache'[<<k, p>>] = cache[<<k, p>>]
          BY <1>1, <3>1, <3>3
        <4>3. cache[<<k, p>>] = RowsOf(k, p)
          BY <3>1, <4>1 DEF IInv, Exact, AggregatesExact
        <4>4. RowsOf(k, "target")' = RowsOf(k, "target")
          BY <1>7, <4>1 DEF Merged
        <4> QED
          BY <3>1, <4>2, <4>3, <4>4
      <3> QED
        BY <3>2, <3>3
    <2>3. ASSUME NEW h \in Handlers, On(h, "commit")', req'[h].counted, ~ req'[h].stale
          PROVE  SeenAll(req[h])'
      <3>1. On(h, "commit") /\ Open(h)
        BY <1>6, <2>3 DEF On, Open
      <3>2. /\ On(h, "commit") /\ req'[h] = req[h]
            /\ req[h].row.place = "target" /\ ~ Merged(req[h].row.kind)
        BY <1>6, <1>8, <2>3, <3>1
      <3>3. SeenAll(req[h])
        BY <2>3, <3>2 DEF IInv, Exact
      <3>4. PICK r : r = req[h].row
        OBVIOUS
      <3>5. RowsOf(r.kind, "target")' = RowsOf(r.kind, "target")
        BY <1>7, <3>2, <3>4 DEF Merged, RowsOf
      <3>6. AnyOf(r, rows)' = AnyOf(r, rows)
        BY <3>2, <3>4, <3>5 DEF RowsOf, AnyOf, Clash
      <3> QED
        BY <3>2, <3>3, <3>4, <3>5, <3>6 DEF SeenAll
    <2> QED
      BY <1>5, <2>2, <2>3 DEF Exact
  <1> QED
    BY <1>5, <1>10, <1>11, <1>12, <1>13, <1>14, <1>15 DEF IInv, Progress, Moves

-----------------------------------------------------------------------------
LEMMA StutterIInv == ASSUME IInv, UNCHANGED vars PROVE IInv'
  <1>1. UNCHANGED Outside /\ merge' = merge /\ merge' \in Merges
    BY DEF vars, Outside, IInv, TypeOK
  <1>2. NothingBegins
    BY <1>1 DEF Outside, NothingBegins, Open, On
  <1>3. Progress' /\ OpenRows' /\ Moves' /\ Orphans' /\ Survives'
    BY <1>1, <1>2, NothingChanges, Kept DEF Outside
  <1>4. Exact'
    BY <1>1, NothingChanges, ExactKept DEF Outside, IInv, On
  <1> QED
    BY <1>1, <1>3, <1>4, OutsideKept DEF IInv

LEMMA NextIInv == ASSUME IInv, [Next]_vars PROVE IInv'
  <1>1. ASSUME NEW h \in Handlers, NEW p \in Places, NEW u \in Users, "image" \in Kinds,
               PutImage(h, p, u)
        PROVE  IInv'
    BY <1>1, PutImageIInv
  <1>2. ASSUME NEW h \in Handlers, NEW p \in Places, NEW u \in Users, NEW k \in Kinds,
               Write(h, k, p, u)
        PROVE  IInv'
    BY <1>2, WriteIInv
  <1>3. ASSUME NEW h \in Handlers,
               Recount(h) \/ Commit(h) \/ Clear(h) \/ Drop(h) \/ InsertImage(h)
        PROVE  IInv'
    BY <1>3, RecountIInv, CommitIInv, ClearIInv, DropIInv, InsertImageIInv
  <1>4. ASSUME NEW p \in Places, NEW u \in Users, "report" \in Kinds, Report(p, u)
        PROVE  IInv'
    BY <1>4, ReportIInv
  <1>5. ASSUME NEW p \in Places, NEW u \in Users, NEW k \in Kinds, Upload(k, p, u) \/ Toggle(k, p, u)
        PROVE  IInv'
    BY <1>5, UploadIInv, ToggleIInv
  <1>6. ASSUME NEW p \in Places, Classify(p) PROVE IInv'
    BY <1>6, ClassifyIInv
  <1>7. ASSUME NEW r \in rows, ActionReport(r) \/ RemoveImage(r) PROVE IInv'
    BY <1>7, ActionReportIInv, RemoveImageIInv
  <1>8. ASSUME Merge PROVE IInv'
    BY <1>8, MergeBeginIInv, CopyIInv, RepointIInv, DeleteSourceIInv, RecountTargetIInv,
       MergeCommitIInv, MergeFailsIInv DEF Merge
  <1> QED
    BY <1>1, <1>2, <1>3, <1>4, <1>5, <1>6, <1>7, <1>8, StutterIInv DEF Next

\* The invariant that all the others follow from: what a merge in progress has taken,
\* will put and has counted, against what requests write meanwhile (merge_restaurant
\* beside upsert_reaction, upload_full, create_report, upload_image).
THEOREM Invariant == Spec => []IInv
  <1> QED
    BY InitIInv, NextIInv, PTL DEF Spec

\* One row per user and key, whatever is written, merged or rolled back, as the UNIQUE
\* constraints of the tables have it.
THEOREM TypeCorrect == Spec => []TypeOK
  <1>1. IInv => TypeOK
    BY DEF IInv
  <1> QED
    BY <1>1, Invariant, PTL

\* The cached aggregates of a place that exists are computed from exactly its rows, but
\* for recounts that overlapped another commit and rows that nothing recounts
\* (recompute_dish_aggregates, upsert_rating, merge_restaurant).
THEOREM Aggregates == Spec => []AggregatesExact
  <1>1. IInv => AggregatesExact
    BY DEF IInv, Exact
  <1> QED
    BY <1>1, Invariant, PTL

\* merge_restaurant loses nothing that was committed before it came to its table.
THEOREM MergeKeepsRows == Spec => []NothingLost
  <1>1. IInv => NothingLost
    BY DEF IInv, Survives
  <1> QED
    BY <1>1, Invariant, PTL

\* After merge_restaurant nothing points to what is gone, but for reports and images
\* that were on their way.
THEOREM MergeLeavesNoOrphans == Spec => []NoOrphans
  <1>1. IInv => NoOrphans
    BY DEF IInv, Orphans
  <1> QED
    BY <1>1, Invariant, PTL

\* Every listed image has its file (upload_image, admin_remove_image).
THEOREM ListedImagesHaveFiles == Spec => []ImagesHaveFiles
  <1>1. IInv => ImagesHaveFiles
    BY DEF IInv, Files
  <1> QED
    BY <1>1, Invariant, PTL

-----------------------------------------------------------------------------
(* TasteVector *)

New(h) == call[h].pc \in {"priors", "vector"} /\ call[h].new

\* The count is made of first reactions and of a bootstrap.
CountExact == count = Cardinality(counted) + items

\* A request that carries a first reaction is the only one for its dish, which is not
\* counted yet.
OneFirst ==
    /\ \A h \in Calls : New(h) => call[h].dish \in reacted \ counted
    /\ \A h, g \in Calls : New(h) /\ New(g) /\ call[h].dish = call[g].dish => h = g

\* Unless spoiled, one bootstrap runs at a time and there was none before.
OneBootstrap ==
    ~ spoiled =>
        /\ items <= MaxItems
        /\ \A h \in Calls : Bootstrapping(h) =>
             /\ ~ bootstrapped
             /\ items + call[h].left <= MaxItems
             /\ \A g \in Calls : Bootstrapping(g) => g = h
        /\ ~ bootstrapped /\ (\A h \in Calls : ~ Bootstrapping(h)) => items = 0

TasteIInv == TasteTypeOK /\ CountExact /\ OneFirst /\ OneBootstrap

-----------------------------------------------------------------------------
\* The fields of a request, by its program counter.
LEMMA RequestShape ==
    ASSUME TasteTypeOK, NEW h \in Calls
    PROVE  /\ call[h].pc \in {"idle", "priors", "vector", "items"}
           /\ call[h].pc = "idle" => call[h] = NoCall
           /\ call[h].pc \in {"priors", "vector"} =>
                call[h] = [pc |-> call[h].pc, dish |-> call[h].dish, new |-> call[h].new]
                /\ call[h].dish \in Dishes /\ call[h].new \in BOOLEAN
           /\ call[h].pc = "items" => call[h] = [pc |-> "items", left |-> call[h].left]
                                     /\ call[h].left \in 0 .. MaxItems
  <1>1. call[h] \in CallStates
    BY DEF TasteTypeOK
  <1> QED
    BY <1>1 DEF CallStates, NoCall

\* The new state of one request, and the old one of the others.
LEMMA Others ==
    ASSUME TasteTypeOK, NEW h \in Calls, NEW q, call' = [call EXCEPT ![h] = q]
    PROVE  call'[h] = q /\ \A g \in Calls \ {h} : call'[g] = call[g]
  BY DEF TasteTypeOK

\* A step that changes one request to a legal one and keeps the types of the rest.
LEMMA Typed ==
    ASSUME TasteTypeOK, NEW h \in Calls, NEW q \in CallStates, call' = [call EXCEPT ![h] = q]
    PROVE  call' \in [Calls -> CallStates]
  BY DEF TasteTypeOK

LEMMA TasteInitIInv == TasteInit => TasteIInv
  <1> SUFFICES ASSUME TasteInit PROVE TasteIInv
    OBVIOUS
  <1>1. \A h \in Calls : call[h] = NoCall /\ call[h].pc = "idle"
    BY DEF TasteInit, NoCall
  <1>2. TasteTypeOK
    <2>1. NoCall \in CallStates
      BY DEF CallStates
    <2>2. call \in [Calls -> CallStates]
      BY <2>1 DEF TasteInit
    <2>3. requests \in 0 .. MaxRequests
      BY TasteAssumption DEF TasteInit
    <2> QED
      BY <2>2, <2>3 DEF TasteInit, TasteTypeOK
  <1>3. CountExact
    BY FS_EmptySet DEF TasteInit, CountExact
  <1>4. OneFirst
    BY <1>1 DEF OneFirst, New
  <1>5. OneBootstrap
    BY <1>1, TasteAssumption DEF TasteInit, OneBootstrap, Bootstrapping, At
  <1> QED
    BY <1>2, <1>3, <1>4, <1>5 DEF TasteIInv

LEMMA ReactIInv ==
    ASSUME TasteIInv, NEW h \in Calls, NEW d \in Dishes, React(h, d)
    PROVE  TasteIInv'
  <1> DEFINE q == [pc |-> "priors", dish |-> d, new |-> d \notin reacted]
  <1>1. q \in CallStates
    BY DEF CallStates
  <1>2. call'[h] = q /\ \A g \in Calls \ {h} : call'[g] = call[g]
    BY Others DEF React, TasteIInv
  <1>3. call[h].pc = "idle" /\ requests < MaxRequests /\ requests' = requests + 1
        /\ reacted' = reacted \cup {d}
        /\ UNCHANGED <<classified, count, bootstrapped, counted, items, spoiled>>
    BY DEF React, Arrives, At
  <1>4. TasteTypeOK'
    <2>1. call' \in [Calls -> CallStates]
      BY <1>1, Typed DEF React, TasteIInv
    <2>2. requests' \in 0 .. MaxRequests
      BY <1>3, TasteAssumption DEF TasteIInv, TasteTypeOK
    <2> QED
      BY <1>3, <2>1, <2>2 DEF TasteIInv, TasteTypeOK
  <1>5. CountExact'
    BY <1>3 DEF TasteIInv, CountExact
  <1>6. OneFirst'
    <2>1. \A g \in Calls \ {h} : New(g)' = New(g) /\ call'[g].dish = call[g].dish
      BY <1>2 DEF New
    <2>2. New(h)' => call'[h].dish = d /\ d \notin reacted
      <3>1. q.new = (d \notin reacted) /\ q.dish = d
        OBVIOUS
      <3>2. New(h)' => q.new
        BY <1>2, Zenon DEF New
      <3> QED
        BY <1>2, <3>1, <3>2, Zenon
    <2>3. counted \subseteq reacted
      BY DEF TasteIInv, TasteTypeOK
    <2> QED
      BY <1>3, <2>1, <2>2, <2>3 DEF TasteIInv, OneFirst
  <1>7. OneBootstrap'
    <2>1. \A g \in Calls : Bootstrapping(g)' = Bootstrapping(g)
                              /\ (Bootstrapping(g) => call'[g].left = call[g].left)
      BY <1>2, <1>3 DEF Bootstrapping, At
    <2> QED
      BY <1>3, <2>1 DEF TasteIInv, OneBootstrap
  <1> QED
    BY <1>4, <1>5, <1>6, <1>7 DEF TasteIInv

LEMMA UploadReactionIInv ==
    ASSUME TasteIInv, NEW d \in Dishes, UploadReaction(d)
    PROVE  TasteIInv'
  <1>1. TasteTypeOK'
    BY TasteAssumption DEF UploadReaction, TasteIInv, TasteTypeOK
  <1>2. CountExact'
    BY DEF UploadReaction, TasteIInv, CountExact
  <1>3. OneFirst'
    BY DEF UploadReaction, TasteIInv, OneFirst, New
  <1>4. OneBootstrap'
    BY DEF UploadReaction, TasteIInv, OneBootstrap, Bootstrapping, At
  <1> QED
    BY <1>1, <1>2, <1>3, <1>4 DEF TasteIInv

LEMMA ClassifyDishIInv ==
    ASSUME TasteIInv, NEW d \in Dishes, ClassifyDish(d)
    PROVE  TasteIInv'
  <1>1. TasteTypeOK'
    BY DEF ClassifyDish, TasteIInv, TasteTypeOK
  <1>2. CountExact'
    BY DEF ClassifyDish, TasteIInv, CountExact
  <1>3. OneFirst'
    BY DEF ClassifyDish, TasteIInv, OneFirst, New
  <1>4. OneBootstrap'
    BY DEF ClassifyDish, TasteIInv, OneBootstrap, Bootstrapping, At
  <1> QED
    BY <1>1, <1>2, <1>3, <1>4 DEF TasteIInv

\* The request goes on with its reaction, or leaves it.
LEMMA ReadPriorsIInv ==
    ASSUME TasteIInv, NEW h \in Calls, ReadPriors(h)
    PROVE  TasteIInv'
  <1> DEFINE q == IF call[h].dish \in classified THEN [call[h] EXCEPT !.pc = "vector"] ELSE NoCall
  <1>1. call[h].pc = "priors" /\ call' = [call EXCEPT ![h] = q]
        /\ UNCHANGED <<reacted, classified, count, bootstrapped, requests, counted, items, spoiled>>
    BY DEF ReadPriors, At, TasteIInv, TasteTypeOK
  <1>2. call[h] = [pc |-> "priors", dish |-> call[h].dish, new |-> call[h].new]
        /\ call[h].dish \in Dishes /\ call[h].new \in BOOLEAN
    BY <1>1, RequestShape DEF TasteIInv
  <1>3. q = NoCall \/ q = [pc |-> "vector", dish |-> call[h].dish, new |-> call[h].new]
    BY <1>2
  <1>4. q \in CallStates
    BY <1>2, <1>3 DEF CallStates
  <1>5. call'[h] = q /\ \A g \in Calls \ {h} : call'[g] = call[g]
    BY <1>1, Others DEF TasteIInv
  <1>6. TasteTypeOK'
    BY <1>1, <1>4, Typed DEF TasteIInv, TasteTypeOK
  <1>7. CountExact'
    BY <1>1 DEF TasteIInv, CountExact
  <1>8. OneFirst'
    <2>1. \A g \in Calls : New(g)' => New(g) /\ call'[g].dish = call[g].dish
      BY <1>1, <1>2, <1>3, <1>5 DEF New, NoCall
    <2> QED
      BY <1>1, <2>1 DEF TasteIInv, OneFirst
  <1>9. OneBootstrap'
    <2>1. \A g \in Calls : Bootstrapping(g)' = Bootstrapping(g)
                              /\ (Bootstrapping(g) => call'[g].left = call[g].left)
      BY <1>1, <1>3, <1>5 DEF Bootstrapping, At, NoCall
    <2> QED
      BY <1>1, <2>1 DEF TasteIInv, OneBootstrap
  <1> QED
    BY <1>6, <1>7, <1>8, <1>9 DEF TasteIInv

LEMMA UpdateVectorIInv ==
    ASSUME TasteIInv, NEW h \in Calls, UpdateVector(h)
    PROVE  TasteIInv'
  <1>1. call[h].pc = "vector" /\ call' = [call EXCEPT ![h] = NoCall]
        /\ UNCHANGED <<reacted, classified, bootstrapped, requests, items, spoiled>>
    BY DEF UpdateVector, At
  <1>2. call[h].dish \in Dishes /\ call[h].new \in BOOLEAN
    BY <1>1, RequestShape DEF TasteIInv
  <1>3. call'[h] = NoCall /\ \A g \in Calls \ {h} : call'[g] = call[g]
    BY <1>1, Others DEF TasteIInv
  <1>4. \/ call[h].new /\ count' = count + 1 /\ counted' = counted \cup {call[h].dish}
        \/ ~ call[h].new /\ count' = count /\ counted' = counted
    BY <1>2 DEF UpdateVector
  <1>5. call[h].new => call[h].dish \in reacted \ counted
    BY <1>1, <1>2 DEF TasteIInv, OneFirst, New
  <1>6. TasteTypeOK'
    <2>1. call' \in [Calls -> CallStates]
      BY <1>1, Typed DEF TasteIInv, CallStates
    <2> QED
      BY <1>1, <1>4, <1>5, <2>1 DEF TasteIInv, TasteTypeOK
  <1>7. CountExact'
    <2>1. IsFiniteSet(counted)
      BY TasteAssumption, FS_Subset DEF TasteIInv, TasteTypeOK
    <2>2. Cardinality(counted) \in Nat
      BY <2>1, FS_CardinalityType
    <2>3. CASE call[h].new
      <3>1. Cardinality(counted \cup {call[h].dish}) = Cardinality(counted) + 1
        BY <1>5, <2>1, <2>3, FS_AddElement
      <3> QED
        BY <1>1, <1>4, <2>2, <2>3, <3>1 DEF TasteIInv, CountExact, TasteTypeOK
    <2>4. CASE ~ call[h].new
      BY <1>1, <1>4, <2>4 DEF TasteIInv, CountExact
    <2> QED
      BY <2>3, <2>4
  <1>8. OneFirst'
    <2>1. ~ New(h)'
      BY <1>3 DEF New, NoCall
    <2>2. \A g \in Calls \ {h} : New(g)' = New(g) /\ call'[g].dish = call[g].dish
      BY <1>3 DEF New
    <2>3. \A g \in Calls \ {h} : New(g) /\ call[h].new => call[g].dish # call[h].dish
      BY <1>1 DEF TasteIInv, OneFirst, New
    <2> QED
      BY <1>1, <1>4, <2>1, <2>2, <2>3 DEF TasteIInv, OneFirst
  <1>9. OneBootstrap'
    <2>1. \A g \in Calls : Bootstrapping(g)' = Bootstrapping(g)
                              /\ (Bootstrapping(g) => call'[g].left = call[g].left)
      BY <1>1, <1>3 DEF Bootstrapping, At, NoCall
    <2> QED
      BY <1>1, <2>1 DEF TasteIInv, OneBootstrap
  <1> QED
    BY <1>6, <1>7, <1>8, <1>9 DEF TasteIInv

-----------------------------------------------------------------------------
\* A step of a bootstrap carries no first reaction.
LEMMA FirstsKept ==
    ASSUME OneFirst, NEW h \in Calls, UNCHANGED <<reacted, counted>>,
           ~ New(h)', \A g \in Calls \ {h} : call'[g] = call[g]
    PROVE  OneFirst'
  <1>1. \A g \in Calls : New(g)' => New(g) /\ call'[g].dish = call[g].dish
    BY DEF New
  <1> QED
    BY <1>1 DEF OneFirst

LEMMA BeginBootstrapIInv ==
    ASSUME TasteIInv, NEW h \in Calls, NEW n \in 0 .. MaxItems, BeginBootstrap(h, n)
    PROVE  TasteIInv'
  <1> DEFINE q == [pc |-> "items", left |-> n]
  <1>1. /\ call[h].pc = "idle" /\ requests < MaxRequests /\ requests' = requests + 1
        /\ ~ bootstrapped /\ call' = [call EXCEPT ![h] = q]
        /\ spoiled' = (spoiled \/ \E g \in Calls : Bootstrapping(g))
        /\ UNCHANGED <<reacted, classified, count, bootstrapped, counted, items>>
    BY DEF BeginBootstrap, Arrives, At
  <1>2. q \in CallStates
    BY DEF CallStates
  <1>3. call'[h] = q /\ \A g \in Calls \ {h} : call'[g] = call[g]
    BY <1>1, Others DEF TasteIInv
  <1>4. TasteTypeOK'
    <2>1. call' \in [Calls -> CallStates]
      BY <1>1, <1>2, Typed DEF TasteIInv
    <2>2. requests' \in 0 .. MaxRequests
      BY <1>1, TasteAssumption DEF TasteIInv, TasteTypeOK
    <2> QED
      BY <1>1, <2>1, <2>2 DEF TasteIInv, TasteTypeOK
  <1>5. CountExact'
    BY <1>1 DEF TasteIInv, CountExact
  <1>6. OneFirst'
    <2>1. ~ New(h)'
      BY <1>3 DEF New
    <2> QED
      BY <1>1, <1>3, <2>1, FirstsKept DEF TasteIInv
  <1>7. OneBootstrap'
    <2> SUFFICES ASSUME ~ spoiled' PROVE OneBootstrap'
      BY DEF OneBootstrap
    <2>1. ~ spoiled /\ \A g \in Calls : ~ Bootstrapping(g)
      BY <1>1
    <2>2. items = 0
      BY <1>1, <2>1 DEF TasteIInv, OneBootstrap
    <2>3. Bootstrapping(h)' /\ \A g \in Calls \ {h} : ~ Bootstrapping(g)'
      BY <1>3, <2>1 DEF Bootstrapping, At
    <2>4. call'[h].left = n
      BY <1>3
    <2> QED
      BY <1>1, <2>2, <2>3, <2>4, TasteAssumption DEF OneBootstrap
  <1> QED
    BY <1>4, <1>5, <1>6, <1>7 DEF TasteIInv

LEMMA BootstrapItemIInv ==
    ASSUME TasteIInv, NEW h \in Calls, BootstrapItem(h)
    PROVE  TasteIInv'
  <1> DEFINE q == [pc |-> "items", left |-> call[h].left - 1]
  <1>1. /\ call[h].pc = "items" /\ call[h].left > 0
        /\ count' = count + 1 /\ items' = items + 1
        /\ call' = [call EXCEPT ![h].left = @ - 1]
        /\ UNCHANGED <<reacted, classified, bootstrapped, requests, counted, spoiled>>
    BY DEF BootstrapItem, Bootstrapping, At
  <1>2. call[h] = [pc |-> "items", left |-> call[h].left] /\ call[h].left \in 0 .. MaxItems
    BY <1>1, RequestShape DEF TasteIInv
  <1>3. [call[h] EXCEPT !.left = @ - 1] = q
    BY <1>2
  <1>4. call' = [call EXCEPT ![h] = q]
    BY <1>1, <1>3
  <1>5. q \in CallStates
    BY <1>1, <1>2, TasteAssumption DEF CallStates
  <1>6. call'[h] = q /\ \A g \in Calls \ {h} : call'[g] = call[g]
    BY <1>4, Others DEF TasteIInv
  <1>7. TasteTypeOK'
    <2>1. call' \in [Calls -> CallStates]
      BY <1>4, <1>5, Typed DEF TasteIInv
    <2> QED
      BY <1>1, <2>1 DEF TasteIInv, TasteTypeOK
  <1>8. CountExact'
    <2>1. Cardinality(counted) \in Nat
      BY TasteAssumption, FS_Subset, FS_CardinalityType DEF TasteIInv, TasteTypeOK
    <2> QED
      BY <1>1, <2>1 DEF TasteIInv, CountExact, TasteTypeOK
  <1>9. OneFirst'
    <2>1. ~ New(h)'
      BY <1>6 DEF New
    <2> QED
      BY <1>1, <1>6, <2>1, FirstsKept DEF TasteIInv
  <1>10. OneBootstrap'
    <2> SUFFICES ASSUME ~ spoiled' PROVE OneBootstrap'
      BY DEF OneBootstrap
    <2>1. ~ bootstrapped /\ items + call[h].left <= MaxItems
          /\ \A g \in Calls : Bootstrapping(g) => g = h
      BY <1>1 DEF TasteIInv, OneBootstrap, Bootstrapping, At
    <2>2. Bootstrapping(h)' /\ \A g \in Calls \ {h} : ~ Bootstrapping(g)'
      BY <1>6, <2>1 DEF Bootstrapping, At
    <2>3. call'[h].left = call[h].left - 1 /\ items \in Nat
      BY <1>6 DEF TasteIInv, TasteTypeOK
    <2> QED
      BY <1>1, <1>2, <2>1, <2>2, <2>3, TasteAssumption DEF OneBootstrap
  <1> QED
    BY <1>7, <1>8, <1>9, <1>10 DEF TasteIInv

LEMMA MarkBootstrappedIInv ==
    ASSUME TasteIInv, NEW h \in Calls, MarkBootstrapped(h)
    PROVE  TasteIInv'
  <1>1. /\ call[h].pc = "items" /\ bootstrapped' = TRUE /\ call' = [call EXCEPT ![h] = NoCall]
        /\ UNCHANGED <<reacted, classified, count, requests, counted, items, spoiled>>
    BY DEF MarkBootstrapped, Bootstrapping, At
  <1>2. call'[h] = NoCall /\ \A g \in Calls \ {h} : call'[g] = call[g]
    BY <1>1, Others DEF TasteIInv
  <1>3. TasteTypeOK'
    <2>1. call' \in [Calls -> CallStates]
      BY <1>1, Typed DEF TasteIInv, CallStates
    <2> QED
      BY <1>1, <2>1 DEF TasteIInv, TasteTypeOK
  <1>4. CountExact'
    BY <1>1 DEF TasteIInv, CountExact
  <1>5. OneFirst'
    <2>1. ~ New(h)'
      BY <1>2 DEF New, NoCall
    <2> QED
      BY <1>1, <1>2, <2>1, FirstsKept DEF TasteIInv
  <1>6. OneBootstrap'
    <2> SUFFICES ASSUME ~ spoiled' PROVE OneBootstrap'
      BY DEF OneBootstrap
    <2>1. \A g \in Calls : Bootstrapping(g) => g = h
      BY <1>1 DEF TasteIInv, OneBootstrap, Bootstrapping, At
    <2>2. \A g \in Calls : ~ Bootstrapping(g)'
      BY <1>2, <2>1 DEF Bootstrapping, At, NoCall
    <2>3. items <= MaxItems
      BY <1>1 DEF TasteIInv, OneBootstrap
    <2> QED
      BY <1>1, <2>2, <2>3 DEF OneBootstrap
  <1> QED
    BY <1>3, <1>4, <1>5, <1>6 DEF TasteIInv

LEMMA CutOffIInv ==
    ASSUME TasteIInv, NEW h \in Calls, CutOff(h)
    PROVE  TasteIInv'
  <1>1. /\ call' = [call EXCEPT ![h] = NoCall] /\ spoiled' = (spoiled \/ Bootstrapping(h))
        /\ UNCHANGED <<reacted, classified, count, bootstrapped, requests, counted, items>>
    BY DEF CutOff
  <1>2. call'[h] = NoCall /\ \A g \in Calls \ {h} : call'[g] = call[g]
    BY <1>1, Others DEF TasteIInv
  <1>3. TasteTypeOK'
    <2>1. call' \in [Calls -> CallStates]
      BY <1>1, Typed DEF TasteIInv, CallStates
    <2>2. Bootstrapping(h) \in BOOLEAN
      BY DEF Bootstrapping, At
    <2> QED
      BY <1>1, <2>1, <2>2 DEF TasteIInv, TasteTypeOK
  <1>4. CountExact'
    BY <1>1 DEF TasteIInv, CountExact
  <1>5. OneFirst'
    <2>1. ~ New(h)'
      BY <1>2 DEF New, NoCall
    <2> QED
      BY <1>1, <1>2, <2>1, FirstsKept DEF TasteIInv
  <1>6. OneBootstrap'
    <2> SUFFICES ASSUME ~ spoiled' PROVE OneBootstrap'
      BY DEF OneBootstrap
    <2>1. ~ spoiled /\ ~ Bootstrapping(h)
      BY <1>1
    <2>2. \A g \in Calls : Bootstrapping(g)' = Bootstrapping(g)
                              /\ (Bootstrapping(g) => call'[g].left = call[g].left)
      BY <1>2, <2>1 DEF Bootstrapping, At, NoCall
    <2> QED
      BY <1>1, <2>1, <2>2 DEF TasteIInv, OneBootstrap
  <1> QED
    BY <1>3, <1>4, <1>5, <1>6 DEF TasteIInv

LEMMA TasteNextIInv == TasteIInv /\ [TasteNext]_tasteVars => TasteIInv'
  <1> SUFFICES ASSUME TasteIInv, [TasteNext]_tasteVars PROVE TasteIInv'
    OBVIOUS
  <1>1. CASE UNCHANGED tasteVars
    BY <1>1 DEF tasteVars, TasteIInv, TasteTypeOK, CountExact, OneFirst, New, OneBootstrap, Bootstrapping, At
  <1>2. ASSUME NEW h \in Calls, NEW d \in Dishes, React(h, d) PROVE TasteIInv'
    BY <1>2, ReactIInv
  <1>3. ASSUME NEW h \in Calls, ReadPriors(h) PROVE TasteIInv'
    BY <1>3, ReadPriorsIInv
  <1>4. ASSUME NEW h \in Calls, UpdateVector(h) PROVE TasteIInv'
    BY <1>4, UpdateVectorIInv
  <1>5. ASSUME NEW h \in Calls, NEW n \in 0 .. MaxItems, BeginBootstrap(h, n) PROVE TasteIInv'
    BY <1>5, BeginBootstrapIInv
  <1>6. ASSUME NEW h \in Calls, BootstrapItem(h) PROVE TasteIInv'
    BY <1>6, BootstrapItemIInv
  <1>7. ASSUME NEW h \in Calls, MarkBootstrapped(h) PROVE TasteIInv'
    BY <1>7, MarkBootstrappedIInv
  <1>8. ASSUME NEW h \in Calls, CutOff(h) PROVE TasteIInv'
    BY <1>8, CutOffIInv
  <1>9. ASSUME NEW d \in Dishes, UploadReaction(d) \/ ClassifyDish(d) PROVE TasteIInv'
    BY <1>9, UploadReactionIInv, ClassifyDishIInv
  <1> QED
    BY <1>1, <1>2, <1>3, <1>4, <1>5, <1>6, <1>7, <1>8, <1>9 DEF TasteNext

\* The count and what it is made of agree in every reachable state.
THEOREM TasteInvariant == TasteSpec => []TasteIInv
  BY TasteInitIInv, TasteNextIInv, PTL DEF TasteSpec

-----------------------------------------------------------------------------
\* Every state of the requests and the vector is well formed.
THEOREM TasteTypeCorrect == TasteSpec => []TasteTypeOK
  <1>1. TasteIInv => TasteTypeOK
    BY DEF TasteIInv
  <1> QED
    BY <1>1, TasteInvariant, PTL

\* The cardinality of what was counted, against that of what was reacted to.
LEMMA CountedSize ==
    ASSUME TasteIInv
    PROVE  Cardinality(counted) \in Nat /\ Cardinality(reacted) \in Nat
           /\ Cardinality(counted) <= Cardinality(reacted)
  <1>1. IsFiniteSet(reacted)
    BY TasteAssumption, FS_Subset DEF TasteIInv, TasteTypeOK
  <1> QED
    BY <1>1, FS_Subset, FS_CardinalityType DEF TasteIInv, TasteTypeOK

\* The count is at most the reactions and those of one bootstrap, unless spoiled.
THEOREM CountBounded == TasteSpec => []NeverOvercounted
  <1>1. ASSUME TasteIInv PROVE NeverOvercounted
    BY <1>1, CountedSize, TasteAssumption
    DEF TasteIInv, TasteTypeOK, CountExact, OneBootstrap, NeverOvercounted
  <1> QED
    BY <1>1, TasteInvariant, PTL

\* Signals are unlocked by the threshold of distinct dishes, or by a bootstrap.
THEOREM GateHonest == TasteSpec => []UnlockedHonestly
  <1>1. ASSUME TasteIInv PROVE UnlockedHonestly
    BY <1>1, CountedSize, TasteAssumption
    DEF TasteIInv, TasteTypeOK, CountExact, UnlockedHonestly, Unlocked
  <1> QED
    BY <1>1, TasteInvariant, PTL
=============================================================================
