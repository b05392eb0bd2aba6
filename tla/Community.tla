----------------------------- MODULE Community -----------------------------
(***************************************************************************)
(* What users say about a dish or a restaurant, the aggregates that are     *)
(* cached from it, and the merge of a duplicate restaurant into another     *)
(* one: routes/dishes.rs, ratings.rs, reports.rs, images.rs, the upload of  *)
(* sync.rs, and merge_restaurant of restaurants.rs.                         *)
(*                                                                         *)
(* Two places stand for a pair of restaurants and for the same-named dishes *)
(* of both.  A statement or a transaction is a step (READ COMMITTED); a row *)
(* a transaction has written is in its request until it commits.  A request *)
(* may be dropped between any two steps: its client disconnects, the        *)
(* database fails or breaks a deadlock, the server restarts.                *)
(***************************************************************************)
EXTENDS Integers, FiniteSets, Sequences, Functions

CONSTANTS
    Users,
    Handlers,       \* requests that can be in flight at once
    Tables,         \* the tables with rows of a dish and of a restaurant, in the order a
                    \* merge goes through them.  Images and reports may point to both,
                    \* without a foreign key; one place for each is enough.
    MaxWrites,      \* bound: rows written
    MaxFailures     \* bound: merges that fail

ASSUME ConstantsAssumption ==
    /\ DOMAIN Tables = {"dish", "restaurant"}
    /\ Tables["dish"] \in Seq({"reaction", "vote", "favorite", "intent", "image"})
    /\ Tables["restaurant"] \in Seq({"rating", "report"})
    /\ \A l \in DOMAIN Tables : IsInjective(Tables[l])
    /\ MaxWrites \in Nat /\ MaxFailures \in Nat

VARIABLES
    rows,           \* the committed rows of all tables below
    cache,          \* the rows each cached aggregate was computed from
    priors,         \* dishes that are classified
    gone,           \* places that were merged away
    bucket,         \* image files in the object store
    req,            \* what each request in flight knows
    merge,          \* what the merge in progress knows
    writes, failures,
    \* History variables, never read by the actions.
    given,          \* (kind, user) pairs that must have a row somewhere
    slipped,        \* (kind, user) pairs with a row a merge could not see
    unsettled       \* aggregates whose last recount missed a row

bounds == <<writes, failures>>
vars == <<rows, cache, priors, gone, bucket, req, merge, bounds, given, slipped, unsettled>>

Places == {"source", "target"}

Levels == {"dish", "restaurant"}
Counted == {"reaction", "vote", "rating"}
Toggled == {"favorite", "intent"}
Pointers == {"image", "report"}
Of(l) == Range(Tables[l])
Kinds == Of("dish") \cup Of("restaurant")

\* w identifies a write.
Row == [kind : Kinds, place : Places, user : Users, w : 1 .. MaxWrites]

RowsOf(k, p) == {r \in rows : r.kind = k /\ r.place = p}
Clash(r, s) == r.kind = s.kind /\ r.place = s.place /\ r.user = s.user
AnyOf(r, S) == {s \in S : Clash(r, s)}

\* pc names the next step of a request; an image file is put before its row exists.
Idle == [pc |-> "idle"]
Requests ==
    {Idle}
    \cup [pc : {"clear"}, place : Places, user : Users]
    \cup [pc : {"recount", "insert"}, row : Row]
    \cup [pc : {"commit"}, row : Row, counted : BOOLEAN, seen : SUBSET Row, stale : BOOLEAN]

NoMerge == [pc |-> "idle"]
Merges ==
    {NoMerge}
    \cup [pc : {"moving"}, done : SUBSET Kinds, deleted : SUBSET Levels,
          moved : SUBSET Row, taken : SUBSET Row,
          counted : SUBSET Counted, seen : SUBSET Row, stale : SUBSET Counted,
          recounted : SUBSET Levels, behind : SUBSET (Kinds \X Users)]

\* One row per user for each key, as the UNIQUE constraints of the tables have it.
OneRowPerKey == \A r, s \in rows : Clash(r, s) /\ r.kind # "image" => r = s

TypeOK ==
    /\ rows \subseteq Row /\ OneRowPerKey
    /\ cache \in [Counted \X Places -> SUBSET Row]
    /\ priors \subseteq Places /\ gone \subseteq {"source"}
    /\ bucket \subseteq 1 .. MaxWrites
    /\ req \in [Handlers -> Requests]
    /\ merge \in Merges
    /\ writes \in 0 .. MaxWrites /\ failures \in 0 .. MaxFailures
    /\ given \subseteq Kinds \X Users
    /\ slipped \subseteq Kinds \X Users
    /\ unsettled \subseteq Counted \X Places

Init ==
    /\ rows = {}
    /\ cache = [kp \in Counted \X Places |-> {}]
    /\ priors = {} /\ gone = {} /\ bucket = {}
    /\ req = [h \in Handlers |-> Idle]
    /\ merge = NoMerge
    /\ writes = 0 /\ failures = 0
    /\ given = {} /\ slipped = {} /\ unsettled = {}

On(h, pc) == req[h].pc = pc
Open(h) == req[h].pc \in {"recount", "commit"}
Merging == merge.pc # "idle"

\* The row of a reaction, vote or rating that h has written and not committed.
Holds(h, k, p, u) ==
    Open(h) /\ req[h].row.kind = k /\ req[h].row.place = p /\ req[h].row.user = u

\* What the uncommitted merge keeps others from: its copies have the keys of the
\* target's rows, and the source is deleted under the rows that refer to it.
MergeHolds(k, p, u) ==
    /\ Merging
    /\ \/ p = "target" /\ \E r \in merge.moved : r.kind = k /\ r.user = u
       \/ p = "source" /\ \E l \in merge.deleted : k \in Of(l)
Locked(k, p, u) == MergeHolds(k, p, u) \/ \E h \in Handlers : Holds(h, k, p, u)

\* The uncommitted merge has updated r.
Repointed(r) == Merging /\ r \in merge.taken

Written(k, p, u) == [kind |-> k, place |-> p, user |-> u, w |-> writes + 1]
Spend == writes < MaxWrites /\ writes' = writes + 1 /\ UNCHANGED failures

-----------------------------------------------------------------------------
(* What a commit does to the rows, and to what others have read *)

\* The rows S give way to the rows R.
Change(S, R) ==
    /\ rows' = (rows \ S) \cup R
    /\ given' = (given \ {<<r.kind, r.user>> : r \in S}) \cup {<<r.kind, r.user>> : r \in R}

\* f with the recounts of (k, p) marked whose snapshot was taken before.
Overtaken(f, k, p) ==
    [h \in Handlers |-> IF f[h].pc = "commit" /\ f[h].row.kind = k /\ f[h].row.place = p
                        THEN [f[h] EXCEPT !.stale = TRUE] ELSE f[h]]

\* The merge misses r if it has counted the target's rows, or moved the source's.
MergeMisses(r) ==
    merge' = IF ~ Merging THEN merge
             ELSE [merge EXCEPT
                     !.stale = @ \cup {k \in merge.counted : r.place = "target" /\ r.kind = k},
                     !.behind = @ \cup {ku \in {<<r.kind, r.user>>} :
                                          r.place = "source" /\ r.kind \in merge.done}]

Settle(k, p, exact) ==
    unsettled' = IF exact THEN unsettled \ {<<k, p>>} ELSE unsettled \cup {<<k, p>>}

-----------------------------------------------------------------------------
(* Reactions, attribute votes and ratings: one transaction *)

\* upsert_reaction, upsert_attribute_vote, upsert_rating: the upsert, which waits for
\* the row's lock and fails if the place is gone.
Write(h, k, p, u) ==
    /\ On(h, "idle")
    /\ k \in Counted /\ p \notin gone /\ ~ Locked(k, p, u)
    /\ Spend
    /\ req' = [req EXCEPT ![h] = [pc |-> "recount", row |-> Written(k, p, u)]]
    /\ UNCHANGED <<rows, cache, priors, gone, bucket, merge, given, slipped, unsettled>>

\* The snapshot of the statement that recounts: what is committed and the own row.
\* The statement may then wait for the lock of the parent row until the commit of
\* another request, and still writes what it has seen.  Votes are blended with the
\* priors of the dish if it has any.
Recount(h) ==
    LET r == req[h].row  counts == r.kind = "vote" => r.place \in priors IN
    /\ On(h, "recount")
    /\ req' = [req EXCEPT ![h] =
                 [pc |-> "commit", row |-> r, counted |-> counts,
                  seen |-> IF counts THEN (RowsOf(r.kind, r.place) \ AnyOf(r, rows)) \cup {r} ELSE {},
                  stale |-> FALSE]]
    /\ UNCHANGED <<rows, cache, priors, gone, bucket, merge, bounds, given, slipped, unsettled>>

Commit(h) ==
    LET r == req[h].row  q == req[h]
        after == IF r.kind = "reaction"
                 THEN [pc |-> "clear", place |-> r.place, user |-> r.user]
                 ELSE Idle
    IN
    /\ On(h, "commit")
    /\ Change(AnyOf(r, rows), {r})
    /\ cache' = IF q.counted THEN [cache EXCEPT ![<<r.kind, r.place>>] = q.seen] ELSE cache
    /\ Settle(r.kind, r.place, q.counted /\ ~ q.stale)
    /\ req' = Overtaken([req EXCEPT ![h] = after], r.kind, r.place)
    /\ MergeMisses(r)
    /\ UNCHANGED <<priors, gone, bucket, bounds, slipped>>

\* After its commit a reaction removes the user's intent, a statement of its own.
Clear(h) ==
    LET p == req[h].place  u == req[h].user IN
    /\ On(h, "clear")
    /\ Change({r \in RowsOf("intent", p) : r.user = u}, {})
    /\ req' = [req EXCEPT ![h] = Idle]
    /\ UNCHANGED <<cache, priors, gone, bucket, merge, bounds, slipped, unsettled>>

\* A request dies; an open transaction is rolled back.
Drop(h) ==
    /\ ~ On(h, "idle")
    /\ req' = [req EXCEPT ![h] = Idle]
    /\ UNCHANGED <<rows, cache, priors, gone, bucket, merge, bounds, given, slipped, unsettled>>

\* upload_full writes reactions and ratings and recounts nothing.
Upload(k, p, u) ==
    LET r == Written(k, p, u) IN
    /\ k \in {"reaction", "rating"} /\ p \notin gone /\ ~ Locked(k, p, u)
    /\ Spend
    /\ Change(AnyOf(r, rows), {r})
    /\ Settle(k, p, FALSE)
    /\ req' = Overtaken(req, k, p)
    /\ MergeMisses(r)
    /\ UNCHANGED <<cache, priors, gone, bucket, slipped>>

\* The worker stores the priors of a dish; votes it already has are not blended in,
\* and a blend there is was made with the priors it had.
Classify(p) ==
    /\ p \notin gone
    /\ priors' = priors \cup {p}
    /\ Settle("vote", p, RowsOf("vote", p) = {} /\ <<"vote", p>> \notin unsettled)
    /\ UNCHANGED <<rows, cache, gone, bucket, req, merge, bounds, given, slipped>>

-----------------------------------------------------------------------------
(* Favorites and intents, reports, images *)

\* toggle_favorite, toggle_intent: insert, and delete if the row was there.
Toggle(k, p, u) ==
    LET r == Written(k, p, u) IN
    /\ k \in Toggled /\ p \notin gone /\ ~ Locked(k, p, u)
    /\ Spend
    /\ Change(AnyOf(r, rows), IF AnyOf(r, rows) = {} THEN {r} ELSE {})
    /\ MergeMisses(r)
    /\ UNCHANGED <<cache, priors, gone, bucket, req, slipped, unsettled>>

\* create_report: one open report per user and entity, which need not exist any more.
Report(p, u) ==
    LET r == Written("report", p, u) IN
    /\ AnyOf(r, rows) = {} /\ ~ Locked("report", "target", u)
    /\ Spend
    /\ Change({}, {r})
    /\ slipped' = IF p \in gone THEN slipped \cup {<<"report", u>>} ELSE slipped
    /\ MergeMisses(r)
    /\ UNCHANGED <<cache, priors, gone, bucket, req, unsettled>>

\* action_report; a report that is not open any more holds no key.
ActionReport(r) ==
    /\ r \in rows /\ r.kind = "report" /\ ~ Repointed(r)
    /\ Change({r}, {})
    /\ UNCHANGED <<cache, priors, gone, bucket, req, merge, bounds, slipped, unsettled>>

\* upload_image: the entity exists and the file is put into the object store, ...
PutImage(h, p, u) ==
    /\ On(h, "idle") /\ p \notin gone
    /\ Spend
    /\ bucket' = bucket \cup {writes + 1}
    /\ req' = [req EXCEPT ![h] = [pc |-> "insert", row |-> Written("image", p, u)]]
    /\ UNCHANGED <<rows, cache, priors, gone, merge, given, slipped, unsettled>>

\* ... and its row is inserted.
InsertImage(h) ==
    LET r == req[h].row IN
    /\ On(h, "insert")
    /\ Change({}, {r})
    /\ req' = [req EXCEPT ![h] = Idle]
    /\ MergeMisses(r)
    /\ UNCHANGED <<cache, priors, gone, bucket, bounds, slipped, unsettled>>

\* Mutant: the file is deleted before the row is hidden, and the second step can fail.
RemoveImage_FileFirst(r) ==
    /\ r \in rows /\ r.kind = "image" /\ ~ Repointed(r)
    /\ Change({r}, {}) \/ UNCHANGED <<rows, given>>
    /\ bucket' = bucket \ {r.w}
    /\ UNCHANGED <<cache, priors, gone, req, merge, bounds, slipped, unsettled>>

\* admin_remove_image: the row is hidden, then the file is deleted, if that works.
RemoveImage(r) ==
    /\ r \in rows /\ r.kind = "image" /\ ~ Repointed(r)
    /\ Change({r}, {})
    /\ bucket' \in {bucket, bucket \ {r.w}}
    /\ UNCHANGED <<cache, priors, gone, req, merge, bounds, slipped, unsettled>>

-----------------------------------------------------------------------------
(* merge_restaurant: one transaction, a statement at a time *)

MergeBegin ==
    /\ ~ Merging /\ "source" \notin gone
    /\ merge' = [pc |-> "moving", done |-> {}, deleted |-> {}, moved |-> {}, taken |-> {},
                 counted |-> {}, seen |-> {}, stale |-> {}, recounted |-> {}, behind |-> {}]
    /\ UNCHANGED <<rows, cache, priors, gone, bucket, req, bounds, given, slipped, unsettled>>

\* The dish comes first, and its tables one after the other.
Turn(l) == Merging /\ (l = "dish" \/ "dish" \in merge.recounted)
NextTable(l, k) ==
    /\ Turn(l)
    /\ \E i \in DOMAIN Tables[l] :
         Tables[l][i] = k /\ merge.done \cap Of(l) = Range(SubSeq(Tables[l], 1, i - 1))

AtTarget(r) == [r EXCEPT !.place = "target"]

\* Mutant: rows are copied only to a target without rows of its own.
Copy_IfNone(l, k) ==
    LET found == {AtTarget(r) : r \in RowsOf(k, "source")} IN
    /\ NextTable(l, k) /\ k \notin Pointers
    /\ \A r \in found, h \in Handlers : ~ Holds(h, k, "target", r.user)
    /\ merge' = [merge EXCEPT !.done = @ \cup {k},
                              !.moved = @ \cup {r \in found : RowsOf(k, "target") = {}}]
    /\ UNCHANGED <<rows, cache, priors, gone, bucket, req, bounds, given, slipped, unsettled>>

\* Mutant: no ON CONFLICT, and no unique key.
Copy_All(l, k) ==
    LET found == {AtTarget(r) : r \in RowsOf(k, "source")} IN
    /\ NextTable(l, k) /\ k \notin Pointers
    /\ merge' = [merge EXCEPT !.done = @ \cup {k}, !.moved = @ \cup found]
    /\ UNCHANGED <<rows, cache, priors, gone, bucket, req, bounds, given, slipped, unsettled>>

\* INSERT ... SELECT ... ON CONFLICT DO NOTHING, which waits for a request that is
\* writing the same key.
Copy(l, k) ==
    LET found == {AtTarget(r) : r \in RowsOf(k, "source")} IN
    /\ NextTable(l, k) /\ k \notin Pointers
    /\ \A r \in found, h \in Handlers : ~ Holds(h, k, "target", r.user)
    /\ merge' = [merge EXCEPT !.done = @ \cup {k},
                              !.moved = @ \cup {r \in found : AnyOf(r, rows) = {}}]
    /\ UNCHANGED <<rows, cache, priors, gone, bucket, req, bounds, given, slipped, unsettled>>

ClashingReports ==
    \E r, s \in rows : r.kind = "report" /\ s.kind = "report" /\ r.user = s.user
                       /\ r.place = "source" /\ s.place = "target"

\* Mutant: images and reports stay where they point.
Repoint_Forgotten(l, k) ==
    /\ NextTable(l, k) /\ k \in Pointers
    /\ merge' = [merge EXCEPT !.done = @ \cup {k}]
    /\ UNCHANGED <<rows, cache, priors, gone, bucket, req, bounds, given, slipped, unsettled>>

\* UPDATE ... SET entity_id.
Repoint(l, k) ==
    /\ NextTable(l, k) /\ k \in Pointers
    /\ k = "report" => ~ ClashingReports
    /\ merge' = [merge EXCEPT !.done = @ \cup {k},
                              !.taken = @ \cup RowsOf(k, "source"),
                              !.moved = @ \cup {AtTarget(r) : r \in RowsOf(k, "source")}]
    /\ UNCHANGED <<rows, cache, priors, gone, bucket, req, bounds, given, slipped, unsettled>>

\* The DELETE waits for the transactions that refer to the row.
DeleteSource(l) ==
    /\ Turn(l) /\ Of(l) \subseteq merge.done /\ l \notin merge.deleted
    /\ \A h \in Handlers : ~ (Open(h) /\ req[h].row.kind \in Of(l) /\ req[h].row.place = "source")
    /\ merge' = [merge EXCEPT !.deleted = @ \cup {l}]
    /\ UNCHANGED <<rows, cache, priors, gone, bucket, req, bounds, given, slipped, unsettled>>

\* Mutant: the target is not recounted with the rows it was given.
RecountTarget_OwnRows(l) ==
    LET ks == {k \in Of(l) \cap Counted : k = "vote" => "target" \in priors} IN
    /\ Turn(l) /\ l \in merge.deleted \ merge.recounted
    /\ merge' = [merge EXCEPT !.recounted = @ \cup {l}, !.counted = @ \cup ks,
                   !.seen = @ \cup UNION {RowsOf(k, "target") : k \in ks}]
    /\ UNCHANGED <<rows, cache, priors, gone, bucket, req, bounds, given, slipped, unsettled>>

\* recompute_dish_aggregates of the target dish; the average of the target restaurant,
\* which the code recounts before it deletes the source.
RecountTarget(l) ==
    LET ks == {k \in Of(l) \cap Counted : k = "vote" => "target" \in priors} IN
    /\ Turn(l) /\ l \in merge.deleted \ merge.recounted
    /\ merge' = [merge EXCEPT !.recounted = @ \cup {l}, !.counted = @ \cup ks,
                   !.seen = @ \cup {r \in merge.moved : r.kind \in ks}
                              \cup UNION {RowsOf(k, "target") : k \in ks}]
    /\ UNCHANGED <<rows, cache, priors, gone, bucket, req, bounds, given, slipped, unsettled>>

Merged(k) == \E r \in merge.moved : r.kind = k

\* The source and whatever refers to it by a foreign key are gone.
MergeCommit ==
    /\ Merging /\ merge.recounted = Levels
    /\ rows' = {r \in rows \ merge.taken : r.place = "source" => r.kind \in Pointers} \cup merge.moved
    /\ cache' = [kp \in DOMAIN cache |->
                   IF kp[2] = "source" THEN {}
                   ELSE IF kp[1] \in merge.counted THEN {r \in merge.seen : r.kind = kp[1]}
                   ELSE cache[kp]]
    /\ unsettled' = {kp \in unsettled : kp[2] = "target" /\ kp[1] \notin merge.counted}
                    \cup {<<k, "target">> : k \in merge.stale}
                    \cup {<<k, "target">> : k \in {k \in {"vote"} \ merge.counted : Merged(k)}}
    /\ gone' = {"source"}
    /\ priors' = priors \ {"source"}
    /\ slipped' = slipped \cup merge.behind
                  \cup {<<"image", u>> : u \in {v \in Users : \E h \in Handlers :
                          On(h, "insert") /\ req[h].row.place = "source" /\ req[h].row.user = v}}
    /\ req' = [h \in Handlers |->
                 IF On(h, "commit") /\ req[h].row.place = "target" /\ Merged(req[h].row.kind)
                 THEN [req[h] EXCEPT !.stale = TRUE] ELSE req[h]]
    /\ merge' = NoMerge
    /\ UNCHANGED <<bucket, bounds, given>>

\* The unique index of open reports refuses the UPDATE, or the transaction fails.
MergeFails ==
    /\ Merging
    /\ failures < MaxFailures
    /\ failures' = failures + 1
    /\ merge' = NoMerge
    /\ UNCHANGED <<rows, cache, priors, gone, bucket, req, writes, given, slipped, unsettled>>

Merge ==
    \/ MergeBegin
    \/ \E l \in Levels :
         \/ \E k \in Of(l) : Copy(l, k) \/ Repoint(l, k)
         \/ DeleteSource(l)
         \/ RecountTarget(l)
    \/ MergeCommit
    \/ MergeFails

Next ==
    \/ \E h \in Handlers :
         \/ \E p \in Places, u \in Users :
              \/ "image" \in Kinds /\ PutImage(h, p, u)
              \/ \E k \in Kinds : Write(h, k, p, u)
         \/ Recount(h) \/ Commit(h) \/ Clear(h) \/ Drop(h) \/ InsertImage(h)
    \/ \E p \in Places, u \in Users :
         ("report" \in Kinds /\ Report(p, u)) \/ \E k \in Kinds : Upload(k, p, u) \/ Toggle(k, p, u)
    \/ \E p \in Places : Classify(p)
    \/ \E r \in rows : ActionReport(r) \/ RemoveImage(r)
    \/ Merge

Spec == Init /\ [][Next]_vars

-----------------------------------------------------------------------------
(* Properties *)

\* An aggregate of a place that exists is computed from exactly the rows it has,
\* unless its last recount overlapped another commit, or rows arrived that nothing
\* recounts (an upload, votes before their priors).
AggregatesExact ==
    \A k \in Counted, p \in Places \ gone : <<k, p>> \notin unsettled => cache[<<k, p>>] = RowsOf(k, p)

\* A merge loses nobody's reaction, vote, rating, favorite, intent, report or image,
\* except one that was committed to the source behind the merge's back.
NothingLost ==
    \A ku \in given \ slipped : \E r \in rows : r.kind = ku[1] /\ r.user = ku[2]

\* No image or report points to a restaurant or dish that is gone, unless it was on
\* its way while the merge ran.
NoOrphans ==
    \A r \in rows : r.place \in gone => r.kind \in Pointers /\ <<r.kind, r.user>> \in slipped

\* An image that is listed has its file: the file is put before the row is inserted
\* and deleted after the row is hidden, whatever fails in between.
ImagesHaveFiles ==
    \A r \in rows : r.kind = "image" => r.w \in bucket
=============================================================================
