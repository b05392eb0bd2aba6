---------------------------- MODULE SyncDownload ----------------------------
(***************************************************************************)
(* The incremental download of an account, GET /sync/full (routes/sync.rs)  *)
(* and the page loop of the app (sync_worker.dart, _pullFromCloud), against *)
(* the writers of the account's rows: single upserts, which are stamped     *)
(* when their transaction begins and seen when it commits, and batches,     *)
(* which bring timestamps of their own (POST /sync/full).  Both can put a   *)
(* row behind rows that were committed before it.                           *)
(*                                                                         *)
(* Rows of two collections share one cursor.  A row is known by its id; its *)
(* contents are a version, larger for a later write.                        *)
(***************************************************************************)
EXTENDS Integers, FiniteSets

CONSTANTS
    Reactions, Ratings, \* the ids of the account's rows in the two collections
    Limit,              \* the page size, per collection
    MaxPages,           \* pages the app asks for in one cycle
    MaxTime,            \* bound: instants
    MaxWrites,          \* bound: writes of rows
    MaxFailures         \* bound: cycles that fail, and cursors that are not saved

Rows == Reactions \cup Ratings

ASSUME ConstantsAssumption ==
    /\ Reactions \subseteq Nat /\ Ratings \subseteq Nat
    /\ Reactions \cap Ratings = {} /\ IsFiniteSet(Rows)
    /\ Limit \in Nat \ {0}
    /\ MaxPages \in Nat \ {0}
    /\ MaxTime \in Nat /\ MaxWrites \in Nat /\ MaxFailures \in Nat

VARIABLES
    at,         \* updated_at of each committed row, 0 if there is none
    version,    \* the version of each row, 0 if there is none
    received,   \* the version of each row the device was sent
    own,        \* the device has a reaction that was tapped on it
    saved,      \* the device's cursor
    worker,     \* what the download is doing
    writes,     \* writes so far
    failures,   \* failures so far
    \* History variables, never read by the actions.
    high,       \* the newest position that was ever committed
    late        \* rows whose last version was committed out of order

vars == <<at, version, received, own, saved, worker, writes, failures, high, late>>
server == <<at, version, writes, high, late>>

\* A position in the order of the download, (updated_at, id).
Positions == (0 .. MaxTime) \X (Rows \cup {0})
NoCursor == <<0, 0>>
Before(p, q) == p[1] < q[1] \/ (p[1] = q[1] /\ p[2] < q[2])
Position(i) == <<at[i], i>>

Versions == 0 .. MaxWrites
Idle == [pc |-> "idle"]
WorkerStates ==
    {Idle}
    \cup [pc : {"first"}, since : Positions, page : 1 .. MaxPages]
    \cup [pc : {"second"}, since : Positions, page : 1 .. MaxPages,
          got : [Rows -> Versions], last : Positions, more : BOOLEAN]
    \cup [pc : {"apply"}, page : 1 .. MaxPages, since : Positions,
          got : [Rows -> Versions], next : Positions, more : BOOLEAN]

TypeOK ==
    /\ at \in [Rows -> 0 .. MaxTime]
    /\ version \in [Rows -> Versions]
    /\ received \in [Rows -> Versions]
    /\ own \in BOOLEAN
    /\ saved \in Positions
    /\ worker \in WorkerStates
    /\ writes \in Versions
    /\ failures \in 0 .. MaxFailures
    /\ high \in Positions
    /\ late \subseteq Rows

Init ==
    /\ at = [i \in Rows |-> 0]
    /\ version = [i \in Rows |-> 0]
    /\ received = [i \in Rows |-> 0]
    /\ own = FALSE
    /\ saved = NoCursor
    /\ worker = Idle
    /\ writes = 0
    /\ failures = 0
    /\ high = NoCursor
    /\ late = {}

-----------------------------------------------------------------------------
(* Writers *)

\* The rows of S become visible with the stamp t, as version writes + 1.
\* A row is late if it lands at or before a position that was committed already,
\* or if it is a reaction and a download has read the reactions and not yet the
\* ratings: what comes between the two reads is in neither of them.
Land(S, t) ==
    /\ writes < MaxWrites
    /\ writes' = writes + 1
    /\ at' = [i \in Rows |-> IF i \in S THEN t ELSE at[i]]
    /\ version' = [i \in Rows |-> IF i \in S THEN writes + 1 ELSE version[i]]
    /\ late' = (late \ S) \cup {i \in S : \/ ~ Before(high, <<t, i>>)
                                          \/ i \in Reactions /\ worker.pc = "second"}
    /\ \E p \in {high} \cup {<<t, i>> : i \in S} :
         /\ \A q \in {high} \cup {<<t, i>> : i \in S} : ~ Before(p, q)
         /\ high' = p

\* upsert_reaction, upsert_rating: t is NOW(), the start of the transaction, which
\* may wait for the lock on the row; the row becomes visible at its commit.
Upsert(i, t) ==
    /\ Land({i}, t)
    /\ UNCHANGED <<received, own, saved, worker, failures>>

\* POST /sync/full: one transaction; the stamps are the client's, and a row is
\* written only if its stamp is newer than the one it has.
Upload(B, t) ==
    /\ \E i \in B : t > at[i]
    /\ Land({i \in B : t > at[i]}, t)
    /\ UNCHANGED <<received, own, saved, worker, failures>>

-----------------------------------------------------------------------------
(* GET /sync/full *)

After(C, since) == {i \in C : at[i] # 0 /\ Before(since, Position(i))}

\* ORDER BY updated_at, id LIMIT n: a prefix that is full or everything.
FirstOf(P, S) ==
    /\ P \subseteq S
    /\ \A i \in P, j \in S : Before(Position(j), Position(i)) => j \in P
    /\ Cardinality(P) <= Limit
    /\ Cardinality(P) < Limit => P = S

LastOf(P, l) ==
    \/ P = {} /\ l = NoCursor
    \/ \E i \in P : l = Position(i) /\ \A j \in P : ~ Before(l, Position(j))

Earlier(p, q) == IF Before(q, p) THEN q ELSE p
Later(p, q) == IF Before(p, q) THEN q ELSE p
Or(p, q) == IF p # NoCursor THEN p ELSE q

\* Mutant: the newest of the two last rows, always.
next_cursor_Max(a, aMore, b, bMore) == Later(a, b)

next_cursor(a, aMore, b, bMore) ==
    CASE aMore /\ bMore -> IF a # NoCursor /\ b # NoCursor THEN Earlier(a, b) ELSE Or(a, b)
      [] aMore /\ ~ bMore -> Or(a, b)
      [] ~ aMore /\ bMore -> Or(b, a)
      [] OTHER -> Later(a, b)

-----------------------------------------------------------------------------
(* _pullFromCloud.  The two SELECTs of a request have a snapshot each. *)

\* The user taps a dish on this device; the reaction reaches the server as an Upsert.
Tap ==
    /\ ~ own
    /\ own' = TRUE
    /\ UNCHANGED <<server, received, saved, worker, failures>>

\* getTotalReactionCount: the account's reactions on this device, wherever they came from.
NoReactionHere == ~ own /\ \A i \in Reactions : received[i] = 0

\* Mutant: only a device without reactions downloads.
BeginCycle_FirstOnly ==
    /\ worker.pc = "idle"
    /\ NoReactionHere
    /\ worker' = [pc |-> "first", since |-> saved, page |-> 1]
    /\ UNCHANGED <<server, received, own, saved, failures>>

\* _syncPending downloads if the device has none of the account's reactions or
\* has a cursor.
BeginCycle ==
    /\ worker.pc = "idle"
    /\ saved # NoCursor \/ NoReactionHere
    /\ worker' = [pc |-> "first", since |-> saved, page |-> 1]
    /\ UNCHANGED <<server, received, own, saved, failures>>

SelectReactions ==
    /\ worker.pc = "first"
    /\ \E P \in SUBSET After(Reactions, worker.since), l \in Positions :
         /\ FirstOf(P, After(Reactions, worker.since))
         /\ LastOf(P, l)
         /\ worker' = [pc |-> "second", since |-> worker.since, page |-> worker.page,
                       got |-> [i \in Rows |-> IF i \in P THEN version[i] ELSE 0],
                       last |-> l, more |-> Cardinality(P) = Limit]
    /\ UNCHANGED <<server, received, own, saved, failures>>

SelectRatings ==
    /\ worker.pc = "second"
    /\ \E P \in SUBSET After(Ratings, worker.since), l \in Positions :
         LET more == Cardinality(P) = Limit IN
         /\ FirstOf(P, After(Ratings, worker.since))
         /\ LastOf(P, l)
         /\ worker' = [pc |-> "apply", page |-> worker.page, since |-> worker.since,
                       got |-> [i \in Rows |-> IF i \in P THEN version[i] ELSE worker.got[i]],
                       next |-> next_cursor(worker.last, worker.more, l, more),
                       more |-> worker.more \/ more]
    /\ UNCHANGED <<server, received, own, saved, failures>>

Receive(S) ==
    received' = [i \in Rows |-> IF i \in S /\ worker.got[i] # 0 THEN worker.got[i] ELSE received[i]]

\* The loop goes on from the cursor in memory, whether it was saved or not.
Continue ==
    worker' = IF worker.more /\ worker.next # NoCursor /\ worker.page < MaxPages
              THEN [pc |-> "first", since |-> worker.next, page |-> worker.page + 1]
              ELSE Idle

ApplyPage ==
    /\ worker.pc = "apply"
    /\ Receive(Rows)
    /\ saved' = IF worker.next = NoCursor THEN saved ELSE worker.next
    /\ Continue
    /\ UNCHANGED <<server, own, failures>>

\* A cursor that cannot be written is ignored.
ApplyUnsaved ==
    /\ worker.pc = "apply"
    /\ failures < MaxFailures
    /\ failures' = failures + 1
    /\ Receive(Rows)
    /\ Continue
    /\ UNCHANGED <<server, own, saved>>

\* Mutant: the cursor was saved before the rows were stored.
Interrupted_CursorFirst ==
    /\ worker.pc # "idle"
    /\ failures < MaxFailures
    /\ failures' = failures + 1
    /\ saved' = IF worker.pc = "apply" /\ worker.next # NoCursor THEN worker.next ELSE saved
    /\ IF worker.pc = "apply" THEN \E S \in SUBSET Rows : Receive(S) ELSE UNCHANGED received
    /\ worker' = Idle
    /\ UNCHANGED <<server, own>>

\* A request fails, a row cannot be stored, or the app is killed.
Interrupted ==
    /\ worker.pc # "idle"
    /\ failures < MaxFailures
    /\ failures' = failures + 1
    /\ IF worker.pc = "apply" THEN \E S \in SUBSET Rows : Receive(S) ELSE UNCHANGED received
    /\ worker' = Idle
    /\ UNCHANGED <<server, own, saved>>

Download == BeginCycle \/ SelectReactions \/ SelectRatings \/ ApplyPage
Write ==
    \E t \in 1 .. MaxTime :
        \/ \E i \in Rows : Upsert(i, t)
        \/ \E B \in SUBSET Rows : Upload(B, t)

Next == Write \/ Tap \/ Download \/ ApplyUnsaved \/ Interrupted

Spec == Init /\ [][Next]_vars

\* The timer starts a cycle every 30 seconds and a cycle that began goes on.
FairSpec == Spec /\ WF_vars(Download)

-----------------------------------------------------------------------------
(* Properties *)

\* The rows the download still owes: newer than the cursor, not received.
Owed == {i \in Rows \ late : received[i] # version[i]}

\* No row is skipped: what the device lacks is beyond its cursor, however the
\* two collections fill their pages, tie in time and change between pages.
NothingSkipped ==
    \A i \in Owed : Before(saved, Position(i))

\* The download implements the abstract promise.
Promise == INSTANCE Delivery WITH
    version <- version,
    copy <- received,
    owed <- {i \in Rows \ late : received[i] # version[i] /\ Before(saved, Position(i))}
ImplementsDelivery == Promise!Spec

\* A device that does not download any more: it has no cursor, and a reaction that was
\* tapped on it, or that came with a page whose cursor a failure kept from being saved.
Stranded ==
    /\ saved = NoCursor
    /\ own \/ (failures > 0 /\ \E i \in Reactions : received[i] # 0)

\* Every row that was committed in order reaches every device but a stranded one, however
\* long the backlog is: the cap on pages per cycle only delays it.  In particular a device
\* that got its first cursor downloads for good, whatever is tapped on it, and one without
\* a tap is stranded only by a failure.  A device that was tapped on before its first
\* cursor, by a free user who then upgrades for instance, never downloads.
EventuallyDelivered == <>[](Owed = {} \/ Stranded)
=============================================================================
