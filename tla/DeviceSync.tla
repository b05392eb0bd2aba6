----------------------------- MODULE DeviceSync -----------------------------
(***************************************************************************)
(* Reactions on one device and their way to and from the server:            *)
(* dish_repository.dart (upsertReaction), sync_worker.dart and              *)
(* reaction_dao.dart of the app, against the reaction endpoints.            *)
(*                                                                         *)
(* Every reaction a user gives has a number, larger for a later one, that   *)
(* stands for its value.  Each statement on the local database and each     *)
(* request is a step: taps and the sync worker interleave between them.     *)
(* Requests carry the token of the session when they are sent, which is not *)
(* always one of the user the session names.                                *)
(***************************************************************************)
EXTENDS Integers, FiniteSets, FiniteSetsExt

CONSTANTS
    Accounts,       \* that use the device
    Pro,            \* those of them that have Pro
    Dishes,
    Taps,           \* calls of upsertReaction that can be in progress at once
    Nobody,         \* nobody is signed in
    MaxWrites,      \* bound: reactions given, on this device or another one
    MaxDisturbances \* bound: requests that time out, kills of the app, dishes merged away,
                    \* notes that are too long and purchases that outlast a session

ASSUME ConstantsAssumption ==
    /\ Nobody \notin Accounts
    /\ Pro \subseteq Accounts
    /\ Accounts \cap (1 .. MaxWrites) = {}    \* ids of rows: a downloaded row has none of a tap's
    /\ MaxWrites \in Nat
    /\ MaxDisturbances \in Nat

VARIABLES
    signedIn,       \* the user authState names
    bearer,         \* the user its tokens are of
    verifying,      \* the user of a purchase whose verification is under way
    gone,           \* dishes a merge deleted
    overlong,       \* reactions that go with notes the server refuses
    local,          \* the rows of the device's reactions table
    server,         \* the account's dish_reactions rows: value and updated_at
    cursor,         \* the saved sync cursor of each account, 0 if there is none
    late,           \* requests the client gave up on that may still reach the server
    tap,            \* what each call of upsertReaction is doing
    worker,         \* what the sync worker is doing
    writes,         \* reactions given so far
    disturbances,   \* disturbances so far
    \* History variables, never read by the actions.
    author,         \* who gave each reaction
    accepted,       \* values each server row ever had
    mixed,          \* accounts something was in progress for when the user or the tokens
                    \* changed, or whose session got the tokens of another user
    raced           \* (account, dish) with a tap on the dish that overlapped another one or
                    \* any part of a cycle of the account's worker

history == <<author, accepted, mixed, raced>>
session == <<signedIn, bearer, verifying>>
refusals == <<gone, overlong>>
vars == <<session, refusals, local, server, cursor, late, tap, worker, writes, disturbances, history>>

Values == 1 .. MaxWrites
\* A row inserted by a tap has an id of its own, its value's number; a downloaded
\* one has the id of the server's row, which its account and its dish determine.
Ids == Values \cup Accounts
Rows == [id : Ids, owner : Accounts, dish : Dishes, value : Values, synced : BOOLEAN]

Idle == [pc |-> "idle"]
TapStates ==
    {Idle}
    \cup [pc : {"update", "select", "insert", "send", "answered"},
          acct : Accounts, dish : Dishes, value : Values]
    \cup [pc : {"mark"}, acct : Accounts, dish : Dishes, id : Ids]

Downloaded == [from : Accounts, dish : Dishes, value : Values]
Pending == [id : Ids, dish : Dishes, value : Values]
WorkerStates ==
    {Idle}
    \cup [pc : {"get"}, acct : Accounts, since : Nat]
    \cup [pc : {"pending"}, acct : Accounts]
    \cup [pc : {"update", "select", "insert"}, acct : Accounts, row : Downloaded,
          rest : SUBSET Downloaded, next : Nat]
    \cup [pc : {"cursor"}, acct : Accounts, next : Nat]
    \cup [pc : {"upload"}, acct : Accounts, rest : SUBSET Pending]
    \cup [pc : {"mark"}, acct : Accounts, row : Pending, rest : SUBSET Pending]

TypeOK ==
    /\ signedIn \in Accounts \cup {Nobody}
    /\ bearer \in Accounts \cup {Nobody}
    /\ verifying \in Accounts \cup {Nobody}
    /\ gone \subseteq Dishes
    /\ overlong \subseteq Values
    /\ local \subseteq Rows
    /\ server \in [Accounts -> [Dishes -> [value : 0 .. MaxWrites, at : Nat]]]
    /\ cursor \in [Accounts -> Nat]
    /\ late \subseteq [acct : Accounts, dish : Dishes, value : Values]
    /\ tap \in [Taps -> TapStates]
    /\ worker \in WorkerStates
    /\ writes \in 0 .. MaxWrites
    /\ disturbances \in 0 .. MaxDisturbances
    /\ author \in [Values -> Accounts \cup {Nobody}]
    /\ accepted \in [Accounts -> [Dishes -> SUBSET Values]]
    /\ mixed \subseteq Accounts
    /\ raced \subseteq Accounts \X Dishes

Init ==
    /\ signedIn = Nobody /\ bearer = Nobody /\ verifying = Nobody
    /\ gone = {} /\ overlong = {}
    /\ local = {}
    /\ server = [a \in Accounts |-> [d \in Dishes |-> [value |-> 0, at |-> 0]]]
    /\ cursor = [a \in Accounts |-> 0]
    /\ late = {}
    /\ tap = [t \in Taps |-> Idle]
    /\ worker = Idle
    /\ writes = 0
    /\ disturbances = 0
    /\ author = [v \in Values |-> Nobody]
    /\ accepted = [a \in Accounts |-> [d \in Dishes |-> {}]]
    /\ mixed = {}
    /\ raced = {}

TapOn(t, pc) == tap[t].pc = pc
WorkerOn(pc) == worker.pc = pc
Tapping(t, a, d) == ~ TapOn(t, "idle") /\ tap[t].acct = a /\ tap[t].dish = d
SyncingFor(a) == ~ WorkerOn("idle") /\ worker.acct = a

RowsOf(a, d) == {r \in local : r.owner = a /\ r.dish = d}

-----------------------------------------------------------------------------
(* reaction_dao.upsert: three statements, not a transaction. *)

Overwrite(a, d, v, isSynced) ==
    local' = (local \ RowsOf(a, d))
             \cup {[r EXCEPT !.value = v, !.synced = isSynced] : r \in RowsOf(a, d)}

Insert(id, a, d, v, isSynced) ==
    local' = local \cup {[id |-> id, owner |-> a, dish |-> d, value |-> v, synced |-> isSynced]}

MarkSynced(id, d) ==
    local' = {IF r.id = id /\ r.dish = d THEN [r EXCEPT !.synced = TRUE] ELSE r : r \in local}

-----------------------------------------------------------------------------
(* POST /dishes/:id/reactions: the server stores what arrives, at its time of arrival. *)

Disturb == disturbances < MaxDisturbances /\ disturbances' = disturbances + 1

Now(a) == 1 + Max({server[a][d].at : d \in Dishes})

\* A dish that is gone is a foreign key violation, and an error for ever.
Accept(a, d, v) ==
    /\ d \notin gone
    /\ server' = [server EXCEPT ![a][d] = [value |-> v, at |-> Now(a)]]
    /\ accepted' = [accepted EXCEPT ![a][d] = @ \cup {v}]

\* What can become of a request: it is served and answered, it fails or is refused,
\* or the client stops waiting and it is served later or never.
Served(d, v) ==
    /\ bearer # Nobody
    /\ Accept(bearer, d, v)
    /\ UNCHANGED <<late, disturbances>>
Failed ==
    UNCHANGED <<server, accepted, late, disturbances>>
TimedOut(d, v) ==
    /\ bearer # Nobody
    /\ Disturb
    /\ late' = late \cup {[acct |-> bearer, dish |-> d, value |-> v]}
    /\ UNCHANGED <<server, accepted>>

LateArrives ==
    /\ \E r \in late :
         /\ Accept(r.acct, r.dish, r.value)
         /\ late' = late \ {r}
    /\ UNCHANGED <<session, refusals, local, cursor, tap, worker, writes, disturbances,
                   author, mixed, raced>>

\* The user reacts on another device.
OtherDevice(a, d) ==
    /\ writes < MaxWrites
    /\ writes' = writes + 1
    /\ author' = [author EXCEPT ![writes + 1] = a]
    /\ Accept(a, d, writes + 1)
    /\ UNCHANGED <<session, refusals, local, cursor, late, disturbances, tap, worker,
                   mixed, raced>>

\* merge_restaurant: the dish is deleted and the reactions to it go to another dish,
\* one that nobody reacts to here.  A row that is not there keeps its time.
Merge(d) ==
    /\ d \notin gone
    /\ Disturb
    /\ gone' = gone \cup {d}
    /\ server' = [a \in Accounts |-> [server[a] EXCEPT ![d].value = 0]]
    /\ UNCHANGED <<session, overlong, local, cursor, late, tap, worker, writes, history>>

-----------------------------------------------------------------------------
(* upsertReaction *)

TapBegins(t, d) ==
    /\ TapOn(t, "idle")
    /\ signedIn # Nobody
    /\ writes < MaxWrites
    /\ writes' = writes + 1
    /\ author' = [author EXCEPT ![writes + 1] = signedIn]
    /\ tap' = [tap EXCEPT ![t] = [pc |-> "update", acct |-> signedIn, dish |-> d,
                                  value |-> writes + 1]]
    /\ raced' = IF SyncingFor(signedIn) \/ \E u \in Taps : Tapping(u, signedIn, d)
                THEN raced \cup {<<signedIn, d>>} ELSE raced
    /\ UNCHANGED <<session, gone, local, server, cursor, late, worker, accepted, mixed>>

React(t, d) == TapBegins(t, d) /\ UNCHANGED <<overlong, disturbances>>

\* The notes are too long, or the reaction has none and its row keeps some that are: the
\* server refuses the row, and the request of the tap if the notes are its own.
ReactOverlong(t, d) ==
    /\ TapBegins(t, d)
    /\ Disturb
    /\ overlong' = overlong \cup {writes + 1}

To(t, pc) ==
    tap' = [tap EXCEPT ![t] = [pc |-> pc, acct |-> tap[t].acct, dish |-> tap[t].dish,
                               value |-> tap[t].value]]
Finish(t) == tap' = [tap EXCEPT ![t] = Idle]

TapUpdate(t) ==
    /\ TapOn(t, "update")
    /\ Overwrite(tap[t].acct, tap[t].dish, tap[t].value, FALSE)
    /\ To(t, "select")
    /\ UNCHANGED <<session, refusals, server, cursor, late, disturbances, worker, writes,
                   history>>

\* Mutant: the row is looked for by the fresh id, as an insert-or-update would.
TapSelect_ById(t) ==
    /\ TapOn(t, "select")
    /\ IF \E r \in local : r.id = tap[t].value THEN To(t, "send") ELSE To(t, "insert")
    /\ UNCHANGED <<session, refusals, local, server, cursor, late, disturbances, worker, writes,
                   history>>

\* getSingleOrNull throws if there is more than one row.
TapSelect(t) ==
    /\ TapOn(t, "select")
    /\ LET n == Cardinality(RowsOf(tap[t].acct, tap[t].dish)) IN
       \/ n = 0 /\ To(t, "insert")
       \/ n = 1 /\ To(t, "send")
       \/ n > 1 /\ Finish(t)
    /\ UNCHANGED <<session, refusals, local, server, cursor, late, disturbances, worker,
                   writes, history>>

TapInsert(t) ==
    /\ TapOn(t, "insert")
    /\ Insert(tap[t].value, tap[t].acct, tap[t].dish, tap[t].value, FALSE)
    /\ To(t, "send")
    /\ UNCHANGED <<session, refusals, server, cursor, late, disturbances, worker, writes,
                   history>>

\* Mutant: a failed upload is taken for a success.
TapSend_IgnoresFailure(t) ==
    /\ TapOn(t, "send")
    /\ \/ Served(tap[t].dish, tap[t].value) /\ To(t, "answered")
       \/ Failed /\ To(t, "answered")
    /\ UNCHANGED <<session, refusals, local, cursor, worker, writes, author, mixed,
                   raced>>

TapSend(t) ==
    /\ TapOn(t, "send")
    /\ \/ Served(tap[t].dish, tap[t].value) /\ To(t, "answered")
       \/ Failed /\ Finish(t)
       \/ TimedOut(tap[t].dish, tap[t].value) /\ Finish(t)
    /\ UNCHANGED <<session, refusals, local, cursor, worker, writes, author, mixed,
                   raced>>

\* The answer, and the row read again to mark it.
TapAnswered(t) ==
    /\ TapOn(t, "answered")
    /\ \/ \E r \in RowsOf(tap[t].acct, tap[t].dish) :
            /\ RowsOf(tap[t].acct, tap[t].dish) = {r}
            /\ tap' = [tap EXCEPT ![t] = [pc |-> "mark", acct |-> tap[t].acct,
                                          dish |-> tap[t].dish, id |-> r.id]]
       \/ /\ Cardinality(RowsOf(tap[t].acct, tap[t].dish)) # 1
          /\ Finish(t)
    /\ UNCHANGED <<session, refusals, local, server, cursor, late, disturbances, worker,
                   writes, history>>

TapMark(t) ==
    /\ TapOn(t, "mark")
    /\ MarkSynced(tap[t].id, tap[t].dish)
    /\ Finish(t)
    /\ UNCHANGED <<session, refusals, server, cursor, late, disturbances, worker, writes,
                   history>>

-----------------------------------------------------------------------------
(* _syncPending *)

\* The session of a user who verified a purchase is Pro, and so is one that took the
\* tokens of such a user.
IsPro == signedIn \in Pro \/ bearer \in Pro

\* _isSyncing admits one cycle at a time.  A Pro account downloads if the device
\* has none of its rows or has a cursor; a cursor that cannot be read counts as none.
SyncBegin ==
    /\ WorkerOn("idle")
    /\ signedIn # Nobody
    /\ \E since \in {0, cursor[signedIn]} :
         worker' = IF IsPro
                      /\ ({r \in local : r.owner = signedIn} = {} \/ since # 0)
                   THEN [pc |-> "get", acct |-> signedIn, since |-> since]
                   ELSE [pc |-> "pending", acct |-> signedIn]
    /\ raced' = raced \cup
                {<<signedIn, d>> : d \in {e \in Dishes : \E t \in Taps : Tapping(t, signedIn, e)}}
    /\ UNCHANGED <<session, refusals, local, server, cursor, late, disturbances, tap, writes,
                   author, accepted, mixed>>

ToPending == worker' = [pc |-> "pending", acct |-> worker.acct]

\* GET /sync/full answers with the rows of the account whose token it carries
\* that are newer than the cursor; one page, module SyncDownload has the paging.
Newer(a, since) == {d \in Dishes : server[a][d].value # 0 /\ server[a][d].at > since}

ApplyNext(D, next) ==
    IF D = {} THEN worker' = [pc |-> "cursor", acct |-> worker.acct, next |-> next]
    ELSE \E row \in D :
           worker' = [pc |-> "update", acct |-> worker.acct, row |-> row,
                      rest |-> D \ {row}, next |-> next]

\* Mutant: a failed download ends the cycle.
PullFails_EndsCycle == worker' = Idle /\ UNCHANGED cursor

PullFails == ToPending /\ UNCHANGED cursor

\* Mutant: an empty page saves a cursor too.
PullEmpty_SavesNull ==
    /\ Newer(bearer, worker.since) = {}
    /\ worker' = [pc |-> "cursor", acct |-> worker.acct, next |-> -1]
    /\ UNCHANGED cursor

\* The server has no next_since for an empty page, and the client saves none.
PullEmpty ==
    /\ Newer(bearer, worker.since) = {}
    /\ ToPending
    /\ UNCHANGED cursor

PullApplies(D) ==
    ApplyNext({[from |-> bearer, dish |-> d, value |-> server[bearer][d].value] : d \in D},
              Max({server[bearer][d].at : d \in D}))

PullPage ==
    LET D == Newer(bearer, worker.since) IN
    /\ D # {}
    /\ PullApplies(D)
    /\ UNCHANGED cursor

PullGet ==
    /\ WorkerOn("get")
    /\ \/ PullFails
       \/ bearer \in Pro /\ (PullEmpty \/ PullPage)
    /\ UNCHANGED <<session, refusals, local, server, late, disturbances, tap, writes,
                   author, accepted, mixed, raced>>

PullTo(pc) ==
    worker' = [pc |-> pc, acct |-> worker.acct, row |-> worker.row,
               rest |-> worker.rest, next |-> worker.next]

PullUpdate ==
    /\ WorkerOn("update")
    /\ Overwrite(worker.acct, worker.row.dish, worker.row.value, TRUE)
    /\ PullTo("select")
    /\ UNCHANGED <<session, refusals, server, cursor, late, disturbances, tap, writes, history>>

\* An exception ends the download, not the cycle.
PullSelect ==
    /\ WorkerOn("select")
    /\ LET n == Cardinality(RowsOf(worker.acct, worker.row.dish)) IN
       \/ n = 0 /\ PullTo("insert")
       \/ n = 1 /\ ApplyNext(worker.rest, worker.next)
       \/ n > 1 /\ ToPending
    /\ UNCHANGED <<session, refusals, local, server, cursor, late, disturbances, tap, writes,
                   history>>

\* The id is the primary key: inserting it twice is an exception.
PullInsert ==
    /\ WorkerOn("insert")
    /\ IF \E r \in local : r.id = worker.row.from /\ r.dish = worker.row.dish
       THEN ToPending /\ UNCHANGED local
       ELSE /\ Insert(worker.row.from, worker.acct, worker.row.dish, worker.row.value, TRUE)
            /\ ApplyNext(worker.rest, worker.next)
    /\ UNCHANGED <<session, refusals, server, cursor, late, disturbances, tap, writes, history>>

\* Writing to the secure storage may fail, which is ignored.
PullCursor ==
    /\ WorkerOn("cursor")
    /\ \/ cursor' = [cursor EXCEPT ![worker.acct] = worker.next]
       \/ UNCHANGED cursor
    /\ ToPending
    /\ UNCHANGED <<session, refusals, local, server, late, disturbances, tap, writes, author,
                   accepted, mixed, raced>>

\* The rows to upload are read once, with their values of now.
ToUpload(P) ==
    worker' = IF P = {} THEN Idle ELSE [pc |-> "upload", acct |-> worker.acct, rest |-> P]

\* Mutant: getPendingSync does not filter by account.
UploadBegin_AnyOwner ==
    /\ WorkerOn("pending")
    /\ ToUpload({[id |-> r.id, dish |-> r.dish, value |-> r.value] : r \in {q \in local : ~ q.synced}})
    /\ UNCHANGED <<session, refusals, local, server, cursor, late, disturbances, tap, writes,
                   history>>

UploadBegin ==
    /\ WorkerOn("pending")
    /\ ToUpload({[id |-> r.id, dish |-> r.dish, value |-> r.value] :
                   r \in {q \in local : q.owner = worker.acct /\ ~ q.synced}})
    /\ UNCHANGED <<session, refusals, local, server, cursor, late, disturbances, tap, writes,
                   history>>

UploadSend ==
    /\ WorkerOn("upload")
    /\ \E p \in worker.rest :
         \/ /\ p.value \notin overlong
            /\ Served(p.dish, p.value)
            /\ worker' = [pc |-> "mark", acct |-> worker.acct, row |-> p,
                          rest |-> worker.rest \ {p}]
         \/ /\ Failed \/ (p.value \notin overlong /\ TimedOut(p.dish, p.value))
            /\ ToUpload(worker.rest \ {p})
    /\ UNCHANGED <<session, refusals, local, cursor, tap, writes, author, mixed, raced>>

UploadMark ==
    /\ WorkerOn("mark")
    /\ MarkSynced(worker.row.id, worker.row.dish)
    /\ ToUpload(worker.rest)
    /\ UNCHANGED <<session, refusals, server, cursor, late, disturbances, tap, writes, history>>

-----------------------------------------------------------------------------
Busy == {a \in Accounts : SyncingFor(a) \/ \E t \in Taps : ~ TapOn(t, "idle") /\ tap[t].acct = a}

SignIn(a) ==
    /\ signedIn = Nobody
    /\ signedIn' = a /\ bearer' = a
    /\ UNCHANGED <<verifying, refusals, local, server, cursor, late, disturbances, tap, worker,
                   writes, history>>

\* Sign-out stops neither the taps nor the worker's cycle.
SignsOut ==
    /\ signedIn # Nobody
    /\ signedIn' = Nobody /\ bearer' = Nobody
    /\ mixed' = mixed \cup Busy
    /\ UNCHANGED <<refusals, local, server, cursor, late, tap, worker, writes,
                   author, accepted, raced>>

SignOut == SignsOut /\ UNCHANGED <<verifying, disturbances>>

\* Nor does it stop a purchase that is being verified.
SignOutBuying ==
    /\ SignsOut
    /\ bearer \in Pro
    /\ Disturb
    /\ verifying' = bearer

\* _verifyAndActivate: whoever is signed in when the answer comes gets its tokens.
Verified ==
    /\ verifying # Nobody /\ signedIn # Nobody
    /\ bearer' = verifying /\ verifying' = Nobody
    /\ mixed' = IF verifying = signedIn THEN mixed ELSE mixed \cup Busy \cup {signedIn}
    /\ UNCHANGED <<signedIn, refusals, local, server, cursor, late, disturbances, tap, worker,
                   writes, author, accepted, raced>>

\* The app is killed: the database, the cursors and the session are kept.
Kill ==
    /\ Busy # {}
    /\ Disturb
    /\ tap' = [t \in Taps |-> Idle]
    /\ worker' = Idle
    /\ verifying' = Nobody
    /\ UNCHANGED <<signedIn, bearer, refusals, local, server, cursor, late, writes, history>>

TapStep(t) ==
    TapUpdate(t) \/ TapSelect(t) \/ TapInsert(t) \/ TapSend(t) \/ TapAnswered(t) \/ TapMark(t)
WorkerStep ==
    \/ SyncBegin
    \/ PullGet \/ PullUpdate \/ PullSelect \/ PullInsert \/ PullCursor
    \/ UploadBegin \/ UploadSend \/ UploadMark

Next ==
    \/ LateArrives
    \/ \E a \in Accounts, d \in Dishes : OtherDevice(a, d)
    \/ \E d \in Dishes : Merge(d)
    \/ \E t \in Taps, d \in Dishes : React(t, d) \/ ReactOverlong(t, d)
    \/ \E t \in Taps : TapStep(t)
    \/ WorkerStep
    \/ \E a \in Accounts : SignIn(a)
    \/ SignOut \/ SignOutBuying \/ Verified \/ Kill

Spec == Init /\ [][Next]_vars

\* The timer starts a cycle every 30 seconds, a cycle that began goes on, and a row that
\* is offered again and again and not refused reaches the server in the end.
Fairness ==
    /\ WF_vars(WorkerStep)
    /\ SF_vars(UploadSend /\ worker'.pc = "mark")

FairSpec == Spec /\ Fairness

-----------------------------------------------------------------------------
(* Properties *)

\* upsert keeps one row per account and dish, which its getSingleOrNull relies
\* on, unless a tap on the dish overlapped another one or a cycle of the worker: a
\* second call of upsert may then be in progress.
OneRowPerDish ==
    \A a \in Accounts, d \in Dishes :
        Cardinality(RowsOf(a, d)) > 1 => <<a, d>> \in raced

\* A row counts as synced only if the server had its value for that account:
\* whatever fails on the way, a reaction the server never got stays pending.
\* A change made while its sync was under way, or a change of user, is excepted.
SyncedWasSent ==
    \A r \in local :
        r.synced /\ <<r.owner, r.dish>> \notin raced /\ r.owner \notin mixed
            => r.value \in accepted[r.owner][r.dish]

\* The server stores a reaction under the account of the user who gave it,
\* unless that user signed out while a request of theirs was being prepared, or had
\* the tokens of another one.  getPendingSync filters by user for this.
NoMisattribution ==
    \A a \in Accounts, d \in Dishes :
        server[a][d].value # 0 /\ author[server[a][d].value] # a
            => author[server[a][d].value] \in mixed

\* The worker retries a pending row for ever, Pro or not, until the server has it: every
\* reaction of a user who stays signed in gets there but for those the server refuses for
\* good, to a dish that a merge deleted or with notes that are too long.  They stay pending,
\* and hold up none of the others.
EventuallySynced ==
    \A a \in Accounts :
        <>[](signedIn = a) =>
            <>[](\A r \in local :
                    r.owner = a /\ r.dish \notin gone /\ r.value \notin overlong => r.synced)

\* The design says that the last write of a reaction wins.  Refuted: a download
\* overwrites a later reaction that is still pending, and marks it synced.
LastWriteWins ==
    [][\A r \in local, q \in local' :
          ~ r.synced /\ q.owner = r.owner /\ q.dish = r.dish /\ author[r.value] = author[q.value]
              => q.value >= r.value]_vars
=============================================================================
