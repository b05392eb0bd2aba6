-------------------------- MODULE DeviceSync_proofs --------------------------
(***************************************************************************)
(* Proofs, for any accounts, dishes and taps in progress, that the device   *)
(* keeps one row per dish, that what it holds for synced the server had, and *)
(* that no reaction is stored under another user's account, but for the     *)
(* overlaps the properties name.                                            *)
(***************************************************************************)
EXTENDS DeviceSync, WellFoundedInduction, FiniteSetTheorems, TLAPS

\* The server's clocks have a highest value, so that Now has one; a row that was written
\* holds something it accepted.
Bounded == \E n \in Nat : \A a \in Accounts, d \in Dishes : server[a][d].at <= n
Stored ==
    \A a \in Accounts, d \in Dishes :
        server[a][d].value # 0 => server[a][d].value \in accepted[a][d]

\* What is in progress for an account that is not signed in has met a change of user.
Elsewhere ==
    /\ signedIn \in {bearer} \cup mixed
    /\ \A t \in Taps : ~ TapOn(t, "idle") => tap[t].acct \in {signedIn} \cup mixed
    /\ ~ WorkerOn("idle") => worker.acct \in {signedIn} \cup mixed

\* Unless raced, a tap is the only one for its dish and meets no sync of its account.
Alone ==
    \A t \in Taps : ~ TapOn(t, "idle") /\ <<tap[t].acct, tap[t].dish>> \notin raced =>
        /\ ~ SyncingFor(tap[t].acct)
        /\ \A u \in Taps \ {t} : ~ Tapping(u, tap[t].acct, tap[t].dish)

\* A reaction that was given, by a; one that a's row may hold.
By(v, a) == v <= writes /\ author[v] = a
Attributed(v, a) == v <= writes /\ author[v] \in {a} \cup mixed

Carries == {"update", "select", "insert", "send", "answered"}
ServerGiven ==
    \A a \in Accounts, d \in Dishes : server[a][d].value # 0 => Attributed(server[a][d].value, a)
LateGiven == \A r \in late : Attributed(r.value, r.acct)
TapsGiven == \A t \in Taps : tap[t].pc \in Carries => By(tap[t].value, tap[t].acct)
RowsGiven == \A r \in local : ~ r.synced => By(r.value, r.owner)
UploadsGiven ==
    worker.pc \in {"upload", "mark"} => \A p \in worker.rest : By(p.value, worker.acct)
Given == ServerGiven /\ LateGiven /\ TapsGiven /\ RowsGiven /\ UploadsGiven

\* A row's id is its own, a tap that may insert has one nobody else has.
Inserts == {"update", "select", "insert"}
RowKeys == \A r, q \in local : r.id = q.id /\ r.dish = q.dish => r = q
IdsIssued == \A r \in local : r.id \in Accounts \/ r.id <= writes
FreshIds ==
    \A t \in Taps : tap[t].pc \in Inserts =>
        /\ \A r \in local : r.id # tap[t].value
        /\ \A u \in Taps \ {t} : tap[u].pc \in Inserts => tap[u].value # tap[t].value
Keys == RowKeys /\ IdsIssued /\ FreshIds

\* Unless raced, an account has one row for a dish, and whoever is about to insert one
\* finds none.
OneRow ==
    \A a \in Accounts, d \in Dishes : <<a, d>> \notin raced => \A r, q \in RowsOf(a, d) : r = q
NoneForTap ==
    \A t \in Taps : TapOn(t, "insert") /\ <<tap[t].acct, tap[t].dish>> \notin raced =>
        RowsOf(tap[t].acct, tap[t].dish) = {}
NoneForPull ==
    WorkerOn("insert") /\ <<worker.acct, worker.row.dish>> \notin raced =>
        RowsOf(worker.acct, worker.row.dish) = {}
Single == OneRow /\ NoneForTap /\ NoneForPull

\* What is marked was sent: the row still holds the value that went, unless the dish was
\* raced or the account mixed.
Calm(a, d) == <<a, d>> \notin raced /\ a \notin mixed
Shown == {"select", "insert", "send", "answered"}
Holds(a, p) == \E r \in RowsOf(a, p.dish) : r.id = p.id /\ (Calm(a, p.dish) => r.value = p.value)
TapsShown ==
    \A t \in Taps : tap[t].pc \in Shown /\ Calm(tap[t].acct, tap[t].dish) =>
        \A r \in RowsOf(tap[t].acct, tap[t].dish) : r.value = tap[t].value
TapsAnswered ==
    \A t \in Taps : TapOn(t, "answered") /\ tap[t].acct \notin mixed =>
        tap[t].value \in accepted[tap[t].acct][tap[t].dish]
TapsMark ==
    \A t \in Taps : TapOn(t, "mark") =>
        \E r \in RowsOf(tap[t].acct, tap[t].dish) :
            /\ r.id = tap[t].id
            /\ Calm(tap[t].acct, tap[t].dish) => r.value \in accepted[tap[t].acct][tap[t].dish]
Pulled ==
    worker.pc \in {"update", "select", "insert"} => \A r \in worker.rest \cup {worker.row} :
        /\ r.value \in accepted[r.from][r.dish]
        /\ r.from = worker.acct \/ worker.acct \in mixed
Uploads ==
    /\ worker.pc \in {"upload", "mark"} => \A p \in worker.rest : Holds(worker.acct, p)
    /\ WorkerOn("mark") =>
         /\ Holds(worker.acct, worker.row)
         /\ worker.acct \notin mixed =>
              worker.row.value \in accepted[worker.acct][worker.row.dish]
Sent == SyncedWasSent /\ TapsShown /\ TapsAnswered /\ TapsMark /\ Pulled /\ Uploads

Typed == TypeOK /\ Bounded /\ Stored
IInv == Typed /\ Elsewhere /\ Alone /\ Given /\ Keys /\ Single /\ Sent

USE DEF session, refusals, Disturb

-----------------------------------------------------------------------------
\* Every bounded set of naturals but the empty one has a maximum.
LEMMA MaxExists ==
    ASSUME NEW S, S \subseteq Nat, S # {}, NEW n \in Nat, \A x \in S : x <= n
    PROVE  Max(S) \in S /\ \A x \in S : x <= Max(S)
  <1> DEFINE T == {n - x : x \in S}
             R == OpToRel(<, Nat)
  <1>1. \A x \in S : x \in Nat /\ n - x \in Nat
    OBVIOUS
  <1>2. T \subseteq Nat /\ T # {}
    BY <1>1
  <1>3. \A x, y \in Nat : x < y => <<x, y>> \in R
    BY DEF OpToRel
  <1>4. IsWellFoundedOn(R, Nat)
    BY NatLessThanWellFounded
  <1> HIDE DEF R
  <1>5. PICK m \in T : \A y \in T : <<y, m>> \notin R
    BY <1>2, <1>4, WFMin
  <1>6. PICK x \in S : m = n - x
    OBVIOUS
  <1>7. ASSUME NEW y \in S PROVE y <= x
    <2>1. n - y \in T /\ n - y \in Nat /\ n - x \in Nat /\ x \in Nat /\ y \in Nat
      BY <1>1
    <2>2. ~ (n - y < n - x)
      BY <1>3, <1>5, <1>6, <2>1
    <2> QED
      BY <2>1, <2>2
  <1> QED
    BY <1>7 DEF Max

-----------------------------------------------------------------------------
(* Shapes *)

LEMMA TapShape ==
    ASSUME TypeOK, NEW t \in Taps
    PROVE  /\ tap[t] \in TapStates
           /\ tap[t].pc \in Carries \cup {"idle", "mark"}
           /\ ~ TapOn(t, "idle") => tap[t].acct \in Accounts /\ tap[t].dish \in Dishes
           /\ tap[t].pc \in Carries => tap[t].value \in Values
           /\ TapOn(t, "mark") => tap[t].id \in Ids
  <1>1. tap[t] \in TapStates
    BY DEF TypeOK
  <1> QED
    BY <1>1 DEF TapStates, Idle, TapOn, Carries

LEMMA WorkerShape ==
    ASSUME TypeOK
    PROVE  /\ worker.pc \in {"idle", "get", "pending", "update", "select", "insert", "cursor",
                             "upload", "mark"}
           /\ ~ WorkerOn("idle") => worker.acct \in Accounts
           /\ WorkerOn("get") => worker.since \in Nat
           /\ worker.pc \in {"update", "select", "insert"} =>
                /\ worker.row \in Downloaded /\ worker.rest \in SUBSET Downloaded
                /\ worker.next \in Nat
           /\ WorkerOn("cursor") => worker.next \in Nat
           /\ worker.pc \in {"upload", "mark"} => worker.rest \in SUBSET Pending
           /\ WorkerOn("mark") => worker.row \in Pending
  BY DEF TypeOK, WorkerStates, Idle, WorkerOn

LEMMA RowShape ==
    ASSUME TypeOK, NEW r \in local
    PROVE  /\ r \in Rows /\ r.id \in Ids /\ r.owner \in Accounts /\ r.dish \in Dishes
           /\ r.value \in Values /\ r.synced \in BOOLEAN
           /\ r = [id |-> r.id, owner |-> r.owner, dish |-> r.dish, value |-> r.value,
                   synced |-> r.synced]
  BY DEF TypeOK, Rows

LEMMA ServerShape ==
    ASSUME TypeOK, NEW a \in Accounts, NEW d \in Dishes
    PROVE  /\ server[a][d] \in [value : 0 .. MaxWrites, at : Nat]
           /\ server[a][d].value \in 0 .. MaxWrites /\ server[a][d].at \in Nat
           /\ accepted[a][d] \in SUBSET Values
  BY DEF TypeOK

\* The next reaction has a number of its own.
LEMMA NextValue ==
    ASSUME TypeOK, writes < MaxWrites
    PROVE  /\ writes + 1 \in Values /\ writes + 1 \in 0 .. MaxWrites /\ writes \in Nat
  BY ConstantsAssumption DEF TypeOK, Values

\* Someone who is signed in has an account.
LEMMA SignedInIs == ASSUME TypeOK, signedIn # Nobody PROVE signedIn \in Accounts
  BY DEF TypeOK
LEMMA BearerIs == ASSUME TypeOK, bearer # Nobody PROVE bearer \in Accounts
  BY DEF TypeOK

-----------------------------------------------------------------------------
(* Types *)

LEMMA NowTyped ==
    ASSUME TypeOK, Bounded, NEW a \in Accounts, NEW d \in Dishes
    PROVE  Now(a) \in Nat \ {0} /\ \E n \in Nat : Now(a) <= n
                                      /\ \A b \in Accounts, e \in Dishes : server[b][e].at <= n
  <1> DEFINE S == {server[a][e].at : e \in Dishes}
  <1>1. PICK n \in Nat : \A b \in Accounts, e \in Dishes : server[b][e].at <= n
    BY DEF Bounded
  <1>2. S \subseteq Nat /\ S # {} /\ \A x \in S : x <= n
    BY <1>1, ServerShape
  <1> HIDE DEF S
  <1>3. Max(S) \in S
    BY <1>2, MaxExists
  <1>4. Max(S) \in Nat /\ Max(S) <= n /\ Now(a) = 1 + Max(S)
    BY <1>2, <1>3 DEF Now, S
  <1>5. n + 1 \in Nat /\ \A b \in Accounts, e \in Dishes : server[b][e].at <= n + 1
    BY <1>1, ServerShape
  <1> QED
    BY <1>4, <1>5

\* What the server stores, and what it leaves alone.
LEMMA Accepts ==
    ASSUME Typed, NEW a \in Accounts, NEW d \in Dishes, NEW v \in Values, Accept(a, d, v)
    PROVE  /\ server' \in [Accounts -> [Dishes -> [value : 0 .. MaxWrites, at : Nat]]]
           /\ accepted' \in [Accounts -> [Dishes -> SUBSET Values]]
           /\ Bounded' /\ Stored'
           /\ server'[a][d].value = v /\ v \in accepted'[a][d]
           /\ \A b \in Accounts, e \in Dishes :
                /\ <<b, e>> # <<a, d>> => server'[b][e] = server[b][e]
                /\ accepted[b][e] \subseteq accepted'[b][e]
  <1> DEFINE n == Now(a)
  <1>1. /\ server' = [server EXCEPT ![a][d] = [value |-> v, at |-> n]]
        /\ accepted' = [accepted EXCEPT ![a][d] = @ \cup {v}]
    BY DEF Accept
  <1>2. PICK m \in Nat : n <= m /\ \A b \in Accounts, e \in Dishes : server[b][e].at <= m
    BY NowTyped DEF Typed
  <1>3. n \in Nat \ {0} /\ v \in 0 .. MaxWrites /\ v # 0
    BY NowTyped, ConstantsAssumption DEF Typed, Values
  <1> HIDE DEF n
  <1>4. /\ server' \in [Accounts -> [Dishes -> [value : 0 .. MaxWrites, at : Nat]]]
        /\ accepted' \in [Accounts -> [Dishes -> SUBSET Values]]
    BY <1>1, <1>3 DEF Typed, TypeOK
  <1>5. /\ server'[a][d] = [value |-> v, at |-> n]
        /\ accepted'[a][d] = accepted[a][d] \cup {v}
        /\ \A b \in Accounts, e \in Dishes : <<b, e>> # <<a, d>> =>
             server'[b][e] = server[b][e] /\ accepted'[b][e] = accepted[b][e]
    BY <1>1 DEF Typed, TypeOK
  <1>6. Bounded'
    <2>1. \A b \in Accounts, e \in Dishes : server'[b][e].at <= m
      BY <1>2, <1>5
    <2> QED
      BY <2>1 DEF Bounded
  <1>7. Stored'
    BY <1>3, <1>5 DEF Typed, Stored
  <1> QED
    BY <1>4, <1>5, <1>6, <1>7

LEMMA ServerStays ==
    ASSUME Typed, UNCHANGED <<server, accepted>> PROVE Bounded' /\ Stored'
  BY DEF Typed, Bounded, Stored

\* A merge empties the account's rows of a dish.
LEMMA Merges ==
    ASSUME Typed, NEW d \in Dishes, Merge(d)
    PROVE  /\ server' \in [Accounts -> [Dishes -> [value : 0 .. MaxWrites, at : Nat]]]
           /\ Bounded' /\ Stored'
           /\ \A b \in Accounts, e \in Dishes :
                server'[b][e].value = 0 \/ server'[b][e] = server[b][e]
  <1>1. TypeOK /\ accepted' = accepted
    BY DEF Typed, Merge, history
  <1>2. server' = [a \in Accounts |-> [server[a] EXCEPT ![d].value = 0]]
    BY DEF Merge
  <1>3. 0 \in 0 .. MaxWrites
    BY ConstantsAssumption
  <1>4. ASSUME NEW b \in Accounts
        PROVE  /\ server'[b] \in [Dishes -> [value : 0 .. MaxWrites, at : Nat]]
               /\ \A e \in Dishes : /\ server'[b][e].at = server[b][e].at
                                    /\ server'[b][e].value = 0 \/ server'[b][e] = server[b][e]
    <2>1. server'[b] = [server[b] EXCEPT ![d].value = 0]
      BY <1>2
    <2>2. server[b] \in [Dishes -> [value : 0 .. MaxWrites, at : Nat]]
      BY <1>1 DEF TypeOK
    <2> QED
      BY <1>3, <2>1, <2>2
  <1>5. server' \in [Accounts -> [Dishes -> [value : 0 .. MaxWrites, at : Nat]]]
    BY <1>2, <1>4
  <1>6. Bounded'
    BY <1>4 DEF Typed, Bounded
  <1>7. Stored'
    BY <1>1, <1>4 DEF Typed, Stored
  <1> QED
    BY <1>4, <1>5, <1>6, <1>7

LEMMA IdleTyped == Idle \in TapStates /\ Idle \in WorkerStates /\ Idle.pc = "idle"
  BY DEF Idle, TapStates, WorkerStates

\* A tap goes on, or ends.
LEMMA TapGoes ==
    ASSUME TypeOK, NEW t \in Taps, NEW w \in TapStates, tap' = [tap EXCEPT ![t] = w]
    PROVE  tap' \in [Taps -> TapStates] /\ tap'[t] = w /\ \A u \in Taps \ {t} : tap'[u] = tap[u]
  BY DEF TypeOK

LEMMA Tos ==
    ASSUME TypeOK, NEW t \in Taps, tap[t].pc \in Carries, NEW pc \in Carries, To(t, pc)
    PROVE  /\ tap' \in [Taps -> TapStates] /\ \A u \in Taps \ {t} : tap'[u] = tap[u]
           /\ tap'[t].pc = pc /\ tap'[t].acct = tap[t].acct /\ tap'[t].dish = tap[t].dish
           /\ tap'[t].value = tap[t].value
  <1> DEFINE w == [pc |-> pc, acct |-> tap[t].acct, dish |-> tap[t].dish, value |-> tap[t].value]
  <1>1. w \in TapStates
    BY TapShape DEF TapStates, Carries, TapOn
  <1>2. tap' = [tap EXCEPT ![t] = w]
    BY DEF To
  <1> HIDE DEF w
  <1>3. tap' \in [Taps -> TapStates] /\ tap'[t] = w /\ \A u \in Taps \ {t} : tap'[u] = tap[u]
    BY <1>1, <1>2, TapGoes
  <1> QED
    BY <1>3 DEF w

LEMMA Finishes ==
    ASSUME TypeOK, NEW t \in Taps, Finish(t)
    PROVE  /\ tap' \in [Taps -> TapStates] /\ \A u \in Taps \ {t} : tap'[u] = tap[u]
           /\ tap'[t].pc = "idle"
  BY IdleTyped, TapGoes DEF Finish

-----------------------------------------------------------------------------
(* What the worker goes to *)

LEMMA Applies ==
    ASSUME TypeOK, ~ WorkerOn("idle"), NEW D \in SUBSET Downloaded, NEW n \in Nat, ApplyNext(D, n)
    PROVE  /\ worker' \in WorkerStates /\ worker'.acct = worker.acct
           /\ worker'.pc \in {"cursor", "update"}
           /\ worker'.pc = "update" => worker'.row \in D /\ worker'.rest \subseteq D
  <1>1. worker.acct \in Accounts
    BY WorkerShape
  <1>2. CASE D = {}
    <2>1. worker' = [pc |-> "cursor", acct |-> worker.acct, next |-> n]
      BY <1>2 DEF ApplyNext
    <2> QED
      BY <1>1, <2>1 DEF WorkerStates
  <1>3. CASE D # {}
    <2>1. PICK row \in D : worker' = [pc |-> "update", acct |-> worker.acct, row |-> row,
                                      rest |-> D \ {row}, next |-> n]
      BY <1>3 DEF ApplyNext
    <2>2. row \in Downloaded /\ D \ {row} \in SUBSET Downloaded
      OBVIOUS
    <2> QED
      BY <1>1, <2>1, <2>2 DEF WorkerStates
  <1> QED
    BY <1>2, <1>3

LEMMA PullsTo ==
    ASSUME TypeOK, worker.pc \in {"update", "select", "insert"},
           NEW pc \in {"select", "insert"}, PullTo(pc)
    PROVE  /\ worker' \in WorkerStates /\ worker'.acct = worker.acct /\ worker'.pc = pc
           /\ worker'.row = worker.row /\ worker'.rest = worker.rest
  <1>1. /\ worker.acct \in Accounts /\ worker.row \in Downloaded
        /\ worker.rest \in SUBSET Downloaded /\ worker.next \in Nat
    BY WorkerShape DEF WorkerOn
  <1>2. worker' = [pc |-> pc, acct |-> worker.acct, row |-> worker.row,
                   rest |-> worker.rest, next |-> worker.next]
    BY DEF PullTo
  <1> QED
    BY <1>1, <1>2 DEF WorkerStates

LEMMA GoesToPending ==
    ASSUME TypeOK, ~ WorkerOn("idle"), ToPending
    PROVE  worker' \in WorkerStates /\ worker'.acct = worker.acct /\ worker'.pc = "pending"
  <1>1. worker.acct \in Accounts
    BY WorkerShape
  <1>2. worker' = [pc |-> "pending", acct |-> worker.acct]
    BY DEF ToPending
  <1> QED
    BY <1>1, <1>2 DEF WorkerStates

LEMMA GoesToUpload ==
    ASSUME TypeOK, ~ WorkerOn("idle"), NEW P \in SUBSET Pending, ToUpload(P)
    PROVE  /\ worker' \in WorkerStates
           /\ \/ worker'.pc = "idle"
              \/ worker'.pc = "upload" /\ worker'.acct = worker.acct /\ worker'.rest = P
  <1>1. worker.acct \in Accounts
    BY WorkerShape
  <1>2. worker' = Idle \/ worker' = [pc |-> "upload", acct |-> worker.acct, rest |-> P]
    BY DEF ToUpload
  <1> QED
    BY <1>1, <1>2, IdleTyped DEF WorkerStates

\* The worker begins for whoever is signed in.
LEMMA Begins ==
    ASSUME TypeOK, SyncBegin
    PROVE  /\ worker' \in WorkerStates /\ worker'.pc \in {"get", "pending"}
           /\ worker'.acct = signedIn /\ signedIn \in Accounts
  <1>1. PICK since \in {0, cursor[signedIn]} :
          worker' = IF IsPro
                       /\ ({r \in local : r.owner = signedIn} = {} \/ since # 0)
                    THEN [pc |-> "get", acct |-> signedIn, since |-> since]
                    ELSE [pc |-> "pending", acct |-> signedIn]
    BY DEF SyncBegin
  <1>2. signedIn \in Accounts
    BY SignedInIs DEF SyncBegin
  <1>3. since \in Nat
    BY <1>2 DEF TypeOK
  <1>4. \/ worker' = [pc |-> "get", acct |-> signedIn, since |-> since]
        \/ worker' = [pc |-> "pending", acct |-> signedIn]
    BY <1>1
  <1> QED
    BY <1>2, <1>3, <1>4 DEF WorkerStates

\* A page: what the server holds for whoever is signed in, all of it accepted.
LEMMA Pages ==
    ASSUME Typed, WorkerOn("get"), bearer \in Pro, PullPage
    PROVE  /\ worker' \in WorkerStates /\ worker'.acct = worker.acct
           /\ worker'.pc \in {"cursor", "update"}
           /\ worker'.pc = "update" => \A r \in worker'.rest \cup {worker'.row} :
                r.from = bearer /\ r.value \in accepted[r.from][r.dish]
  <1> DEFINE D == Newer(bearer, worker.since)
             N == {[from |-> bearer, dish |-> d, value |-> server[bearer][d].value] : d \in D}
             S == {server[bearer][d].at : d \in D}
  <1>1. TypeOK /\ bearer \in Accounts /\ worker.since \in Nat /\ ~ WorkerOn("idle")
    BY WorkerShape, ConstantsAssumption DEF Typed, WorkerOn
  <1>2. D \subseteq Dishes /\ D # {} /\ ApplyNext(N, Max(S))
    BY DEF PullPage, PullApplies, Newer
  <1>3. ASSUME NEW d \in D
        PROVE  /\ server[bearer][d].at \in Nat
               /\ server[bearer][d].value \in accepted[bearer][d]
               /\ server[bearer][d].value \in Values
    <2>1. d \in Dishes /\ server[bearer][d].value # 0
      BY DEF Newer
    <2>2. server[bearer][d].at \in Nat /\ accepted[bearer][d] \in SUBSET Values
      BY <1>1, <2>1, ServerShape
    <2>3. server[bearer][d].value \in accepted[bearer][d]
      BY <1>1, <2>1 DEF Typed, Stored
    <2> QED
      BY <2>2, <2>3
  <1>4. N \in SUBSET Downloaded
    BY <1>1, <1>2, <1>3 DEF Downloaded
  <1>5. Max(S) \in Nat
    <2>1. PICK n \in Nat : \A a \in Accounts, d \in Dishes : server[a][d].at <= n
      BY DEF Typed, Bounded
    <2>2. S \subseteq Nat /\ S # {} /\ \A x \in S : x <= n
      BY <1>1, <1>2, <1>3, <2>1
    <2> HIDE DEF S
    <2> QED
      BY <2>2, MaxExists
  <1>6. \A r \in N : r.from = bearer /\ r.value \in accepted[r.from][r.dish]
    BY <1>3
  <1> HIDE DEF N, S, D
  <1>7. /\ worker' \in WorkerStates /\ worker'.acct = worker.acct
        /\ worker'.pc \in {"cursor", "update"}
        /\ worker'.pc = "update" => worker'.row \in N /\ worker'.rest \subseteq N
    BY <1>1, <1>2, <1>4, <1>5, Applies
  <1> QED
    BY <1>6, <1>7
-----------------------------------------------------------------------------
(* What becomes of the rows *)

\* The rows are rewritten in place: what identifies them stays.
Rewritten(g) ==
    /\ g \in [local -> Rows] /\ local' = {g[r] : r \in local}
    /\ \A r \in local : g[r].id = r.id /\ g[r].owner = r.owner /\ g[r].dish = r.dish

LEMMA Overwrites ==
    ASSUME TypeOK, NEW a \in Accounts, NEW d \in Dishes, NEW v \in Values, NEW s \in BOOLEAN,
           Overwrite(a, d, v, s)
    PROVE  \E g \in [local -> Rows] :
             /\ Rewritten(g)
             /\ \A r \in local : r.owner = a /\ r.dish = d => g[r].value = v /\ g[r].synced = s
             /\ \A r \in local : ~ (r.owner = a /\ r.dish = d) => g[r] = r
  <1> DEFINE f(r) == [r EXCEPT !.value = v, !.synced = s]
             g == [r \in local |-> IF r.owner = a /\ r.dish = d THEN f(r) ELSE r]
  <1>1. ASSUME NEW r \in local
        PROVE  /\ f(r) \in Rows /\ f(r).value = v /\ f(r).synced = s
               /\ f(r).id = r.id /\ f(r).owner = r.owner /\ f(r).dish = r.dish
    <2>1. r \in Rows
      BY RowShape
    <2> QED
      BY <2>1 DEF Rows
  <1>2. local' = (local \ RowsOf(a, d)) \cup {f(r) : r \in RowsOf(a, d)}
    BY DEF Overwrite
  <1> HIDE DEF f
  <1>3. /\ RowsOf(a, d) \subseteq local
        /\ \A r \in RowsOf(a, d) : g[r] = f(r)
        /\ \A r \in local \ RowsOf(a, d) : g[r] = r
    BY DEF RowsOf
  <1>4. g \in [local -> Rows]
    BY <1>1, RowShape
  <1>5. \A r \in local : g[r].id = r.id /\ g[r].owner = r.owner /\ g[r].dish = r.dish
    BY <1>1
  <1>6. /\ \A r \in local : r.owner = a /\ r.dish = d => g[r].value = v /\ g[r].synced = s
        /\ \A r \in local : ~ (r.owner = a /\ r.dish = d) => g[r] = r
    BY <1>1
  <1> HIDE DEF g
  <1>7. local' = {g[r] : r \in local}
    BY <1>2, <1>3
  <1> QED
    BY <1>4, <1>5, <1>6, <1>7 DEF Rewritten

LEMMA Marks ==
    ASSUME TypeOK, NEW id \in Ids, NEW d \in Dishes, MarkSynced(id, d)
    PROVE  \E g \in [local -> Rows] :
             /\ Rewritten(g)
             /\ \A r \in local : g[r].value = r.value
             /\ \A r \in local : ~ (r.id = id /\ r.dish = d) => g[r] = r
             /\ \A r \in local : r.id = id /\ r.dish = d => g[r].synced
  <1> DEFINE f(r) == [r EXCEPT !.synced = TRUE]
             g == [r \in local |-> IF r.id = id /\ r.dish = d THEN f(r) ELSE r]
  <1>1. ASSUME NEW r \in local
        PROVE  /\ f(r) \in Rows /\ f(r).value = r.value /\ f(r).synced = TRUE
               /\ f(r).id = r.id /\ f(r).owner = r.owner /\ f(r).dish = r.dish
    <2>1. r \in Rows
      BY RowShape
    <2> QED
      BY <2>1 DEF Rows
  <1>2. local' = {IF r.id = id /\ r.dish = d THEN f(r) ELSE r : r \in local}
    BY DEF MarkSynced
  <1> HIDE DEF f
  <1>3. \A r \in local : g[r] = IF r.id = id /\ r.dish = d THEN f(r) ELSE r
    OBVIOUS
  <1>4. g \in [local -> Rows]
    BY <1>1, RowShape
  <1>5. \A r \in local : g[r].id = r.id /\ g[r].owner = r.owner /\ g[r].dish = r.dish
    BY <1>1
  <1>6. /\ \A r \in local : g[r].value = r.value
        /\ \A r \in local : ~ (r.id = id /\ r.dish = d) => g[r] = r
        /\ \A r \in local : r.id = id /\ r.dish = d => g[r].synced
    BY <1>1
  <1> HIDE DEF g
  <1>7. local' = {g[r] : r \in local}
    BY <1>2, <1>3
  <1> QED
    BY <1>4, <1>5, <1>6, <1>7 DEF Rewritten

LEMMA Stays == ASSUME TypeOK, UNCHANGED local PROVE \E g \in [local -> Rows] : Rewritten(g)
  <1> DEFINE g == [r \in local |-> r]
  <1>1. g \in [local -> Rows] /\ local' = {g[r] : r \in local}
    BY DEF TypeOK
  <1> QED
    BY <1>1 DEF Rewritten

\* The actions that read or write the rows.
LEMMA TapUpdates ==
    ASSUME TypeOK, NEW t \in Taps, TapUpdate(t)
    PROVE  \E g \in [local -> Rows] :
             /\ Rewritten(g)
             /\ \A r \in local : r.owner = tap[t].acct /\ r.dish = tap[t].dish =>
                  g[r].value = tap[t].value /\ g[r].synced = FALSE
             /\ \A r \in local : ~ (r.owner = tap[t].acct /\ r.dish = tap[t].dish) => g[r] = r
  <1>1. tap[t].acct \in Accounts /\ tap[t].dish \in Dishes /\ tap[t].value \in Values
    BY TapShape DEF TapUpdate, TapOn, Carries
  <1>2. PICK s \in BOOLEAN : s = FALSE /\ Overwrite(tap[t].acct, tap[t].dish, tap[t].value, s)
    BY DEF TapUpdate
  <1> QED
    BY <1>1, <1>2, Overwrites

LEMMA PullUpdates ==
    ASSUME TypeOK, PullUpdate
    PROVE  /\ worker.acct \in Accounts /\ worker.row \in Downloaded
           /\ \E g \in [local -> Rows] :
             /\ Rewritten(g)
             /\ \A r \in local : r.owner = worker.acct /\ r.dish = worker.row.dish =>
                  g[r].value = worker.row.value /\ g[r].synced = TRUE
             /\ \A r \in local : ~ (r.owner = worker.acct /\ r.dish = worker.row.dish) => g[r] = r
  <1>1. worker.acct \in Accounts /\ worker.row \in Downloaded
    BY WorkerShape DEF PullUpdate, WorkerOn
  <1>2. PICK a \in Accounts, d \in Dishes, v \in Values, s \in BOOLEAN :
          /\ a = worker.acct /\ d = worker.row.dish /\ v = worker.row.value /\ s = TRUE
          /\ Overwrite(a, d, v, s)
    BY <1>1 DEF PullUpdate, Downloaded
  <1>3. PICK g \in [local -> Rows] :
             /\ Rewritten(g)
             /\ \A r \in local : r.owner = a /\ r.dish = d => g[r].value = v /\ g[r].synced = s
             /\ \A r \in local : ~ (r.owner = a /\ r.dish = d) => g[r] = r
    <2>1. Overwrite(a, d, v, s)
      BY <1>2
    <2> QED
      BY <2>1, Overwrites
  <1> QED
    BY <1>1, <1>2, <1>3

LEMMA TapMarks ==
    ASSUME TypeOK, NEW t \in Taps, TapMark(t)
    PROVE  \E g \in [local -> Rows] :
             /\ Rewritten(g)
             /\ \A r \in local : g[r].value = r.value
             /\ \A r \in local : ~ (r.id = tap[t].id /\ r.dish = tap[t].dish) => g[r] = r
             /\ \A r \in local : r.id = tap[t].id /\ r.dish = tap[t].dish => g[r].synced
  <1>1. tap[t].id \in Ids /\ tap[t].dish \in Dishes
    BY TapShape DEF TapMark, TapOn
  <1> QED
    BY <1>1, Marks DEF TapMark

LEMMA UploadMarks ==
    ASSUME TypeOK, UploadMark
    PROVE  /\ worker.row \in Pending /\ worker.acct \in Accounts
           /\ \E g \in [local -> Rows] :
             /\ Rewritten(g)
             /\ \A r \in local : g[r].value = r.value
             /\ \A r \in local : ~ (r.id = worker.row.id /\ r.dish = worker.row.dish) => g[r] = r
             /\ \A r \in local : r.id = worker.row.id /\ r.dish = worker.row.dish => g[r].synced
  <1>1. /\ worker.row.id \in Ids /\ worker.row.dish \in Dishes /\ worker.row \in Pending
        /\ worker.acct \in Accounts
    BY WorkerShape DEF UploadMark, WorkerOn, Pending
  <1> QED
    BY <1>1, Marks DEF UploadMark

LEMMA TapInserts ==
    ASSUME TypeOK, NEW t \in Taps, TapInsert(t)
    PROVE  /\ tap[t].pc = "insert" /\ tap[t].acct \in Accounts /\ tap[t].dish \in Dishes
           /\ tap[t].value \in Values
           /\ \E q \in Rows :
             /\ local' = local \cup {q} /\ q.synced = FALSE
             /\ q.id = tap[t].value /\ q.owner = tap[t].acct /\ q.dish = tap[t].dish
             /\ q.value = tap[t].value
  <1>1. /\ tap[t].pc = "insert" /\ tap[t].acct \in Accounts /\ tap[t].dish \in Dishes
        /\ tap[t].value \in Values
    BY TapShape DEF TapInsert, TapOn, Carries
  <1> DEFINE q == [id |-> tap[t].value, owner |-> tap[t].acct, dish |-> tap[t].dish,
                   value |-> tap[t].value, synced |-> FALSE]
  <1>2. q \in Rows
    BY <1>1 DEF Rows, Ids
  <1>3. local' = local \cup {q}
    BY DEF TapInsert, Insert
  <1> QED
    BY <1>1, <1>2, <1>3

LEMMA PullInserts ==
    ASSUME TypeOK, PullInsert
    PROVE  /\ worker.pc = "insert" /\ worker.acct \in Accounts /\ worker.row \in Downloaded
           /\ worker' \in WorkerStates /\ worker'.acct = worker.acct
           /\ \/ worker'.pc = "pending" /\ UNCHANGED local
              \/ /\ worker'.pc \in {"cursor", "update"}
                 /\ worker'.pc = "update" =>
                      worker'.row \in worker.rest /\ worker'.rest \subseteq worker.rest
                 /\ \A r \in local : ~ (r.id = worker.row.from /\ r.dish = worker.row.dish)
                 /\ \E q \in Rows :
                      /\ local' = local \cup {q} /\ q.synced = TRUE
                      /\ q.id = worker.row.from /\ q.owner = worker.acct
                      /\ q.dish = worker.row.dish /\ q.value = worker.row.value
  <1>1. /\ worker.pc = "insert" /\ worker.acct \in Accounts /\ worker.row \in Downloaded
        /\ worker.rest \in SUBSET Downloaded /\ worker.next \in Nat /\ ~ WorkerOn("idle")
        /\ worker.row.from \in Accounts /\ worker.row.dish \in Dishes /\ worker.row.value \in Values
    BY WorkerShape DEF PullInsert, WorkerOn, Downloaded
  <1>2. CASE \E r \in local : r.id = worker.row.from /\ r.dish = worker.row.dish
    <2>1. ToPending /\ UNCHANGED local
      BY <1>2 DEF PullInsert
    <2>2. worker' \in WorkerStates /\ worker'.acct = worker.acct /\ worker'.pc = "pending"
      BY <1>1, <2>1, GoesToPending
    <2> QED
      BY <1>1, <2>1, <2>2
  <1>3. CASE \A r \in local : ~ (r.id = worker.row.from /\ r.dish = worker.row.dish)
    <2> DEFINE q == [id |-> worker.row.from, owner |-> worker.acct, dish |-> worker.row.dish,
                     value |-> worker.row.value, synced |-> TRUE]
    <2>1. local' = local \cup {q} /\ ApplyNext(worker.rest, worker.next)
      BY <1>3 DEF PullInsert, Insert
    <2>2. q \in Rows
      BY <1>1 DEF Rows, Ids
    <2>3. q.synced = TRUE /\ q.id = worker.row.from /\ q.owner = worker.acct
          /\ q.dish = worker.row.dish /\ q.value = worker.row.value
      OBVIOUS
    <2> HIDE DEF q
    <2>4. /\ worker' \in WorkerStates /\ worker'.acct = worker.acct
          /\ worker'.pc \in {"cursor", "update"}
          /\ worker'.pc = "update" => worker'.row \in worker.rest /\ worker'.rest \subseteq worker.rest
      BY <1>1, <2>1, Applies
    <2> QED
      BY <1>1, <1>3, <2>1, <2>2, <2>3, <2>4
  <1> QED
    BY <1>2, <1>3
-----------------------------------------------------------------------------
(* Every action keeps the types, the highest time and what was accepted. *)

LEMMA RewrittenTyped ==
    ASSUME TypeOK, NEW g, Rewritten(g) PROVE local' \subseteq Rows
  BY DEF Rewritten

\* What a request that is served, fails or times out leaves.
LEMMA Requests ==
    ASSUME Typed, NEW d \in Dishes, NEW v \in Values,
           Served(d, v) \/ Failed \/ TimedOut(d, v)
    PROVE  /\ server' \in [Accounts -> [Dishes -> [value : 0 .. MaxWrites, at : Nat]]]
           /\ accepted' \in [Accounts -> [Dishes -> SUBSET Values]]
           /\ late' \subseteq [acct : Accounts, dish : Dishes, value : Values]
           /\ disturbances' \in 0 .. MaxDisturbances
           /\ Bounded' /\ Stored'
           /\ \A b \in Accounts, e \in Dishes : accepted[b][e] \subseteq accepted'[b][e]
  <1>1. TypeOK
    BY DEF Typed
  <1>2. CASE Served(d, v)
    <2>1. bearer \in Accounts /\ Accept(bearer, d, v) /\ UNCHANGED <<late, disturbances>>
      BY <1>1, <1>2, BearerIs DEF Served
    <2> QED
      BY <1>1, <2>1, Accepts DEF TypeOK
  <1>3. CASE Failed
    BY <1>1, <1>3, ServerStays DEF Failed, TypeOK
  <1>4. CASE TimedOut(d, v)
    <2>1. bearer \in Accounts
      BY <1>1, <1>4, BearerIs DEF TimedOut
    <2>2. disturbances' \in 0 .. MaxDisturbances
      BY <1>1, <1>4, ConstantsAssumption DEF TimedOut, TypeOK
    <2> QED
      BY <1>1, <1>4, <2>1, <2>2, ServerStays DEF TimedOut, TypeOK
  <1> QED
    BY <1>2, <1>3, <1>4

LEMMA WorldTyped ==
    ASSUME Typed,
           \/ LateArrives
           \/ \E a \in Accounts, d \in Dishes : OtherDevice(a, d)
           \/ \E d \in Dishes : Merge(d)
           \/ \E a \in Accounts : SignIn(a)
           \/ SignOut \/ SignOutBuying \/ Verified \/ Kill
    PROVE  Typed'
  <1>0. TypeOK /\ Bounded /\ Stored
    BY DEF Typed
  <1>1. CASE LateArrives
    <2>1. PICK r \in late : Accept(r.acct, r.dish, r.value) /\ late' = late \ {r}
      BY <1>1 DEF LateArrives
    <2>2. r.acct \in Accounts /\ r.dish \in Dishes /\ r.value \in Values
      BY <1>0 DEF TypeOK
    <2>3. /\ server' \in [Accounts -> [Dishes -> [value : 0 .. MaxWrites, at : Nat]]]
          /\ accepted' \in [Accounts -> [Dishes -> SUBSET Values]]
          /\ Bounded' /\ Stored'
      BY <2>1, <2>2, Accepts
    <2> QED
      BY <1>0, <1>1, <2>1, <2>3 DEF LateArrives, TypeOK, Typed
  <1>2. ASSUME NEW a \in Accounts, NEW d \in Dishes, OtherDevice(a, d) PROVE Typed'
    <2>1. writes + 1 \in Values /\ writes + 1 \in 0 .. MaxWrites
      BY <1>0, <1>2, NextValue DEF OtherDevice
    <2>2. /\ server' \in [Accounts -> [Dishes -> [value : 0 .. MaxWrites, at : Nat]]]
          /\ accepted' \in [Accounts -> [Dishes -> SUBSET Values]]
          /\ Bounded' /\ Stored'
      BY <1>2, <2>1, Accepts DEF OtherDevice
    <2> QED
      BY <1>0, <1>2, <2>1, <2>2 DEF OtherDevice, TypeOK, Typed
  <1>3. ASSUME NEW a \in Accounts, SignIn(a) PROVE Typed'
    BY <1>0, <1>3, ServerStays DEF SignIn, TypeOK, Typed, history
  <1>4. CASE SignOut \/ SignOutBuying
    <2>1. disturbances' \in 0 .. MaxDisturbances
      BY <1>0, <1>4, ConstantsAssumption DEF SignOut, SignOutBuying, TypeOK
    <2>2. verifying' \in Accounts \cup {Nobody}
      BY <1>0, <1>4 DEF SignOut, SignOutBuying, TypeOK
    <2>3. SignsOut
      BY <1>4 DEF SignOut, SignOutBuying
    <2> QED
      BY <1>0, <2>1, <2>2, <2>3, ServerStays DEF SignsOut, TypeOK, Typed, Busy
  <1>5. CASE Kill
    <2>1. disturbances' \in 0 .. MaxDisturbances
      BY <1>0, <1>5, ConstantsAssumption DEF Kill, TypeOK
    <2>2. tap' \in [Taps -> TapStates] /\ worker' \in WorkerStates
      BY <1>5, IdleTyped DEF Kill
    <2> QED
      BY <1>0, <1>5, <2>1, <2>2, ServerStays DEF Kill, TypeOK, Typed, history
  <1>6. CASE Verified
    <2>1. mixed' \subseteq Accounts
      BY <1>0, <1>6, SignedInIs DEF Verified, TypeOK, Busy
    <2> QED
      BY <1>0, <1>6, <2>1, ServerStays DEF Verified, TypeOK, Typed
  <1>7. ASSUME NEW d \in Dishes, Merge(d) PROVE Typed'
    <2>1. server' \in [Accounts -> [Dishes -> [value : 0 .. MaxWrites, at : Nat]]]
          /\ Bounded' /\ Stored'
      BY <1>0, <1>7, Merges
    <2>2. disturbances' \in 0 .. MaxDisturbances
      BY <1>0, <1>7, ConstantsAssumption DEF Merge, TypeOK
    <2> QED
      BY <1>0, <1>7, <2>1, <2>2 DEF Merge, TypeOK, Typed, history
  <1> QED
    BY <1>1, <1>2, <1>3, <1>4, <1>5, <1>6, <1>7

LEMMA TapTyped ==
    ASSUME Typed, NEW t \in Taps,
           TapStep(t) \/ \E d \in Dishes : React(t, d) \/ ReactOverlong(t, d)
    PROVE  Typed'
  <1>0. TypeOK /\ Bounded /\ Stored
    BY DEF Typed
  <1>1. ASSUME NEW d \in Dishes, React(t, d) \/ ReactOverlong(t, d) PROVE Typed'
    <2>0. TapBegins(t, d)
      BY <1>1 DEF React, ReactOverlong
    <2>1. writes + 1 \in Values /\ writes + 1 \in 0 .. MaxWrites /\ signedIn \in Accounts
      BY <1>0, <2>0, NextValue, SignedInIs DEF TapBegins
    <2>2. [pc |-> "update", acct |-> signedIn, dish |-> d, value |-> writes + 1] \in TapStates
      BY <2>1 DEF TapStates
    <2>3. tap' \in [Taps -> TapStates]
      BY <1>0, <2>0, <2>2, TapGoes DEF TapBegins
    <2>4. disturbances' \in 0 .. MaxDisturbances /\ overlong' \subseteq Values
      BY <1>0, <1>1, <2>1, ConstantsAssumption DEF React, ReactOverlong, TypeOK
    <2> QED
      BY <1>0, <2>0, <2>1, <2>3, <2>4, ServerStays DEF TapBegins, TypeOK, Typed
  <1>2. CASE TapUpdate(t)
    <2>1. local' \subseteq Rows
      BY <1>0, <1>2, TapUpdates, RewrittenTyped
    <2>2. tap' \in [Taps -> TapStates]
      BY <1>0, <1>2, Tos DEF TapUpdate, TapOn, Carries
    <2> QED
      BY <1>0, <1>2, <2>1, <2>2, ServerStays DEF TapUpdate, TypeOK, Typed, history
  <1>3. CASE TapSelect(t)
    <2>1. tap[t].pc \in Carries /\ (To(t, "insert") \/ To(t, "send") \/ Finish(t))
      BY <1>3 DEF TapSelect, TapOn, Carries
    <2>2. tap' \in [Taps -> TapStates]
      BY <1>0, <2>1, Tos, Finishes DEF Carries
    <2> QED
      BY <1>0, <1>3, <2>2, ServerStays DEF TapSelect, TypeOK, Typed, history
  <1>4. CASE TapInsert(t)
    <2>1. local' \subseteq Rows
      BY <1>0, <1>4, TapInserts DEF TypeOK
    <2>2. tap' \in [Taps -> TapStates]
      BY <1>0, <1>4, Tos DEF TapInsert, TapOn, Carries
    <2> QED
      BY <1>0, <1>4, <2>1, <2>2, ServerStays DEF TapInsert, TypeOK, Typed, history
  <1>5. CASE TapSend(t)
    <2>1. tap[t].pc \in Carries /\ tap[t].dish \in Dishes /\ tap[t].value \in Values
      BY <1>0, <1>5, TapShape DEF TapSend, TapOn, Carries
    <2>2. /\ To(t, "answered") \/ Finish(t)
          /\ \/ Served(tap[t].dish, tap[t].value) \/ Failed
             \/ TimedOut(tap[t].dish, tap[t].value)
      BY <1>5 DEF TapSend
    <2>3. tap' \in [Taps -> TapStates]
      BY <1>0, <2>1, <2>2, Tos, Finishes DEF Carries
    <2>4. /\ server' \in [Accounts -> [Dishes -> [value : 0 .. MaxWrites, at : Nat]]]
          /\ accepted' \in [Accounts -> [Dishes -> SUBSET Values]]
          /\ late' \subseteq [acct : Accounts, dish : Dishes, value : Values]
          /\ disturbances' \in 0 .. MaxDisturbances
          /\ Bounded' /\ Stored'
      BY <2>1, <2>2, Requests
    <2> QED
      BY <1>0, <1>5, <2>3, <2>4 DEF TapSend, TypeOK, Typed
  <1>6. CASE TapAnswered(t)
    <2>1. TapOn(t, "answered") /\ tap[t].acct \in Accounts /\ tap[t].dish \in Dishes
      BY <1>0, <1>6, TapShape DEF TapAnswered, TapOn
    <2>2. \/ \E r \in local : tap' = [tap EXCEPT ![t] = [pc |-> "mark", acct |-> tap[t].acct,
                                                        dish |-> tap[t].dish, id |-> r.id]]
          \/ Finish(t)
      BY <1>6 DEF TapAnswered, RowsOf
    <2>3. ASSUME NEW r \in local,
                 tap' = [tap EXCEPT ![t] = [pc |-> "mark", acct |-> tap[t].acct,
                                            dish |-> tap[t].dish, id |-> r.id]]
          PROVE  tap' \in [Taps -> TapStates]
      <3>1. [pc |-> "mark", acct |-> tap[t].acct, dish |-> tap[t].dish, id |-> r.id] \in TapStates
        BY <1>0, <2>1, RowShape DEF TapStates
      <3> QED
        BY <1>0, <2>3, <3>1, TapGoes
    <2>4. tap' \in [Taps -> TapStates]
      BY <1>0, <2>2, <2>3, Finishes
    <2> QED
      BY <1>0, <1>6, <2>4, ServerStays DEF TapAnswered, TypeOK, Typed, history
  <1>7. CASE TapMark(t)
    <2>1. local' \subseteq Rows
      BY <1>0, <1>7, TapMarks, RewrittenTyped
    <2>2. tap' \in [Taps -> TapStates]
      BY <1>0, <1>7, Finishes DEF TapMark
    <2> QED
      BY <1>0, <1>7, <2>1, <2>2, ServerStays DEF TapMark, TypeOK, Typed, history
  <1> QED
    BY <1>1, <1>2, <1>3, <1>4, <1>5, <1>6, <1>7 DEF TapStep
\* What each step of the worker goes to.
LEMMA Gets ==
    ASSUME Typed, PullGet
    PROVE  /\ worker' \in WorkerStates /\ worker'.acct = worker.acct /\ ~ WorkerOn("idle")
           /\ worker'.pc \in {"pending", "cursor", "update"}
           /\ worker'.pc = "update" => \A r \in worker'.rest \cup {worker'.row} :
                r.from = bearer /\ r.value \in accepted[r.from][r.dish]
  <1>1. TypeOK /\ WorkerOn("get") /\ ~ WorkerOn("idle")
    BY DEF PullGet, Typed, WorkerOn
  <1>2. CASE ToPending
    BY <1>1, <1>2, GoesToPending
  <1>3. CASE bearer \in Pro /\ PullPage
    BY <1>1, <1>3, Pages
  <1> QED
    BY <1>1, <1>2, <1>3 DEF PullGet, PullFails, PullEmpty

LEMMA Selects ==
    ASSUME TypeOK, PullSelect
    PROVE  /\ worker' \in WorkerStates /\ worker'.acct = worker.acct /\ worker.pc = "select"
           /\ \/ /\ worker'.pc = "insert" /\ worker'.row = worker.row /\ worker'.rest = worker.rest
                 /\ Cardinality(RowsOf(worker.acct, worker.row.dish)) = 0
              \/ worker'.pc \in {"pending", "cursor"}
              \/ /\ worker'.pc = "update"
                 /\ worker'.row \in worker.rest /\ worker'.rest \subseteq worker.rest
  <1>1. /\ worker.pc = "select" /\ ~ WorkerOn("idle")
        /\ worker.rest \in SUBSET Downloaded /\ worker.next \in Nat
    BY WorkerShape DEF PullSelect, WorkerOn
  <1>2. \/ Cardinality(RowsOf(worker.acct, worker.row.dish)) = 0 /\ PullTo("insert")
        \/ ApplyNext(worker.rest, worker.next)
        \/ ToPending
    BY DEF PullSelect
  <1>3. CASE Cardinality(RowsOf(worker.acct, worker.row.dish)) = 0 /\ PullTo("insert")
    BY <1>1, <1>3, PullsTo
  <1>4. CASE ApplyNext(worker.rest, worker.next)
    BY <1>1, <1>4, Applies
  <1>5. CASE ToPending
    BY <1>1, <1>5, GoesToPending
  <1> QED
    BY <1>2, <1>3, <1>4, <1>5

LEMMA UploadBegins ==
    ASSUME TypeOK, UploadBegin
    PROVE  /\ worker' \in WorkerStates /\ ~ WorkerOn("idle") /\ worker.acct \in Accounts
           /\ \/ worker'.pc = "idle"
              \/ /\ worker'.pc = "upload" /\ worker'.acct = worker.acct
                 /\ \A p \in worker'.rest : \E r \in local :
                      /\ r.owner = worker.acct /\ r.synced = FALSE
                      /\ p.id = r.id /\ p.dish = r.dish /\ p.value = r.value
  <1> DEFINE P == {[id |-> r.id, dish |-> r.dish, value |-> r.value] :
                     r \in {q \in local : q.owner = worker.acct /\ ~ q.synced}}
  <1>1. ~ WorkerOn("idle") /\ worker.acct \in Accounts /\ ToUpload(P)
    BY WorkerShape DEF UploadBegin, WorkerOn
  <1>2. P \in SUBSET Pending
    BY RowShape DEF Pending
  <1>3. \A p \in P : \E r \in local :
          /\ r.owner = worker.acct /\ r.synced = FALSE
          /\ p.id = r.id /\ p.dish = r.dish /\ p.value = r.value
    BY RowShape
  <1> HIDE DEF P
  <1>4. /\ worker' \in WorkerStates
        /\ \/ worker'.pc = "idle"
           \/ worker'.pc = "upload" /\ worker'.acct = worker.acct /\ worker'.rest = P
    BY <1>1, <1>2, GoesToUpload
  <1> QED
    BY <1>1, <1>3, <1>4

LEMMA UploadSends ==
    ASSUME TypeOK, UploadSend
    PROVE  \E p \in worker.rest :
             /\ p \in Pending /\ worker.pc = "upload" /\ worker.acct \in Accounts
             /\ worker' \in WorkerStates
             /\ \/ /\ Served(p.dish, p.value)
                   /\ worker'.pc = "mark" /\ worker'.acct = worker.acct /\ worker'.row = p
                   /\ worker'.rest \subseteq worker.rest
                \/ /\ Failed \/ TimedOut(p.dish, p.value)
                   /\ \/ worker'.pc = "idle"
                      \/ /\ worker'.pc = "upload" /\ worker'.acct = worker.acct
                         /\ worker'.rest \subseteq worker.rest
  <1>1. /\ worker.pc = "upload" /\ ~ WorkerOn("idle") /\ worker.acct \in Accounts
        /\ worker.rest \in SUBSET Pending
    BY WorkerShape DEF UploadSend, WorkerOn
  <1>2. PICK p \in worker.rest :
         \/ /\ Served(p.dish, p.value)
            /\ worker' = [pc |-> "mark", acct |-> worker.acct, row |-> p,
                          rest |-> worker.rest \ {p}]
         \/ /\ Failed \/ TimedOut(p.dish, p.value)
            /\ ToUpload(worker.rest \ {p})
    BY DEF UploadSend
  <1>3. p \in Pending /\ worker.rest \ {p} \in SUBSET Pending
    BY <1>1
  <1>4. CASE /\ Served(p.dish, p.value)
             /\ worker' = [pc |-> "mark", acct |-> worker.acct, row |-> p,
                           rest |-> worker.rest \ {p}]
    <2>1. worker' \in WorkerStates
      BY <1>1, <1>3, <1>4 DEF WorkerStates
    <2>2. /\ worker'.pc = "mark" /\ worker'.acct = worker.acct /\ worker'.row = p
          /\ worker'.rest \subseteq worker.rest
      BY <1>4
    <2> QED
      BY <1>1, <1>3, <1>4, <2>1, <2>2
  <1>5. CASE (Failed \/ TimedOut(p.dish, p.value)) /\ ToUpload(worker.rest \ {p})
    <2>1. /\ worker' \in WorkerStates
          /\ \/ worker'.pc = "idle"
             \/ /\ worker'.pc = "upload" /\ worker'.acct = worker.acct
                /\ worker'.rest = worker.rest \ {p}
      BY <1>1, <1>3, <1>5, GoesToUpload
    <2> QED
      BY <1>1, <1>3, <1>5, <2>1
  <1> QED
    BY <1>2, <1>4, <1>5

LEMMA UploadMarksOn ==
    ASSUME TypeOK, UploadMark
    PROVE  /\ worker' \in WorkerStates /\ worker.pc = "mark"
           /\ \/ worker'.pc = "idle"
              \/ worker'.pc = "upload" /\ worker'.acct = worker.acct /\ worker'.rest = worker.rest
  <1>1. worker.pc = "mark" /\ ~ WorkerOn("idle") /\ worker.rest \in SUBSET Pending
    BY WorkerShape DEF UploadMark, WorkerOn
  <1> QED
    BY <1>1, GoesToUpload DEF UploadMark

LEMMA WorkerTyped ==
    ASSUME Typed, WorkerStep PROVE Typed'
  <1>0. TypeOK /\ Bounded /\ Stored
    BY DEF Typed
  <1>1. CASE SyncBegin
    <2>1. worker' \in WorkerStates /\ signedIn \in Accounts
      BY <1>0, <1>1, Begins
    <2> QED
      BY <1>0, <1>1, <2>1, ServerStays DEF SyncBegin, TypeOK, Typed
  <1>2. CASE PullGet
    <2>1. worker' \in WorkerStates /\ UNCHANGED cursor
      BY <1>2, Gets DEF PullGet, PullFails, PullEmpty, PullPage
    <2> QED
      BY <1>0, <1>2, <2>1, ServerStays DEF PullGet, TypeOK, Typed
  <1>3. CASE PullUpdate
    <2>1. local' \subseteq Rows
      BY <1>0, <1>3, PullUpdates, RewrittenTyped
    <2>2. worker' \in WorkerStates
      BY <1>0, <1>3, PullsTo DEF PullUpdate, WorkerOn
    <2> QED
      BY <1>0, <1>3, <2>1, <2>2, ServerStays DEF PullUpdate, TypeOK, Typed, history
  <1>4. CASE PullSelect
    BY <1>0, <1>4, Selects, ServerStays DEF PullSelect, TypeOK, Typed, history
  <1>5. CASE PullInsert
    <2>1. local' \subseteq Rows /\ worker' \in WorkerStates
      BY <1>0, <1>5, PullInserts DEF TypeOK
    <2> QED
      BY <1>0, <1>5, <2>1, ServerStays DEF PullInsert, TypeOK, Typed, history
  <1>6. CASE PullCursor
    <2>1. worker.acct \in Accounts /\ worker.next \in Nat /\ ~ WorkerOn("idle")
      BY <1>0, <1>6, WorkerShape DEF PullCursor, WorkerOn
    <2>2. worker' \in WorkerStates
      BY <1>0, <1>6, <2>1, GoesToPending DEF PullCursor
    <2>3. cursor' \in [Accounts -> Nat]
      BY <1>0, <1>6, <2>1 DEF PullCursor, TypeOK
    <2> QED
      BY <1>0, <1>6, <2>2, <2>3, ServerStays DEF PullCursor, TypeOK, Typed
  <1>7. CASE UploadBegin
    BY <1>0, <1>7, UploadBegins, ServerStays DEF UploadBegin, TypeOK, Typed, history
  <1>8. CASE UploadSend
    <2>1. PICK p \in worker.rest :
             /\ p \in Pending /\ worker' \in WorkerStates
             /\ Served(p.dish, p.value) \/ Failed \/ TimedOut(p.dish, p.value)
      BY <1>0, <1>8, UploadSends
    <2>2. p.dish \in Dishes /\ p.value \in Values
      BY <2>1 DEF Pending
    <2>3. /\ server' \in [Accounts -> [Dishes -> [value : 0 .. MaxWrites, at : Nat]]]
          /\ accepted' \in [Accounts -> [Dishes -> SUBSET Values]]
          /\ late' \subseteq [acct : Accounts, dish : Dishes, value : Values]
          /\ disturbances' \in 0 .. MaxDisturbances
          /\ Bounded' /\ Stored'
      BY <2>1, <2>2, Requests
    <2> QED
      BY <1>0, <1>8, <2>1, <2>3 DEF UploadSend, TypeOK, Typed
  <1>9. CASE UploadMark
    <2>1. local' \subseteq Rows /\ worker' \in WorkerStates
      BY <1>0, <1>9, UploadMarks, UploadMarksOn, RewrittenTyped
    <2> QED
      BY <1>0, <1>9, <2>1, ServerStays DEF UploadMark, TypeOK, Typed, history
  <1> QED
    BY <1>1, <1>2, <1>3, <1>4, <1>5, <1>6, <1>7, <1>8, <1>9 DEF WorkerStep

LEMMA TypedStep ==
    ASSUME Typed, [Next]_vars PROVE Typed'
  <1>1. CASE Next
    BY <1>1, WorldTyped, TapTyped, WorkerTyped DEF Next
  <1>2. CASE UNCHANGED vars
    BY <1>2 DEF vars, history, Typed, TypeOK, Bounded, Stored
  <1> QED
    BY <1>1, <1>2
-----------------------------------------------------------------------------
(* Who goes on for whom *)

\* A tap ends, or goes on for the same account and dish, with the value it began with.
TapKeeps(t) ==
    \/ tap'[t].pc = "idle"
    \/ /\ tap[t].pc # "idle" /\ tap'[t].acct = tap[t].acct /\ tap'[t].dish = tap[t].dish
       /\ tap'[t].pc \in Carries => tap[t].pc \in Carries /\ tap'[t].value = tap[t].value
       /\ tap'[t].pc \in Inserts => tap[t].pc \in Inserts
WorkerKeeps ==
    \/ worker'.pc = "idle"
    \/ worker.pc # "idle" /\ worker'.acct = worker.acct

LEMMA TapsStay ==
    ASSUME TypeOK, UNCHANGED tap, NEW t \in Taps PROVE TapKeeps(t)
  BY DEF TapKeeps

LEMMA TapStepKeeps ==
    ASSUME TypeOK, NEW t \in Taps, TapStep(t)
    PROVE  /\ \A u \in Taps : TapKeeps(u)
           /\ \A u \in Taps \ {t} : tap'[u] = tap[u]
           /\ UNCHANGED worker
  <1>1. UNCHANGED worker /\ tap[t].pc # "idle"
    BY DEF TapStep, TapUpdate, TapSelect, TapInsert, TapSend, TapAnswered, TapMark, TapOn
  <1>2. \/ tap[t].pc = "update" /\ To(t, "select")
        \/ tap[t].pc = "select" /\ To(t, "insert")
        \/ tap[t].pc \in {"select", "insert"} /\ To(t, "send")
        \/ tap[t].pc = "send" /\ To(t, "answered")
        \/ Finish(t)
        \/ \E r \in local : tap' = [tap EXCEPT ![t] = [pc |-> "mark", acct |-> tap[t].acct,
                                                       dish |-> tap[t].dish, id |-> r.id]]
    BY DEF TapStep, TapUpdate, TapSelect, TapInsert, TapSend, TapAnswered, TapMark, TapOn, RowsOf
  <1>3. /\ \A u \in Taps \ {t} : tap'[u] = tap[u]
        /\ TapKeeps(t)
    <2>1. CASE tap[t].pc = "update" /\ To(t, "select")
      BY <2>1, Tos DEF Carries, Inserts, TapKeeps
    <2>2. CASE tap[t].pc = "select" /\ To(t, "insert")
      BY <2>2, Tos DEF Carries, Inserts, TapKeeps
    <2>3. CASE tap[t].pc \in {"select", "insert"} /\ To(t, "send")
      BY <2>3, Tos DEF Carries, Inserts, TapKeeps
    <2>4. CASE tap[t].pc = "send" /\ To(t, "answered")
      BY <2>4, Tos DEF Carries, Inserts, TapKeeps
    <2>5. CASE Finish(t)
      BY <2>5, Finishes DEF TapKeeps
    <2>6. ASSUME NEW r \in local,
                 tap' = [tap EXCEPT ![t] = [pc |-> "mark", acct |-> tap[t].acct,
                                            dish |-> tap[t].dish, id |-> r.id]]
          PROVE  /\ \A u \in Taps \ {t} : tap'[u] = tap[u]
                 /\ TapKeeps(t)
      <3>1. tap'[t] = [pc |-> "mark", acct |-> tap[t].acct, dish |-> tap[t].dish, id |-> r.id]
        BY <2>6 DEF TypeOK
      <3>2. tap'[t].pc = "mark" /\ tap'[t].acct = tap[t].acct /\ tap'[t].dish = tap[t].dish
        BY <3>1
      <3>3. \A u \in Taps \ {t} : tap'[u] = tap[u]
        BY <2>6 DEF TypeOK
      <3> QED
        BY <1>1, <3>2, <3>3 DEF TapKeeps, Carries, Inserts
    <2> QED
      BY <1>2, <2>1, <2>2, <2>3, <2>4, <2>5, <2>6
  <1> QED
    BY <1>1, <1>3 DEF TapKeeps

\* A tap begins for whoever is signed in.
LEMMA Reacts ==
    ASSUME TypeOK, NEW t \in Taps, NEW d \in Dishes, TapBegins(t, d)
    PROVE  /\ signedIn \in Accounts /\ writes + 1 \in Values
           /\ tap[t].pc = "idle" /\ tap'[t].pc = "update"
           /\ tap'[t].acct = signedIn /\ tap'[t].dish = d /\ tap'[t].value = writes + 1
           /\ \A u \in Taps \ {t} : tap'[u] = tap[u]
           /\ raced \subseteq raced'
           /\ SyncingFor(signedIn) => <<signedIn, d>> \in raced'
           /\ \A u \in Taps : Tapping(u, signedIn, d) => <<signedIn, d>> \in raced'
  <1>1. signedIn \in Accounts /\ writes + 1 \in Values
    BY NextValue, SignedInIs DEF TapBegins
  <1> DEFINE w == [pc |-> "update", acct |-> signedIn, dish |-> d, value |-> writes + 1]
  <1>2. tap' = [tap EXCEPT ![t] = w] /\ tap[t].pc = "idle"
    BY DEF TapBegins, TapOn
  <1>3. w.pc = "update" /\ w.acct = signedIn /\ w.dish = d /\ w.value = writes + 1
    OBVIOUS
  <1> HIDE DEF w
  <1>4. tap'[t] = w /\ \A u \in Taps \ {t} : tap'[u] = tap[u]
    BY <1>2 DEF TypeOK
  <1>5. raced' = IF SyncingFor(signedIn) \/ \E u \in Taps : Tapping(u, signedIn, d)
                 THEN raced \cup {<<signedIn, d>>} ELSE raced
    BY DEF TapBegins
  <1>6. /\ raced \subseteq raced'
        /\ SyncingFor(signedIn) => <<signedIn, d>> \in raced'
        /\ \A u \in Taps : Tapping(u, signedIn, d) => <<signedIn, d>> \in raced'
    BY <1>5
  <1> QED
    BY <1>1, <1>2, <1>3, <1>4, <1>6

LEMMA WorkerStepKeeps ==
    ASSUME Typed, WorkerStep, ~ SyncBegin PROVE WorkerKeeps
  <1>0. TypeOK
    BY DEF Typed
  <1>2. CASE PullGet
    BY <1>2, Gets DEF WorkerKeeps, WorkerOn
  <1>3. CASE PullUpdate
    BY <1>0, <1>3, PullsTo DEF PullUpdate, WorkerOn, WorkerKeeps
  <1>4. CASE PullSelect
    BY <1>0, <1>4, Selects DEF WorkerKeeps
  <1>5. CASE PullInsert
    BY <1>0, <1>5, PullInserts DEF WorkerKeeps
  <1>6. CASE PullCursor
    BY <1>0, <1>6, GoesToPending DEF PullCursor, WorkerOn, WorkerKeeps
  <1>7. CASE UploadBegin
    BY <1>0, <1>7, UploadBegins DEF WorkerKeeps, WorkerOn
  <1>8. CASE UploadSend
    BY <1>0, <1>8, UploadSends DEF WorkerKeeps
  <1>9. CASE UploadMark
    BY <1>0, <1>9, UploadMarksOn DEF WorkerKeeps
  <1> QED
    BY <1>2, <1>3, <1>4, <1>5, <1>6, <1>7, <1>8, <1>9 DEF WorkerStep

\* Who begins something, and otherwise everyone keeps to what it is for.
LEMMA Moves ==
    ASSUME Typed, [Next]_vars
    PROVE  \/ \E t \in Taps, d \in Dishes : TapBegins(t, d)
           \/ SyncBegin
           \/ (\A t \in Taps : TapKeeps(t)) /\ WorkerKeeps
  <1>0. TypeOK
    BY DEF Typed
  <1>1. CASE LateArrives
    BY <1>0, <1>1, TapsStay DEF LateArrives, WorkerKeeps
  <1>2. CASE \E a \in Accounts, d \in Dishes : OtherDevice(a, d)
    BY <1>0, <1>2, TapsStay DEF OtherDevice, WorkerKeeps
  <1>3. CASE \E t \in Taps : TapStep(t)
    BY <1>0, <1>3, TapStepKeeps DEF WorkerKeeps
  <1>4. CASE WorkerStep /\ ~ SyncBegin
    <2>1. UNCHANGED tap
      BY <1>4 DEF WorkerStep, PullGet, PullUpdate, PullSelect, PullInsert, PullCursor,
                  UploadBegin, UploadSend, UploadMark
    <2> QED
      BY <1>0, <1>4, <2>1, TapsStay, WorkerStepKeeps
  <1>5. CASE \/ \E a \in Accounts : SignIn(a)
             \/ \E d \in Dishes : Merge(d)
             \/ SignOut \/ SignOutBuying \/ Verified
    BY <1>0, <1>5, TapsStay DEF SignIn, SignsOut, SignOut, SignOutBuying, Verified, Merge, WorkerKeeps
  <1>6. CASE Kill
    BY <1>6, IdleTyped DEF Kill, TapKeeps, WorkerKeeps
  <1>7. CASE UNCHANGED vars
    BY <1>0, <1>7, TapsStay DEF vars, WorkerKeeps
  <1> QED
    BY <1>1, <1>2, <1>3, <1>4, <1>5, <1>6, <1>7 DEF Next, React, ReactOverlong
-----------------------------------------------------------------------------
(* What only grows *)

LEMMA Grows ==
    ASSUME Typed, [Next]_vars
    PROVE  /\ mixed \subseteq mixed' /\ raced \subseteq raced'
           /\ writes \in Nat /\ writes' \in Nat /\ writes <= writes'
           /\ \A v \in Values : v <= writes => author'[v] = author[v]
           /\ \A a \in Accounts, d \in Dishes : accepted[a][d] \subseteq accepted'[a][d]
  <1>0. TypeOK /\ Typed' /\ TypeOK'
    BY TypedStep DEF Typed
  <1>1. writes \in Nat /\ writes' \in Nat
    BY <1>0, ConstantsAssumption DEF TypeOK
  <1>2. mixed \subseteq mixed' /\ raced \subseteq raced'
    BY DEF Next, vars, history, LateArrives, OtherDevice, TapBegins, React, ReactOverlong, TapStep, TapUpdate, TapSelect,
           TapInsert, TapSend, TapAnswered, TapMark, WorkerStep, SyncBegin, PullGet, PullUpdate,
           PullSelect, PullInsert, PullCursor, UploadBegin, UploadSend, UploadMark, SignIn,
           SignsOut, SignOut, SignOutBuying, Verified, Merge, Kill
  <1>3. /\ writes <= writes'
        /\ \A v \in Values : v <= writes => author'[v] = author[v]
    <2>1. \/ UNCHANGED <<writes, author>>
          \/ \E a \in Accounts : writes < MaxWrites /\ writes' = writes + 1
                                 /\ author' = [author EXCEPT ![writes + 1] = a]
      <3>1. ASSUME NEW t \in Taps, NEW d \in Dishes, TapBegins(t, d)
            PROVE  \E a \in Accounts : writes < MaxWrites /\ writes' = writes + 1
                                 /\ author' = [author EXCEPT ![writes + 1] = a]
        BY <1>0, <3>1, SignedInIs DEF TapBegins
      <3>2. ASSUME NEW a \in Accounts, NEW d \in Dishes, OtherDevice(a, d)
            PROVE  writes < MaxWrites /\ writes' = writes + 1
                   /\ author' = [author EXCEPT ![writes + 1] = a]
        BY <3>2 DEF OtherDevice
      <3> QED
        BY <3>1, <3>2 DEF Next, vars, history, LateArrives, React, ReactOverlong, TapStep, TapUpdate, TapSelect,
           TapInsert, TapSend, TapAnswered, TapMark, WorkerStep, SyncBegin, PullGet, PullUpdate,
           PullSelect, PullInsert, PullCursor, UploadBegin, UploadSend, UploadMark, SignIn,
           SignsOut, SignOut, SignOutBuying, Verified, Merge, Kill
    <2>2. CASE UNCHANGED <<writes, author>>
      BY <1>1, <2>2
    <2>3. ASSUME NEW a \in Accounts, writes' = writes + 1,
                 author' = [author EXCEPT ![writes + 1] = a]
          PROVE  /\ writes <= writes'
                 /\ \A v \in Values : v <= writes => author'[v] = author[v]
      <3>1. \A v \in Values : v <= writes => v # writes + 1
        BY <1>1, ConstantsAssumption DEF Values
      <3> QED
        BY <1>0, <1>1, <2>3, <3>1 DEF TypeOK
    <2> QED
      BY <2>1, <2>2, <2>3
  <1>4. \A a \in Accounts, d \in Dishes : accepted[a][d] \subseteq accepted'[a][d]
    <2>1. CASE UNCHANGED accepted
      BY <2>1
    <2>2. CASE LateArrives
      <3>1. PICK r \in late : Accept(r.acct, r.dish, r.value)
        BY <2>2 DEF LateArrives
      <3>2. r.acct \in Accounts /\ r.dish \in Dishes /\ r.value \in Values
        BY <1>0 DEF TypeOK
      <3> QED
        BY <3>1, <3>2, Accepts
    <2>3. ASSUME NEW a \in Accounts, NEW d \in Dishes, OtherDevice(a, d)
          PROVE  \A b \in Accounts, e \in Dishes : accepted[b][e] \subseteq accepted'[b][e]
      BY <1>0, <2>3, NextValue, Accepts DEF OtherDevice
    <2>4. ASSUME NEW t \in Taps, TapSend(t)
          PROVE  \A b \in Accounts, e \in Dishes : accepted[b][e] \subseteq accepted'[b][e]
      <3>1. tap[t].dish \in Dishes /\ tap[t].value \in Values
        BY <1>0, <2>4, TapShape DEF TapSend, TapOn, Carries
      <3>2. \/ Served(tap[t].dish, tap[t].value) \/ Failed
            \/ TimedOut(tap[t].dish, tap[t].value)
        BY <2>4 DEF TapSend
      <3> QED
        BY <3>1, <3>2, Requests
    <2>5. CASE UploadSend
      <3>1. PICK p \in worker.rest :
               p \in Pending /\ (Served(p.dish, p.value) \/ Failed \/ TimedOut(p.dish, p.value))
        BY <1>0, <2>5, UploadSends
      <3>2. p.dish \in Dishes /\ p.value \in Values
        BY <3>1 DEF Pending
      <3> QED
        BY <3>1, <3>2, Requests
    <2> QED
      BY <2>1, <2>2, <2>3, <2>4, <2>5 DEF Next, vars, history, TapBegins, React, ReactOverlong, TapStep, TapUpdate,
         TapSelect, TapInsert, TapAnswered, TapMark, WorkerStep, SyncBegin, PullGet, PullUpdate,
         PullSelect, PullInsert, PullCursor, UploadBegin, UploadMark, SignIn, SignsOut, SignOut, SignOutBuying, Verified, Merge, Kill
  <1> QED
    BY <1>1, <1>2, <1>3, <1>4

\* By and Attributed after a step.
ByThen(v, a) == v <= writes' /\ author'[v] = a
AttributedThen(v, a) == v <= writes' /\ author'[v] \in {a} \cup mixed'

\* What is given by someone stays so.
LEMMA GivenStays ==
    ASSUME Typed, [Next]_vars, NEW v \in Values, NEW a \in Accounts
    PROVE  /\ By(v, a) => ByThen(v, a)
           /\ Attributed(v, a) => AttributedThen(v, a)
  <1>1. v \in Int
    BY ConstantsAssumption DEF Values
  <1> QED
    BY <1>1, Grows DEF By, Attributed, ByThen, AttributedThen

\* Who is signed in stays, or comes when nobody is, or whoever is busy has met the change.
LEMMA Users ==
    ASSUME Typed, [Next]_vars
    PROVE  signedIn' = signedIn \/ signedIn = Nobody \/ Busy \subseteq mixed'
  BY DEF Next, vars, history, LateArrives, OtherDevice, TapBegins, React, ReactOverlong, TapStep, TapUpdate, TapSelect,
         TapInsert, TapSend, TapAnswered, TapMark, WorkerStep, SyncBegin, PullGet, PullUpdate,
         PullSelect, PullInsert, PullCursor, UploadBegin, UploadSend, UploadMark, SignIn,
         SignsOut, SignOut, SignOutBuying, Verified, Merge, Kill

\* The tokens are the user's own, or the user has met those of another.
LEMMA Owns ==
    ASSUME Typed, Elsewhere, [Next]_vars
    PROVE  signedIn' \in {bearer'} \cup mixed'
  <1>1. ASSUME NEW a \in Accounts, SignIn(a) PROVE signedIn' = bearer'
    BY <1>1 DEF SignIn
  <1>2. CASE SignOut \/ SignOutBuying
    BY <1>2 DEF SignOut, SignOutBuying, SignsOut
  <1>3. CASE Verified
    BY <1>3 DEF Verified
  <1>4. ASSUME \A a \in Accounts : ~ SignIn(a), ~ SignOut, ~ SignOutBuying, ~ Verified
        PROVE  UNCHANGED <<signedIn, bearer>>
    BY <1>4 DEF Next, vars, history, LateArrives, OtherDevice, TapBegins, React, ReactOverlong,
         TapStep, TapUpdate, TapSelect, TapInsert, TapSend, TapAnswered, TapMark, WorkerStep,
         SyncBegin, PullGet, PullUpdate, PullSelect, PullInsert, PullCursor, UploadBegin,
         UploadSend, UploadMark, Merge, Kill
  <1>5. mixed \subseteq mixed'
    BY Grows
  <1> QED
    BY <1>1, <1>2, <1>3, <1>4, <1>5 DEF Elsewhere

\* What is in progress for an account carries its token, or the account is mixed.
LEMMA Bears ==
    ASSUME Elsewhere, NEW a, a \in {signedIn} \cup mixed
    PROVE  a \in {bearer} \cup mixed
  BY DEF Elsewhere

LEMMA ElsewhereStep ==
    ASSUME Typed, Elsewhere, [Next]_vars PROVE Elsewhere'
  <1>0. TypeOK /\ TypeOK' /\ Typed'
    BY TypedStep DEF Typed
  <1>1. mixed \subseteq mixed'
    BY Grows
  <1>2. ASSUME NEW a \in Accounts, a \in Busy, a \in {signedIn} \cup mixed
        PROVE  a \in {signedIn'} \cup mixed'
    BY <1>1, <1>2, Users, ConstantsAssumption
  <1>3. \A t \in Taps : tap[t].pc # "idle" => tap[t].acct \in Accounts /\ tap[t].acct \in Busy
    BY <1>0, TapShape DEF TapOn, Busy
  <1>4. worker.pc # "idle" => worker.acct \in Accounts /\ worker.acct \in Busy
    BY <1>0, WorkerShape DEF WorkerOn, Busy, SyncingFor
  <1>5. /\ \A t \in Taps : tap[t].pc # "idle" => tap[t].acct \in {signedIn'} \cup mixed'
        /\ worker.pc # "idle" => worker.acct \in {signedIn'} \cup mixed'
    BY <1>2, <1>3, <1>4 DEF Elsewhere, TapOn, WorkerOn
  <1>6. ASSUME NEW t \in Taps, NEW d \in Dishes, TapBegins(t, d) PROVE Elsewhere'
    <2>1. signedIn' = signedIn /\ worker' = worker
      BY <1>6 DEF TapBegins
    <2>2. \A u \in Taps : tap'[u].pc # "idle" => tap'[u].acct \in {signedIn'} \cup mixed'
      BY <1>0, <1>5, <1>6, <2>1, Reacts
    <2> QED
      BY <1>5, <2>1, <2>2, Owns DEF Elsewhere, TapOn, WorkerOn
  <1>7. CASE SyncBegin
    <2>1. signedIn' = signedIn /\ tap' = tap
      BY <1>7 DEF SyncBegin
    <2>2. worker'.acct = signedIn
      BY <1>0, <1>7, Begins
    <2> QED
      BY <1>5, <2>1, <2>2, Owns DEF Elsewhere, TapOn, WorkerOn
  <1>8. CASE (\A t \in Taps : TapKeeps(t)) /\ WorkerKeeps
    <2>1. \A t \in Taps : tap'[t].pc # "idle" => tap'[t].acct \in {signedIn'} \cup mixed'
      BY <1>5, <1>8 DEF TapKeeps
    <2>2. worker'.pc # "idle" => worker'.acct \in {signedIn'} \cup mixed'
      BY <1>5, <1>8 DEF WorkerKeeps
    <2> QED
      BY <2>1, <2>2, Owns DEF Elsewhere, TapOn, WorkerOn
  <1> QED
    BY <1>6, <1>7, <1>8, Moves

LEMMA AloneStep ==
    ASSUME Typed, Alone, [Next]_vars PROVE Alone'
  <1>0. TypeOK /\ TypeOK' /\ Typed'
    BY TypedStep DEF Typed
  <1>1. raced \subseteq raced'
    BY Grows
  <1>2. ASSUME NEW t \in Taps, NEW d \in Dishes, TapBegins(t, d) PROVE Alone'
    <2>1.  /\ signedIn \in Accounts
           /\ tap[t].pc = "idle" /\ tap'[t].pc = "update"
           /\ tap'[t].acct = signedIn /\ tap'[t].dish = d
           /\ \A u \in Taps \ {t} : tap'[u] = tap[u]
           /\ raced \subseteq raced' /\ worker' = worker
           /\ SyncingFor(signedIn) => <<signedIn, d>> \in raced'
           /\ \A u \in Taps : Tapping(u, signedIn, d) => <<signedIn, d>> \in raced'
      BY <1>0, <1>2, Reacts DEF TapBegins
    <2>2. ASSUME NEW u \in Taps, tap'[u].pc # "idle", <<tap'[u].acct, tap'[u].dish>> \notin raced'
          PROVE  /\ ~ (worker'.pc # "idle" /\ worker'.acct = tap'[u].acct)
                 /\ \A w \in Taps \ {u} :
                      ~ (tap'[w].pc # "idle" /\ tap'[w].acct = tap'[u].acct
                         /\ tap'[w].dish = tap'[u].dish)
      <3>1. CASE u = t
        BY <2>1, <2>2, <3>1 DEF SyncingFor, WorkerOn, Tapping, TapOn
      <3>2. CASE u # t
        <4>1. tap'[u] = tap[u]
          BY <2>1, <3>2
        <4>2. /\ ~ (worker.pc # "idle" /\ worker.acct = tap[u].acct)
              /\ \A w \in Taps \ {u} :
                   ~ (tap[w].pc # "idle" /\ tap[w].acct = tap[u].acct /\ tap[w].dish = tap[u].dish)
          BY <2>1, <2>2, <4>1 DEF Alone, SyncingFor, WorkerOn, Tapping, TapOn
        <4>3. ~ (signedIn = tap[u].acct /\ d = tap[u].dish)
          BY <2>1, <2>2, <4>1 DEF Tapping, TapOn
        <4> QED
          BY <2>1, <4>1, <4>2, <4>3
      <3> QED
        BY <3>1, <3>2
    <2> QED
      BY <2>2 DEF Alone, SyncingFor, WorkerOn, Tapping, TapOn
  <1>3. CASE SyncBegin
    <2>1. worker'.acct = signedIn /\ signedIn \in Accounts
      BY <1>0, <1>3, Begins
    <2>2. tap' = tap /\ raced' = raced \cup
             {<<signedIn, d>> : d \in {e \in Dishes : \E t \in Taps : Tapping(t, signedIn, e)}}
      BY <1>3 DEF SyncBegin
    <2>3. ASSUME NEW u \in Taps, tap[u].pc # "idle", <<tap[u].acct, tap[u].dish>> \notin raced'
          PROVE  /\ worker'.acct # tap[u].acct
                 /\ \A w \in Taps \ {u} :
                      ~ (tap[w].pc # "idle" /\ tap[w].acct = tap[u].acct
                         /\ tap[w].dish = tap[u].dish)
      <3>1. tap[u].dish \in Dishes
        BY <1>0, <2>3, TapShape DEF TapOn
      <3>2. worker'.acct # tap[u].acct
        BY <2>1, <2>2, <2>3, <3>1 DEF Tapping, TapOn
      <3>3. <<tap[u].acct, tap[u].dish>> \notin raced
        BY <1>1, <2>3
      <3> QED
        BY <2>3, <3>2, <3>3 DEF Alone, Tapping, TapOn
    <2> QED
      BY <2>2, <2>3 DEF Alone, SyncingFor, WorkerOn, Tapping, TapOn
  <1>4. CASE (\A t \in Taps : TapKeeps(t)) /\ WorkerKeeps
    <2>1. ASSUME NEW u \in Taps, tap'[u].pc # "idle", <<tap'[u].acct, tap'[u].dish>> \notin raced'
          PROVE  /\ ~ (worker'.pc # "idle" /\ worker'.acct = tap'[u].acct)
                 /\ \A w \in Taps \ {u} :
                      ~ (tap'[w].pc # "idle" /\ tap'[w].acct = tap'[u].acct
                         /\ tap'[w].dish = tap'[u].dish)
      <3>1. /\ tap[u].pc # "idle" /\ tap'[u].acct = tap[u].acct /\ tap'[u].dish = tap[u].dish
        BY <1>4, <2>1 DEF TapKeeps
      <3>2. /\ ~ (worker.pc # "idle" /\ worker.acct = tap[u].acct)
            /\ \A w \in Taps \ {u} :
                 ~ (tap[w].pc # "idle" /\ tap[w].acct = tap[u].acct /\ tap[w].dish = tap[u].dish)
        BY <1>1, <2>1, <3>1 DEF Alone, SyncingFor, WorkerOn, Tapping, TapOn
      <3>3. ~ (worker'.pc # "idle" /\ worker'.acct = tap'[u].acct)
        BY <1>4, <3>1, <3>2 DEF WorkerKeeps
      <3> QED
        BY <1>4, <3>1, <3>2, <3>3 DEF TapKeeps
    <2> QED
      BY <2>1 DEF Alone, SyncingFor, WorkerOn, Tapping, TapOn
  <1> QED
    BY <1>2, <1>3, <1>4, Moves
-----------------------------------------------------------------------------
(* Which actions change what *)

LEMMA LocalChanges ==
    ASSUME [Next]_vars
    PROVE  \/ UNCHANGED local
           \/ \E t \in Taps : TapUpdate(t) \/ TapInsert(t) \/ TapMark(t)
           \/ PullUpdate \/ PullInsert \/ UploadMark
  BY DEF Next, vars, LateArrives, OtherDevice, TapBegins, React, ReactOverlong, TapStep, TapSelect, TapSend, TapAnswered,
         WorkerStep, SyncBegin, PullGet, PullSelect, PullCursor, UploadBegin, UploadSend,
         SignIn, SignsOut, SignOut, SignOutBuying, Verified, Merge, Kill

LEMMA ServerChanges ==
    ASSUME [Next]_vars
    PROVE  \/ UNCHANGED <<server, accepted, late>>
           \/ LateArrives \/ (\E a \in Accounts, d \in Dishes : OtherDevice(a, d))
           \/ (\E t \in Taps : TapSend(t)) \/ UploadSend
           \/ \E d \in Dishes : Merge(d) /\ UNCHANGED <<accepted, late>>
  BY DEF Next, vars, history, TapBegins, React, ReactOverlong, TapStep, TapUpdate, TapSelect, TapInsert, TapAnswered,
         TapMark, WorkerStep, SyncBegin, PullGet, PullUpdate, PullSelect, PullInsert, PullCursor,
         UploadBegin, UploadMark, SignIn, SignsOut, SignOut, SignOutBuying, Verified, Merge, Kill

LEMMA WorkerChanges ==
    ASSUME [Next]_vars
    PROVE  UNCHANGED worker \/ worker'.pc = "idle" \/ WorkerStep
  BY IdleTyped DEF Next, vars, LateArrives, OtherDevice, TapBegins, React, ReactOverlong, TapStep, TapUpdate, TapSelect,
         TapInsert, TapSend, TapAnswered, TapMark, SignIn, SignsOut, SignOut, SignOutBuying, Verified, Merge, Kill

-----------------------------------------------------------------------------
(* Who gave what is stored, on its way or waiting. *)

LEMMA Arrives ==
    ASSUME Typed, ServerGiven, [Next]_vars, NEW a \in Accounts, NEW d \in Dishes,
           NEW v \in Values, AttributedThen(v, a), Accept(a, d, v)
    PROVE  ServerGiven'
  <1>1. /\ server'[a][d].value = v
        /\ \A b \in Accounts, e \in Dishes : <<b, e>> # <<a, d>> => server'[b][e] = server[b][e]
    BY Accepts
  <1>2. ASSUME NEW b \in Accounts, NEW e \in Dishes, server'[b][e].value # 0
        PROVE  AttributedThen(server'[b][e].value, b)
    <2>1. CASE <<b, e>> = <<a, d>>
      BY <1>1, <2>1
    <2>2. CASE <<b, e>> # <<a, d>>
      <3>1. server'[b][e].value = server[b][e].value /\ server[b][e].value \in 0 .. MaxWrites
        BY <1>1, <2>2, ServerShape DEF Typed
      <3>2. PICK w \in Values : w = server[b][e].value
        BY <1>2, <3>1, ConstantsAssumption DEF Values
      <3>3. Attributed(w, b)
        BY <1>2, <3>1, <3>2 DEF ServerGiven
      <3>4. AttributedThen(w, b)
        BY <3>3, GivenStays
      <3> QED
        BY <3>1, <3>2, <3>4 DEF Attributed, AttributedThen
    <2> QED
      BY <2>1, <2>2
  <1> QED
    BY <1>2 DEF ServerGiven, Attributed, AttributedThen

LEMMA ServerGivenStays ==
    ASSUME Typed, ServerGiven, [Next]_vars,
           \A b \in Accounts, e \in Dishes : server'[b][e].value = 0 \/ server'[b][e] = server[b][e]
    PROVE  ServerGiven'
  <1>1. ASSUME NEW b \in Accounts, NEW e \in Dishes, server[b][e].value # 0
        PROVE  AttributedThen(server[b][e].value, b)
    <2>1. PICK w \in Values : w = server[b][e].value
      BY <1>1, ServerShape, ConstantsAssumption DEF Values, Typed
    <2>2. Attributed(w, b)
      BY <1>1, <2>1 DEF ServerGiven
    <2>3. AttributedThen(w, b)
      BY <2>2, GivenStays
    <2> QED
      BY <2>1, <2>3 DEF Attributed, AttributedThen
  <1> QED
    BY <1>1 DEF ServerGiven, Attributed, AttributedThen

LEMMA LateGivenStays ==
    ASSUME Typed, LateGiven, [Next]_vars, NEW r \in late PROVE AttributedThen(r.value, r.acct)
  <1>1. PICK w \in Values, b \in Accounts : w = r.value /\ b = r.acct
    BY DEF Typed, TypeOK
  <1>2. Attributed(w, b)
    BY <1>1 DEF LateGiven
  <1>3. AttributedThen(w, b)
    BY <1>2, GivenStays
  <1> QED
    BY <1>1, <1>3 DEF Attributed, AttributedThen

\* A request of an account goes to whoever is signed in: that account, or one for which
\* the account counts as mixed.
LEMMA Asks ==
    ASSUME Typed, ServerGiven, LateGiven, [Next]_vars, NEW a \in Accounts, NEW d \in Dishes,
           NEW v \in Values, By(v, a), a \in {bearer} \cup mixed,
           Served(d, v) \/ Failed \/ TimedOut(d, v)
    PROVE  ServerGiven' /\ LateGiven'
  <1>1. Attributed(v, bearer)
    BY DEF By, Attributed, AttributedThen
  <1>2. TypeOK
    BY DEF Typed
  <1>3. CASE Served(d, v)
    <2>1. PICK b \in Accounts : b = bearer /\ Accept(b, d, v)
      BY <1>2, <1>3, BearerIs DEF Served
    <2>2. AttributedThen(v, b)
      BY <1>1, <2>1, GivenStays
    <2>3. ServerGiven'
      BY <2>1, <2>2, Arrives
    <2>4. late' = late
      BY <1>3 DEF Served
    <2>5. LateGiven'
      BY <2>4, LateGivenStays DEF LateGiven, Attributed, AttributedThen
    <2> QED
      BY <2>3, <2>5
  <1>4. CASE Failed
    BY <1>4, ServerGivenStays, LateGivenStays DEF Failed, LateGiven, Attributed, AttributedThen
  <1>5. CASE TimedOut(d, v)
    <2>1. PICK b \in Accounts : b = bearer
      BY <1>2, <1>5, BearerIs DEF TimedOut
    <2>2. AttributedThen(v, b)
      BY <1>1, <2>1, GivenStays
    <2>3. late' = late \cup {[acct |-> b, dish |-> d, value |-> v]} /\ server' = server
      BY <1>5, <2>1 DEF TimedOut
    <2>4. \A r \in late' : AttributedThen(r.value, r.acct)
      <3> SUFFICES ASSUME NEW r \in late' PROVE AttributedThen(r.value, r.acct)
        OBVIOUS
      <3>1. CASE r \in late
        BY <3>1, LateGivenStays
      <3>2. CASE r = [acct |-> b, dish |-> d, value |-> v]
        BY <2>2, <3>2 DEF Attributed, AttributedThen
      <3> QED
        BY <2>3, <3>1, <3>2
    <2>5. LateGiven'
      BY <2>4 DEF LateGiven, Attributed, AttributedThen
    <2> QED
      BY <2>3, <2>5, ServerGivenStays
  <1> QED
    BY <1>3, <1>4, <1>5

LEMMA ServerGivenStep ==
    ASSUME Typed, Elsewhere, Given, [Next]_vars PROVE ServerGiven' /\ LateGiven'
  <1>0. TypeOK /\ ServerGiven /\ LateGiven
    BY DEF Typed, Given
  <1>1. CASE UNCHANGED <<server, accepted, late>>
    BY <1>0, <1>1, ServerGivenStays, LateGivenStays DEF LateGiven, Attributed, AttributedThen
  <1>2. CASE LateArrives
    <2>1. PICK r \in late : Accept(r.acct, r.dish, r.value) /\ late' = late \ {r}
      BY <1>2 DEF LateArrives
    <2>2. PICK a \in Accounts, d \in Dishes, v \in Values : a = r.acct /\ d = r.dish /\ v = r.value
      BY <1>0 DEF TypeOK
    <2>3. Attributed(v, a)
      BY <1>0, <2>2 DEF LateGiven
    <2>4. AttributedThen(v, a) /\ Accept(a, d, v)
      BY <2>1, <2>2, <2>3, GivenStays
    <2>5. ServerGiven'
      BY <1>0, <2>4, Arrives
    <2> QED
      BY <1>0, <2>1, <2>5, LateGivenStays DEF LateGiven, Attributed, AttributedThen
  <1>3. ASSUME NEW a \in Accounts, NEW d \in Dishes, OtherDevice(a, d)
        PROVE  ServerGiven' /\ LateGiven'
    <2>1. PICK v \in Values : v = writes + 1
      BY <1>0, <1>3, NextValue DEF OtherDevice
    <2>2. Accept(a, d, v) /\ author' = [author EXCEPT ![v] = a] /\ writes' = v /\ late' = late
      BY <1>3, <2>1 DEF OtherDevice
    <2>3. author'[v] = a /\ v <= writes'
      BY <1>0, <2>2, ConstantsAssumption DEF TypeOK, Values
    <2>4. AttributedThen(v, a)
      BY <2>3 DEF Attributed, AttributedThen
    <2>5. ServerGiven'
      BY <1>0, <2>2, <2>4, Arrives
    <2> QED
      BY <1>0, <2>2, <2>5, LateGivenStays DEF LateGiven, Attributed, AttributedThen
  <1>4. ASSUME NEW t \in Taps, TapSend(t) PROVE ServerGiven' /\ LateGiven'
    <2>1. PICK a \in Accounts, d \in Dishes, v \in Values :
            a = tap[t].acct /\ d = tap[t].dish /\ v = tap[t].value
      BY <1>0, <1>4, TapShape DEF TapSend, TapOn, Carries
    <2>2. /\ Served(d, v) \/ Failed \/ TimedOut(d, v)
          /\ By(v, a) /\ a \in {bearer} \cup mixed
      BY <1>4, <2>1, Bears DEF TapSend, TapOn, Carries, Given, TapsGiven, Elsewhere
    <2> QED
      BY <1>0, <2>2, Asks
  <1>5. CASE UploadSend
    <2>1. PICK p \in worker.rest :
             /\ p \in Pending /\ worker.pc = "upload" /\ worker.acct \in Accounts
             /\ Served(p.dish, p.value) \/ Failed \/ TimedOut(p.dish, p.value)
      BY <1>0, <1>5, UploadSends
    <2>2. PICK a \in Accounts, d \in Dishes, v \in Values :
            a = worker.acct /\ d = p.dish /\ v = p.value
      BY <2>1 DEF Pending
    <2>3. /\ Served(d, v) \/ Failed \/ TimedOut(d, v)
          /\ By(v, a) /\ a \in {bearer} \cup mixed
      BY <2>1, <2>2, Bears DEF Given, UploadsGiven, Elsewhere, WorkerOn
    <2> QED
      BY <1>0, <2>3, Asks
  <1>6. ASSUME NEW d \in Dishes, Merge(d), UNCHANGED <<accepted, late>> PROVE ServerGiven' /\ LateGiven'
    <2>1. \A b \in Accounts, e \in Dishes : server'[b][e].value = 0 \/ server'[b][e] = server[b][e]
      BY <1>6, Merges
    <2> QED
      BY <1>0, <1>6, <2>1, ServerGivenStays, LateGivenStays DEF LateGiven, Attributed, AttributedThen
  <1> QED
    BY <1>1, <1>2, <1>3, <1>4, <1>5, <1>6, ServerChanges
LEMMA TapsGivenStep ==
    ASSUME Typed, TapsGiven, [Next]_vars PROVE TapsGiven'
  <1>0. TypeOK
    BY DEF Typed
  <1>1. ASSUME NEW t \in Taps, tap[t].pc \in Carries
        PROVE  ByThen(tap[t].value, tap[t].acct)
    <2>1. PICK v \in Values, a \in Accounts : v = tap[t].value /\ a = tap[t].acct
      BY <1>0, <1>1, TapShape DEF TapOn, Carries
    <2>2. By(v, a)
      BY <1>1, <2>1 DEF TapsGiven
    <2>3. ByThen(v, a)
      BY <2>2, GivenStays
    <2> QED
      BY <2>1, <2>3 DEF ByThen
  <1>2. ASSUME NEW t \in Taps, NEW d \in Dishes, TapBegins(t, d) PROVE TapsGiven'
    <2>1. PICK v \in Values : v = writes + 1
      BY <1>0, <1>2, Reacts
    <2>2. author' = [author EXCEPT ![v] = signedIn] /\ writes' = v
      BY <1>2, <2>1 DEF TapBegins
    <2>3. author'[v] = signedIn /\ v <= writes'
      BY <1>0, <2>2, ConstantsAssumption DEF TypeOK, Values
    <2>4. ASSUME NEW u \in Taps, tap'[u].pc \in Carries
          PROVE  ByThen(tap'[u].value, tap'[u].acct)
      <3>1. CASE u = t
        BY <1>0, <1>2, <2>1, <2>3, <3>1, Reacts DEF ByThen
      <3>2. CASE u # t
        <4>1. tap'[u] = tap[u]
          BY <1>0, <1>2, <3>2, Reacts
        <4> QED
          BY <1>1, <2>4, <4>1
      <3> QED
        BY <3>1, <3>2
    <2> QED
      BY <2>4 DEF TapsGiven, By, ByThen
  <1>3. CASE \A t \in Taps : TapKeeps(t)
    <2>1. ASSUME NEW u \in Taps, tap'[u].pc \in Carries
          PROVE  ByThen(tap'[u].value, tap'[u].acct)
      <3>1. tap[u].pc \in Carries /\ tap'[u].value = tap[u].value /\ tap'[u].acct = tap[u].acct
        BY <1>3, <2>1 DEF TapKeeps, Carries
      <3> QED
        BY <1>1, <3>1
    <2> QED
      BY <2>1 DEF TapsGiven, By, ByThen
  <1>4. CASE SyncBegin
    BY <1>0, <1>1, <1>4 DEF SyncBegin, TapsGiven, By, ByThen
  <1> QED
    BY <1>2, <1>3, <1>4, Moves

LEMMA RowsGivenStep ==
    ASSUME Typed, Given, [Next]_vars PROVE RowsGiven'
  <1>0. TypeOK
    BY DEF Typed
  <1>1. ASSUME NEW r \in local, r.synced = FALSE PROVE ByThen(r.value, r.owner)
    <2>1. PICK v \in Values, a \in Accounts : v = r.value /\ a = r.owner
      BY <1>0, RowShape
    <2>2. By(v, a)
      BY <1>1, <2>1 DEF Given, RowsGiven
    <2>3. ByThen(v, a)
      BY <2>2, GivenStays
    <2> QED
      BY <2>1, <2>3 DEF ByThen
  <1>2. ASSUME NEW t \in Taps, tap[t].pc \in Carries
        PROVE  ByThen(tap[t].value, tap[t].acct)
    <2>1. PICK v \in Values, a \in Accounts : v = tap[t].value /\ a = tap[t].acct
      BY <1>0, <1>2, TapShape DEF TapOn, Carries
    <2>2. By(v, a)
      BY <1>2, <2>1 DEF Given, TapsGiven
    <2>3. ByThen(v, a)
      BY <2>2, GivenStays
    <2> QED
      BY <2>1, <2>3 DEF ByThen
  <1> DEFINE RG == \A r \in local' : r.synced = FALSE => ByThen(r.value, r.owner)
  <1> SUFFICES RG
    BY DEF RowsGiven, By, ByThen
  <1>3. CASE UNCHANGED local
    BY <1>1, <1>3
  <1>4. ASSUME NEW t \in Taps, TapUpdate(t) PROVE RG
    <2>1. PICK g \in [local -> Rows] :
             /\ Rewritten(g)
             /\ \A r \in local : r.owner = tap[t].acct /\ r.dish = tap[t].dish =>
                  g[r].value = tap[t].value /\ g[r].synced = FALSE
             /\ \A r \in local : ~ (r.owner = tap[t].acct /\ r.dish = tap[t].dish) => g[r] = r
      BY <1>0, <1>4, TapUpdates
    <2>2. ByThen(tap[t].value, tap[t].acct)
      BY <1>2, <1>4 DEF TapUpdate, TapOn, Carries
    <2>3. ASSUME NEW r \in local, g[r].synced = FALSE PROVE ByThen(g[r].value, g[r].owner)
      <3>1. CASE r.owner = tap[t].acct /\ r.dish = tap[t].dish
        BY <2>1, <2>2, <3>1 DEF Rewritten
      <3>2. CASE ~ (r.owner = tap[t].acct /\ r.dish = tap[t].dish)
        BY <1>1, <2>1, <2>3, <3>2
      <3> QED
        BY <3>1, <3>2
    <2> QED
      BY <2>1, <2>3 DEF Rewritten
  <1>5. ASSUME NEW t \in Taps, TapMark(t) PROVE RG
    <2>1. PICK g \in [local -> Rows] :
             /\ Rewritten(g)
             /\ \A r \in local : ~ (r.id = tap[t].id /\ r.dish = tap[t].dish) => g[r] = r
             /\ \A r \in local : r.id = tap[t].id /\ r.dish = tap[t].dish => g[r].synced
      BY <1>0, <1>5, TapMarks
    <2>2. \A r \in local : g[r].synced = FALSE => g[r] = r
      BY <2>1
    <2>3. ASSUME NEW q \in local', q.synced = FALSE PROVE ByThen(q.value, q.owner)
      <3>1. PICK r \in local : q = g[r]
        BY <2>1 DEF Rewritten
      <3>2. q = r
        BY <2>2, <2>3, <3>1
      <3> QED
        BY <1>1, <2>3, <3>2
    <2> QED
      BY <2>3
  <1>6. ASSUME NEW t \in Taps, TapInsert(t) PROVE RG
    <2>1. PICK q \in Rows :
             /\ local' = local \cup {q}
             /\ q.owner = tap[t].acct /\ q.value = tap[t].value
      BY <1>0, <1>6, TapInserts
    <2>2. ByThen(tap[t].value, tap[t].acct)
      BY <1>2, <1>6 DEF TapInsert, TapOn, Carries
    <2> QED
      BY <1>1, <2>1, <2>2
  <1>7. CASE PullUpdate
    <2>1. PICK g \in [local -> Rows] :
             /\ Rewritten(g)
             /\ \A r \in local : r.owner = worker.acct /\ r.dish = worker.row.dish =>
                  g[r].value = worker.row.value /\ g[r].synced = TRUE
             /\ \A r \in local : ~ (r.owner = worker.acct /\ r.dish = worker.row.dish) => g[r] = r
      BY <1>0, <1>7, PullUpdates
    <2>2. \A r \in local : g[r].synced = FALSE => g[r] = r
      BY <2>1
    <2>3. ASSUME NEW q \in local', q.synced = FALSE PROVE ByThen(q.value, q.owner)
      <3>1. PICK r \in local : q = g[r]
        BY <2>1 DEF Rewritten
      <3>2. q = r
        BY <2>2, <2>3, <3>1
      <3> QED
        BY <1>1, <2>3, <3>2
    <2> QED
      BY <2>3
  <1>8. CASE PullInsert
    <2>1. \/ UNCHANGED local
          \/ \E q \in Rows : local' = local \cup {q} /\ q.synced = TRUE
      BY <1>0, <1>8, PullInserts
    <2> QED
      BY <1>1, <2>1
  <1>9. CASE UploadMark
    <2>1. PICK g \in [local -> Rows] :
             /\ Rewritten(g)
             /\ \A r \in local : ~ (r.id = worker.row.id /\ r.dish = worker.row.dish) => g[r] = r
             /\ \A r \in local : r.id = worker.row.id /\ r.dish = worker.row.dish => g[r].synced
      BY <1>0, <1>9, UploadMarks
    <2>2. \A r \in local : g[r].synced = FALSE => g[r] = r
      BY <2>1
    <2>3. ASSUME NEW q \in local', q.synced = FALSE PROVE ByThen(q.value, q.owner)
      <3>1. PICK r \in local : q = g[r]
        BY <2>1 DEF Rewritten
      <3>2. q = r
        BY <2>2, <2>3, <3>1
      <3> QED
        BY <1>1, <2>3, <3>2
    <2> QED
      BY <2>3
  <1> QED
    BY <1>3, <1>4, <1>5, <1>6, <1>7, <1>8, <1>9, LocalChanges

LEMMA UploadsGivenStep ==
    ASSUME Typed, Given, [Next]_vars PROVE UploadsGiven'
  <1>0. TypeOK
    BY DEF Typed
  <1>1. ASSUME NEW v \in Values, NEW a \in Accounts, By(v, a) PROVE ByThen(v, a)
    BY <1>1, GivenStays
  <1>2. ASSUME worker.pc \in {"upload", "mark"}, NEW p \in worker.rest
        PROVE  ByThen(p.value, worker.acct)
    <2>1. PICK v \in Values, a \in Accounts : v = p.value /\ a = worker.acct
      BY <1>0, <1>2, WorkerShape DEF Pending, WorkerOn
    <2> QED
      BY <1>1, <1>2, <2>1 DEF Given, UploadsGiven
  <1> DEFINE UG == worker'.pc \in {"upload", "mark"} =>
                     \A p \in worker'.rest : ByThen(p.value, worker'.acct)
  <1> SUFFICES UG
    BY DEF UploadsGiven, By, ByThen
  <1>3. CASE UNCHANGED worker
    BY <1>2, <1>3
  <1>4. CASE UploadBegin
    <2>1. ASSUME NEW r \in local, r.owner = worker.acct, r.synced = FALSE
          PROVE  ByThen(r.value, worker.acct)
      <3>1. PICK v \in Values, a \in Accounts : v = r.value /\ a = worker.acct
        BY <1>0, <2>1, RowShape
      <3> QED
        BY <1>1, <2>1, <3>1 DEF Given, RowsGiven
    <2>2. \/ worker'.pc = "idle"
          \/ /\ worker'.acct = worker.acct
             /\ \A p \in worker'.rest : \E r \in local :
                  r.owner = worker.acct /\ r.synced = FALSE /\ p.value = r.value
      BY <1>0, <1>4, UploadBegins
    <2> QED
      BY <2>1, <2>2
  <1>5. CASE UploadSend
    <2>1. /\ worker.pc = "upload"
          /\ \/ worker'.pc = "idle"
             \/ worker'.acct = worker.acct /\ worker'.rest \subseteq worker.rest
      BY <1>0, <1>5, UploadSends
    <2> QED
      BY <1>2, <2>1
  <1>6. CASE UploadMark
    <2>1. /\ worker.pc = "mark"
          /\ \/ worker'.pc = "idle"
             \/ worker'.acct = worker.acct /\ worker'.rest = worker.rest
      BY <1>0, <1>6, UploadMarksOn
    <2> QED
      BY <1>2, <2>1
  <1>7. CASE worker'.pc \in {"idle", "get", "pending", "update", "select", "insert", "cursor"}
    BY <1>7
  <1>8. CASE SyncBegin \/ PullGet \/ PullUpdate \/ PullSelect \/ PullInsert \/ PullCursor
    <2>1. CASE SyncBegin
      BY <1>0, <1>7, <2>1, Begins
    <2>2. CASE PullGet
      BY <1>7, <2>2, Gets
    <2>3. CASE PullUpdate
      BY <1>0, <1>7, <2>3, PullsTo DEF PullUpdate, WorkerOn
    <2>4. CASE PullSelect
      BY <1>0, <1>7, <2>4, Selects
    <2>5. CASE PullInsert
      BY <1>0, <1>7, <2>5, PullInserts
    <2>6. CASE PullCursor
      BY <1>0, <1>7, <2>6, GoesToPending DEF PullCursor, WorkerOn
    <2> QED
      BY <1>8, <2>1, <2>2, <2>3, <2>4, <2>5, <2>6
  <1> QED
    BY <1>3, <1>4, <1>5, <1>6, <1>7, <1>8, WorkerChanges DEF WorkerStep

LEMMA GivenStep ==
    ASSUME Typed, Elsewhere, Given, [Next]_vars PROVE Given'
  BY ServerGivenStep, TapsGivenStep, RowsGivenStep, UploadsGivenStep DEF Given
-----------------------------------------------------------------------------
(* Ids of rows, and one row per dish. *)

LEMMA LocalMoves ==
    ASSUME TypeOK, [Next]_vars
    PROVE  \/ \E g \in [local -> Rows] : Rewritten(g)
           \/ \E t \in Taps : TapInsert(t)
           \/ PullInsert /\ ~ UNCHANGED local
  <1>1. CASE UNCHANGED local
    BY <1>1, Stays
  <1>2. ASSUME NEW t \in Taps, TapUpdate(t) PROVE \E g \in [local -> Rows] : Rewritten(g)
    BY <1>2, TapUpdates
  <1>3. ASSUME NEW t \in Taps, TapMark(t) PROVE \E g \in [local -> Rows] : Rewritten(g)
    BY <1>3, TapMarks
  <1>4. CASE PullUpdate
    BY <1>4, PullUpdates
  <1>5. CASE UploadMark
    BY <1>5, UploadMarks
  <1> QED
    BY <1>1, <1>2, <1>3, <1>4, <1>5, LocalChanges

LEMMA RewrittenRows ==
    ASSUME TypeOK, NEW g \in [local -> Rows], Rewritten(g)
    PROVE  /\ \A q \in local' : \E r \in local :
                q = g[r] /\ q.id = r.id /\ q.owner = r.owner /\ q.dish = r.dish
           /\ \A r \in local :
                g[r] \in local' /\ g[r].id = r.id /\ g[r].owner = r.owner /\ g[r].dish = r.dish
  BY DEF Rewritten

LEMMA PullAdds ==
    ASSUME TypeOK, PullInsert, ~ UNCHANGED local
    PROVE  /\ worker.pc = "insert" /\ worker.acct \in Accounts /\ worker.row \in Downloaded
           /\ \E q \in Rows :
                /\ local' = local \cup {q} /\ q.synced = TRUE
                /\ q.id = worker.row.from /\ q.owner = worker.acct
                /\ q.dish = worker.row.dish /\ q.value = worker.row.value
                /\ q.id \in Accounts
                /\ \A r \in local : ~ (r.id = q.id /\ r.dish = q.dish)
  <1>1. /\ worker.pc = "insert" /\ worker.acct \in Accounts /\ worker.row \in Downloaded
        /\ \A r \in local : ~ (r.id = worker.row.from /\ r.dish = worker.row.dish)
        /\ \E q \in Rows :
                      /\ local' = local \cup {q} /\ q.synced = TRUE
                      /\ q.id = worker.row.from /\ q.owner = worker.acct
                      /\ q.dish = worker.row.dish /\ q.value = worker.row.value
    BY PullInserts
  <1>2. worker.row.from \in Accounts
    BY <1>1 DEF Downloaded
  <1> QED
    BY <1>1, <1>2

LEMMA RowKeysStep ==
    ASSUME Typed, Given, Keys, [Next]_vars PROVE RowKeys' /\ IdsIssued'
  <1>0. TypeOK /\ RowKeys /\ IdsIssued /\ FreshIds
    BY DEF Typed, Keys
  <1>1. ASSUME NEW r \in local PROVE r.id \in Accounts \/ r.id <= writes'
    <2>1. r.id \in Accounts \/ r.id \in Int
      BY <1>0, RowShape, ConstantsAssumption DEF Ids, Values
    <2> QED
      BY <1>0, <2>1, Grows DEF IdsIssued
  <1>2. ASSUME NEW g \in [local -> Rows], Rewritten(g) PROVE RowKeys' /\ IdsIssued'
    <2>1. RowKeys'
      BY <1>0, <1>2, RewrittenRows DEF RowKeys
    <2>2. IdsIssued'
      BY <1>0, <1>1, <1>2, RewrittenRows DEF IdsIssued
    <2> QED
      BY <2>1, <2>2
  <1>3. ASSUME NEW t \in Taps, TapInsert(t) PROVE RowKeys' /\ IdsIssued'
    <2>1. PICK q \in Rows : local' = local \cup {q} /\ q.id = tap[t].value
      BY <1>0, <1>3, TapInserts
    <2>2. \A r \in local : r.id # q.id
      BY <1>0, <1>3, <2>1, TapInserts DEF FreshIds, Inserts
    <2>3. q.id <= writes'
      <3>1. tap[t].pc = "insert" /\ tap[t].value \in Values
        BY <1>0, <1>3, TapInserts
      <3>2. By(tap[t].value, tap[t].acct)
        BY <3>1 DEF Given, TapsGiven, Carries
      <3>3. tap[t].value \in Int
        BY <3>1, ConstantsAssumption DEF Values
      <3> QED
        BY <2>1, <3>2, <3>3, Grows DEF By
    <2> QED
      BY <1>0, <1>1, <2>1, <2>2, <2>3 DEF RowKeys, IdsIssued
  <1>4. CASE PullInsert /\ ~ UNCHANGED local
    <2>1. PICK q \in Rows :
            /\ local' = local \cup {q} /\ q.id \in Accounts
            /\ \A r \in local : ~ (r.id = q.id /\ r.dish = q.dish)
      BY <1>0, <1>4, PullAdds
    <2> QED
      BY <1>0, <1>1, <2>1 DEF RowKeys, IdsIssued
  <1> QED
    BY <1>0, <1>2, <1>3, <1>4, LocalMoves

LEMMA FreshIdsStep ==
    ASSUME Typed, Given, Keys, [Next]_vars PROVE FreshIds'
  <1>0. TypeOK /\ RowKeys /\ IdsIssued /\ FreshIds /\ TapsGiven
    BY DEF Typed, Keys, Given
  <1>1. \A t \in Taps : tap[t].pc \in Inserts => tap[t].value \in Values /\ tap[t].value <= writes
    BY <1>0, TapShape DEF TapsGiven, By, Inserts, Carries
  <1>2. ASSUME NEW t \in Taps, NEW d \in Dishes, TapBegins(t, d) PROVE FreshIds'
    <2>1. local' = local /\ writes \in Nat
      BY <1>2, Grows DEF TapBegins
    <2>2. ASSUME NEW r \in local PROVE r.id # writes + 1
      <3>1. r.id \in Accounts \/ (r.id \in Int /\ r.id <= writes)
        BY <1>0, RowShape, ConstantsAssumption DEF Ids, Values, IdsIssued
      <3>2. writes + 1 \notin Accounts
        BY <1>0, <1>2, Reacts, ConstantsAssumption DEF Values
      <3> QED
        BY <2>1, <3>1, <3>2
    <2>3. \A u \in Taps \ {t} : tap[u].pc \in Inserts => tap[u].value # writes + 1
      BY <1>1, <2>1, ConstantsAssumption DEF Values
    <2>4. /\ tap'[t].value = writes + 1
          /\ \A u \in Taps \ {t} : tap'[u] = tap[u]
      BY <1>0, <1>2, Reacts
    <2>5. ASSUME NEW u \in Taps, tap'[u].pc \in Inserts
          PROVE  /\ \A r \in local : r.id # tap'[u].value
                 /\ \A w \in Taps \ {u} : tap'[w].pc \in Inserts => tap'[w].value # tap'[u].value
      <3>1. CASE u = t
        BY <2>2, <2>3, <2>4, <3>1
      <3>2. CASE u # t
        <4>1. tap'[u] = tap[u]
          BY <2>4, <3>2
        <4>2. \A r \in local : r.id # tap'[u].value
          BY <1>0, <2>5, <4>1 DEF FreshIds
        <4>3. ASSUME NEW w \in Taps \ {u}, tap'[w].pc \in Inserts
              PROVE  tap'[w].value # tap'[u].value
          <5>1. CASE w = t
            BY <2>3, <2>4, <2>5, <3>2, <4>1, <5>1
          <5>2. CASE w # t
            <6>1. tap'[w] = tap[w]
              BY <2>4, <5>2
            <6> QED
              BY <1>0, <2>5, <4>1, <4>3, <6>1 DEF FreshIds
          <5> QED
            BY <5>1, <5>2
        <4> QED
          BY <4>2, <4>3
      <3> QED
        BY <3>1, <3>2
    <2> QED
      BY <2>1, <2>5 DEF FreshIds
  <1>3. CASE SyncBegin
    BY <1>0, <1>3 DEF SyncBegin, FreshIds
  <1>4. CASE \A t \in Taps : TapKeeps(t)
    <2>1. \A t \in Taps : tap'[t].pc \in Inserts =>
            tap[t].pc \in Inserts /\ tap'[t].value = tap[t].value
      BY <1>4 DEF TapKeeps, Inserts, Carries
    <2>2. \A t \in Taps : tap'[t].pc \in Inserts =>
            \A u \in Taps \ {t} : tap'[u].pc \in Inserts => tap'[u].value # tap'[t].value
      BY <1>0, <2>1 DEF FreshIds
    <2>3. ASSUME NEW t \in Taps, tap'[t].pc \in Inserts, NEW q \in local'
          PROVE  q.id # tap[t].value
      <3>0. \A r \in local : r.id # tap[t].value
        BY <1>0, <2>1, <2>3 DEF FreshIds
      <3>1. ASSUME NEW g \in [local -> Rows], Rewritten(g) PROVE q.id # tap[t].value
        BY <1>0, <3>0, <3>1, RewrittenRows
      <3>2. ASSUME NEW u \in Taps, TapInsert(u) PROVE q.id # tap[t].value
        <4>1. PICK p \in Rows : local' = local \cup {p} /\ p.id = tap[u].value
          BY <1>0, <3>2, TapInserts
        <4>2. tap[u].pc = "insert"
          BY <3>2 DEF TapInsert, TapOn
        <4>3. tap'[u].pc = "send"
          BY <1>0, <3>2, Tos DEF TapInsert, TapOn, Carries
        <4>4. u # t
          BY <2>3, <4>3 DEF Inserts
        <4>5. tap[u].value # tap[t].value
          BY <1>0, <2>1, <2>3, <4>2, <4>4 DEF FreshIds, Inserts
        <4> QED
          BY <3>0, <4>1, <4>5
      <3>3. CASE PullInsert /\ ~ UNCHANGED local
        <4>1. PICK p \in Rows : local' = local \cup {p} /\ p.id \in Accounts
          BY <1>0, <3>3, PullAdds
        <4>2. tap[t].value \notin Accounts
          BY <1>1, <2>1, <2>3, ConstantsAssumption DEF Values
        <4> QED
          BY <3>0, <4>1, <4>2
      <3> QED
        BY <1>0, <3>1, <3>2, <3>3, LocalMoves
    <2> QED
      BY <2>1, <2>2, <2>3 DEF FreshIds
  <1> QED
    BY <1>2, <1>3, <1>4, Moves

LEMMA KeysStep ==
    ASSUME Typed, Given, Keys, [Next]_vars PROVE Keys'
  BY RowKeysStep, FreshIdsStep DEF Keys
\* Whoever is about to insert was, or has just found none.
LEMMA TapInsertsNext ==
    ASSUME Typed, [Next]_vars, NEW t \in Taps, tap'[t].pc = "insert"
    PROVE  /\ tap[t].pc # "idle" /\ tap'[t].acct = tap[t].acct /\ tap'[t].dish = tap[t].dish
           /\ \/ tap[t].pc = "insert"
              \/ Cardinality(RowsOf(tap[t].acct, tap[t].dish)) = 0 /\ UNCHANGED local
  <1>0. TypeOK
    BY DEF Typed
  <1>1. CASE UNCHANGED tap
    BY <1>1
  <1>2. ASSUME NEW u \in Taps, NEW d \in Dishes, TapBegins(u, d)
        PROVE  tap[t].pc = "insert" /\ tap'[t] = tap[t]
    BY <1>0, <1>2, Reacts
  <1>3. ASSUME NEW u \in Taps, TapStep(u)
        PROVE  /\ tap[t].pc # "idle" /\ tap'[t].acct = tap[t].acct /\ tap'[t].dish = tap[t].dish
               /\ \/ tap[t].pc = "insert"
                  \/ Cardinality(RowsOf(tap[t].acct, tap[t].dish)) = 0 /\ UNCHANGED local
    <2>1. CASE u # t
      <3>1. tap'[t] = tap[t]
        BY <1>0, <1>3, <2>1, TapStepKeeps
      <3> QED
        BY <3>1
    <2>2. CASE u = t
      <3>1. tap[t].pc # "idle" /\ tap'[t].acct = tap[t].acct /\ tap'[t].dish = tap[t].dish
        BY <1>0, <1>3, <2>2, TapStepKeeps DEF TapKeeps
      <3>2. CASE TapSelect(t)
        <4>1. /\ tap[t].pc = "select" /\ UNCHANGED local
              /\ \/ Cardinality(RowsOf(tap[t].acct, tap[t].dish)) = 0
                 \/ To(t, "send") \/ Finish(t)
          BY <3>2 DEF TapSelect, TapOn
        <4>2. ~ To(t, "send")
          BY <1>0, <4>1, Tos DEF Carries
        <4>3. ~ Finish(t)
          BY <1>0, Finishes
        <4> QED
          BY <3>1, <4>1, <4>2, <4>3
      <3>3. CASE TapUpdate(t) \/ TapInsert(t) \/ TapSend(t)
        <4>1. tap[t].pc \in Carries /\ (To(t, "select") \/ To(t, "send") \/ To(t, "answered")
                                        \/ Finish(t))
          BY <3>3 DEF TapUpdate, TapInsert, TapSend, TapOn, Carries
        <4> QED
          BY <1>0, <4>1, Tos, Finishes DEF Carries
      <3>4. CASE TapAnswered(t) \/ TapMark(t)
        <4>1. \/ Finish(t)
              \/ \E r \in local : tap' = [tap EXCEPT ![t] = [pc |-> "mark", acct |-> tap[t].acct,
                                                            dish |-> tap[t].dish, id |-> r.id]]
          BY <3>4 DEF TapAnswered, TapMark, RowsOf
        <4>2. ASSUME NEW r \in local,
                     tap' = [tap EXCEPT ![t] = [pc |-> "mark", acct |-> tap[t].acct,
                                                dish |-> tap[t].dish, id |-> r.id]]
              PROVE  tap'[t].pc = "mark"
          BY <1>0, <4>2 DEF TypeOK
        <4> QED
          BY <1>0, <4>1, <4>2, Finishes
      <3> QED
        BY <1>3, <2>2, <3>2, <3>3, <3>4 DEF TapStep
    <2> QED
      BY <2>1, <2>2
  <1>4. CASE Kill
    BY <1>4, IdleTyped DEF Kill
  <1> QED
    BY <1>1, <1>2, <1>3, <1>4 DEF Next, vars, LateArrives, OtherDevice, React, ReactOverlong,
       WorkerStep, SyncBegin, PullGet, PullUpdate, PullSelect, PullInsert, PullCursor, UploadBegin, UploadSend,
       UploadMark, SignIn, SignsOut, SignOut, SignOutBuying, Verified, Merge

LEMMA PullInsertsNext ==
    ASSUME Typed, [Next]_vars, worker'.pc = "insert"
    PROVE  /\ worker.pc # "idle" /\ worker'.acct = worker.acct /\ worker'.row = worker.row
           /\ worker.acct \in Accounts /\ worker.row \in Downloaded
           /\ \/ worker.pc = "insert" /\ UNCHANGED worker
              \/ Cardinality(RowsOf(worker.acct, worker.row.dish)) = 0 /\ UNCHANGED local
  <1>0. TypeOK
    BY DEF Typed
  <1>1. CASE UNCHANGED worker
    BY <1>0, <1>1, WorkerShape DEF WorkerOn
  <1>2. CASE PullSelect
    <2>1. worker.pc = "select" /\ UNCHANGED local
      BY <1>2 DEF PullSelect, WorkerOn
    <2>2. worker.acct \in Accounts /\ worker.row \in Downloaded
      BY <1>0, <2>1, WorkerShape DEF WorkerOn
    <2>3. /\ worker'.acct = worker.acct /\ worker'.row = worker.row
          /\ Cardinality(RowsOf(worker.acct, worker.row.dish)) = 0
      BY <1>0, <1>2, Selects
    <2> QED
      BY <2>1, <2>2, <2>3
  <1>3. ~ SyncBegin
    BY <1>0, Begins
  <1>4. ~ PullGet
    BY Gets
  <1>5. ~ PullUpdate
    BY <1>0, PullsTo DEF PullUpdate, WorkerOn
  <1>6. ~ PullInsert
    BY <1>0, PullInserts
  <1>7. ~ PullCursor
    BY <1>0, GoesToPending DEF PullCursor, WorkerOn
  <1>8. ~ UploadBegin /\ ~ UploadSend /\ ~ UploadMark
    BY <1>0, UploadBegins, UploadSends, UploadMarksOn
  <1> QED
    BY <1>1, <1>2, <1>3, <1>4, <1>5, <1>6, <1>7, <1>8, WorkerChanges DEF WorkerStep

LEMMA NoneFound ==
    ASSUME NEW S, \A r, q \in S : r = q, Cardinality(S) = 0 PROVE S = {}
  <1> SUFFICES ASSUME NEW r \in S PROVE FALSE
    OBVIOUS
  <1>1. S = {r}
    OBVIOUS
  <1>2. Cardinality(S) = 1
    BY <1>1, FS_Singleton
  <1> QED
    BY <1>2

\* The rows of an account and a dish after a step.
RowsThen(a, d) == {r \in local' : r.owner = a /\ r.dish = d}

\* A row that is added to those of an account and a dish that is not raced finds none there.
LEMMA RowsAfter ==
    ASSUME Typed, Single, [Next]_vars, NEW a \in Accounts, NEW d \in Dishes, <<a, d>> \notin raced
    PROVE  /\ \A r, q \in RowsThen(a, d) : r = q
           /\ RowsOf(a, d) = {} /\ RowsThen(a, d) # {} =>
                \/ \E t \in Taps : /\ TapInsert(t) /\ tap[t].pc = "insert"
                                   /\ tap[t].acct = a /\ tap[t].dish = d
                \/ /\ PullInsert /\ worker.pc = "insert"
                   /\ worker.acct = a /\ worker.row.dish = d
  <1>0. TypeOK /\ OneRow /\ NoneForTap /\ NoneForPull
    BY DEF Typed, Single
  <1>1. \A r, q \in RowsOf(a, d) : r = q
    BY <1>0 DEF OneRow
  <1>2. ASSUME NEW g \in [local -> Rows], Rewritten(g)
        PROVE  /\ \A r, q \in RowsThen(a, d) : r = q
               /\ RowsOf(a, d) = {} => RowsThen(a, d) = {}
    <2>1. \A q \in RowsThen(a, d) : \E r \in RowsOf(a, d) : q = g[r]
      BY <1>0, <1>2, RewrittenRows DEF RowsThen, RowsOf
    <2> QED
      BY <1>1, <2>1
  <1>3. ASSUME NEW q \in Rows, local' = local \cup {q},
               q.owner = a /\ q.dish = d => RowsOf(a, d) = {}
        PROVE  /\ \A r, p \in RowsThen(a, d) : r = p
               /\ RowsOf(a, d) = {} /\ RowsThen(a, d) # {} => q.owner = a /\ q.dish = d
    BY <1>1, <1>3 DEF RowsThen, RowsOf
  <1>4. ASSUME NEW t \in Taps, TapInsert(t)
        PROVE  /\ \A r, p \in RowsThen(a, d) : r = p
               /\ RowsOf(a, d) = {} /\ RowsThen(a, d) # {} => tap[t].acct = a /\ tap[t].dish = d
    <2>1. PICK q \in Rows :
            local' = local \cup {q} /\ q.owner = tap[t].acct /\ q.dish = tap[t].dish
      BY <1>0, <1>4, TapInserts
    <2>2. q.owner = a /\ q.dish = d => RowsOf(a, d) = {}
      BY <1>0, <1>4, <2>1 DEF NoneForTap, TapInsert
    <2> QED
      BY <1>3, <2>1, <2>2
  <1>5. CASE PullInsert /\ ~ UNCHANGED local
    <2>1. PICK q \in Rows :
            /\ local' = local \cup {q} /\ q.owner = worker.acct /\ q.dish = worker.row.dish
      BY <1>0, <1>5, PullAdds
    <2>2. worker.pc = "insert"
      BY <1>5 DEF PullInsert, WorkerOn
    <2>3. q.owner = a /\ q.dish = d => RowsOf(a, d) = {}
      BY <1>0, <2>1, <2>2 DEF NoneForPull, WorkerOn
    <2> QED
      BY <1>3, <1>5, <2>1, <2>2, <2>3
  <1>6. \A t \in Taps : TapInsert(t) => tap[t].pc = "insert"
    BY DEF TapInsert, TapOn
  <1> QED
    BY <1>0, <1>2, <1>4, <1>5, <1>6, LocalMoves

LEMMA SingleStep ==
    ASSUME Typed, Alone, Single, [Next]_vars PROVE Single'
  <1>0. TypeOK /\ TypeOK' /\ Typed' /\ raced \subseteq raced'
    BY TypedStep, Grows DEF Typed
  <1>1. OneRow'
    <2>1. ASSUME NEW a \in Accounts, NEW d \in Dishes, <<a, d>> \notin raced'
          PROVE  \A r, q \in RowsThen(a, d) : r = q
      BY <1>0, <2>1, RowsAfter
    <2> QED
      BY <2>1 DEF OneRow, RowsOf, RowsThen
  <1>2. NoneForTap'
    <2>1. ASSUME NEW t \in Taps, tap'[t].pc = "insert",
                 <<tap'[t].acct, tap'[t].dish>> \notin raced'
          PROVE  RowsThen(tap'[t].acct, tap'[t].dish) = {}
      <3>1. /\ tap[t].pc # "idle" /\ tap'[t].acct = tap[t].acct /\ tap'[t].dish = tap[t].dish
            /\ \/ tap[t].pc = "insert"
               \/ Cardinality(RowsOf(tap[t].acct, tap[t].dish)) = 0 /\ UNCHANGED local
        BY <2>1, TapInsertsNext
      <3>2. PICK a \in Accounts, d \in Dishes : a = tap[t].acct /\ d = tap[t].dish
        BY <1>0, <3>1, TapShape DEF TapOn
      <3>3. <<a, d>> \notin raced
        BY <1>0, <2>1, <3>1, <3>2
      <3>4. /\ ~ (worker.pc # "idle" /\ worker.acct = a)
            /\ \A u \in Taps \ {t} : ~ (tap[u].pc # "idle" /\ tap[u].acct = a /\ tap[u].dish = d)
        BY <3>1, <3>2, <3>3 DEF Alone, SyncingFor, Tapping, TapOn, WorkerOn
      <3>5. \A r, q \in RowsOf(a, d) : r = q
        BY <3>3 DEF Single, OneRow
      <3>6. RowsOf(a, d) = {}
        BY <3>1, <3>2, <3>3, <3>5, NoneFound DEF Single, NoneForTap, TapOn
      <3>7. ~ TapInsert(t)
        BY <1>0, <2>1, Tos DEF TapInsert, TapOn, Carries
      <3>8. RowsThen(a, d) = {}
        BY <3>3, <3>4, <3>6, <3>7, RowsAfter
      <3> QED
        BY <3>1, <3>2, <3>8
    <2> QED
      BY <2>1 DEF NoneForTap, RowsOf, RowsThen, TapOn
  <1>3. NoneForPull'
    <2>1. ASSUME worker'.pc = "insert", <<worker'.acct, worker'.row.dish>> \notin raced'
          PROVE  RowsThen(worker'.acct, worker'.row.dish) = {}
      <3>1. /\ worker.pc # "idle" /\ worker'.acct = worker.acct /\ worker'.row = worker.row
            /\ worker.acct \in Accounts /\ worker.row \in Downloaded
            /\ \/ worker.pc = "insert" /\ UNCHANGED worker
               \/ Cardinality(RowsOf(worker.acct, worker.row.dish)) = 0 /\ UNCHANGED local
        BY <2>1, PullInsertsNext
      <3>2. PICK a \in Accounts, d \in Dishes : a = worker.acct /\ d = worker.row.dish
        BY <3>1 DEF Downloaded
      <3>3. <<a, d>> \notin raced
        BY <1>0, <2>1, <3>1, <3>2
      <3>4. \A u \in Taps : ~ (tap[u].pc # "idle" /\ tap[u].acct = a /\ tap[u].dish = d)
        BY <3>1, <3>2, <3>3 DEF Alone, SyncingFor, TapOn, WorkerOn
      <3>5. \A r, q \in RowsOf(a, d) : r = q
        BY <3>3 DEF Single, OneRow
      <3>6. RowsOf(a, d) = {}
        BY <3>1, <3>2, <3>3, <3>5, NoneFound DEF Single, NoneForPull, WorkerOn
      <3>7. ~ PullInsert
        BY <1>0, <2>1, PullInserts
      <3>8. RowsThen(a, d) = {}
        BY <3>3, <3>4, <3>6, <3>7, RowsAfter
      <3> QED
        BY <3>1, <3>2, <3>8
    <2> QED
      BY <2>1 DEF NoneForPull, RowsOf, RowsThen, WorkerOn
  <1> QED
    BY <1>1, <1>2, <1>3 DEF Single
-----------------------------------------------------------------------------
(* What is marked was sent. *)

CalmThen(a, d) == <<a, d>> \notin raced' /\ a \notin mixed'
HoldsThen(a, p) ==
    \E r \in RowsThen(a, p.dish) : r.id = p.id /\ (CalmThen(a, p.dish) => r.value = p.value)

LEMMA CalmBefore ==
    ASSUME Typed, [Next]_vars, NEW a \in Accounts, NEW d \in Dishes, CalmThen(a, d)
    PROVE  Calm(a, d)
  BY Grows DEF Calm, CalmThen

\* A row stays, with its id.
LEMMA IdsStay ==
    ASSUME Typed, [Next]_vars, NEW a \in Accounts, NEW d \in Dishes, NEW r \in RowsOf(a, d)
    PROVE  \E q \in RowsThen(a, d) : q.id = r.id
  <1>0. TypeOK
    BY DEF Typed
  <1>1. ASSUME NEW g \in [local -> Rows], Rewritten(g)
        PROVE  \E q \in RowsThen(a, d) : q.id = r.id
    BY <1>0, <1>1, RewrittenRows DEF RowsThen, RowsOf
  <1>2. ASSUME NEW t \in Taps, TapInsert(t) PROVE \E q \in RowsThen(a, d) : q.id = r.id
    BY <1>0, <1>2, TapInserts DEF RowsThen, RowsOf
  <1>3. CASE PullInsert /\ ~ UNCHANGED local
    BY <1>0, <1>3, PullAdds DEF RowsThen, RowsOf
  <1> QED
    BY <1>0, <1>1, <1>2, <1>3, LocalMoves

\* The rows of an account and a dish keep their values while nobody writes to them.
Writing(t, a, d) == (TapUpdate(t) \/ TapInsert(t)) /\ tap[t].acct = a /\ tap[t].dish = d
Pulling(a, d) == (PullUpdate \/ PullInsert) /\ worker.acct = a /\ worker.row.dish = d

LEMMA ValuesStay ==
    ASSUME Typed, [Next]_vars, NEW a \in Accounts, NEW d \in Dishes,
           \A t \in Taps : ~ Writing(t, a, d), ~ Pulling(a, d)
    PROVE  /\ \A q \in RowsThen(a, d) : \E r \in RowsOf(a, d) : r.id = q.id /\ r.value = q.value
           /\ \A r \in RowsOf(a, d) : \E q \in RowsThen(a, d) : r.id = q.id /\ r.value = q.value
  <1>0. TypeOK
    BY DEF Typed
  <1> DEFINE VS ==
        /\ \A q \in RowsThen(a, d) : \E r \in RowsOf(a, d) : r.id = q.id /\ r.value = q.value
        /\ \A r \in RowsOf(a, d) : \E q \in RowsThen(a, d) : r.id = q.id /\ r.value = q.value
  <1> SUFFICES VS
    OBVIOUS
  <1>1. ASSUME NEW g \in [local -> Rows], Rewritten(g),
               \A r \in local : r.owner = a /\ r.dish = d => g[r].value = r.value
        PROVE  VS
    <2>1. \A q \in RowsThen(a, d) : \E r \in RowsOf(a, d) : q = g[r] /\ q.id = r.id
      BY <1>0, <1>1, RewrittenRows DEF RowsThen, RowsOf
    <2>2. \A r \in RowsOf(a, d) : g[r] \in RowsThen(a, d) /\ g[r].id = r.id /\ g[r].value = r.value
      BY <1>0, <1>1, RewrittenRows DEF RowsThen, RowsOf
    <2> QED
      BY <2>1, <2>2
  <1>2. ASSUME NEW q \in Rows, local' = local \cup {q}, ~ (q.owner = a /\ q.dish = d) PROVE VS
    <2>1. RowsThen(a, d) = RowsOf(a, d)
      BY <1>2 DEF RowsThen, RowsOf
    <2> QED
      BY <2>1
  <1>3. CASE UNCHANGED local
    BY <1>3 DEF RowsThen, RowsOf
  <1>4. ASSUME NEW t \in Taps, TapUpdate(t) PROVE VS
    <2>1. PICK g \in [local -> Rows] :
             /\ Rewritten(g)
             /\ \A r \in local : ~ (r.owner = tap[t].acct /\ r.dish = tap[t].dish) => g[r] = r
      BY <1>0, <1>4, TapUpdates
    <2>2. ~ (tap[t].acct = a /\ tap[t].dish = d)
      BY <1>4 DEF Writing
    <2>3. \A r \in local : r.owner = a /\ r.dish = d => g[r].value = r.value
      BY <2>1, <2>2
    <2> QED
      BY <1>1, <2>1, <2>3
  <1>5. ASSUME NEW t \in Taps, TapInsert(t) PROVE VS
    <2>1. PICK q \in Rows :
            local' = local \cup {q} /\ q.owner = tap[t].acct /\ q.dish = tap[t].dish
      BY <1>0, <1>5, TapInserts
    <2>2. ~ (tap[t].acct = a /\ tap[t].dish = d)
      BY <1>5 DEF Writing
    <2> QED
      BY <1>2, <2>1, <2>2
  <1>6. ASSUME NEW t \in Taps, TapMark(t) PROVE VS
    <2>1. PICK g \in [local -> Rows] : Rewritten(g) /\ \A r \in local : g[r].value = r.value
      BY <1>0, <1>6, TapMarks
    <2> QED
      BY <1>1, <2>1
  <1>7. CASE PullUpdate
    <2>1. PICK g \in [local -> Rows] :
             /\ Rewritten(g)
             /\ \A r \in local : ~ (r.owner = worker.acct /\ r.dish = worker.row.dish) => g[r] = r
      BY <1>0, <1>7, PullUpdates
    <2>2. ~ (worker.acct = a /\ worker.row.dish = d)
      BY <1>7 DEF Pulling
    <2>3. \A r \in local : r.owner = a /\ r.dish = d => g[r].value = r.value
      BY <2>1, <2>2
    <2> QED
      BY <1>1, <2>1, <2>3
  <1>8. CASE PullInsert /\ ~ UNCHANGED local
    <2>1. PICK q \in Rows :
            local' = local \cup {q} /\ q.owner = worker.acct /\ q.dish = worker.row.dish
      BY <1>0, <1>8, PullAdds
    <2>2. ~ (worker.acct = a /\ worker.row.dish = d)
      BY <1>8 DEF Pulling
    <2> QED
      BY <1>2, <2>1, <2>2
  <1>9. CASE UploadMark
    <2>1. PICK g \in [local -> Rows] : Rewritten(g) /\ \A r \in local : g[r].value = r.value
      BY <1>0, <1>9, UploadMarks
    <2> QED
      BY <1>1, <2>1
  <1> HIDE DEF VS
  <1> QED
    BY <1>3, <1>4, <1>5, <1>6, <1>7, <1>8, <1>9, LocalChanges

\* Unless raced, the rows of a tap's dish are written by that tap only,
LEMMA ForTapOnly ==
    ASSUME Typed, Alone, NEW t \in Taps, tap[t].pc # "idle",
           NEW a \in Accounts, NEW d \in Dishes, a = tap[t].acct, d = tap[t].dish,
           <<a, d>> \notin raced
    PROVE  ~ Pulling(a, d) /\ \A u \in Taps \ {t} : ~ Writing(u, a, d)
  <1>1. /\ ~ (worker.pc # "idle" /\ worker.acct = a)
        /\ \A u \in Taps \ {t} : ~ (tap[u].pc # "idle" /\ tap[u].acct = a /\ tap[u].dish = d)
    BY DEF Alone, SyncingFor, Tapping, TapOn, WorkerOn
  <1> QED
    BY <1>1 DEF Pulling, Writing, TapUpdate, TapInsert, TapOn, PullUpdate, PullInsert, WorkerOn

\* and those of the account being synced by no tap.
LEMMA ForWorkerOnly ==
    ASSUME Typed, Alone, worker.pc # "idle", NEW a \in Accounts, a = worker.acct,
           NEW d \in Dishes, <<a, d>> \notin raced
    PROVE  \A u \in Taps : ~ Writing(u, a, d)
  <1>1. \A u \in Taps : ~ (tap[u].pc # "idle" /\ tap[u].acct = a /\ tap[u].dish = d)
    BY DEF Alone, SyncingFor, TapOn, WorkerOn
  <1> QED
    BY <1>1 DEF Writing, TapUpdate, TapInsert, TapOn

LEMMA HoldsStays ==
    ASSUME Typed, Alone, [Next]_vars, worker.pc \in {"upload", "mark"}, NEW a \in Accounts,
           a = worker.acct, NEW p \in Pending, Holds(a, p)
    PROVE  HoldsThen(a, p)
  <1>1. p.dish \in Dishes
    BY DEF Pending
  <1>2. PICK r \in RowsOf(a, p.dish) : r.id = p.id /\ (Calm(a, p.dish) => r.value = p.value)
    BY DEF Holds
  <1>3. CASE CalmThen(a, p.dish)
    <2>1. Calm(a, p.dish)
      BY <1>1, <1>3, CalmBefore
    <2>2. \A u \in Taps : ~ Writing(u, a, p.dish)
      BY <1>1, <2>1, ForWorkerOnly DEF Calm
    <2>3. ~ Pulling(a, p.dish)
      BY DEF Pulling, PullUpdate, PullInsert, WorkerOn
    <2>4. PICK q \in RowsThen(a, p.dish) : r.id = q.id /\ r.value = q.value
      BY <1>1, <2>2, <2>3, ValuesStay
    <2> QED
      BY <1>2, <2>1, <2>4 DEF HoldsThen
  <1>4. CASE ~ CalmThen(a, p.dish)
    BY <1>1, <1>2, <1>4, IdsStay DEF HoldsThen
  <1> QED
    BY <1>3, <1>4
\* An upload that was answered is accepted for its account, unless that is mixed.
LEMMA Answers ==
    ASSUME Typed, NEW a \in Accounts, a \in {bearer} \cup mixed, a \notin mixed,
           NEW d \in Dishes, NEW v \in Values, Served(d, v)
    PROVE  v \in accepted'[a][d]
  BY Accepts DEF Served

\* What a tap that has sent, or is about to mark, was doing.
LEMMA TapAnsweredNext ==
    ASSUME Typed, [Next]_vars, NEW t \in Taps, tap'[t].pc \in Shown \cup {"mark"}
    PROVE  /\ tap[t].pc # "idle" /\ tap'[t].acct = tap[t].acct /\ tap'[t].dish = tap[t].dish
           /\ tap'[t].pc \in Shown => tap[t].pc \in Carries /\ tap'[t].value = tap[t].value
           /\ \/ tap'[t] = tap[t]
              \/ TapUpdate(t) \/ TapSelect(t) \/ TapInsert(t)
              \/ TapSend(t) /\ Served(tap[t].dish, tap[t].value)
              \/ /\ TapAnswered(t) /\ tap[t].pc = "answered" /\ tap'[t].pc = "mark"
                 /\ \E r \in RowsOf(tap[t].acct, tap[t].dish) :
                      RowsOf(tap[t].acct, tap[t].dish) = {r} /\ tap'[t].id = r.id
  <1>0. TypeOK
    BY DEF Typed
  <1>1. ~ \E d \in Dishes : TapBegins(t, d)
    BY <1>0, Reacts DEF Shown
  <1>2. ~ Finish(t)
    BY <1>0, Finishes DEF Shown
  <1>3. CASE tap'[t] = tap[t]
    BY <1>3 DEF Shown, Carries
  <1>4. CASE TapStep(t)
    <2>1. TapKeeps(t) /\ tap'[t].pc # "idle"
      BY <1>0, <1>4, TapStepKeeps DEF Shown
    <2>2. /\ tap[t].pc # "idle" /\ tap'[t].acct = tap[t].acct /\ tap'[t].dish = tap[t].dish
          /\ tap'[t].pc \in Shown => tap[t].pc \in Carries /\ tap'[t].value = tap[t].value
      BY <2>1 DEF TapKeeps, Shown, Carries
    <2>3. CASE TapSend(t)
      BY <1>2, <2>2, <2>3 DEF TapSend
    <2>4. CASE TapAnswered(t)
      <3>1. PICK r \in RowsOf(tap[t].acct, tap[t].dish) :
              /\ RowsOf(tap[t].acct, tap[t].dish) = {r}
              /\ tap' = [tap EXCEPT ![t] = [pc |-> "mark", acct |-> tap[t].acct,
                                            dish |-> tap[t].dish, id |-> r.id]]
        BY <1>2, <2>4 DEF TapAnswered
      <3>2. tap'[t] = [pc |-> "mark", acct |-> tap[t].acct, dish |-> tap[t].dish, id |-> r.id]
        BY <1>0, <3>1 DEF TypeOK
      <3>3. tap'[t].pc = "mark" /\ tap'[t].id = r.id
        BY <3>2
      <3> QED
        BY <2>2, <2>4, <3>1, <3>3 DEF TapAnswered, TapOn
    <2>5. ~ TapMark(t)
      BY <1>2 DEF TapMark
    <2> QED
      BY <1>4, <2>2, <2>3, <2>4, <2>5 DEF TapStep
  <1>5. ASSUME NEW u \in Taps \ {t}, TapStep(u) PROVE tap'[t] = tap[t]
    BY <1>0, <1>5, TapStepKeeps
  <1>6. ASSUME NEW u \in Taps \ {t}, NEW d \in Dishes, TapBegins(u, d) PROVE tap'[t] = tap[t]
    BY <1>0, <1>6, Reacts
  <1>7. ~ Kill
    BY IdleTyped DEF Kill, Shown
  <1>8. CASE UNCHANGED tap
    BY <1>3, <1>8
  <1> QED
    BY <1>1, <1>3, <1>4, <1>5, <1>6, <1>7, <1>8 DEF Next, vars, LateArrives, OtherDevice,
       React, ReactOverlong, WorkerStep, SyncBegin, PullGet, PullUpdate, PullSelect, PullInsert, PullCursor,
       UploadBegin, UploadSend, UploadMark, SignIn, SignsOut, SignOut, SignOutBuying, Verified, Merge

LEMMA TapsShownStep ==
    ASSUME Typed, Alone, TapsShown, [Next]_vars PROVE TapsShown'
  <1>0. TypeOK
    BY DEF Typed
  <1>1. ASSUME NEW t \in Taps, tap'[t].pc \in Shown, CalmThen(tap'[t].acct, tap'[t].dish),
               NEW q \in RowsThen(tap'[t].acct, tap'[t].dish)
        PROVE  q.value = tap'[t].value
    <2>1. /\ tap[t].pc # "idle" /\ tap'[t].acct = tap[t].acct /\ tap'[t].dish = tap[t].dish
          /\ tap[t].pc \in Carries /\ tap'[t].value = tap[t].value
          /\ \/ tap'[t] = tap[t]
             \/ TapUpdate(t) \/ TapSelect(t) \/ TapInsert(t) \/ TapSend(t)
      BY <1>1, TapAnsweredNext DEF Shown
    <2>2. PICK a \in Accounts, d \in Dishes : a = tap[t].acct /\ d = tap[t].dish
      BY <1>0, <2>1, TapShape DEF TapOn
    <2>3. Calm(a, d) /\ q \in RowsThen(a, d)
      BY <1>1, <2>1, <2>2, CalmBefore
    <2>4. ~ Pulling(a, d) /\ \A u \in Taps \ {t} : ~ Writing(u, a, d)
      BY <2>1, <2>2, <2>3, ForTapOnly DEF Calm
    <2>5. CASE TapUpdate(t)
      <3>1. PICK g \in [local -> Rows] :
             /\ Rewritten(g)
             /\ \A r \in local : r.owner = a /\ r.dish = d => g[r].value = tap[t].value
        BY <1>0, <2>2, <2>5, TapUpdates
      <3>2. q \in local' /\ q.owner = a /\ q.dish = d /\ Rewritten(g)
        BY <2>3, <3>1 DEF RowsThen
      <3>3. PICK r \in local : q = g[r] /\ q.owner = r.owner /\ q.dish = r.dish
        BY <1>0, <3>2, RewrittenRows
      <3> QED
        BY <2>1, <3>1, <3>2, <3>3
    <2>6. CASE TapInsert(t)
      <3>1. PICK p \in Rows : local' = local \cup {p} /\ p.value = tap[t].value
        BY <1>0, <2>6, TapInserts
      <3>2. tap[t].pc = "insert"
        BY <2>6 DEF TapInsert, TapOn
      <3>3. \A r \in RowsOf(a, d) : r.value = tap[t].value
        BY <2>2, <2>3, <3>2 DEF TapsShown, Shown
      <3> QED
        BY <2>1, <2>3, <3>1, <3>3 DEF RowsThen, RowsOf
    <2>7. CASE ~ TapUpdate(t) /\ ~ TapInsert(t)
      <3>1. tap[t].pc \in Shown
        BY <1>1, <2>1, <2>7 DEF TapSelect, TapSend, TapOn, Shown
      <3>2. \A u \in Taps : ~ Writing(u, a, d)
        BY <2>4, <2>7 DEF Writing
      <3>3. PICK r \in RowsOf(a, d) : r.value = q.value
        BY <2>3, <2>4, <3>2, ValuesStay
      <3> QED
        BY <2>1, <2>2, <2>3, <3>1, <3>3 DEF TapsShown
    <2> QED
      BY <2>5, <2>6, <2>7
  <1> QED
    BY <1>1 DEF TapsShown, RowsOf, RowsThen, Calm, CalmThen

LEMMA TapsAnsweredStep ==
    ASSUME Typed, Elsewhere, TapsAnswered, [Next]_vars PROVE TapsAnswered'
  <1>0. TypeOK
    BY DEF Typed
  <1>1. ASSUME NEW t \in Taps, tap'[t].pc = "answered", tap'[t].acct \notin mixed'
        PROVE  tap'[t].value \in accepted'[tap'[t].acct][tap'[t].dish]
    <2>1. /\ tap[t].pc # "idle" /\ tap'[t].acct = tap[t].acct /\ tap'[t].dish = tap[t].dish
          /\ tap[t].pc \in Carries /\ tap'[t].value = tap[t].value
          /\ \/ tap'[t] = tap[t]
             \/ TapUpdate(t) \/ TapSelect(t) \/ TapInsert(t)
             \/ TapSend(t) /\ Served(tap[t].dish, tap[t].value)
      BY <1>1, TapAnsweredNext DEF Shown
    <2>2. PICK a \in Accounts, d \in Dishes, v \in Values :
            a = tap[t].acct /\ d = tap[t].dish /\ v = tap[t].value
      BY <1>0, <2>1, TapShape DEF TapOn
    <2>3. a \in {bearer} \cup mixed /\ a \notin mixed
      <3>1. a \in {signedIn} \cup mixed /\ a \notin mixed
        BY <1>1, <2>1, <2>2, Grows DEF Elsewhere, TapOn
      <3> QED
        BY <3>1, Bears
    <2>4. CASE tap'[t] = tap[t]
      <3>1. v \in accepted[a][d]
        BY <1>1, <2>2, <2>3, <2>4 DEF TapsAnswered, TapOn
      <3> QED
        BY <2>1, <2>2, <3>1, Grows
    <2>5. CASE Served(tap[t].dish, tap[t].value)
      <3>1. v \in accepted'[a][d]
        BY <2>2, <2>3, <2>5, Answers
      <3> QED
        BY <2>1, <2>2, <3>1
    <2>6. ~ TapUpdate(t) /\ ~ TapSelect(t) /\ ~ TapInsert(t)
      <3>1. ~ TapUpdate(t) /\ ~ TapInsert(t)
        BY <1>0, <1>1, Tos DEF TapUpdate, TapInsert, TapOn, Carries
      <3>2. ~ TapSelect(t)
        BY <1>0, <1>1, Tos, Finishes DEF TapSelect, TapOn, Carries
      <3> QED
        BY <3>1, <3>2
    <2> QED
      BY <2>1, <2>4, <2>5, <2>6
  <1> QED
    BY <1>1 DEF TapsAnswered, TapOn

LEMMA TapsMarkStep ==
    ASSUME Typed, Alone, TapsShown, TapsAnswered, TapsMark, [Next]_vars PROVE TapsMark'
  <1>0. TypeOK
    BY DEF Typed
  <1>1. ASSUME NEW t \in Taps, tap'[t].pc = "mark"
        PROVE  \E q \in RowsThen(tap'[t].acct, tap'[t].dish) :
                 /\ q.id = tap'[t].id
                 /\ CalmThen(tap'[t].acct, tap'[t].dish) =>
                      q.value \in accepted'[tap'[t].acct][tap'[t].dish]
    <2>1. /\ tap[t].pc # "idle" /\ tap'[t].acct = tap[t].acct /\ tap'[t].dish = tap[t].dish
          /\ \/ tap'[t] = tap[t]
             \/ TapUpdate(t) \/ TapSelect(t) \/ TapInsert(t) \/ TapSend(t)
             \/ /\ TapAnswered(t) /\ tap[t].pc = "answered"
                /\ \E r \in RowsOf(tap[t].acct, tap[t].dish) :
                     RowsOf(tap[t].acct, tap[t].dish) = {r} /\ tap'[t].id = r.id
      BY <1>1, TapAnsweredNext
    <2>2. PICK a \in Accounts, d \in Dishes : a = tap[t].acct /\ d = tap[t].dish
      BY <1>0, <2>1, TapShape DEF TapOn
    <2>3. \A e \in accepted[a][d] : e \in accepted'[a][d]
      BY Grows
    <2>4. CASE tap'[t] = tap[t]
      <3>1. PICK r \in RowsOf(a, d) :
              r.id = tap[t].id /\ (Calm(a, d) => r.value \in accepted[a][d])
        BY <1>1, <2>2, <2>4 DEF TapsMark, TapOn
      <3>2. CASE CalmThen(a, d)
        <4>1. Calm(a, d)
          BY <3>2, CalmBefore
        <4>2. ~ Pulling(a, d) /\ \A u \in Taps \ {t} : ~ Writing(u, a, d)
          BY <2>1, <2>2, <4>1, ForTapOnly DEF Calm
        <4>3. ~ Writing(t, a, d)
          BY <1>1, <2>4 DEF Writing, TapUpdate, TapInsert, TapOn
        <4>4. PICK q \in RowsThen(a, d) : r.id = q.id /\ r.value = q.value
          BY <4>2, <4>3, ValuesStay
        <4> QED
          BY <2>2, <2>3, <2>4, <3>1, <4>1, <4>4
      <3>3. CASE ~ CalmThen(a, d)
        BY <2>2, <2>4, <3>1, <3>3, IdsStay
      <3> QED
        BY <3>2, <3>3
    <2>5. CASE /\ TapAnswered(t) /\ tap[t].pc = "answered"
               /\ \E r \in RowsOf(tap[t].acct, tap[t].dish) :
                    RowsOf(tap[t].acct, tap[t].dish) = {r} /\ tap'[t].id = r.id
      <3>1. PICK r \in RowsOf(a, d) : tap'[t].id = r.id
        BY <2>2, <2>5
      <3>2. RowsThen(a, d) = RowsOf(a, d)
        BY <2>5 DEF TapAnswered, RowsThen, RowsOf
      <3>3. CalmThen(a, d) => r.value \in accepted'[a][d]
        <4> SUFFICES ASSUME CalmThen(a, d) PROVE r.value \in accepted'[a][d]
          OBVIOUS
        <4>1. Calm(a, d)
          BY CalmBefore
        <4>2. r.value = tap[t].value
          BY <2>2, <2>5, <4>1 DEF TapsShown, Shown
        <4>3. tap[t].value \in accepted[a][d]
          BY <2>2, <2>5, <4>1 DEF TapsAnswered, TapOn, Calm
        <4> QED
          BY <2>3, <4>2, <4>3
      <3> QED
        BY <2>1, <2>2, <3>1, <3>2, <3>3
    <2>6. ~ TapUpdate(t) /\ ~ TapSelect(t) /\ ~ TapInsert(t) /\ ~ TapSend(t)
      <3>1. ~ TapUpdate(t) /\ ~ TapInsert(t)
        BY <1>0, <1>1, Tos DEF TapUpdate, TapInsert, TapOn, Carries
      <3>2. ~ TapSelect(t)
        BY <1>0, <1>1, Tos, Finishes DEF TapSelect, TapOn, Carries
      <3>3. ~ TapSend(t)
        BY <1>0, <1>1, Tos, Finishes DEF TapSend, TapOn, Carries
      <3> QED
        BY <3>1, <3>2, <3>3
    <2> QED
      BY <2>1, <2>4, <2>5, <2>6
  <1> QED
    BY <1>1 DEF TapsMark, TapOn, RowsOf, RowsThen, Calm, CalmThen
LEMMA PulledStep ==
    ASSUME Typed, Elsewhere, Pulled, [Next]_vars PROVE Pulled'
  <1>0. TypeOK
    BY DEF Typed
  <1> DEFINE P(r, a) == /\ r.value \in accepted'[r.from][r.dish]
                        /\ r.from = a \/ a \in mixed'
  <1> SUFFICES ASSUME worker'.pc \in {"update", "select", "insert"},
                      NEW r \in worker'.rest \cup {worker'.row}
               PROVE  P(r, worker'.acct)
    BY DEF Pulled
  <1>1. CASE /\ worker.pc \in {"update", "select", "insert"} /\ worker'.acct = worker.acct
             /\ r \in worker.rest \cup {worker.row}
    <2>1. r.value \in accepted[r.from][r.dish] /\ (r.from = worker.acct \/ worker.acct \in mixed)
      BY <1>1 DEF Pulled
    <2>2. r.from \in Accounts /\ r.dish \in Dishes
      BY <1>0, <1>1, WorkerShape DEF Downloaded
    <2> QED
      BY <1>1, <2>1, <2>2, Grows
  <1>2. CASE UNCHANGED worker
    BY <1>1, <1>2
  <1>3. CASE PullGet
    <2>1. /\ worker'.acct = worker.acct /\ ~ WorkerOn("idle")
          /\ r.from = bearer /\ r.value \in accepted[r.from][r.dish]
      BY <1>3, Gets
    <2>2. UNCHANGED <<accepted, mixed>>
      BY <1>3 DEF PullGet
    <2>3. worker.acct \in {bearer} \cup mixed
      BY <2>1, Bears DEF Elsewhere
    <2> QED
      BY <2>1, <2>2, <2>3
  <1>4. CASE PullUpdate
    <2>1. worker.pc = "update" /\ PullTo("select")
      BY <1>4 DEF PullUpdate, WorkerOn
    <2>2. worker'.acct = worker.acct /\ worker'.row = worker.row /\ worker'.rest = worker.rest
      BY <1>0, <2>1, PullsTo
    <2> QED
      BY <1>1, <2>1, <2>2
  <1>5. CASE PullSelect
    <2>1. /\ worker.pc = "select" /\ worker'.acct = worker.acct
          /\ \/ worker'.row = worker.row /\ worker'.rest = worker.rest
             \/ worker'.row \in worker.rest /\ worker'.rest \subseteq worker.rest
      BY <1>0, <1>5, Selects
    <2> QED
      BY <1>1, <2>1
  <1>6. CASE PullInsert
    <2>1. /\ worker.pc = "insert" /\ worker'.acct = worker.acct
          /\ worker'.row \in worker.rest /\ worker'.rest \subseteq worker.rest
      BY <1>0, <1>6, PullInserts
    <2> QED
      BY <1>1, <2>1
  <1>7. ~ SyncBegin
    BY <1>0, Begins
  <1>8. ~ PullCursor
    BY <1>0, GoesToPending DEF PullCursor, WorkerOn
  <1>9. ~ UploadBegin /\ ~ UploadSend /\ ~ UploadMark
    BY <1>0, UploadBegins, UploadSends, UploadMarksOn
  <1> QED
    BY <1>2, <1>3, <1>4, <1>5, <1>6, <1>7, <1>8, <1>9, WorkerChanges DEF WorkerStep

LEMMA UploadsStep ==
    ASSUME Typed, Elsewhere, Alone, Uploads, [Next]_vars PROVE Uploads'
  <1>0. TypeOK
    BY DEF Typed
  <1> DEFINE US ==
        /\ worker'.pc \in {"upload", "mark"} => \A p \in worker'.rest : HoldsThen(worker'.acct, p)
        /\ worker'.pc = "mark" =>
             /\ HoldsThen(worker'.acct, worker'.row)
             /\ worker'.acct \notin mixed' =>
                  worker'.row.value \in accepted'[worker'.acct][worker'.row.dish]
  <1> SUFFICES US
    BY DEF Uploads, Holds, HoldsThen, RowsOf, RowsThen, Calm, CalmThen, WorkerOn
  <1>1. ASSUME worker.pc \in {"upload", "mark"}
        PROVE  /\ \A p \in worker.rest : HoldsThen(worker.acct, p)
               /\ worker.pc = "mark" => HoldsThen(worker.acct, worker.row)
    <2>1. PICK a \in Accounts : a = worker.acct
      BY <1>0, <1>1, WorkerShape DEF WorkerOn
    <2>2. /\ worker.rest \in SUBSET Pending
          /\ worker.pc = "mark" => worker.row \in Pending
      BY <1>0, <1>1, WorkerShape DEF WorkerOn
    <2>3. /\ \A p \in worker.rest : Holds(a, p)
          /\ worker.pc = "mark" => Holds(a, worker.row)
      BY <1>1, <2>1 DEF Uploads, WorkerOn
    <2>4. /\ \A p \in worker.rest : HoldsThen(a, p)
          /\ worker.pc = "mark" => HoldsThen(a, worker.row)
      BY <1>1, <2>1, <2>2, <2>3, HoldsStays
    <2> QED
      BY <2>1, <2>4
  <1>2. CASE UNCHANGED worker
    <2>1. worker.pc = "mark" /\ worker.acct \notin mixed' =>
            worker.row.value \in accepted'[worker.acct][worker.row.dish]
      <3> SUFFICES ASSUME worker.pc = "mark", worker.acct \notin mixed'
                   PROVE  worker.row.value \in accepted'[worker.acct][worker.row.dish]
        OBVIOUS
      <3>1. worker.acct \in Accounts /\ worker.row.dish \in Dishes
        BY <1>0, WorkerShape DEF WorkerOn, Pending
      <3>2. worker.row.value \in accepted[worker.acct][worker.row.dish]
        BY Grows DEF Uploads, WorkerOn
      <3> QED
        BY <3>1, <3>2, Grows
    <2> QED
      BY <1>1, <1>2, <2>1
  <1>3. CASE UploadBegin
    <2>1. /\ worker.acct \in Accounts
          /\ \/ worker'.pc = "idle"
             \/ /\ worker'.pc = "upload" /\ worker'.acct = worker.acct
                /\ \A p \in worker'.rest : \E r \in local :
                     /\ r.owner = worker.acct
                     /\ p.id = r.id /\ p.dish = r.dish /\ p.value = r.value
      BY <1>0, <1>3, UploadBegins
    <2>2. local' = local
      BY <1>3 DEF UploadBegin
    <2>3. ASSUME NEW p, NEW r \in local, r.owner = worker.acct,
                 p.id = r.id, p.dish = r.dish, p.value = r.value
          PROVE  HoldsThen(worker.acct, p)
      BY <2>2, <2>3 DEF HoldsThen, RowsThen
    <2> QED
      BY <2>1, <2>3
  <1>4. CASE UploadSend
    <2>1. PICK p \in worker.rest :
             /\ p \in Pending /\ worker.pc = "upload" /\ worker.acct \in Accounts
             /\ \/ /\ Served(p.dish, p.value)
                   /\ worker'.pc = "mark" /\ worker'.acct = worker.acct /\ worker'.row = p
                   /\ worker'.rest \subseteq worker.rest
                \/ worker'.pc = "idle"
                \/ /\ worker'.pc = "upload" /\ worker'.acct = worker.acct
                   /\ worker'.rest \subseteq worker.rest
      BY <1>0, <1>4, UploadSends
    <2>2. /\ p.dish \in Dishes /\ p.value \in Values
          /\ worker.acct \in {bearer} \cup mixed
      BY <2>1, Bears DEF Pending, Elsewhere, WorkerOn
    <2>3. ASSUME Served(p.dish, p.value), worker.acct \notin mixed'
          PROVE  p.value \in accepted'[worker.acct][p.dish]
      BY <2>1, <2>2, <2>3, Answers, Grows
    <2> QED
      BY <1>1, <2>1, <2>3
  <1>5. CASE UploadMark
    <2>1. /\ worker.pc = "mark"
          /\ \/ worker'.pc = "idle"
             \/ worker'.pc = "upload" /\ worker'.acct = worker.acct /\ worker'.rest = worker.rest
      BY <1>0, <1>5, UploadMarksOn
    <2> QED
      BY <1>1, <2>1
  <1>6. CASE SyncBegin \/ PullGet \/ PullUpdate \/ PullSelect \/ PullInsert \/ PullCursor
    <2>1. worker'.pc \notin {"upload", "mark"}
      <3>1. ~ SyncBegin \/ worker'.pc \notin {"upload", "mark"}
        BY <1>0, Begins
      <3>2. ~ PullGet \/ worker'.pc \notin {"upload", "mark"}
        BY Gets
      <3>3. ~ PullUpdate \/ worker'.pc \notin {"upload", "mark"}
        BY <1>0, PullsTo DEF PullUpdate, WorkerOn
      <3>4. ~ PullSelect \/ worker'.pc \notin {"upload", "mark"}
        BY <1>0, Selects
      <3>5. ~ PullInsert \/ worker'.pc \notin {"upload", "mark"}
        BY <1>0, PullInserts
      <3>6. ~ PullCursor \/ worker'.pc \notin {"upload", "mark"}
        BY <1>0, GoesToPending DEF PullCursor, WorkerOn
      <3> QED
        BY <1>6, <3>1, <3>2, <3>3, <3>4, <3>5, <3>6
    <2> QED
      BY <2>1
  <1>7. CASE worker'.pc = "idle"
    BY <1>7
  <1> HIDE DEF US
  <1> QED
    BY <1>2, <1>3, <1>4, <1>5, <1>6, <1>7, WorkerChanges DEF WorkerStep

\* What a step marks, or stores as synced, the server had.
LEMMA SyncedStep ==
    ASSUME Typed, Keys, Sent, [Next]_vars PROVE SyncedWasSent'
  <1>0. TypeOK
    BY DEF Typed
  <1> SUFFICES ASSUME NEW q \in local', q.synced = TRUE, CalmThen(q.owner, q.dish)
               PROVE  q.value \in accepted'[q.owner][q.dish]
    BY DEF SyncedWasSent, CalmThen
  <1>1. PICK a \in Accounts, d \in Dishes : a = q.owner /\ d = q.dish
    BY TypedStep DEF Typed, TypeOK, Rows
  <1>2. Calm(a, d) /\ \A v \in accepted[a][d] : v \in accepted'[a][d]
    BY <1>1, CalmBefore, Grows
  <1>3. ASSUME NEW r \in local, r.owner = a, r.dish = d, r.synced = TRUE
        PROVE  r.value \in accepted'[a][d]
    BY <1>2, <1>3 DEF Sent, SyncedWasSent, Calm
  <1>4. CASE UNCHANGED local
    BY <1>1, <1>3, <1>4
  <1>5. ASSUME NEW t \in Taps, TapUpdate(t) PROVE q.value \in accepted'[a][d]
    <2>1. PICK g \in [local -> Rows] :
             /\ Rewritten(g)
             /\ \A r \in local : r.owner = tap[t].acct /\ r.dish = tap[t].dish =>
                  g[r].synced = FALSE
             /\ \A r \in local : ~ (r.owner = tap[t].acct /\ r.dish = tap[t].dish) => g[r] = r
      BY <1>0, <1>5, TapUpdates
    <2>2. PICK r \in local : q = g[r]
      BY <2>1 DEF Rewritten
    <2>3. q = r
      BY <2>1, <2>2
    <2> QED
      BY <1>1, <1>3, <2>3
  <1>6. ASSUME NEW t \in Taps, TapInsert(t) PROVE q.value \in accepted'[a][d]
    <2>1. PICK p \in Rows : local' = local \cup {p} /\ p.synced = FALSE
      BY <1>0, <1>6, TapInserts
    <2> QED
      BY <1>1, <1>3, <2>1
  <1>7. ASSUME NEW t \in Taps, TapMark(t) PROVE q.value \in accepted'[a][d]
    <2>1. PICK g \in [local -> Rows] :
             /\ Rewritten(g)
             /\ \A r \in local : g[r].value = r.value
             /\ \A r \in local : ~ (r.id = tap[t].id /\ r.dish = tap[t].dish) => g[r] = r
      BY <1>0, <1>7, TapMarks
    <2>2. Rewritten(g)
      BY <2>1
    <2>3. PICK r \in local : q = g[r] /\ q.id = r.id /\ q.owner = r.owner /\ q.dish = r.dish
      BY <1>0, <2>2, RewrittenRows
    <2>4. CASE r.id = tap[t].id /\ r.dish = tap[t].dish
      <3>1. PICK p \in RowsOf(tap[t].acct, tap[t].dish) :
            /\ p.id = tap[t].id
            /\ Calm(tap[t].acct, tap[t].dish) => p.value \in accepted[tap[t].acct][tap[t].dish]
        BY <1>7 DEF TapMark, Sent, TapsMark
      <3>2. p \in local /\ p.owner = tap[t].acct /\ p.dish = tap[t].dish
        BY <3>1 DEF RowsOf
      <3>3. p = r
        BY <2>4, <3>1, <3>2 DEF Keys, RowKeys
      <3>4. r.value \in accepted[a][d]
        BY <1>1, <1>2, <2>3, <3>1, <3>2, <3>3
      <3> QED
        BY <1>2, <2>1, <2>3, <3>4
    <2>5. CASE ~ (r.id = tap[t].id /\ r.dish = tap[t].dish)
      BY <1>1, <1>3, <2>1, <2>3, <2>5
    <2> QED
      BY <2>4, <2>5
  <1>8. ASSUME worker.pc \in {"update", "insert"}, a = worker.acct, d = worker.row.dish
        PROVE  worker.row.value \in accepted'[a][d]
    <2>1. /\ worker.row.value \in accepted[worker.row.from][worker.row.dish]
          /\ worker.row.from = worker.acct \/ worker.acct \in mixed
      BY <1>8 DEF Sent, Pulled
    <2> QED
      BY <1>2, <1>8, <2>1 DEF Calm
  <1>9. CASE PullUpdate
    <2>1. PICK g \in [local -> Rows] :
             /\ Rewritten(g)
             /\ \A r \in local : r.owner = worker.acct /\ r.dish = worker.row.dish =>
                  g[r].value = worker.row.value
             /\ \A r \in local : ~ (r.owner = worker.acct /\ r.dish = worker.row.dish) => g[r] = r
      BY <1>0, <1>9, PullUpdates
    <2>2. Rewritten(g) /\ worker.pc = "update"
      BY <1>9, <2>1 DEF PullUpdate, WorkerOn
    <2>3. PICK r \in local : q = g[r] /\ q.owner = r.owner /\ q.dish = r.dish
      BY <1>0, <2>2, RewrittenRows
    <2>4. CASE r.owner = worker.acct /\ r.dish = worker.row.dish
      BY <1>1, <1>8, <2>1, <2>2, <2>3, <2>4
    <2>5. CASE ~ (r.owner = worker.acct /\ r.dish = worker.row.dish)
      BY <1>1, <1>3, <2>1, <2>3, <2>5
    <2> QED
      BY <1>1, <2>4, <2>5
  <1>10. CASE PullInsert /\ ~ UNCHANGED local
    <2>1. /\ worker.pc = "insert"
          /\ \E p \in Rows :
               /\ local' = local \cup {p} /\ p.owner = worker.acct
               /\ p.dish = worker.row.dish /\ p.value = worker.row.value
      BY <1>0, <1>10, PullAdds
    <2> QED
      BY <1>1, <1>3, <1>8, <2>1
  <1>11. CASE UploadMark
    <2>1. worker.pc = "mark"
      BY <1>11 DEF UploadMark, WorkerOn
    <2>2. PICK g \in [local -> Rows] :
             /\ Rewritten(g)
             /\ \A r \in local : g[r].value = r.value
             /\ \A r \in local : ~ (r.id = worker.row.id /\ r.dish = worker.row.dish) => g[r] = r
      BY <1>0, <1>11, UploadMarks
    <2>3. Rewritten(g)
      BY <2>2
    <2>4. PICK r \in local : q = g[r] /\ q.id = r.id /\ q.owner = r.owner /\ q.dish = r.dish
      BY <1>0, <2>3, RewrittenRows
    <2>5. CASE r.id = worker.row.id /\ r.dish = worker.row.dish
      <3>1. /\ Holds(worker.acct, worker.row)
            /\ worker.acct \notin mixed =>
                 worker.row.value \in accepted[worker.acct][worker.row.dish]
        BY <2>1 DEF Sent, Uploads, WorkerOn
      <3>2. PICK p \in RowsOf(worker.acct, worker.row.dish) :
              p.id = worker.row.id /\ (Calm(worker.acct, worker.row.dish) => p.value = worker.row.value)
        BY <3>1 DEF Holds
      <3>3. p \in local /\ p.owner = worker.acct /\ p.dish = worker.row.dish
        BY <3>2 DEF RowsOf
      <3>4. p = r
        BY <2>5, <3>2, <3>3 DEF Keys, RowKeys
      <3>5. a = worker.acct /\ d = worker.row.dish
        BY <1>1, <2>4, <3>3, <3>4
      <3>6. r.value \in accepted[a][d]
        BY <1>2, <3>1, <3>2, <3>4, <3>5 DEF Calm
      <3> QED
        BY <1>1, <1>2, <2>2, <2>4, <3>6
    <2>6. CASE ~ (r.id = worker.row.id /\ r.dish = worker.row.dish)
      BY <1>1, <1>3, <2>2, <2>4, <2>6
    <2> QED
      BY <1>1, <2>5, <2>6
  <1> QED
    BY <1>1, <1>4, <1>5, <1>6, <1>7, <1>9, <1>10, <1>11, LocalChanges

LEMMA SentStep ==
    ASSUME Typed, Elsewhere, Alone, Keys, Sent, [Next]_vars PROVE Sent'
  BY SyncedStep, TapsShownStep, TapsAnsweredStep, TapsMarkStep, PulledStep, UploadsStep DEF Sent

-----------------------------------------------------------------------------
(* Theorems *)

LEMMA Starts == ASSUME Init PROVE IInv
  <1>1. \A t \in Taps : tap[t] = Idle /\ tap[t].pc = "idle"
    BY IdleTyped DEF Init
  <1>2. worker = Idle /\ worker.pc = "idle"
    BY IdleTyped DEF Init
  <1>3. TypeOK
    <2>1. writes \in 0 .. MaxWrites /\ disturbances \in 0 .. MaxDisturbances
      BY ConstantsAssumption DEF Init
    <2>2. server \in [Accounts -> [Dishes -> [value : 0 .. MaxWrites, at : Nat]]]
      BY ConstantsAssumption DEF Init
    <2> QED
      BY <2>1, <2>2, IdleTyped DEF Init, TypeOK
  <1>4. \A a \in Accounts, d \in Dishes : server[a][d].value = 0 /\ server[a][d].at = 0
    BY DEF Init
  <1>5. Bounded /\ Stored
    BY <1>4 DEF Bounded, Stored
  <1>6. Elsewhere /\ Alone
    <2>1. signedIn = bearer
      BY DEF Init
    <2> QED
      BY <1>1, <1>2, <2>1 DEF Elsewhere, Alone, TapOn, WorkerOn
  <1>7. Given
    BY <1>1, <1>2, <1>4 DEF Given, ServerGiven, LateGiven, TapsGiven, RowsGiven, UploadsGiven,
       Carries, Init
  <1>8. Keys
    BY <1>1 DEF Keys, RowKeys, IdsIssued, FreshIds, Inserts, Init
  <1>9. Single
    BY <1>1, <1>2 DEF Single, OneRow, NoneForTap, NoneForPull, RowsOf, TapOn, WorkerOn, Init
  <1>10. Sent
    BY <1>1, <1>2 DEF Sent, SyncedWasSent, TapsShown, TapsAnswered, TapsMark, Pulled, Uploads,
       Shown, TapOn, WorkerOn, Init
  <1> QED
    BY <1>3, <1>5, <1>6, <1>7, <1>8, <1>9, <1>10 DEF IInv, Typed

\* The inductive invariant, for any number of accounts, dishes and taps in progress.
THEOREM Invariant == Spec => []IInv
  <1>1. Init => IInv
    BY Starts
  <1>2. IInv /\ [Next]_vars => IInv'
    <2> SUFFICES ASSUME IInv, [Next]_vars PROVE IInv'
      OBVIOUS
    <2>1. Typed /\ Elsewhere /\ Alone /\ Given /\ Keys /\ Single /\ Sent
      BY DEF IInv
    <2>2. Typed' /\ Elsewhere' /\ Alone'
      BY <2>1, TypedStep, ElsewhereStep, AloneStep
    <2>3. Given' /\ Keys' /\ Single' /\ Sent'
      BY <2>1, GivenStep, KeysStep, SingleStep, SentStep
    <2> QED
      BY <2>2, <2>3 DEF IInv
  <1> QED
    BY <1>1, <1>2, PTL DEF Spec

\* Every variable keeps to the values the code can give it.
THEOREM TypeCorrect == Spec => []TypeOK
  <1>1. IInv => TypeOK
    BY DEF IInv, Typed
  <1> QED
    BY <1>1, Invariant, PTL

\* The device keeps one row per account and dish, whatever the taps and the sync worker
\* interleave, unless two of them overlapped on the dish: getSingleOrNull never throws.
THEOREM SingleRow == Spec => []OneRowPerDish
  <1>1. IInv => OneRowPerDish
    <2> SUFFICES ASSUME IInv, NEW a \in Accounts, NEW d \in Dishes,
                        Cardinality(RowsOf(a, d)) > 1, <<a, d>> \notin raced
                 PROVE  FALSE
      BY DEF OneRowPerDish
    <2>1. \A r, q \in RowsOf(a, d) : r = q
      BY DEF IInv, Single, OneRow
    <2>2. CASE RowsOf(a, d) = {}
      BY <2>2, FS_EmptySet
    <2>3. ASSUME NEW r \in RowsOf(a, d) PROVE FALSE
      <3>1. RowsOf(a, d) = {r}
        BY <2>1
      <3>2. Cardinality(RowsOf(a, d)) = 1
        BY <3>1, FS_Singleton
      <3> QED
        BY <3>2
    <2> QED
      BY <2>2, <2>3
  <1> QED
    BY <1>1, Invariant, PTL

\* A row counts as synced only if the server had its value for that account: a reaction
\* whose request failed, timed out or was never sent stays pending, however the app is
\* killed in between.  A change made during its sync, or a change of user, is excepted.
THEOREM SyncedRowsWereSent == Spec => []SyncedWasSent
  <1>1. IInv => SyncedWasSent
    BY DEF IInv, Sent
  <1> QED
    BY <1>1, Invariant, PTL

\* A reaction is never stored under an account whose user did not give it, a late request
\* included, unless that user signed out while a request of theirs was being prepared.
THEOREM Attribution == Spec => []NoMisattribution
  <1>1. IInv => NoMisattribution
    BY DEF IInv, Given, ServerGiven, Attributed, NoMisattribution
  <1> QED
    BY <1>1, Invariant, PTL
=============================================================================
