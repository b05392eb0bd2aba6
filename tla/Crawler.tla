------------------------------ MODULE Crawler ------------------------------
(***************************************************************************)
(* The crawls of services/crawler.rs: the monthly scheduler of main.rs and  *)
(* the admin's triggers (routes/admin_crawler.rs), which must not overlap   *)
(* and which tell each other so through the rows of crawl_runs alone.       *)
(*                                                                         *)
(* A row that is 'running' belongs to the crawl that scans, or to none: a   *)
(* crawl that was killed, or could not complete its row, has left it.       *)
(*                                                                         *)
(* Thirty days are Period ticks of a clock that ages what the tables hold.  *)
(***************************************************************************)
EXTENDS Integers, FiniteSets, Sequences

CONSTANTS
    Cities,         \* the enabled cities, in the order of their names
    Triggers,       \* crawls spawned for an admin that can be in progress at once
    Scheduler,
    Period,         \* the ticks of thirty days
    MaxFailures     \* bound: restarts of the server and database errors

ASSUME CrawlAssumption ==
    /\ Cities \in Seq(STRING) /\ Cities # <<>>
    /\ Scheduler \notin Triggers
    /\ Period \in Nat \ {0} /\ MaxFailures \in Nat

Crawls == Triggers \cup {Scheduler}
City == {Cities[i] : i \in DOMAIN Cities}

VARIABLES
    crawl,          \* what each crawl is doing
    abandoned,      \* a row of crawl_runs is running and belongs to no crawl
    newest,         \* the age of MAX(completed_at) of all cities, Period when it is overdue
    age,            \* the age of each city's last_crawled_at
    failures,
    \* History variables, never read by the actions.
    raced,          \* two crawls have found no running row before either inserted one
    stuck           \* a scan hung or was cut off, or a row could not be completed

ages == <<newest, age>>
crawlVars == <<crawl, abandoned, ages, failures, raced, stuck>>

\* pc names the next statement: "check" has_running_crawl, "insert" the row, "scan" the
\* grid and the row's completion, "hung" a search that never returns; rest is the cities
\* still to do, the first one now.
Idle == [pc |-> "idle"]
Doing == {Idle} \cup [pc : {"check", "insert", "scan", "hung"}, rest : Seq(City) \ {<<>>}]

CrawlTypeOK ==
    /\ crawl \in [Crawls -> Doing]
    /\ abandoned \in BOOLEAN
    /\ newest \in 0 .. Period
    /\ age \in [City -> 0 .. Period]
    /\ failures \in 0 .. MaxFailures
    /\ raced \in BOOLEAN /\ stuck \in BOOLEAN

CrawlInit ==
    /\ crawl = [c \in Crawls |-> Idle]
    /\ abandoned = FALSE
    /\ newest = Period
    /\ age = [city \in City |-> Period]
    /\ failures = 0
    /\ raced = FALSE /\ stuck = FALSE

At(c, pc) == crawl[c].pc = pc
Scanning == {c \in Crawls : At(c, "scan") \/ At(c, "hung")}
HasRunningCrawl == abandoned \/ Scanning # {}

Fail == failures < MaxFailures /\ failures' = failures + 1

Start(c, cities) == crawl' = [crawl EXCEPT ![c] = [pc |-> "check", rest |-> cities]]
Become(c, pc) == crawl' = [crawl EXCEPT ![c].pc = pc]

\* run_all_cities goes on with the next city, whatever came of this one.
NextCity(c) ==
    crawl' = [crawl EXCEPT ![c] = IF Len(@.rest) > 1 THEN [pc |-> "check", rest |-> Tail(@.rest)]
                                  ELSE Idle]

-----------------------------------------------------------------------------
\* The scheduler's loop: a month has passed since the newest crawl completed, of
\* whichever city and whoever started it.
Wake ==
    /\ At(Scheduler, "idle")
    /\ newest = Period
    /\ Start(Scheduler, Cities)
    /\ UNCHANGED <<abandoned, ages, failures, raced, stuck>>

\* It takes an error of its query for "no crawl yet".
WakeOnError ==
    /\ At(Scheduler, "idle")
    /\ Fail
    /\ Start(Scheduler, Cities)
    /\ UNCHANGED <<abandoned, ages, raced, stuck>>

\* trigger_all, trigger_city: the request checks, and spawns a crawl that checks again.
Trigger(c, cities) ==
    /\ c \in Triggers /\ At(c, "idle")
    /\ ~ HasRunningCrawl
    /\ Start(c, cities)
    /\ UNCHANGED <<abandoned, ages, failures, raced, stuck>>

\* Mutant: the spawned crawl trusts the check of the request.
Check_Trusting(c) ==
    /\ At(c, "check")
    /\ Become(c, "insert")
    /\ raced' = (raced \/ \E d \in Crawls : At(d, "insert"))
    /\ UNCHANGED <<abandoned, ages, failures, stuck>>

\* crawl_city: has_running_crawl; a city that is not crawled now is skipped.
Check(c) ==
    /\ At(c, "check")
    /\ IF HasRunningCrawl THEN NextCity(c) /\ UNCHANGED raced
       ELSE Become(c, "insert") /\ raced' = (raced \/ \E d \in Crawls : At(d, "insert"))
    /\ UNCHANGED <<abandoned, ages, failures, stuck>>

\* The bounds of the city are read and its row is inserted.
Insert(c) ==
    /\ At(c, "insert")
    /\ Become(c, "scan")
    /\ UNCHANGED <<abandoned, ages, failures, raced, stuck>>

\* Mutant: a scan's row is left as it was.
Complete_Unfinalised(c) ==
    /\ At(c, "scan")
    /\ NextCity(c)
    /\ newest' = 0 /\ age' = [age EXCEPT ![Head(crawl[c].rest)] = 0]
    /\ abandoned' = TRUE
    /\ UNCHANGED <<failures, raced, stuck>>

\* The scan ends: a search that fails skips its point, so the scan itself never fails.
\* The row is completed and the city's timestamp set.
Complete(c) ==
    /\ At(c, "scan")
    /\ NextCity(c)
    /\ newest' = 0 /\ age' = [age EXCEPT ![Head(crawl[c].rest)] = 0]
    /\ UNCHANGED <<abandoned, failures, raced, stuck>>

\* A search of the grid never returns: the client has no timeout, and the row stays
\* running until the server restarts, and then for good.
ScanHangs(c) ==
    /\ At(c, "scan")
    /\ Become(c, "hung")
    /\ stuck' = TRUE
    /\ UNCHANGED <<abandoned, ages, failures, raced>>

\* A statement before the scan fails: no row, on to the next city.
CheckFails(c) ==
    /\ At(c, "check") \/ At(c, "insert")
    /\ Fail
    /\ NextCity(c)
    /\ UNCHANGED <<abandoned, ages, raced, stuck>>

\* The UPDATE that completes the row fails, and with it crawl_city.
CompleteFails(c) ==
    /\ At(c, "scan")
    /\ Fail
    /\ NextCity(c)
    /\ abandoned' = TRUE
    /\ stuck' = TRUE
    /\ UNCHANGED <<ages, raced>>

\* Completed, but last_crawled_at is not set.
StampFails(c) ==
    /\ At(c, "scan")
    /\ Fail
    /\ NextCity(c)
    /\ newest' = 0
    /\ UNCHANGED <<abandoned, age, raced, stuck>>

ServerRestarts ==
    /\ Fail
    /\ crawl' = [c \in Crawls |-> Idle]
    /\ abandoned' = (abandoned \/ Scanning # {})
    /\ stuck' = (stuck \/ Scanning # {})
    /\ UNCHANGED <<ages, raced>>

Older(n) == IF n < Period THEN n + 1 ELSE Period

\* Days pass; a crawl takes hours.
Tick ==
    /\ \A c \in Crawls : At(c, "idle") \/ At(c, "hung")
    /\ \E n \in {newest} \cup {age[city] : city \in City} : n < Period
    /\ newest' = Older(newest)
    /\ age' = [city \in City |-> Older(age[city])]
    /\ UNCHANGED <<crawl, abandoned, failures, raced, stuck>>

Step(c) == Check(c) \/ Insert(c) \/ Complete(c)

CrawlNext ==
    \/ Wake \/ WakeOnError
    \/ \E c \in Triggers : Trigger(c, Cities) \/ \E i \in DOMAIN Cities : Trigger(c, <<Cities[i]>>)
    \/ \E c \in Crawls : Step(c) \/ ScanHangs(c) \/ CheckFails(c) \/ CompleteFails(c) \/ StampFails(c)
    \/ ServerRestarts
    \/ Tick

CrawlSpec == CrawlInit /\ [][CrawlNext]_crawlVars

\* The scheduler's loop and spawned tasks run, a scan ends unless it hangs for good, and
\* time passes.  No admin need come, and none need stop coming.
CrawlFairSpec ==
    /\ CrawlSpec
    /\ WF_crawlVars(Wake) /\ WF_crawlVars(Tick)
    /\ \A c \in Crawls : WF_crawlVars(Step(c))

-----------------------------------------------------------------------------
(* Properties *)

\* Two crawls scan at once only if both checked before either had a row: the check of
\* the request and the one of crawl_city leave no other way.
OverlapOnlyByRace ==
    Cardinality(Scanning) > 1 => raced

\* Every city is crawled again and again, whatever failures, races and restarts delay
\* it, but for two reasons.  A scan that hangs, is cut off or cannot complete its row
\* stops all crawls for good.  And the scheduler looks at the newest crawl of any city:
\* an admin who keeps crawling one city keeps it from the others.  Once no scan is
\* stuck and no admin comes any more, every city has its turn every month.
EveryCityAgain ==
    \A city \in City :
        []<>(age[city] < Period \/ stuck \/ \E c \in Triggers : ~ At(c, "idle"))
=============================================================================
