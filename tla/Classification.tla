--------------------------- MODULE Classification ---------------------------
(***************************************************************************)
(* Dish classification: the in-process queue (jobs/queue.rs), the worker    *)
(* (jobs/worker.rs), the handlers that create dishes and enqueue their jobs *)
(* (routes/dishes.rs, services/crawler.rs) and the sweep that re-enqueues   *)
(* what was stranded (main.rs).                                             *)
(*                                                                         *)
(* Dishes and priors are rows; everything else lives in the process and is  *)
(* gone after a restart.  "updated_at is older than ten minutes" is one bit *)
(* per dish, which any UPDATE of the row clears.                            *)
(***************************************************************************)
EXTENDS Integers, Sequences

CONSTANTS
    Dishes,
    Creators,       \* handlers that create dishes
    Permits,        \* the semaphore's permits: jobs processed at once
    None,           \* no dish
    Capacity,       \* of the queue; 512 in the code
    MaxDisturbances \* bound: restarts, failed statements, disconnected clients
                    \* and UPDATEs of stuck dishes by other handlers

ASSUME ConstantsAssumption ==
    /\ None \notin Dishes
    /\ Capacity \in Nat \ {0}
    /\ MaxDisturbances \in Nat

VARIABLES
    state,          \* dishes.attribute_state, "absent" before the INSERT
    priors,         \* dishes that have a row in dish_attribute_priors
    stale,          \* updated_at < NOW() - 10 minutes
    queue,          \* the channel
    held,           \* the job the dispatcher received and has no permit for yet
    task,           \* the job under each permit
    creating,       \* what each creator inserted and has yet to enqueue
    sweep,          \* the rows the sweep read, and the one it is enqueueing
    disturbances,
    \* History variables, never read by the actions.
    lost,           \* dishes whose job was lost in a fault and not enqueued again
    doubled         \* dishes the sweep re-enqueued while they still had a job

rows == <<state, priors, stale>>
process == <<queue, held, task, creating, sweep>>
vars == <<rows, process, disturbances, lost, doubled>>

Unused == [pc |-> "idle"]
Tasks ==
    {Unused}
    \cup [pc : {"call", "priors", "classified", "failed"}, dish : Dishes]
    \cup [pc : {"push"}, dish : {None}]                 \* done but for the notification
    \cup [pc : {"hung"}, dish : Dishes \cup {None}]     \* in a request that never returns

NoSweep == [todo |-> {}, next |-> None]

TypeOK ==
    /\ state \in [Dishes -> {"absent", "classifying", "classified", "failed"}]
    /\ priors \subseteq Dishes
    /\ stale \subseteq Dishes
    /\ queue \in Seq(Dishes) /\ Len(queue) <= Capacity
    /\ held \in Dishes \cup {None}
    /\ task \in [Permits -> Tasks]
    /\ creating \in [Creators -> SUBSET Dishes]
    /\ sweep \in [todo : SUBSET Dishes, next : Dishes \cup {None}]
    /\ disturbances \in 0 .. MaxDisturbances
    /\ lost \subseteq Dishes
    /\ doubled \subseteq Dishes

Init ==
    /\ state = [d \in Dishes |-> "absent"]
    /\ priors = {}
    /\ stale = {}
    /\ queue = <<>>
    /\ held = None
    /\ task = [p \in Permits |-> Unused]
    /\ creating = [c \in Creators |-> {}]
    /\ sweep = NoSweep
    /\ disturbances = 0
    /\ lost = {}
    /\ doubled = {}

On(p, pc) == task[p].pc = pc

\* A job for the dish is queued, being processed or about to be enqueued by its creator.
HasJob(d) ==
    \/ \E i \in 1 .. Len(queue) : queue[i] = d
    \/ held = d
    \/ \E p \in Permits : ~ On(p, "idle") /\ task[p].dish = d
    \/ \E c \in Creators : d \in creating[c]

-----------------------------------------------------------------------------
\* batch_create_dishes: the transaction commits.  seed_dishes inserts one dish
\* at a time, the case of a single d.
Create(c, D) ==
    /\ creating[c] = {}
    /\ \A d \in D : state[d] = "absent"
    /\ state' = [d \in Dishes |-> IF d \in D THEN "classifying" ELSE state[d]]
    /\ creating' = [creating EXCEPT ![c] = D]
    /\ UNCHANGED <<priors, stale, queue, held, task, sweep, disturbances, lost, doubled>>

\* enqueue waits while the channel is full.
Enqueue(d) ==
    /\ Len(queue) < Capacity
    /\ queue' = Append(queue, d)

\* Mutant: a creator does not wait for room in the channel.
CreatorEnqueue_TrySend(c) ==
    /\ \E d \in creating[c] :
         /\ queue' = IF Len(queue) < Capacity THEN Append(queue, d) ELSE queue
         /\ creating' = [creating EXCEPT ![c] = @ \ {d}]
    /\ UNCHANGED <<rows, held, task, sweep, disturbances, lost, doubled>>

\* The creator enqueues the jobs of its dishes one after the other.
CreatorEnqueue(c) ==
    /\ \E d \in creating[c] :
         /\ Enqueue(d)
         /\ creating' = [creating EXCEPT ![c] = @ \ {d}]
    /\ UNCHANGED <<rows, held, task, sweep, disturbances, lost, doubled>>

\* The client disconnects while the handler is waiting.
CreatorDropped(c) ==
    /\ creating[c] # {}
    /\ disturbances < MaxDisturbances
    /\ disturbances' = disturbances + 1
    /\ lost' = lost \cup creating[c]
    /\ creating' = [creating EXCEPT ![c] = {}]
    /\ UNCHANGED <<rows, queue, held, task, sweep, doubled>>

\* run_worker receives a job before it has a permit for it.
Receive ==
    /\ held = None
    /\ queue # <<>>
    /\ held' = Head(queue)
    /\ queue' = Tail(queue)
    /\ UNCHANGED <<rows, task, creating, sweep, disturbances, lost, doubled>>

\* A permit is free: the job gets a task of its own.
Spawn(p) ==
    /\ held # None
    /\ On(p, "idle")
    /\ task' = [task EXCEPT ![p] = [pc |-> "call", dish |-> held]]
    /\ held' = None
    /\ UNCHANGED <<rows, queue, creating, sweep, disturbances, lost, doubled>>

\* Mutant: after success the status is written first and the priors later.
Call_StatusFirst(p) ==
    /\ On(p, "call")
    /\ task' = [task EXCEPT ![p] = [pc |-> "classified", dish |-> task[p].dish]]
    /\ UNCHANGED <<rows, queue, held, creating, sweep, disturbances, lost, doubled>>

\* The LLM calls of classify_dish_with_retry, up to three with back-offs between
\* them, which nobody else can tell apart: one succeeds or all fail.
Call(p) ==
    /\ On(p, "call")
    /\ \E outcome \in {"priors", "failed"} :
         task' = [task EXCEPT ![p] = [pc |-> outcome, dish |-> task[p].dish]]
    /\ UNCHANGED <<rows, queue, held, creating, sweep, disturbances, lost, doubled>>

\* The upsert of the priors.
StorePriors(p) ==
    /\ On(p, "priors")
    /\ priors' = priors \cup {task[p].dish}
    /\ task' = [task EXCEPT ![p] = [pc |-> "classified", dish |-> task[p].dish]]
    /\ UNCHANGED <<state, stale, queue, held, creating, sweep, disturbances, lost, doubled>>

\* The UPDATE of attribute_state that settles the dish, whatever its state is by
\* now.  After a success the job keeps its permit and sends a notification.
MarkState(p) ==
    /\ task[p].pc \in {"classified", "failed"}
    /\ state' = [state EXCEPT ![task[p].dish] = task[p].pc]
    /\ stale' = stale \ {task[p].dish}
    /\ task' = [task EXCEPT ![p] = IF On(p, "failed") THEN Unused
                                  ELSE [pc |-> "push", dish |-> None]]
    /\ UNCHANGED <<priors, queue, held, creating, sweep, disturbances, lost, doubled>>

\* send_classification_fcm, sent or not, frees the permit.
Push(p) ==
    /\ On(p, "push")
    /\ task' = [task EXCEPT ![p] = Unused]
    /\ UNCHANGED <<rows, queue, held, creating, sweep, disturbances, lost, doubled>>

\* The LLM or FCM never answers.  Neither client has a timeout: the job keeps
\* its permit until the process ends.
Hang(p) ==
    /\ task[p].pc \in {"call", "push"}
    /\ task' = [task EXCEPT ![p] = [pc |-> "hung", dish |-> task[p].dish]]
    /\ UNCHANGED <<rows, queue, held, creating, sweep, disturbances, lost, doubled>>

\* A statement of the job fails: the job ends and the dish stays as it is.
JobAborts(p) ==
    /\ task[p].pc \in {"priors", "classified", "failed"}
    /\ disturbances < MaxDisturbances
    /\ disturbances' = disturbances + 1
    /\ lost' = lost \cup {task[p].dish}
    /\ task' = [task EXCEPT ![p] = Unused]
    /\ UNCHANGED <<rows, queue, held, creating, sweep, doubled>>

\* Ten minutes pass without an UPDATE of the dish.
Age(d) ==
    /\ state[d] = "classifying"
    /\ d \notin stale
    /\ stale' = stale \cup {d}
    /\ UNCHANGED <<state, priors, process, disturbances, lost, doubled>>

\* A reaction, a vote or an edit updates the row.
Touch(d) ==
    /\ d \in stale
    /\ disturbances < MaxDisturbances
    /\ disturbances' = disturbances + 1
    /\ stale' = stale \ {d}
    /\ UNCHANGED <<state, priors, process, lost, doubled>>

Stuck == {d \in stale : state[d] = "classifying"}

\* Mutant: every dish that is old is swept.
SweepRead_AnyState ==
    /\ sweep = NoSweep
    /\ stale \cup {d \in Dishes : state[d] = "classified"} # {}
    /\ sweep' = [sweep EXCEPT !.todo = stale \cup {d \in Dishes : state[d] = "classified"}]
    /\ doubled' = doubled \cup {d \in stale : HasJob(d)}
    /\ UNCHANGED <<rows, queue, held, task, creating, disturbances, lost>>

\* Mutant: only dishes whose job failed are swept.
SweepRead_FailedOnly ==
    /\ sweep = NoSweep
    /\ {d \in stale : state[d] = "failed"} # {}
    /\ sweep' = [sweep EXCEPT !.todo = {d \in stale : state[d] = "failed"}]
    /\ UNCHANGED <<rows, queue, held, task, creating, disturbances, lost, doubled>>

\* requeue_stuck_classifications: the SELECT.
SweepRead ==
    /\ sweep = NoSweep
    /\ Stuck # {}
    /\ sweep' = [todo |-> Stuck, next |-> None]
    /\ doubled' = doubled \cup {d \in Stuck : HasJob(d)}
    /\ UNCHANGED <<rows, queue, held, task, creating, disturbances, lost>>

\* updated_at is bumped before the job is enqueued.
SweepBump ==
    /\ sweep.next = None
    /\ \E d \in sweep.todo :
         /\ sweep' = [todo |-> sweep.todo \ {d}, next |-> d]
         /\ stale' = stale \ {d}
    /\ UNCHANGED <<state, priors, queue, held, task, creating, disturbances, lost, doubled>>

SweepEnqueue ==
    /\ sweep.next # None
    /\ Enqueue(sweep.next)
    /\ lost' = lost \ {sweep.next}
    /\ sweep' = [todo |-> sweep.todo, next |-> None]
    /\ UNCHANGED <<rows, held, task, creating, disturbances, doubled>>

\* The bump fails: the rest of the sweep waits for the next one.
SweepAborts ==
    /\ sweep.next = None
    /\ sweep.todo # {}
    /\ disturbances < MaxDisturbances
    /\ disturbances' = disturbances + 1
    /\ sweep' = NoSweep
    /\ UNCHANGED <<rows, queue, held, task, creating, lost, doubled>>

\* The process dies and is started again: only the rows are left.
Restart ==
    /\ disturbances < MaxDisturbances
    /\ disturbances' = disturbances + 1
    /\ queue' = <<>>
    /\ held' = None
    /\ task' = [p \in Permits |-> Unused]
    /\ creating' = [c \in Creators |-> {}]
    /\ sweep' = NoSweep
    /\ lost' = lost \cup {d \in Dishes : HasJob(d)}
    /\ UNCHANGED <<rows, doubled>>

TaskStep(p) == Call(p) \/ StorePriors(p) \/ MarkState(p) \/ Push(p)

Dispatch == Receive \/ \E p \in Permits : Spawn(p)
Sweep == SweepRead \/ SweepBump \/ SweepEnqueue

Next ==
    \/ \E c \in Creators, D \in SUBSET Dishes \ {{}} : Create(c, D)
    \/ \E c \in Creators : CreatorEnqueue(c) \/ CreatorDropped(c)
    \/ Dispatch
    \/ \E p \in Permits : TaskStep(p) \/ JobAborts(p) \/ Hang(p)
    \/ \E d \in Dishes : Age(d) \/ Touch(d)
    \/ Sweep \/ SweepAborts
    \/ Restart

Spec == Init /\ [][Next]_vars

\* The dispatcher, the spawned jobs, the handlers and the sweep's loop are tasks
\* the runtime keeps scheduling, a request to the LLM or FCM returns unless it
\* hangs for good, and the clock advances.  Faults and other UPDATEs of a dish are
\* not obliged to happen and are finite; nothing obliges the process to restart.
Fairness ==
    /\ \A c \in Creators : WF_vars(CreatorEnqueue(c))
    /\ WF_vars(Dispatch)
    /\ \A p \in Permits : WF_vars(TaskStep(p))
    /\ \A d \in Dishes : WF_vars(Age(d))
    /\ WF_vars(Sweep)

FairSpec == Spec /\ Fairness

-----------------------------------------------------------------------------
\* A classified dish has priors for GET /dishes/:id to show, whatever step of
\* its jobs a crash or a failed statement cut off.
ClassifiedHasPriors ==
    \A d \in Dishes : state[d] = "classified" => d \in priors

\* A dish waits for a job that exists, unless a fault lost the job and the sweep
\* did not enqueue it again: no interleaving of creators, dispatcher, workers and
\* sweep forgets one.
NoJobForgotten ==
    \A d \in Dishes :
        state[d] = "classifying" => HasJob(d) \/ d \in lost

\* A settled verdict is overturned only for a dish the sweep gave a second job
\* while its first one was still around.
OverturnedOnlyIfDoubled ==
    [][\A d \in Dishes :
         /\ state[d] \in {"classified", "failed"}
         /\ state'[d] # state[d]
         => d \in doubled]_vars

\* Whatever is lost and whichever requests hang, every dish is eventually
\* classified or marked failed: unless every permit is held by a request that
\* never returns, which stops the worker, fills the channel and blocks the
\* creators and the sweep until the process is restarted.
EventuallySettled ==
    \A d \in Dishes :
        state[d] = "classifying" ~>
            \/ state[d] \in {"classified", "failed"}
            \/ \A p \in Permits : On(p, "hung")
=============================================================================
