------------------------- MODULE Background_proofs --------------------------
(****************************************************************************)
(* Proofs about the background tasks of the server, for any number of dishes,*)
(* creators, permits, cities and triggers, any capacity of the queue and any*)
(* number of faults: no job is forgotten and a classified dish has its      *)
(* priors, and crawls only overlap by racing between the check and the      *)
(* insertion of a row.                                                      *)
(****************************************************************************)
EXTENDS Classification, Crawler, FiniteSetTheorems, TLAPS

-----------------------------------------------------------------------------
(* Classification *)

\* A job about to mark its dish classified has stored the priors.
PriorsFirst ==
    \A p \in Permits : On(p, "classified") => task[p].dish \in priors

IInv == TypeOK /\ ClassifiedHasPriors /\ PriorsFirst /\ NoJobForgotten

-----------------------------------------------------------------------------
\* The fields of a task, by its program counter.
LEMMA TaskShape ==
    ASSUME TypeOK, NEW p \in Permits
    PROVE  /\ task[p].pc \in {"idle", "call", "priors", "classified", "failed", "push", "hung"}
           /\ task[p].pc \in {"call", "priors", "classified", "failed"} => task[p].dish \in Dishes
           /\ task[p].pc # "idle" => task[p].dish \in Dishes \cup {None}
  <1>1. task[p] \in Tasks
    BY DEF TypeOK
  <1> QED
    BY <1>1 DEF Tasks, Unused

\* A step that leaves the rows alone, and in which every dish keeps a job or is
\* recorded as lost, forgets none.
LEMMA JobsKept ==
    ASSUME NoJobForgotten, state' = state,
           \A d \in Dishes : HasJob(d) \/ d \in lost => HasJob(d)' \/ d \in lost'
    PROVE  NoJobForgotten'
  BY DEF NoJobForgotten

\* enqueue keeps what is queued and adds its argument.
LEMMA EnqueueKeeps ==
    ASSUME TypeOK, NEW d \in Dishes, Enqueue(d)
    PROVE  /\ queue' \in Seq(Dishes)
           /\ Len(queue') <= Capacity
           /\ Len(queue') = Len(queue) + 1
           /\ queue'[Len(queue) + 1] = d
           /\ \A i \in 1 .. Len(queue) : queue'[i] = queue[i]
  <1>1. queue \in Seq(Dishes) /\ Len(queue) \in Nat /\ queue' = Append(queue, d)
    BY DEF TypeOK, Enqueue
  <1> QED
    BY <1>1, ConstantsAssumption DEF Enqueue

\* A dish that is in the queue keeps its job over an enqueue, and the dish
\* that is enqueued has one afterwards.
LEMMA EnqueueJobs ==
    ASSUME TypeOK, NEW d \in Dishes, Enqueue(d)
    PROVE  /\ \A e \in Dishes : (\E i \in 1 .. Len(queue) : queue[i] = e) => HasJob(e)'
           /\ HasJob(d)'
  <1>1. Len(queue) \in Nat
    BY DEF TypeOK
  <1>2. /\ Len(queue') = Len(queue) + 1
        /\ queue'[Len(queue) + 1] = d
        /\ \A i \in 1 .. Len(queue) : queue'[i] = queue[i] /\ i \in 1 .. Len(queue')
    BY <1>1, EnqueueKeeps
  <1>3. Len(queue) + 1 \in 1 .. Len(queue')
    BY <1>1, <1>2
  <1> QED
    BY <1>2, <1>3 DEF HasJob

-----------------------------------------------------------------------------
LEMMA InitIInv == Init => IInv
  <1> SUFFICES ASSUME Init PROVE IInv
    OBVIOUS
  <1>1. TypeOK
    BY ConstantsAssumption DEF Init, TypeOK, Tasks, Unused, NoSweep
  <1>2. \A p \in Permits : task[p].pc = "idle"
    BY DEF Init, Unused
  <1> QED
    BY <1>1, <1>2 DEF Init, IInv, ClassifiedHasPriors, PriorsFirst, NoJobForgotten, On

LEMMA CreateIInv ==
    ASSUME IInv, NEW c \in Creators, NEW D \in SUBSET Dishes, Create(c, D)
    PROVE  IInv'
  <1>1. creating' = [creating EXCEPT ![c] = D] /\ creating[c] = {}
    BY DEF Create
  <1>2. TypeOK'
    BY DEF IInv, TypeOK, Create
  <1>3. ClassifiedHasPriors' /\ PriorsFirst'
    BY DEF IInv, TypeOK, ClassifiedHasPriors, PriorsFirst, On, Create
  <1>4. ASSUME NEW d \in Dishes, state'[d] = "classifying"
        PROVE  HasJob(d)' \/ d \in lost'
    <2>1. CASE d \in D
      BY <2>1, <1>1 DEF IInv, TypeOK, HasJob
    <2>2. CASE d \notin D
      <3>1. state[d] = "classifying"
        BY <2>2, <1>4 DEF Create, IInv, TypeOK
      <3>2. HasJob(d) \/ d \in lost
        BY <3>1 DEF IInv, NoJobForgotten
      <3>3. \A b \in Creators : d \in creating[b] => d \in creating'[b]
        BY <1>1 DEF IInv, TypeOK
      <3> QED
        BY <3>2, <3>3 DEF Create, HasJob, On
    <2> QED
      BY <2>1, <2>2
  <1> QED
    BY <1>2, <1>3, <1>4 DEF IInv, NoJobForgotten

LEMMA CreatorEnqueueIInv ==
    ASSUME IInv, NEW c \in Creators, CreatorEnqueue(c)
    PROVE  IInv'
  <1>1. PICK d \in creating[c] :
            Enqueue(d) /\ creating' = [creating EXCEPT ![c] = @ \ {d}]
    BY DEF CreatorEnqueue
  <1>2. UNCHANGED <<state, priors, stale, held, task, sweep, disturbances, lost, doubled>>
    BY DEF CreatorEnqueue, rows
  <1>3. d \in Dishes /\ TypeOK
    BY <1>1 DEF IInv, TypeOK
  <1>4. TypeOK'
    BY <1>1, <1>2, <1>3, EnqueueKeeps DEF TypeOK
  <1>5. ClassifiedHasPriors' /\ PriorsFirst'
    BY <1>2 DEF IInv, ClassifiedHasPriors, PriorsFirst, On
  <1>6. ASSUME NEW e \in Dishes, HasJob(e) PROVE HasJob(e)'
    <2>1. \A b \in Creators : e \in creating[b] => e = d \/ e \in creating'[b]
      BY <1>1, <1>3 DEF TypeOK
    <2>2. CASE e = d \/ \E i \in 1 .. Len(queue) : queue[i] = e
      BY <2>2, <1>1, <1>3, EnqueueJobs
    <2>3. CASE e # d /\ ~ \E i \in 1 .. Len(queue) : queue[i] = e
      BY <2>3, <2>1, <1>2, <1>6 DEF HasJob, On
    <2> QED
      BY <2>2, <2>3
  <1>7. NoJobForgotten'
    BY <1>2, <1>6, JobsKept DEF IInv
  <1> QED
    BY <1>4, <1>5, <1>7 DEF IInv

LEMMA CreatorDroppedIInv ==
    ASSUME IInv, NEW c \in Creators, CreatorDropped(c)
    PROVE  IInv'
  <1>1. TypeOK'
    BY ConstantsAssumption DEF IInv, TypeOK, CreatorDropped, rows
  <1>2. ClassifiedHasPriors' /\ PriorsFirst'
    BY DEF IInv, ClassifiedHasPriors, PriorsFirst, On, CreatorDropped, rows
  <1>3. \A d \in Dishes, b \in Creators :
            d \in creating[b] => d \in lost' \/ d \in creating'[b]
    BY DEF IInv, TypeOK, CreatorDropped
  <1>4. UNCHANGED <<queue, held, task, sweep, state>> /\ lost \subseteq lost'
    BY DEF CreatorDropped, rows
  <1>5. ASSUME NEW d \in Dishes, HasJob(d) PROVE HasJob(d)' \/ d \in lost'
    BY <1>3, <1>4, <1>5 DEF HasJob, On
  <1>6. NoJobForgotten'
    BY <1>4, <1>5, JobsKept DEF IInv
  <1> QED
    BY <1>1, <1>2, <1>6 DEF IInv

LEMMA ReceiveIInv == ASSUME IInv, Receive PROVE IInv'
  <1>1. queue \in Seq(Dishes) /\ queue # <<>> /\ Len(queue) \in Nat
    BY DEF IInv, TypeOK, Receive
  <1>2. /\ held' = queue[1] /\ queue' = Tail(queue)
        /\ queue' \in Seq(Dishes) /\ Len(queue') = Len(queue) - 1
        /\ held' \in Dishes
    BY <1>1 DEF Receive
  <1>3. TypeOK'
    BY <1>1, <1>2, ConstantsAssumption DEF IInv, TypeOK, Receive, rows
  <1>4. ClassifiedHasPriors' /\ PriorsFirst'
    BY DEF IInv, ClassifiedHasPriors, PriorsFirst, On, Receive, rows
  <1>5. ASSUME NEW e \in Dishes, NEW i \in 1 .. Len(queue), queue[i] = e
        PROVE  HasJob(e)'
    <2>1. CASE i = 1
      BY <2>1, <1>2, <1>5 DEF HasJob
    <2>2. CASE i # 1
      <3>1. i - 1 \in 1 .. Len(queue') /\ queue'[i - 1] = e
        BY <2>2, <1>1, <1>2, <1>5
      <3> QED
        BY <3>1 DEF HasJob
    <2> QED
      BY <2>1, <2>2
  <1>6. ASSUME NEW e \in Dishes, HasJob(e) PROVE HasJob(e)'
    <2>1. held # e
      BY ConstantsAssumption DEF Receive
    <2> QED
      BY <2>1, <1>5, <1>6 DEF HasJob, Receive, On
  <1>7. NoJobForgotten'
    BY <1>6, JobsKept DEF IInv, Receive, rows
  <1> QED
    BY <1>3, <1>4, <1>7 DEF IInv

LEMMA SpawnIInv == ASSUME IInv, NEW p \in Permits, Spawn(p) PROVE IInv'
  <1> DEFINE new == [pc |-> "call", dish |-> held]
  <1>1. held \in Dishes /\ new \in Tasks
    BY ConstantsAssumption DEF IInv, TypeOK, Spawn, Tasks
  <1>2. /\ task' = [task EXCEPT ![p] = new]
        /\ task'[p] = new
        /\ \A q \in Permits : q # p => task'[q] = task[q]
        /\ task[p].pc = "idle"
    BY DEF IInv, TypeOK, Spawn, On
  <1>3. UNCHANGED <<state, priors, stale, queue, creating, sweep, disturbances, lost, doubled>>
    BY DEF Spawn, rows
  <1>4. TypeOK'
    BY <1>1, <1>2, <1>3 DEF IInv, TypeOK, Spawn
  <1>5. ClassifiedHasPriors' /\ PriorsFirst'
    BY <1>2, <1>3 DEF IInv, ClassifiedHasPriors, PriorsFirst, On
  <1>6. ASSUME NEW e \in Dishes, HasJob(e) PROVE HasJob(e)'
    <2>1. CASE e = held
      BY <2>1, <1>2 DEF HasJob, On
    <2>2. CASE e # held
      BY <2>2, <1>2, <1>3, <1>6 DEF HasJob, On
    <2> QED
      BY <2>1, <2>2
  <1>7. NoJobForgotten'
    BY <1>3, <1>6, JobsKept DEF IInv
  <1> QED
    BY <1>4, <1>5, <1>7 DEF IInv

\* A step of a task that only moves it to another statement of the same job.
LEMMA TaskMoves ==
    ASSUME IInv, NEW p \in Permits, NEW new \in Tasks,
           task[p].pc # "idle", new.pc # "idle", new.dish = task[p].dish,
           task' = [task EXCEPT ![p] = new],
           UNCHANGED <<state, queue, held, creating, sweep, lost>>
    PROVE  NoJobForgotten'
  <1>1. task'[p] = new /\ \A q \in Permits : q # p => task'[q] = task[q]
    BY DEF IInv, TypeOK
  <1>2. ASSUME NEW e \in Dishes, HasJob(e) PROVE HasJob(e)'
    <2>1. CASE e = task[p].dish
      BY <2>1, <1>1 DEF HasJob, On
    <2>2. CASE e # task[p].dish
      BY <2>2, <1>1, <1>2 DEF HasJob, On
    <2> QED
      BY <2>1, <2>2
  <1> QED
    BY <1>2, JobsKept DEF IInv

LEMMA CallIInv == ASSUME IInv, NEW p \in Permits, Call(p) \/ Hang(p) PROVE IInv'
  <1>1. task[p].pc # "idle" /\ task[p].dish \in Dishes \cup {None}
    BY TaskShape DEF IInv, Call, Hang, On
  <1>2. PICK new \in Tasks : /\ new.pc \in {"priors", "failed", "hung"}
                             /\ new.dish = task[p].dish
                             /\ task' = [task EXCEPT ![p] = new]
    <2>1. CASE Call(p)
      <3>1. task[p].dish \in Dishes
        BY <2>1, TaskShape DEF IInv, Call, On
      <3>2. \A o \in {"priors", "failed"} : [pc |-> o, dish |-> task[p].dish] \in Tasks
        BY <3>1 DEF Tasks
      <3> QED
        BY <2>1, <3>2 DEF Call
    <2>2. CASE Hang(p)
      <3>1. [pc |-> "hung", dish |-> task[p].dish] \in Tasks
        BY <1>1 DEF Tasks
      <3> QED
        BY <2>2, <3>1 DEF Hang
    <2> QED
      BY <2>1, <2>2
  <1>3. UNCHANGED <<state, priors, stale, queue, held, creating, sweep, disturbances, lost, doubled>>
    BY DEF Call, Hang, rows
  <1>4. TypeOK'
    BY <1>2, <1>3 DEF IInv, TypeOK
  <1>5. ClassifiedHasPriors' /\ PriorsFirst'
    BY <1>2, <1>3 DEF IInv, TypeOK, ClassifiedHasPriors, PriorsFirst, On
  <1>6. NoJobForgotten'
    BY <1>1, <1>2, <1>3, TaskMoves
  <1> QED
    BY <1>4, <1>5, <1>6 DEF IInv

LEMMA StorePriorsIInv == ASSUME IInv, NEW p \in Permits, StorePriors(p) PROVE IInv'
  <1> DEFINE d == task[p].dish
             new == [pc |-> "classified", dish |-> d]
  <1>1. task[p].pc = "priors" /\ d \in Dishes /\ new \in Tasks
    BY TaskShape DEF IInv, StorePriors, On, Tasks
  <1>2. /\ task' = [task EXCEPT ![p] = new] /\ priors' = priors \cup {d}
        /\ UNCHANGED <<state, stale, queue, held, creating, sweep, disturbances, lost, doubled>>
    BY DEF StorePriors
  <1>3. TypeOK'
    BY <1>1, <1>2 DEF IInv, TypeOK
  <1>4. ClassifiedHasPriors' /\ PriorsFirst'
    BY <1>1, <1>2 DEF IInv, TypeOK, ClassifiedHasPriors, PriorsFirst, On
  <1>5. NoJobForgotten'
    BY <1>1, <1>2, TaskMoves
  <1> QED
    BY <1>3, <1>4, <1>5 DEF IInv

\* The dish of a job that ends is settled, or recorded as lost.
LEMMA JobEnds ==
    ASSUME IInv, NEW p \in Permits,
           NEW new, task' = [task EXCEPT ![p] = new],
           UNCHANGED <<queue, held, creating, sweep>>,
           lost \subseteq lost',
           \A e \in Dishes : state'[e] = "classifying" => state[e] = "classifying",
           \/ task[p].dish = None
           \/ state'[task[p].dish] # "classifying"
           \/ task[p].dish \in lost'
    PROVE  NoJobForgotten'
  <1>1. \A q \in Permits : q # p => task'[q] = task[q]
    BY DEF IInv, TypeOK
  <1>2. ASSUME NEW e \in Dishes, HasJob(e), e # task[p].dish PROVE HasJob(e)'
    BY <1>1, <1>2 DEF HasJob, On
  <1> QED
    BY <1>2, ConstantsAssumption DEF IInv, NoJobForgotten

LEMMA MarkStateIInv == ASSUME IInv, NEW p \in Permits, MarkState(p) PROVE IInv'
  <1> DEFINE d == task[p].dish
             new == IF On(p, "failed") THEN Unused ELSE [pc |-> "push", dish |-> None]
  <1>1. task[p].pc \in {"classified", "failed"} /\ d \in Dishes
    BY TaskShape DEF IInv, MarkState
  <1>2. /\ state' = [state EXCEPT ![d] = task[p].pc]
        /\ stale' = stale \ {d}
        /\ task' = [task EXCEPT ![p] = new]
        /\ UNCHANGED <<priors, queue, held, creating, sweep, disturbances, lost, doubled>>
    BY DEF MarkState
  <1>3. new \in Tasks /\ new.pc \in {"idle", "push"}
    BY DEF Tasks, Unused
  <1>4. TypeOK'
    BY <1>1, <1>2, <1>3 DEF IInv, TypeOK
  <1>5. ClassifiedHasPriors' /\ PriorsFirst'
    BY <1>1, <1>2, <1>3 DEF IInv, TypeOK, ClassifiedHasPriors, PriorsFirst, On
  <1>6. /\ state'[d] # "classifying"
        /\ \A e \in Dishes : state'[e] = "classifying" => state[e] = "classifying"
    BY <1>1, <1>2 DEF IInv, TypeOK
  <1>7. NoJobForgotten'
    BY <1>2, <1>6, JobEnds
  <1> QED
    BY <1>4, <1>5, <1>7 DEF IInv

LEMMA PushIInv == ASSUME IInv, NEW p \in Permits, Push(p) PROVE IInv'
  <1>1. task[p].pc = "push" /\ task[p].dish = None
    <2>1. task[p] \in Tasks
      BY DEF IInv, TypeOK
    <2> QED
      BY <2>1 DEF Push, On, Tasks, Unused
  <1>2. /\ task' = [task EXCEPT ![p] = Unused]
        /\ UNCHANGED <<state, priors, stale, queue, held, creating, sweep, disturbances, lost,
                       doubled>>
    BY DEF Push, rows
  <1>3. TypeOK'
    BY <1>2 DEF IInv, TypeOK, Tasks
  <1>4. ClassifiedHasPriors' /\ PriorsFirst'
    BY <1>2 DEF IInv, TypeOK, ClassifiedHasPriors, PriorsFirst, On, Unused
  <1>5. NoJobForgotten'
    BY <1>1, <1>2, JobEnds
  <1> QED
    BY <1>3, <1>4, <1>5 DEF IInv

LEMMA JobAbortsIInv == ASSUME IInv, NEW p \in Permits, JobAborts(p) PROVE IInv'
  <1>1. task[p].pc \in {"priors", "classified", "failed"} /\ task[p].dish \in Dishes
    BY TaskShape DEF IInv, JobAborts
  <1>2. /\ task' = [task EXCEPT ![p] = Unused]
        /\ lost' = lost \cup {task[p].dish}
        /\ disturbances' = disturbances + 1 /\ disturbances < MaxDisturbances
        /\ UNCHANGED <<state, priors, stale, queue, held, creating, sweep, doubled>>
    BY DEF JobAborts, rows
  <1>3. TypeOK'
    BY <1>1, <1>2, ConstantsAssumption DEF IInv, TypeOK, Tasks
  <1>4. ClassifiedHasPriors' /\ PriorsFirst'
    BY <1>2 DEF IInv, TypeOK, ClassifiedHasPriors, PriorsFirst, On, Unused
  <1>5. NoJobForgotten'
    BY <1>2, JobEnds
  <1> QED
    BY <1>3, <1>4, <1>5 DEF IInv

-----------------------------------------------------------------------------
LEMMA ClockIInv == ASSUME IInv, NEW d \in Dishes, Age(d) \/ Touch(d) PROVE IInv'
  <1>1. UNCHANGED <<state, priors, queue, held, task, creating, sweep, lost, doubled>>
    BY DEF Age, Touch, process
  <1>2. TypeOK'
    BY <1>1, ConstantsAssumption DEF IInv, TypeOK, Age, Touch
  <1> QED
    BY <1>1, <1>2 DEF IInv, ClassifiedHasPriors, PriorsFirst, NoJobForgotten, HasJob, On

LEMMA SweepReadIInv == ASSUME IInv, SweepRead PROVE IInv'
  <1>1. UNCHANGED <<state, priors, stale, queue, held, task, creating, disturbances, lost>>
    BY DEF SweepRead, rows
  <1>2. TypeOK'
    BY <1>1 DEF IInv, TypeOK, SweepRead, Stuck
  <1> QED
    BY <1>1, <1>2 DEF IInv, ClassifiedHasPriors, PriorsFirst, NoJobForgotten, HasJob, On

LEMMA SweepBumpIInv == ASSUME IInv, SweepBump PROVE IInv'
  <1>1. PICK d \in sweep.todo : /\ sweep' = [todo |-> sweep.todo \ {d}, next |-> d]
                                /\ stale' = stale \ {d}
    BY DEF SweepBump
  <1>2. /\ sweep.next = None
        /\ UNCHANGED <<state, priors, queue, held, task, creating, disturbances, lost, doubled>>
    BY DEF SweepBump
  <1>3. TypeOK'
    BY <1>1, <1>2 DEF IInv, TypeOK
  <1> QED
    BY <1>2, <1>3 DEF IInv, ClassifiedHasPriors, PriorsFirst, NoJobForgotten, HasJob, On

LEMMA SweepEnqueueIInv == ASSUME IInv, SweepEnqueue PROVE IInv'
  <1>1. /\ sweep.next \in Dishes /\ Enqueue(sweep.next)
        /\ sweep' = [todo |-> sweep.todo, next |-> None]
    BY DEF IInv, TypeOK, SweepEnqueue
  <1>2. /\ UNCHANGED <<state, priors, stale, held, task, creating, disturbances, doubled>>
        /\ lost' = lost \ {sweep.next}
    BY DEF SweepEnqueue, rows
  <1>3. TypeOK'
    BY <1>1, <1>2, EnqueueKeeps DEF IInv, TypeOK
  <1>4. ClassifiedHasPriors' /\ PriorsFirst'
    BY <1>2 DEF IInv, ClassifiedHasPriors, PriorsFirst, On
  <1>5. ASSUME NEW e \in Dishes, HasJob(e) PROVE HasJob(e)'
    <2>1. CASE \E i \in 1 .. Len(queue) : queue[i] = e
      BY <2>1, <1>1, EnqueueJobs DEF IInv
    <2>2. CASE ~ \E i \in 1 .. Len(queue) : queue[i] = e
      BY <2>2, <1>2, <1>5 DEF HasJob, On
    <2> QED
      BY <2>1, <2>2
  <1>6. ASSUME NEW e \in Dishes, e = sweep.next PROVE HasJob(e)'
    BY <1>1, <1>6, EnqueueJobs DEF IInv
  <1>7. NoJobForgotten'
    BY <1>2, <1>5, <1>6, JobsKept DEF IInv
  <1> QED
    BY <1>3, <1>4, <1>7 DEF IInv

LEMMA SweepAbortsIInv == ASSUME IInv, SweepAborts PROVE IInv'
  <1>1. UNCHANGED <<state, priors, stale, queue, held, task, creating, lost, doubled>>
    BY DEF SweepAborts, rows
  <1>2. TypeOK'
    BY <1>1, ConstantsAssumption DEF IInv, TypeOK, SweepAborts, NoSweep
  <1> QED
    BY <1>1, <1>2 DEF IInv, ClassifiedHasPriors, PriorsFirst, NoJobForgotten, HasJob, On

LEMMA RestartIInv == ASSUME IInv, Restart PROVE IInv'
  <1>1. UNCHANGED <<state, priors, stale, doubled>> /\ lost' = lost \cup {d \in Dishes : HasJob(d)}
    BY DEF Restart, rows
  <1>2. TypeOK'
    BY <1>1, ConstantsAssumption DEF IInv, TypeOK, Restart, NoSweep, Tasks
  <1>3. \A p \in Permits : task'[p].pc = "idle"
    BY DEF Restart, Unused
  <1> QED
    BY <1>1, <1>2, <1>3 DEF IInv, ClassifiedHasPriors, PriorsFirst, NoJobForgotten, On

LEMMA NextIInv == IInv /\ [Next]_vars => IInv'
  <1> SUFFICES ASSUME IInv, [Next]_vars PROVE IInv'
    OBVIOUS
  <1>1. CASE UNCHANGED vars
    BY <1>1 DEF vars, rows, process, IInv, TypeOK, ClassifiedHasPriors, PriorsFirst,
       NoJobForgotten, HasJob, On
  <1>2. CASE Next
    BY <1>2, CreateIInv, CreatorEnqueueIInv, CreatorDroppedIInv, ReceiveIInv, SpawnIInv,
       CallIInv, StorePriorsIInv, MarkStateIInv, PushIInv, JobAbortsIInv, ClockIInv,
       SweepReadIInv, SweepBumpIInv, SweepEnqueueIInv, SweepAbortsIInv, RestartIInv
       DEF Next, Dispatch, TaskStep, Sweep
  <1> QED
    BY <1>1, <1>2

-----------------------------------------------------------------------------
(* A dish has one job unless the sweep doubled it. *)

Queued(d) == {i \in 1 .. Len(queue) : queue[i] = d}
Busy(d) == {p \in Permits : ~ On(p, "idle") /\ task[p].dish = d}
Creating(d) == {c \in Creators : d \in creating[c]}
Swept(d) == d \in sweep.todo \/ d = sweep.next

AtMostOne(S) == \A x, y \in S : x = y

\* The one job of a dish is in one place, and only while the dish is
\* classifying; while the sweep holds the dish, it has none.
OneJob(d) ==
    /\ AtMostOne(Queued(d)) /\ AtMostOne(Busy(d)) /\ AtMostOne(Creating(d))
    /\ held = d => Queued(d) = {}
    /\ held = d \/ Queued(d) # {} => Busy(d) = {}
    /\ held = d \/ Queued(d) # {} \/ Busy(d) # {} => Creating(d) = {}
    /\ HasJob(d) => ~ Swept(d)
    /\ HasJob(d) \/ Swept(d) => state[d] = "classifying"
    /\ ~ (d \in sweep.todo /\ d = sweep.next)

SingleJobs == \A d \in Dishes \ doubled : OneJob(d)

\* The places a job can be in.
LEMMA Places ==
    ASSUME NEW d \in Dishes
    PROVE  /\ HasJob(d) <=> Queued(d) # {} \/ held = d \/ Busy(d) # {} \/ Creating(d) # {}
           /\ HasJob(d)' <=> Queued(d)' # {} \/ held' = d \/ Busy(d)' # {} \/ Creating(d)' # {}
  BY DEF HasJob, Queued, Busy, Creating, On

\* A step after which the jobs of the dish are where they were, or are gone.
LEMMA JobsShrink ==
    ASSUME NEW d \in Dishes, OneJob(d),
           Queued(d)' \subseteq Queued(d), held' = d => held = d,
           Busy(d)' \subseteq Busy(d), Creating(d)' \subseteq Creating(d),
           Swept(d)' => Swept(d), ~ (d \in sweep'.todo /\ d = sweep'.next),
           HasJob(d)' \/ Swept(d)' => state'[d] = "classifying"
    PROVE  OneJob(d)'
  <1>1. HasJob(d)' => HasJob(d)
    BY Places
  <1> QED
    BY <1>1 DEF OneJob, AtMostOne

\* Nothing that concerns the dish changes.
LEMMA JobsStay ==
    ASSUME NEW d \in Dishes, OneJob(d), UNCHANGED <<queue, held, creating, sweep>>,
           Busy(d)' \subseteq Busy(d), state'[d] = state[d]
    PROVE  OneJob(d)'
  <1>1. /\ Queued(d)' = Queued(d) /\ Creating(d)' = Creating(d) /\ Swept(d)' = Swept(d)
    BY DEF Queued, Creating, Swept
  <1>2. HasJob(d)' => HasJob(d)
    BY <1>1, Places
  <1> QED
    BY <1>1, <1>2, JobsShrink DEF OneJob

\* An enqueue adds one place to the dish it is for and none to another.
LEMMA EnqueuePlaces ==
    ASSUME TypeOK, NEW d \in Dishes, NEW e \in Dishes, Enqueue(d)
    PROVE  /\ e # d => Queued(e)' = Queued(e)
           /\ Queued(d)' = Queued(d) \cup {Len(queue) + 1}
  <1>1. Len(queue) \in Nat
    BY DEF TypeOK
  <1>2. /\ Len(queue') = Len(queue) + 1
        /\ queue'[Len(queue) + 1] = d
        /\ \A i \in 1 .. Len(queue) : queue'[i] = queue[i]
    BY EnqueueKeeps
  <1>3. \A i : i \in 1 .. Len(queue') <=> i \in 1 .. Len(queue) \/ i = Len(queue) + 1
    BY <1>1, <1>2
  <1> QED
    BY <1>2, <1>3 DEF Queued

LEMMA CreateSingle ==
    ASSUME IInv, SingleJobs, NEW c \in Creators, NEW D \in SUBSET Dishes, Create(c, D)
    PROVE  SingleJobs'
  <1> SUFFICES ASSUME NEW d \in Dishes \ doubled PROVE OneJob(d)'
    BY DEF SingleJobs, Create
  <1>1. OneJob(d)
    BY DEF SingleJobs
  <1>2. UNCHANGED <<queue, held, task, sweep>> /\ creating[c] = {}
    BY DEF Create
  <1>3. Queued(d)' = Queued(d) /\ Busy(d)' = Busy(d) /\ Swept(d)' = Swept(d)
    BY <1>2 DEF Queued, Busy, Swept, On
  <1>4. CASE d \in D
    <2>1. state[d] = "absent" /\ state'[d] = "classifying"
      BY <1>4 DEF Create, IInv, TypeOK
    <2>2. ~ HasJob(d) /\ ~ Swept(d)
      BY <2>1, <1>1 DEF OneJob
    <2>3. \A b \in Creators : d \notin creating[b]
      BY <2>2 DEF HasJob
    <2>4. \A b \in Creators : d \in creating'[b] => b = c
      BY <2>3 DEF Create, IInv, TypeOK
    <2>5. AtMostOne(Creating(d)')
      BY <2>4 DEF AtMostOne, Creating
    <2> QED
      BY <2>1, <2>2, <2>5, <1>1, <1>2, <1>3, Places DEF OneJob, AtMostOne
  <1>5. CASE d \notin D
    <2>1. state'[d] = state[d]
      BY <1>5 DEF Create, IInv, TypeOK
    <2>2. Creating(d)' \subseteq Creating(d)
      BY <1>5 DEF Create, IInv, TypeOK, Creating
    <2>3. HasJob(d)' => HasJob(d)
      BY <2>2, <1>2, <1>3, Places
    <2> QED
      BY <2>1, <2>2, <2>3, <1>1, <1>2, <1>3, JobsShrink DEF OneJob
  <1> QED
    BY <1>4, <1>5

LEMMA CreatorEnqueueSingle ==
    ASSUME IInv, SingleJobs, NEW c \in Creators, CreatorEnqueue(c)
    PROVE  SingleJobs'
  <1> SUFFICES ASSUME NEW d \in Dishes \ doubled PROVE OneJob(d)'
    BY DEF SingleJobs, CreatorEnqueue
  <1>1. OneJob(d)
    BY DEF SingleJobs
  <1>2. PICK e \in creating[c] :
            Enqueue(e) /\ creating' = [creating EXCEPT ![c] = @ \ {e}]
    BY DEF CreatorEnqueue
  <1>3. e \in Dishes /\ TypeOK
    BY <1>2 DEF IInv, TypeOK
  <1>4. UNCHANGED <<state, held, task, sweep>>
    BY DEF CreatorEnqueue, rows
  <1>5. Busy(d)' = Busy(d) /\ Swept(d)' = Swept(d)
    BY <1>4 DEF Busy, Swept, On
  <1>6. CASE d = e
    <2>1. c \in Creating(d) /\ HasJob(d)
      BY <1>2, <1>6 DEF Creating, HasJob
    <2>2. Queued(d) = {} /\ Busy(d) = {} /\ held # d
      BY <2>1, <1>1 DEF OneJob
    <2>3. Creating(d) = {c}
      BY <2>1, <1>1 DEF OneJob, AtMostOne
    <2>4. Creating(d)' = {}
      BY <2>3, <1>2, <1>3, <1>6 DEF Creating, TypeOK
    <2>5. AtMostOne(Queued(d)')
      BY <2>2, <1>2, <1>3, <1>6, EnqueuePlaces DEF AtMostOne
    <2> QED
      BY <2>1, <2>2, <2>4, <2>5, <1>1, <1>4, <1>5 DEF OneJob, AtMostOne
  <1>7. CASE d # e
    <2>1. Queued(d)' = Queued(d)
      BY <1>2, <1>3, <1>7, EnqueuePlaces
    <2>2. Creating(d)' \subseteq Creating(d)
      BY <1>2, <1>3, <1>7 DEF Creating, TypeOK
    <2>3. HasJob(d)' => HasJob(d)
      BY <2>1, <2>2, <1>4, <1>5, Places
    <2> QED
      BY <2>1, <2>2, <2>3, <1>1, <1>4, <1>5, JobsShrink DEF OneJob
  <1> QED
    BY <1>6, <1>7

LEMMA CreatorDroppedSingle ==
    ASSUME IInv, SingleJobs, NEW c \in Creators, CreatorDropped(c)
    PROVE  SingleJobs'
  <1> SUFFICES ASSUME NEW d \in Dishes \ doubled PROVE OneJob(d)'
    BY DEF SingleJobs, CreatorDropped
  <1>1. OneJob(d)
    BY DEF SingleJobs
  <1>2. UNCHANGED <<state, queue, held, task, sweep>>
    BY DEF CreatorDropped, rows
  <1>3. Queued(d)' = Queued(d) /\ Busy(d)' = Busy(d) /\ Swept(d)' = Swept(d)
    BY <1>2 DEF Queued, Busy, Swept, On
  <1>4. Creating(d)' \subseteq Creating(d)
    BY DEF CreatorDropped, IInv, TypeOK, Creating
  <1>5. HasJob(d)' => HasJob(d)
    BY <1>2, <1>3, <1>4, Places
  <1> QED
    BY <1>1, <1>2, <1>3, <1>4, <1>5, JobsShrink DEF OneJob

LEMMA ReceiveSingle == ASSUME IInv, SingleJobs, Receive PROVE SingleJobs'
  <1> SUFFICES ASSUME NEW d \in Dishes \ doubled PROVE OneJob(d)'
    BY DEF SingleJobs, Receive
  <1>1. OneJob(d)
    BY DEF SingleJobs
  <1>2. queue \in Seq(Dishes) /\ queue # <<>> /\ Len(queue) \in Nat
    BY DEF IInv, TypeOK, Receive
  <1>3. /\ held' = queue[1] /\ held = None /\ None # d
        /\ Len(queue') = Len(queue) - 1
        /\ \A i \in 1 .. Len(queue') : queue'[i] = queue[i + 1]
        /\ 1 \in 1 .. Len(queue)
    BY <1>2, ConstantsAssumption DEF Receive
  <1>4. UNCHANGED <<state, task, creating, sweep>>
    BY DEF Receive, rows
  <1>5. Creating(d)' = Creating(d) /\ Busy(d)' = Busy(d) /\ Swept(d)' = Swept(d)
    BY <1>4 DEF Busy, Creating, Swept, On
  <1>6. \A i \in Queued(d)' : i + 1 \in Queued(d)
    BY <1>2, <1>3 DEF Queued
  <1>7. held' = d => 1 \in Queued(d)
    BY <1>3 DEF Queued
  <1>8. AtMostOne(Queued(d)')
    <2> SUFFICES ASSUME NEW i \in Queued(d)', NEW j \in Queued(d)' PROVE i = j
      BY DEF AtMostOne
    <2>1. i + 1 = j + 1
      BY <1>6, <1>1 DEF OneJob, AtMostOne
    <2>2. i \in Nat /\ j \in Nat
      BY <1>2, <1>3 DEF Queued
    <2> QED
      BY <2>1, <2>2
  <1>9. held' = d => Queued(d)' = {}
    <2> SUFFICES ASSUME held' = d, NEW i \in Queued(d)' PROVE FALSE
      OBVIOUS
    <2>1. i + 1 = 1
      BY <1>6, <1>7, <1>1 DEF OneJob, AtMostOne
    <2>2. i \in 1 .. Len(queue')
      BY DEF Queued
    <2>3. i \in Nat /\ i >= 1
      BY <2>2, <1>2, <1>3
    <2> QED
      BY <2>1, <2>3
  <1>10. held' = d \/ Queued(d)' # {} => Queued(d) # {}
    BY <1>6, <1>7
  <1>11. HasJob(d)' => HasJob(d)
    BY <1>5, <1>10, Places
  <1> QED
    BY <1>1, <1>4, <1>5, <1>8, <1>9, <1>10, <1>11 DEF OneJob

LEMMA SpawnSingle == ASSUME IInv, SingleJobs, NEW p \in Permits, Spawn(p) PROVE SingleJobs'
  <1> SUFFICES ASSUME NEW d \in Dishes \ doubled PROVE OneJob(d)'
    BY DEF SingleJobs, Spawn
  <1>1. OneJob(d)
    BY DEF SingleJobs
  <1>2. /\ task'[p] = [pc |-> "call", dish |-> held]
        /\ \A q \in Permits : q # p => task'[q] = task[q]
        /\ held' = None /\ None # d
    BY ConstantsAssumption DEF IInv, TypeOK, Spawn
  <1>3. UNCHANGED <<state, queue, creating, sweep>>
    BY DEF Spawn, rows
  <1>4. Creating(d)' = Creating(d) /\ Queued(d)' = Queued(d) /\ Swept(d)' = Swept(d)
    BY <1>3 DEF Queued, Creating, Swept
  <1>5. CASE held = d
    <2>1. Queued(d) = {} /\ Busy(d) = {} /\ Creating(d) = {} /\ HasJob(d)
      BY <1>1, <1>5, Places DEF OneJob
    <2>2. \A q \in Busy(d)' : q = p
      BY <2>1, <1>2 DEF Busy, On
    <2> QED
      BY <2>1, <2>2, <1>1, <1>2, <1>3, <1>4 DEF OneJob, AtMostOne
  <1>6. CASE held # d
    <2>1. Busy(d)' \subseteq Busy(d)
      BY <1>2, <1>6 DEF Busy, On
    <2>2. HasJob(d)' => HasJob(d)
      BY <2>1, <1>2, <1>4, Places
    <2> QED
      BY <2>1, <2>2, <1>1, <1>2, <1>3, <1>4, JobsShrink DEF OneJob
  <1> QED
    BY <1>5, <1>6

LEMMA TaskSingle ==
    ASSUME IInv, SingleJobs, NEW p \in Permits, TaskStep(p) \/ JobAborts(p) \/ Hang(p)
    PROVE  SingleJobs'
  <1> SUFFICES ASSUME NEW d \in Dishes \ doubled PROVE OneJob(d)'
    BY DEF SingleJobs, TaskStep, Call, StorePriors, MarkState, Push, JobAborts, Hang
  <1>1. OneJob(d)
    BY DEF SingleJobs
  <1>2. UNCHANGED <<queue, held, creating, sweep>>
    BY DEF TaskStep, Call, StorePriors, MarkState, Push, JobAborts, Hang
  <1>3. task[p].pc # "idle"
    BY DEF TaskStep, Call, StorePriors, MarkState, Push, JobAborts, Hang, On
  <1>4. /\ \A q \in Permits : q # p => task'[q] = task[q]
        /\ task'[p].pc = "idle" \/ task'[p].dish \in {task[p].dish, None}
    BY <1>3 DEF TaskStep, Call, StorePriors, MarkState, Push, JobAborts, Hang, IInv, TypeOK, Unused
  <1>5. Busy(d)' \subseteq Busy(d)
    BY <1>3, <1>4, ConstantsAssumption DEF Busy, On
  <1>6. CASE ~ MarkState(p)
    BY <1>1, <1>2, <1>5, <1>6, JobsStay
       DEF TaskStep, Call, StorePriors, Push, JobAborts, Hang, rows
  <1>7. CASE MarkState(p) /\ task[p].dish = d
    <2>1. Busy(d) = {p} /\ HasJob(d)
      BY <1>1, <1>3, <1>7 DEF Busy, OneJob, AtMostOne, On, HasJob
    <2>2. /\ Queued(d)' = {} /\ held' # d /\ Creating(d)' = {} /\ ~ Swept(d)'
      BY <2>1, <1>1, <1>2 DEF OneJob, Queued, Creating, Swept
    <2>3. task'[p].pc = "idle" \/ task'[p].dish = None
      BY <1>7 DEF MarkState, IInv, TypeOK, Unused
    <2>4. Busy(d)' = {}
      BY <2>1, <2>3, <1>5, ConstantsAssumption DEF Busy, On
    <2>5. ~ HasJob(d)'
      BY <2>2, <2>4, Places
    <2> QED
      BY <2>2, <2>4, <2>5 DEF OneJob, AtMostOne, Swept
  <1>8. CASE MarkState(p) /\ task[p].dish # d
    <2>1. state'[d] = state[d]
      BY <1>8 DEF MarkState, IInv, TypeOK
    <2> QED
      BY <2>1, <1>1, <1>2, <1>5, JobsStay
  <1> QED
    BY <1>6, <1>7, <1>8

LEMMA ClockSingle ==
    ASSUME SingleJobs, NEW e \in Dishes, Age(e) \/ Touch(e)
    PROVE  SingleJobs'
  <1>1. UNCHANGED <<state, queue, held, task, creating, sweep, doubled>>
    BY DEF Age, Touch, process
  <1> QED
    BY <1>1 DEF SingleJobs, OneJob, HasJob, Queued, Busy, Creating, Swept, On, AtMostOne

LEMMA SweepReadSingle == ASSUME IInv, SingleJobs, SweepRead PROVE SingleJobs'
  <1> SUFFICES ASSUME NEW d \in Dishes \ doubled' PROVE OneJob(d)'
    BY DEF SingleJobs
  <1>1. d \in Dishes \ doubled
    BY DEF SweepRead
  <1>2. OneJob(d)
    BY <1>1 DEF SingleJobs
  <1>3. UNCHANGED <<state, queue, held, task, creating>>
    BY DEF SweepRead, rows
  <1>4. /\ Queued(d)' = Queued(d) /\ Busy(d)' = Busy(d) /\ Creating(d)' = Creating(d)
        /\ HasJob(d)' = HasJob(d)
    BY <1>3 DEF Queued, Busy, Creating, HasJob, On
  <1>5. sweep'.next # d /\ sweep'.todo = Stuck
    BY ConstantsAssumption DEF SweepRead
  <1>6. Swept(d)' => state'[d] = "classifying" /\ ~ HasJob(d)
    BY <1>3, <1>5 DEF Swept, Stuck, SweepRead
  <1> QED
    BY <1>2, <1>3, <1>4, <1>5, <1>6 DEF OneJob

LEMMA SweepBumpSingle == ASSUME IInv, SingleJobs, SweepBump PROVE SingleJobs'
  <1> SUFFICES ASSUME NEW d \in Dishes \ doubled PROVE OneJob(d)'
    BY DEF SingleJobs, SweepBump
  <1>1. OneJob(d)
    BY DEF SingleJobs
  <1>2. UNCHANGED <<state, queue, held, task, creating>>
    BY DEF SweepBump
  <1>3. /\ Queued(d)' = Queued(d) /\ Busy(d)' = Busy(d) /\ Creating(d)' = Creating(d)
        /\ HasJob(d)' = HasJob(d)
    BY <1>2 DEF Queued, Busy, Creating, HasJob, On
  <1>4. (Swept(d)' => Swept(d)) /\ ~ (d \in sweep'.todo /\ d = sweep'.next)
    BY DEF SweepBump, Swept
  <1> QED
    BY <1>1, <1>2, <1>3, <1>4 DEF OneJob

LEMMA SweepEnqueueSingle == ASSUME IInv, SingleJobs, SweepEnqueue PROVE SingleJobs'
  <1> SUFFICES ASSUME NEW d \in Dishes \ doubled PROVE OneJob(d)'
    BY DEF SingleJobs, SweepEnqueue
  <1>1. OneJob(d)
    BY DEF SingleJobs
  <1>2. /\ sweep.next \in Dishes /\ Enqueue(sweep.next) /\ TypeOK
        /\ sweep' = [todo |-> sweep.todo, next |-> None] /\ None # d
    BY ConstantsAssumption DEF IInv, TypeOK, SweepEnqueue
  <1>3. UNCHANGED <<state, held, task, creating>>
    BY DEF SweepEnqueue, rows
  <1>4. Busy(d)' = Busy(d) /\ Creating(d)' = Creating(d)
    BY <1>3 DEF Busy, Creating, On
  <1>5. CASE d = sweep.next
    <2>1. Swept(d) /\ ~ HasJob(d) /\ d \notin sweep.todo
      BY <1>1, <1>5 DEF Swept, OneJob
    <2>2. Queued(d) = {} /\ held # d /\ Busy(d) = {} /\ Creating(d) = {}
      BY <2>1, Places
    <2>3. AtMostOne(Queued(d)')
      BY <2>2, <1>2, <1>5, EnqueuePlaces DEF AtMostOne
    <2>4. ~ Swept(d)'
      BY <2>1, <1>2 DEF Swept
    <2> QED
      BY <2>1, <2>2, <2>3, <2>4, <1>1, <1>3, <1>4 DEF OneJob, AtMostOne, Swept
  <1>6. CASE d # sweep.next
    <2>1. Queued(d)' = Queued(d)
      BY <1>2, <1>6, EnqueuePlaces
    <2>2. (Swept(d)' => Swept(d)) /\ d # sweep'.next
      BY <1>2 DEF Swept
    <2>3. HasJob(d)' => HasJob(d)
      BY <2>1, <1>3, <1>4, Places
    <2> QED
      BY <2>1, <2>2, <2>3, <1>1, <1>3, <1>4, JobsShrink DEF OneJob
  <1> QED
    BY <1>5, <1>6

LEMMA SweepAbortsSingle == ASSUME IInv, SingleJobs, SweepAborts PROVE SingleJobs'
  <1> SUFFICES ASSUME NEW d \in Dishes \ doubled PROVE OneJob(d)'
    BY DEF SingleJobs, SweepAborts
  <1>1. OneJob(d)
    BY DEF SingleJobs
  <1>2. UNCHANGED <<state, queue, held, task, creating>> /\ sweep' = NoSweep /\ None # d
    BY ConstantsAssumption DEF SweepAborts, rows
  <1>3. /\ Queued(d)' = Queued(d) /\ Busy(d)' = Busy(d) /\ Creating(d)' = Creating(d)
        /\ HasJob(d)' = HasJob(d) /\ ~ Swept(d)' /\ d # sweep'.next
    BY <1>2 DEF Queued, Busy, Creating, HasJob, On, Swept, NoSweep
  <1> QED
    BY <1>1, <1>2, <1>3 DEF OneJob

LEMMA RestartSingle == ASSUME IInv, Restart PROVE SingleJobs'
  <1> SUFFICES ASSUME NEW d \in Dishes PROVE OneJob(d)'
    BY DEF SingleJobs
  <1>1. /\ queue' = <<>> /\ held' # d /\ sweep' = NoSweep /\ None # d
        /\ \A p \in Permits : task'[p].pc = "idle"
        /\ \A c \in Creators : creating'[c] = {}
    BY ConstantsAssumption DEF Restart, Unused
  <1>2. Queued(d)' = {} /\ Busy(d)' = {} /\ Creating(d)' = {} /\ ~ Swept(d)'
    BY <1>1 DEF Queued, Busy, Creating, On, Swept, NoSweep
  <1>3. ~ HasJob(d)'
    BY <1>1, <1>2, Places
  <1> QED
    BY <1>1, <1>2, <1>3 DEF OneJob, AtMostOne, Swept

LEMMA InitSingle == Init => SingleJobs
  <1> SUFFICES ASSUME Init, NEW d \in Dishes PROVE OneJob(d)
    BY DEF SingleJobs
  <1>1. Queued(d) = {} /\ held # d /\ Busy(d) = {} /\ Creating(d) = {} /\ ~ Swept(d)
    BY ConstantsAssumption DEF Init, Queued, Busy, Creating, On, Unused, Swept, NoSweep
  <1>2. ~ HasJob(d)
    BY <1>1, Places
  <1> QED
    BY <1>1, <1>2 DEF OneJob, AtMostOne, Swept

LEMMA NextSingle == IInv /\ SingleJobs /\ [Next]_vars => SingleJobs'
  <1> SUFFICES ASSUME IInv, SingleJobs, [Next]_vars PROVE SingleJobs'
    OBVIOUS
  <1>1. CASE UNCHANGED vars
    BY <1>1 DEF vars, rows, process, SingleJobs, OneJob, HasJob, Queued, Busy, Creating,
       Swept, On, AtMostOne
  <1>2. CASE Next
    BY <1>2, CreateSingle, CreatorEnqueueSingle, CreatorDroppedSingle, ReceiveSingle,
       SpawnSingle, TaskSingle, ClockSingle, SweepReadSingle, SweepBumpSingle,
       SweepEnqueueSingle, SweepAbortsSingle, RestartSingle DEF Next, Dispatch, Sweep
  <1> QED
    BY <1>1, <1>2

\* Only MarkState changes the state of a settled dish, and the dish of a job is
\* classifying unless the sweep doubled it.
LEMMA VerdictStands ==
    ASSUME IInv, SingleJobs, [Next]_vars, NEW d \in Dishes,
           state[d] \in {"classified", "failed"}, state'[d] # state[d]
    PROVE  d \in doubled
  <1>1. PICK p \in Permits : MarkState(p)
    BY DEF Next, vars, rows, TaskStep, Create, CreatorEnqueue, CreatorDropped, Receive, Spawn,
       Call, StorePriors, Push, JobAborts, Hang, Age, Touch, SweepRead, SweepBump, SweepEnqueue,
       SweepAborts, Restart, Dispatch, Sweep, IInv, TypeOK
  <1>2. task[p].dish = d /\ task[p].pc # "idle"
    BY <1>1 DEF MarkState, IInv, TypeOK
  <1>3. HasJob(d)
    BY <1>2 DEF HasJob, On
  <1> QED
    BY <1>3 DEF SingleJobs, OneJob

-----------------------------------------------------------------------------
\* Everything below follows from the inductive invariant.
THEOREM Invariance == Spec => []IInv
  <1> QED
    BY InitIInv, NextIInv, PTL DEF Spec

\* The variables keep their types; the channel never holds more than Capacity jobs.
THEOREM TypeCorrect == Spec => []TypeOK
  <1>1. IInv => TypeOK
    BY DEF IInv
  <1> QED
    BY Invariance, <1>1, PTL

\* However jobs of one dish race and wherever they are cut off, a dish that is
\* shown as classified has its priors.
THEOREM PriorsBeforeStatus == Spec => []ClassifiedHasPriors
  <1>1. IInv => ClassifiedHasPriors
    BY DEF IInv
  <1> QED
    BY Invariance, <1>1, PTL

\* However creators, dispatcher, jobs and sweep interleave on a full or empty
\* channel, only a fault can part a waiting dish from its job.
THEOREM NoneForgotten == Spec => []NoJobForgotten
  <1>1. IInv => NoJobForgotten
    BY DEF IInv
  <1> QED
    BY Invariance, <1>1, PTL

\* However slow a job is, its verdict is overturned only for a dish that the sweep
\* gave a second job while it had one.
THEOREM VerdictFinal == Spec => OverturnedOnlyIfDoubled
  <1>1. Spec => []SingleJobs
    BY Invariance, InitSingle, NextSingle, PTL DEF Spec
  <1>2. IInv /\ SingleJobs /\ [Next]_vars
           => [\A d \in Dishes :
                 /\ state[d] \in {"classified", "failed"}
                 /\ state'[d] # state[d]
                 => d \in doubled]_vars
    BY VerdictStands
  <1> QED
    BY Invariance, <1>1, <1>2, PTL DEF Spec, OverturnedOnlyIfDoubled

-----------------------------------------------------------------------------
(* Crawler *)

Active(c) == crawl[c].pc \in {"insert", "scan", "hung"}

\* Unless two crawls raced, one at most is past its check.
OneActive ==
    ~ raced => \A c, d \in Crawls : Active(c) /\ Active(d) => c = d

CrawlIInv == CrawlTypeOK /\ OneActive

-----------------------------------------------------------------------------
\* What a crawl is doing, by its program counter.
LEMMA CrawlShape ==
    ASSUME CrawlTypeOK, NEW c \in Crawls
    PROVE  /\ crawl[c].pc \in {"idle", "check", "insert", "scan", "hung"}
           /\ crawl[c].pc # "idle" =>
                /\ crawl[c] = [pc |-> crawl[c].pc, rest |-> crawl[c].rest]
                /\ crawl[c].rest \in Seq(City) /\ crawl[c].rest # <<>>
  <1>1. crawl[c] \in Doing
    BY DEF CrawlTypeOK
  <1> QED
    BY <1>1 DEF Doing, Idle

LEMMA CitiesTyped == Cities \in Seq(City) \ {<<>>}
  BY CrawlAssumption DEF City

\* The new state of one crawl, and the old one of the others.
LEMMA Others ==
    ASSUME CrawlTypeOK, NEW c \in Crawls, NEW q \in Doing, crawl' = [crawl EXCEPT ![c] = q]
    PROVE  /\ crawl' \in [Crawls -> Doing]
           /\ crawl'[c] = q /\ \A d \in Crawls \ {c} : crawl'[d] = crawl[d]
  BY DEF CrawlTypeOK

LEMMA StartTyped ==
    ASSUME CrawlTypeOK, NEW c \in Crawls, NEW s \in Seq(City) \ {<<>>}, Start(c, s)
    PROVE  /\ crawl' \in [Crawls -> Doing]
           /\ crawl'[c].pc = "check" /\ \A d \in Crawls \ {c} : crawl'[d] = crawl[d]
  <1> DEFINE q == [pc |-> "check", rest |-> s]
  <1>1. q \in Doing
    BY DEF Doing
  <1> QED
    BY <1>1, Others DEF Start

\* The rest of a sequence of two or more is a sequence that is not empty.
LEMMA TailTyped ==
    ASSUME NEW S, NEW s \in Seq(S), Len(s) > 1
    PROVE  Tail(s) \in Seq(S) /\ Tail(s) # <<>>
  <1>1. Tail(s) \in Seq(S) /\ Len(Tail(s)) = Len(s) - 1
    OBVIOUS
  <1>2. Len(s) \in Nat
    OBVIOUS
  <1>3. Len(Tail(s)) # 0
    BY <1>1, <1>2
  <1>4. Len(<<>>) = 0
    OBVIOUS
  <1> QED
    BY <1>1, <1>3, <1>4, Zenon

\* The next city is checked, or the crawl is over: it is not active.
LEMMA NextCityTyped ==
    ASSUME CrawlTypeOK, NEW c \in Crawls, crawl[c].pc # "idle", NextCity(c)
    PROVE  /\ crawl' \in [Crawls -> Doing]
           /\ crawl'[c].pc \in {"idle", "check"}
           /\ \A d \in Crawls \ {c} : crawl'[d] = crawl[d]
  <1> DEFINE s == crawl[c].rest
             q == IF Len(s) > 1 THEN [pc |-> "check", rest |-> Tail(s)] ELSE Idle
  <1>1. s \in Seq(City)
    BY CrawlShape
  <1>2. ASSUME Len(s) > 1 PROVE Tail(s) \in Seq(City) /\ Tail(s) # <<>>
    BY <1>1, <1>2, TailTyped
  <1>3. q \in Doing
    BY <1>2 DEF Doing
  <1>4. crawl' = [crawl EXCEPT ![c] = q]
    BY DEF NextCity, CrawlTypeOK
  <1>5. q.pc \in {"idle", "check"}
    BY DEF Idle
  <1> QED
    BY <1>3, <1>4, <1>5, Others

LEMMA BecomeTyped ==
    ASSUME CrawlTypeOK, NEW c \in Crawls, crawl[c].pc # "idle", NEW p \in {"insert", "scan", "hung"}, Become(c, p)
    PROVE  /\ crawl' \in [Crawls -> Doing]
           /\ crawl'[c].pc = p /\ \A d \in Crawls \ {c} : crawl'[d] = crawl[d]
  <1> DEFINE q == [pc |-> p, rest |-> crawl[c].rest]
  <1>1. q \in Doing
    BY CrawlShape DEF Doing
  <1>2. [crawl[c] EXCEPT !.pc = p] = q
    <2>1. crawl[c] = [pc |-> crawl[c].pc, rest |-> crawl[c].rest]
      BY CrawlShape
    <2> QED
      BY <2>1
  <1>3. crawl' = [crawl EXCEPT ![c] = q]
    BY <1>2 DEF Become
  <1> QED
    BY <1>1, <1>3, Others

\* A step after which only crawls are active that were active before.
LEMMA NoneActivated ==
    ASSUME OneActive, UNCHANGED raced, \A c \in Crawls : Active(c)' => Active(c)
    PROVE  OneActive'
  BY DEF OneActive

-----------------------------------------------------------------------------
LEMMA CrawlInitIInv == CrawlInit => CrawlIInv
  <1> SUFFICES ASSUME CrawlInit PROVE CrawlIInv
    OBVIOUS
  <1>1. crawl \in [Crawls -> Doing]
    BY DEF CrawlInit, Doing
  <1>2. newest \in 0 .. Period /\ age \in [City -> 0 .. Period] /\ failures \in 0 .. MaxFailures
    BY CrawlAssumption DEF CrawlInit
  <1>3. CrawlTypeOK
    BY <1>1, <1>2 DEF CrawlInit, CrawlTypeOK
  <1>4. \A c \in Crawls : ~ Active(c)
    BY DEF CrawlInit, Idle, Active
  <1> QED
    BY <1>3, <1>4 DEF CrawlIInv, OneActive

LEMMA FailTyped == ASSUME CrawlTypeOK, Fail PROVE failures' \in 0 .. MaxFailures
  BY CrawlAssumption DEF CrawlTypeOK, Fail

LEMMA WakeIInv ==
    ASSUME CrawlIInv, Wake \/ WakeOnError
    PROVE  CrawlIInv'
  <1>1. Start(Scheduler, Cities) /\ UNCHANGED <<abandoned, ages, raced, stuck>>
    BY DEF Wake, WakeOnError
  <1>2. /\ crawl' \in [Crawls -> Doing]
        /\ crawl'[Scheduler].pc = "check"
        /\ \A d \in Crawls \ {Scheduler} : crawl'[d] = crawl[d]
    BY <1>1, CitiesTyped, StartTyped DEF CrawlIInv, Crawls
  <1>3. failures' \in 0 .. MaxFailures
    BY FailTyped DEF Wake, WakeOnError, CrawlIInv, CrawlTypeOK
  <1>4. CrawlTypeOK'
    BY <1>1, <1>2, <1>3 DEF CrawlIInv, CrawlTypeOK, ages
  <1>5. OneActive'
    BY <1>1, <1>2, NoneActivated DEF CrawlIInv, Active
  <1> QED
    BY <1>4, <1>5 DEF CrawlIInv

LEMMA TriggerIInv ==
    ASSUME CrawlIInv, NEW c \in Triggers, NEW s \in Seq(City) \ {<<>>}, Trigger(c, s)
    PROVE  CrawlIInv'
  <1>1. Start(c, s) /\ UNCHANGED <<abandoned, ages, failures, raced, stuck>>
    BY DEF Trigger
  <1>2. /\ crawl' \in [Crawls -> Doing]
        /\ crawl'[c].pc = "check"
        /\ \A d \in Crawls \ {c} : crawl'[d] = crawl[d]
    BY <1>1, StartTyped DEF CrawlIInv, Crawls
  <1>3. CrawlTypeOK'
    BY <1>1, <1>2 DEF CrawlIInv, CrawlTypeOK, ages
  <1>4. OneActive'
    BY <1>1, <1>2, NoneActivated DEF CrawlIInv, Active
  <1> QED
    BY <1>3, <1>4 DEF CrawlIInv

\* The check that passes sees no row, and records a crawl that has passed it too.
LEMMA CheckIInv ==
    ASSUME CrawlIInv, NEW c \in Crawls, Check(c)
    PROVE  CrawlIInv'
  <1>1. crawl[c].pc = "check" /\ UNCHANGED <<abandoned, ages, failures, stuck>>
    BY DEF Check, At
  <1>2. CASE HasRunningCrawl
    <2>1. NextCity(c) /\ UNCHANGED raced
      BY <1>2 DEF Check
    <2>2. /\ crawl' \in [Crawls -> Doing]
          /\ crawl'[c].pc \in {"idle", "check"}
          /\ \A d \in Crawls \ {c} : crawl'[d] = crawl[d]
      BY <1>1, <2>1, NextCityTyped DEF CrawlIInv
    <2>3. CrawlTypeOK'
      BY <1>1, <2>1, <2>2 DEF CrawlIInv, CrawlTypeOK, ages
    <2>4. OneActive'
      BY <2>1, <2>2, NoneActivated DEF CrawlIInv, Active
    <2> QED
      BY <2>3, <2>4 DEF CrawlIInv
  <1>3. CASE ~ HasRunningCrawl
    <2>1. Become(c, "insert") /\ raced' = (raced \/ \E d \in Crawls : At(d, "insert"))
      BY <1>3 DEF Check
    <2>2. /\ crawl' \in [Crawls -> Doing]
          /\ crawl'[c].pc = "insert"
          /\ \A d \in Crawls \ {c} : crawl'[d] = crawl[d]
      BY <1>1, <2>1, BecomeTyped DEF CrawlIInv
    <2>3. raced' \in BOOLEAN
      BY <2>1 DEF CrawlIInv, CrawlTypeOK
    <2>4. CrawlTypeOK'
      BY <1>1, <2>2, <2>3 DEF CrawlIInv, CrawlTypeOK, ages
    <2>5. OneActive'
      <3> SUFFICES ASSUME ~ raced' PROVE OneActive'
        BY DEF OneActive
      <3>1. \A d \in Crawls : ~ Active(d)
        BY <1>3, <2>1 DEF HasRunningCrawl, Scanning, At, Active
      <3>2. \A d \in Crawls \ {c} : ~ Active(d)'
        BY <2>2, <3>1 DEF Active
      <3> QED
        BY <3>2 DEF OneActive
    <2> QED
      BY <2>4, <2>5 DEF CrawlIInv
  <1> QED
    BY <1>2, <1>3

LEMMA BecomeIInv ==
    ASSUME CrawlIInv, NEW c \in Crawls, Insert(c) \/ ScanHangs(c)
    PROVE  CrawlIInv'
  <1>1. PICK p \in {"scan", "hung"} : Become(c, p)
    BY DEF Insert, ScanHangs
  <1>2. /\ crawl[c].pc \in {"insert", "scan"}
        /\ UNCHANGED <<abandoned, ages, failures, raced>> /\ stuck' \in BOOLEAN
    BY DEF Insert, ScanHangs, At, CrawlIInv, CrawlTypeOK
  <1>3. /\ crawl' \in [Crawls -> Doing]
        /\ \A d \in Crawls \ {c} : crawl'[d] = crawl[d]
    BY <1>1, <1>2, BecomeTyped DEF CrawlIInv
  <1>4. CrawlTypeOK'
    BY <1>2, <1>3 DEF CrawlIInv, CrawlTypeOK, ages
  <1>5. OneActive'
    BY <1>2, <1>3, NoneActivated DEF CrawlIInv, Active
  <1> QED
    BY <1>4, <1>5 DEF CrawlIInv

\* Any way in which a crawl is done with its city.
LEMMA DoneIInv ==
    ASSUME CrawlIInv, NEW c \in Crawls, Complete(c) \/ CheckFails(c) \/ CompleteFails(c) \/ StampFails(c)
    PROVE  CrawlIInv'
  <1>1. crawl[c].pc # "idle" /\ NextCity(c) /\ UNCHANGED raced
    BY DEF Complete, CheckFails, CompleteFails, StampFails, At
  <1>2. /\ crawl' \in [Crawls -> Doing]
        /\ crawl'[c].pc \in {"idle", "check"}
        /\ \A d \in Crawls \ {c} : crawl'[d] = crawl[d]
    BY <1>1, NextCityTyped DEF CrawlIInv
  <1>3. failures' \in 0 .. MaxFailures
    BY FailTyped DEF Complete, CheckFails, CompleteFails, StampFails, CrawlIInv, CrawlTypeOK
  <1>4. abandoned' \in BOOLEAN /\ stuck' \in BOOLEAN
    BY DEF Complete, CheckFails, CompleteFails, StampFails, CrawlIInv, CrawlTypeOK
  <1>5. newest' \in 0 .. Period /\ age' \in [City -> 0 .. Period]
    BY CrawlAssumption DEF Complete, CheckFails, CompleteFails, StampFails, ages, CrawlIInv, CrawlTypeOK
  <1>6. CrawlTypeOK'
    BY <1>1, <1>2, <1>3, <1>4, <1>5 DEF CrawlIInv, CrawlTypeOK
  <1>7. OneActive'
    BY <1>1, <1>2, NoneActivated DEF CrawlIInv, Active
  <1> QED
    BY <1>6, <1>7 DEF CrawlIInv

LEMMA ServerRestartsIInv == ASSUME CrawlIInv, ServerRestarts PROVE CrawlIInv'
  <1>1. crawl' = [c \in Crawls |-> Idle] /\ UNCHANGED <<ages, raced>>
    BY DEF ServerRestarts
  <1>2. crawl' \in [Crawls -> Doing] /\ \A c \in Crawls : ~ Active(c)'
    BY <1>1 DEF Doing, Idle, Active
  <1>3. failures' \in 0 .. MaxFailures
    BY FailTyped DEF ServerRestarts, CrawlIInv
  <1>4. abandoned' \in BOOLEAN /\ stuck' \in BOOLEAN
    BY DEF ServerRestarts, CrawlIInv, CrawlTypeOK
  <1>5. CrawlTypeOK'
    BY <1>1, <1>2, <1>3, <1>4 DEF CrawlIInv, CrawlTypeOK, ages
  <1> QED
    BY <1>2, <1>5 DEF CrawlIInv, OneActive

LEMMA TickIInv == ASSUME CrawlIInv, Tick PROVE CrawlIInv'
  <1>1. \A n \in 0 .. Period : Older(n) \in 0 .. Period
    BY CrawlAssumption DEF Older
  <1>2. newest' \in 0 .. Period /\ age' \in [City -> 0 .. Period]
    BY <1>1 DEF Tick, CrawlIInv, CrawlTypeOK
  <1>3. CrawlTypeOK'
    BY <1>2 DEF Tick, CrawlIInv, CrawlTypeOK
  <1>4. OneActive'
    BY DEF Tick, CrawlIInv, OneActive, Active
  <1> QED
    BY <1>3, <1>4 DEF CrawlIInv

LEMMA CrawlNextIInv == CrawlIInv /\ [CrawlNext]_crawlVars => CrawlIInv'
  <1> SUFFICES ASSUME CrawlIInv, [CrawlNext]_crawlVars PROVE CrawlIInv'
    OBVIOUS
  <1>1. CASE UNCHANGED crawlVars
    BY <1>1 DEF crawlVars, ages, CrawlIInv, CrawlTypeOK, OneActive, Active
  <1>2. CASE Wake \/ WakeOnError
    BY <1>2, WakeIInv
  <1>3. ASSUME NEW c \in Triggers, Trigger(c, Cities) PROVE CrawlIInv'
    BY <1>3, CitiesTyped, TriggerIInv
  <1>4. ASSUME NEW c \in Triggers, NEW i \in DOMAIN Cities, Trigger(c, <<Cities[i]>>) PROVE CrawlIInv'
    <2>1. <<Cities[i]>> \in Seq(City) \ {<<>>}
      BY DEF City
    <2> QED
      BY <1>4, <2>1, TriggerIInv
  <1>5. ASSUME NEW c \in Crawls, Check(c) PROVE CrawlIInv'
    BY <1>5, CheckIInv
  <1>6. ASSUME NEW c \in Crawls, Insert(c) \/ ScanHangs(c) PROVE CrawlIInv'
    BY <1>6, BecomeIInv
  <1>7. ASSUME NEW c \in Crawls, Complete(c) \/ CheckFails(c) \/ CompleteFails(c) \/ StampFails(c)
        PROVE  CrawlIInv'
    BY <1>7, DoneIInv
  <1>8. CASE ServerRestarts
    BY <1>8, ServerRestartsIInv
  <1>9. CASE Tick
    BY <1>9, TickIInv
  <1> QED
    BY <1>1, <1>2, <1>3, <1>4, <1>5, <1>6, <1>7, <1>8, <1>9 DEF CrawlNext, Step

\* The state of the crawls is well formed and one of them is past its check, or two raced.
THEOREM Invariant == CrawlSpec => []CrawlIInv
  BY CrawlInitIInv, CrawlNextIInv, PTL DEF CrawlSpec

-----------------------------------------------------------------------------
\* What each crawl does and has left to do is well formed in every reachable state.
THEOREM CrawlTypeCorrect == CrawlSpec => []CrawlTypeOK
  <1>1. CrawlIInv => CrawlTypeOK
    BY DEF CrawlIInv
  <1> QED
    BY <1>1, Invariant, PTL

\* Two crawls scan together only if both checked before either inserted its row.
THEOREM NoOverlap == CrawlSpec => []OverlapOnlyByRace
  <1>1. CrawlIInv => OverlapOnlyByRace
    <2>1. CASE raced
      BY <2>1 DEF OverlapOnlyByRace
    <2>2. ASSUME CrawlIInv, ~ raced PROVE OverlapOnlyByRace
      <3>1. Scanning = {} \/ \E c : Scanning = {c}
        <4>1. \A c, d \in Scanning : c = d
          BY <2>2 DEF CrawlIInv, OneActive, Active, Scanning, At
        <4> QED
          BY <4>1
      <3>2. Cardinality(Scanning) \in {0, 1}
        BY <3>1, FS_EmptySet, FS_Singleton
      <3> QED
        BY <3>2 DEF OverlapOnlyByRace
    <2> QED
      BY <2>1, <2>2
  <1> QED
    BY <1>1, Invariant, PTL
=============================================================================
