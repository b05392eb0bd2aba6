----------------------- MODULE EditGovernance_proofs -----------------------
(***************************************************************************)
(* Proofs, for any number of users, suggestions and concurrent requests and *)
(* any threshold, that the safety properties of EditGovernance hold.        *)
(***************************************************************************)
EXTENDS EditGovernance, FiniteSetTheorems, TLAPS

\* What the votes of a suggestion are once r's own vote is among them.
Ballot(r) == [votes[r.s] EXCEPT ![r.user] = r.dir]

Reached(V) == Cardinality(V) >= Threshold

\* Why the UPDATE of the entity of s may have found no row.
Excused(s) == s \in unfounded \cup overtaken

\* The life of a suggestion: requests are about suggestions that exist; a
\* suggestion and a request about to write point at an entity that is there, and
\* a request about to mark its suggestion has written it, or there is an excuse.
Life ==
    /\ \A h \in Handlers : ~ On(h, "idle") => status[req[h].s] # "absent"
    /\ \A s \in Suggestions : status[s] # "absent" => entity[s] \in there \/ s \in unfounded
    /\ \A h \in Handlers : On(h, "write") => req[h].e \in there \/ Excused(req[h].s)
    /\ \A h \in Handlers : On(h, "mark") => req[h].s \in applied \/ Excused(req[h].s)
    /\ ApprovedWasApplied

\* The count: a transaction no other one overtook holds the right number.
Count ==
    /\ NetVotesExact
    /\ \A h \in Handlers :
         On(h, "commit") /\ ~ req[h].stale => req[h].net = Tally(Ballot(req[h]))

\* The gate: whoever is up in a table that is or will be at the threshold has
\* been recorded as an up-voter, and the author never votes.
Gate ==
    /\ \A h \in Handlers :
         req[h].pc \in {"count", "commit", "refetch"} => req[h].user # Author[req[h].s]
    /\ \A s \in Suggestions : Author[s] \notin upvoters[s] /\ Ups(votes[s]) \subseteq upvoters[s]
    /\ \A s \in Suggestions : netVotes[s] >= Threshold => Reached(upvoters[s])
    /\ \A h \in Handlers :
         On(h, "commit") /\ req[h].net >= Threshold =>
            Reached(upvoters[req[h].s] \cup (IF req[h].dir = "up" THEN {req[h].user} ELSE {}))
    /\ \A h \in Handlers :
         req[h].pc \in {"load", "write"} /\ req[h].by = "vote" => Reached(upvoters[req[h].s])
    /\ AutoApplyHadVoters

IInv == TypeOK /\ Life /\ Count /\ Gate

-----------------------------------------------------------------------------
\* A request's record, by its program counter.
LEMMA RequestShape ==
    ASSUME TypeOK, NEW h \in Handlers
    PROVE  /\ req[h].pc \in {"idle", "count", "commit", "refetch", "load", "write", "mark"}
           /\ ~ On(h, "idle") => req[h].s \in Suggestions
           /\ req[h].pc \in {"count", "commit", "refetch"} =>
                 req[h].user \in Users /\ req[h].dir \in {"up", "down"}
           /\ On(h, "commit") => req[h].net \in Int /\ req[h].stale \in BOOLEAN
           /\ req[h].pc \in {"load", "write", "mark"} => req[h].by \in {"vote", "admin"}
           /\ On(h, "write") => req[h].e \in Entities
  <1>1. req[h] \in Requests
    BY DEF TypeOK
  <1> QED
    BY <1>1 DEF Requests, VoteRequests, ApplyRequests, Idle, On

\* Overtake changes nothing of a request but its stale flag.
LEMMA OvertakeShape ==
    ASSUME NEW r \in Requests, NEW s \in Suggestions
    PROVE  /\ Overtake(r, s) \in Requests
           /\ Overtake(r, s).pc = r.pc
           /\ r.pc # "idle" => Overtake(r, s).s = r.s /\ Overtake(r, s).by = r.by
           /\ r.pc \in {"count", "commit", "refetch"} =>
                 Overtake(r, s).user = r.user /\ Overtake(r, s).dir = r.dir
           /\ r.pc = "commit" => Overtake(r, s).net = r.net
           /\ r.pc = "commit" /\ r.s = s => Overtake(r, s).stale
           /\ r.pc = "commit" /\ r.s # s => Overtake(r, s).stale = r.stale
           /\ r.pc # "commit" => Overtake(r, s) = r
  <1>1. CASE r.pc = "commit" /\ r.s = s
    <2>1. /\ r.user \in Users /\ r.dir \in {"up", "down"} /\ r.net \in Int
          /\ r.by = "vote"
      BY <1>1 DEF Requests, VoteRequests, ApplyRequests, Idle
    <2>2. Overtake(r, s) = [pc |-> "commit", by |-> "vote", s |-> s, user |-> r.user,
                            dir |-> r.dir, net |-> r.net, stale |-> TRUE]
      BY <1>1 DEF Overtake
    <2>3. Overtake(r, s) \in Requests
      BY <2>1, <2>2 DEF Requests, VoteRequests
    <2> QED
      BY <1>1, <2>1, <2>2, <2>3
  <1>2. CASE ~ (r.pc = "commit" /\ r.s = s)
    BY <1>2 DEF Overtake
  <1> QED
    BY <1>1, <1>2

\* A set of users is finite, its cardinality is a natural number and grows with it.
LEMMA UserSets ==
    ASSUME NEW V \in SUBSET Users, NEW U \in SUBSET V
    PROVE  /\ Cardinality(V) \in Nat
           /\ Cardinality(U) \in Nat
           /\ Reached(U) => Reached(V)
  <1>1. IsFiniteSet(V) /\ IsFiniteSet(U)
    BY FS_Subset, ConstantsAssumption
  <1>2. Cardinality(V) \in Nat /\ Cardinality(U) \in Nat /\ Cardinality(U) <= Cardinality(V)
    BY <1>1, FS_Subset, FS_CardinalityType
  <1> QED
    BY <1>2, ConstantsAssumption DEF Reached

\* A positive net count needs at least that many up-votes.
LEMMA TallyBound ==
    ASSUME NEW b \in Ballots
    PROVE  /\ Tally(b) \in Int
           /\ Tally(b) >= Threshold => Reached(Ups(b))
  <1>1. Ups(b) \in SUBSET Users /\ Downs(b) \in SUBSET Users
    BY DEF Ups, Downs
  <1>2. Cardinality(Ups(b)) \in Nat /\ Cardinality(Downs(b)) \in Nat
    BY <1>1, UserSets
  <1> QED
    BY <1>2, ConstantsAssumption DEF Tally, Reached

\* The up-votes once u voted d are those of before and, if d is up, u.
LEMMA BallotUps ==
    ASSUME NEW b \in Ballots, NEW u \in Users, NEW d \in {"up", "down"}
    PROVE  /\ [b EXCEPT ![u] = d] \in Ballots
           /\ Ups([b EXCEPT ![u] = d]) \subseteq Ups(b) \cup (IF d = "up" THEN {u} ELSE {})
    BY DEF Ballots, Ups

-----------------------------------------------------------------------------
\* A step that adds no vote, and after which every request either is what it
\* was or stands where nothing about votes is claimed, keeps Count and Gate.
LEMMA NoVoteStep ==
    ASSUME IInv,
           UNCHANGED <<votes, netVotes, upvoters, autoApplied, recountStale>>,
           \A h \in Handlers : \/ req'[h] = req[h]
                               \/ req'[h].pc \in {"idle", "mark"}
                               \/ req'[h].pc \in {"load", "write"} /\ req'[h].by = "admin"
                               \/ /\ req[h].pc = "load" /\ req'[h].pc = "write"
                                  /\ req'[h].s = req[h].s /\ req'[h].by = req[h].by
    PROVE  Count' /\ Gate'
  <1> USE DEF IInv
  <1>1. \A h \in Handlers :
          req'[h].pc \in {"count", "commit", "refetch"} => req'[h] = req[h]
    OBVIOUS
  <1>2. \A h \in Handlers :
          req'[h].pc \in {"load", "write"} /\ req'[h].by = "vote" =>
             /\ req[h].pc \in {"load", "write"} /\ req[h].by = "vote"
             /\ req'[h].s = req[h].s
    OBVIOUS
  <1>3. Count'
    BY <1>1 DEF Count, NetVotesExact, Ballot, On
  <1>4. Gate'
    BY <1>1, <1>2 DEF Gate, AutoApplyHadVoters, Reached, On
  <1> QED
    BY <1>3, <1>4

\* A step that leaves the entities alone, moves statuses only to "rejected" and
\* "expired", and after which every request about to write or to mark is what it
\* was, keeps Life.
LEMMA LifeStep ==
    ASSUME IInv,
           UNCHANGED <<entity, there, applied, lost>>,
           \A s \in Suggestions :
              \/ status'[s] = status[s]
              \/ status[s] # "absent" /\ status'[s] \in {"rejected", "expired"},
           \A h \in Handlers :
              /\ req'[h].pc # "idle" =>
                    req'[h].s \in Suggestions /\ status'[req'[h].s] # "absent"
              /\ req'[h].pc \in {"write", "mark"} => req'[h] = req[h]
    PROVE  Life'
  <1>1. UNCHANGED <<entity, there, applied, unfounded, overtaken>>
    BY DEF lost
  <1>2. \A s \in Suggestions :
          status'[s] # "absent" => entity[s] \in there \/ s \in unfounded
    BY DEF IInv, Life
  <1>3. \A h \in Handlers :
          /\ req'[h].pc = "write" => req'[h].e \in there \/ Excused(req'[h].s)
          /\ req'[h].pc = "mark" => req'[h].s \in applied \/ Excused(req'[h].s)
    BY DEF IInv, Life, On
  <1>4. ApprovedWasApplied'
    BY <1>1 DEF IInv, Life, ApprovedWasApplied
  <1> QED
    BY <1>1, <1>2, <1>3, <1>4 DEF Life, Excused, On

-----------------------------------------------------------------------------
\* Nothing exists initially.
LEMMA InitIInv == Init => IInv
  <1> SUFFICES ASSUME Init PROVE IInv
    OBVIOUS
  <1>1. TypeOK
    BY DEF Init, TypeOK, Statuses, Ballots, Requests
  <1>2. \A h \in Handlers : req[h].pc = "idle"
    BY DEF Init, Idle
  <1>3. \A s \in Suggestions : Ups(votes[s]) = {} /\ Downs(votes[s]) = {}
    BY DEF Init, Ups, Downs
  <1>4. \A s \in Suggestions : Tally(votes[s]) = 0
    BY <1>3, FS_EmptySet DEF Tally
  <1>5. Life /\ Count
    BY <1>2, <1>4 DEF Init, Life, Count, ApprovedWasApplied, NetVotesExact, On
  <1>6. Gate
    BY <1>2, <1>3, ConstantsAssumption DEF Init, Gate, AutoApplyHadVoters, On
  <1> QED
    BY <1>1, <1>5, <1>6 DEF IInv

\* The INSERT, which excuses the suggestion if its entity is not there.
LEMMA CreateIInv ==
    ASSUME IInv, NEW s \in Suggestions, CreateSuggestion(s)
    PROVE  IInv'
  <1>1. /\ UNCHANGED <<lapsed, votes, netVotes, entity, there, content, req, applied,
                        autoApplied, overtaken, upvoters, recountStale>>
        /\ status[s] = "absent"
        /\ status' = [status EXCEPT ![s] = "pending"]
        /\ unfounded' = IF entity[s] \in there THEN unfounded ELSE unfounded \cup {s}
    BY DEF CreateSuggestion, entities, written
  <1>2. TypeOK'
    BY <1>1 DEF IInv, TypeOK, Statuses
  <1>3. Life'
    <2>1. \A t \in Suggestions : t # s => status'[t] = status[t]
      BY <1>1 DEF IInv, TypeOK
    <2>2. status'[s] = "pending" /\ (entity[s] \in there \/ s \in unfounded')
      BY <1>1 DEF IInv, TypeOK
    <2>3. unfounded \subseteq unfounded'
      BY <1>1
    <2>4. \A h \in Handlers : req[h].pc # "idle" =>
                                  req[h].s \in Suggestions /\ status'[req[h].s] # "absent"
      BY <2>1, <2>2, RequestShape DEF IInv, Life, On
    <2>5. \A t \in Suggestions :
            status'[t] # "absent" => entity[t] \in there \/ t \in unfounded'
      BY <2>1, <2>2, <2>3 DEF IInv, Life
    <2>6. ApprovedWasApplied'
      BY <1>1, <2>1, <2>2, <2>3 DEF IInv, Life, ApprovedWasApplied
    <2> QED
      BY <1>1, <2>3, <2>4, <2>5, <2>6 DEF IInv, Life, Excused, On
  <1>4. Count' /\ Gate'
    BY <1>1, NoVoteStep
  <1> QED
    BY <1>2, <1>3, <1>4 DEF IInv

\* The merge repoints what it takes the entity from, and excuses the suggestions
\* a request was about to write to it.
LEMMA MergeIInv ==
    ASSUME IInv, NEW from \in Entities, NEW into \in Entities, Merge(from, into)
    PROVE  IInv'
  <1>1. /\ UNCHANGED <<status, lapsed, votes, netVotes, content, req, applied,
                        autoApplied, unfounded, upvoters, recountStale>>
        /\ from \in there /\ into \in there \ {from}
        /\ there' = there \ {from}
        /\ entity' = [s \in Suggestions |->
                        IF status[s] # "absent" /\ entity[s] = from THEN into ELSE entity[s]]
        /\ overtaken' = overtaken \cup Losing(from)
    BY DEF Merge, table, written
  <1>2. TypeOK'
    BY <1>1 DEF IInv, TypeOK, Losing
  <1>3. Life'
    <2>1. \A s \in Suggestions :
            status[s] # "absent" => entity'[s] \in there' \/ s \in unfounded
      BY <1>1 DEF IInv, TypeOK, Life
    <2>2. ASSUME NEW h \in Handlers, req[h].pc = "write"
          PROVE  req[h].e \in there' \/ req[h].s \in unfounded \cup overtaken'
      <3>1. req[h].s \in Suggestions
        BY <2>2, RequestShape DEF IInv, On
      <3>2. CASE req[h].e = from
        BY <1>1, <2>2, <3>1, <3>2 DEF Losing, On
      <3>3. CASE req[h].e # from
        BY <1>1, <2>2, <3>3 DEF IInv, Life, Excused, On
      <3> QED
        BY <3>2, <3>3
    <2>3. ApprovedWasApplied'
      BY <1>1 DEF IInv, Life, ApprovedWasApplied
    <2> QED
      BY <1>1, <2>1, <2>2, <2>3 DEF IInv, Life, Excused, On
  <1>4. Count' /\ Gate'
    BY <1>1, NoVoteStep
  <1> QED
    BY <1>2, <1>3, <1>4 DEF IInv

\* The other steps that move a suggestion's status or its clock.
LEMMA StatusIInv ==
    ASSUME IInv,
           \/ \E s \in Suggestions : Lapse(s) \/ AdminReject(s)
           \/ Expire
    PROVE  IInv'
  <1>1. /\ UNCHANGED <<votes, netVotes, entities, req, history>>
        /\ \A s \in Suggestions :
             \/ status'[s] = status[s]
             \/ status[s] # "absent" /\ status'[s] \in {"rejected", "expired"}
    BY DEF Lapse, AdminReject, Expire, SetIfPending, table, IInv, TypeOK
  <1>2. TypeOK'
    BY DEF Lapse, AdminReject, Expire, SetIfPending, table, entities, history, written, lost,
       IInv, TypeOK, Statuses
  <1>3. UNCHANGED <<votes, netVotes, entity, there, req, applied, autoApplied, lost, upvoters,
                    recountStale>>
    BY <1>1 DEF entities, history, written
  <1>4. Life'
    <2>1. \A h \in Handlers : req[h].pc # "idle" =>
                                  req[h].s \in Suggestions /\ status'[req[h].s] # "absent"
      BY <1>1, RequestShape DEF IInv, Life, On
    <2> QED
      BY <1>1, <1>3, <2>1, LifeStep
  <1>5. Count' /\ Gate'
    BY <1>3, NoVoteStep
  <1> QED
    BY <1>2, <1>4, <1>5 DEF IInv

\* vote_suggestion's first read, by someone who is not the author.
LEMMA VoteBeginIInv ==
    ASSUME IInv, NEW h \in Handlers, NEW u \in Users, NEW s \in Suggestions,
           NEW dir \in {"up", "down"}, VoteBegin(h, u, s, dir)
    PROVE  IInv'
  <1> DEFINE new == [pc |-> "count", by |-> "vote", s |-> s, user |-> u, dir |-> dir]
  <1>1. new \in Requests
    BY DEF Requests, VoteRequests
  <1>2. \A g \in Handlers : req'[g] = IF g = h THEN new ELSE req[g]
    BY DEF VoteBegin, IInv, TypeOK
  <1>3. TypeOK'
    BY <1>1 DEF VoteBegin, table, entities, history, written, lost, IInv, TypeOK
  <1>4. Life'
    <2>1. \A g \in Handlers : /\ req'[g].pc # "idle" =>
                                 req'[g].s \in Suggestions /\ status[req'[g].s] # "absent"
                              /\ req'[g].pc \in {"write", "mark"} => req'[g] = req[g]
      BY <1>2, RequestShape DEF VoteBegin, IInv, Life, On
    <2> QED
      BY <2>1, LifeStep DEF VoteBegin, table, entities, history, written
  <1>5. Count'
    BY <1>2 DEF VoteBegin, table, history, written, IInv, Count, NetVotesExact, Ballot, On
  <1>6. Gate'
    BY <1>2 DEF VoteBegin, table, history, written, IInv, Gate, AutoApplyHadVoters, Reached, On
  <1> QED
    BY <1>3, <1>4, <1>5, <1>6 DEF IInv

\* The transaction counts its own vote; nobody else's vote moves.
LEMMA VoteCountIInv ==
    ASSUME IInv, NEW h \in Handlers, VoteCount(h)
    PROVE  IInv'
  <1> DEFINE r == req[h]
             new == [pc |-> "commit", by |-> "vote", s |-> r.s, user |-> r.user,
                     dir |-> r.dir, stale |-> FALSE, net |-> Tally(Ballot(r))]
             mine == IF r.dir = "up" THEN {r.user} ELSE {}
  <1>1. /\ r.pc = "count" /\ r.s \in Suggestions /\ r.user \in Users
        /\ r.dir \in {"up", "down"} /\ status[r.s] # "absent"
    BY RequestShape DEF VoteCount, On, IInv, Life
  <1>2. votes[r.s] \in Ballots
    BY <1>1 DEF IInv, TypeOK
  <1>3. /\ Ballot(r) \in Ballots
        /\ Ups(Ballot(r)) \subseteq Ups(votes[r.s]) \cup mine
    BY <1>1, <1>2, BallotUps DEF Ballot
  <1>4. /\ Tally(Ballot(r)) \in Int
        /\ Tally(Ballot(r)) >= Threshold => Reached(Ups(Ballot(r)))
    BY <1>3, TallyBound
  <1>5. new \in Requests
    BY <1>1, <1>4 DEF Requests, VoteRequests
  <1>6. UNCHANGED <<table, entities, history>>
    BY DEF VoteCount
  <1>7. req' = [req EXCEPT ![h] = new]
    BY DEF VoteCount, Ballot
  <1>8. \A g \in Handlers : req'[g] = IF g = h THEN new ELSE req[g]
    BY <1>7 DEF IInv, TypeOK
  <1>9. TypeOK'
    BY <1>5, <1>6, <1>7 DEF table, entities, history, written, lost, IInv, TypeOK
  <1>10. Life'
    <2>1. \A g \in Handlers : /\ req'[g].pc # "idle" =>
                                 req'[g].s \in Suggestions /\ status[req'[g].s] # "absent"
                              /\ req'[g].pc \in {"write", "mark"} => req'[g] = req[g]
      BY RequestShape, <1>1, <1>8 DEF IInv, Life, On
    <2> QED
      BY <2>1, <1>6, LifeStep DEF table, entities, history, written
  <1>11. Count'
    <2>1. \A g \in Handlers :
            req'[g].pc = "commit" /\ ~ req'[g].stale => req'[g].net = Tally(Ballot(req'[g]))
      BY <1>8 DEF IInv, Count, Ballot, On
    <2> QED
      BY <2>1, <1>6 DEF table, history, written, IInv, Count, NetVotesExact, Ballot, On
  <1>12. Gate'
    <2>1. Ups(Ballot(r)) \subseteq upvoters[r.s] \cup mine
      BY <1>1, <1>3 DEF IInv, Gate
    <2>2. upvoters[r.s] \cup mine \in SUBSET Users
      BY <1>1 DEF IInv, TypeOK
    <2>3. Tally(Ballot(r)) >= Threshold => Reached(upvoters[r.s] \cup mine)
      BY <1>4, <2>1, <2>2, UserSets
    <2>4. \A g \in Handlers :
            req'[g].pc \in {"count", "commit", "refetch"} => req'[g].user # Author[req'[g].s]
      BY <1>1, <1>8 DEF IInv, Gate
    <2>5. ASSUME NEW g \in Handlers, req'[g].pc = "commit", req'[g].net >= Threshold
          PROVE  Reached(upvoters[req'[g].s]
                           \cup (IF req'[g].dir = "up" THEN {req'[g].user} ELSE {}))
      <3>1. CASE g = h
        <4>1. /\ req'[g].s = r.s /\ req'[g].dir = r.dir /\ req'[g].user = r.user
              /\ req'[g].net = Tally(Ballot(r))
          BY <1>8, <3>1
        <4> QED
          BY <2>3, <2>5, <4>1
      <3>2. CASE g # h
        BY <1>8, <2>5, <3>2 DEF IInv, Gate, On
      <3> QED
        BY <3>1, <3>2
    <2>6. \A g \in Handlers :
            req'[g].pc \in {"load", "write"} /\ req'[g].by = "vote" =>
               Reached(upvoters[req'[g].s])
      BY <1>8 DEF IInv, Gate, On
    <2> QED
      BY <1>6, <2>4, <2>5, <2>6 DEF table, history, written, IInv, Gate, AutoApplyHadVoters, Reached, On
  <1> QED
    BY <1>9, <1>10, <1>11, <1>12 DEF IInv

\* COMMIT: the number written is right if no other vote got in between, and it
\* reaches the threshold only with enough up-voters.
LEMMA VoteCommitIInv ==
    ASSUME IInv, NEW h \in Handlers, VoteCommit(h)
    PROVE  IInv'
  <1> DEFINE r == req[h]
             new == [pc |-> "refetch", by |-> "vote", s |-> r.s, user |-> r.user, dir |-> r.dir]
             mine == IF r.dir = "up" THEN {r.user} ELSE {}
  <1>1. /\ r.pc = "commit" /\ r.s \in Suggestions /\ r.user \in Users
        /\ r.dir \in {"up", "down"} /\ r.net \in Int /\ r.stale \in BOOLEAN
        /\ status[r.s] # "absent" /\ r.user # Author[r.s]
    BY RequestShape DEF VoteCommit, On, IInv, Life, Gate
  <1>2. new \in Requests
    BY <1>1 DEF Requests, VoteRequests
  <1>3. UNCHANGED <<status, lapsed, entities, written, lost>>
    BY DEF VoteCommit
  <1>4. req' = [g \in Handlers |-> IF g = h THEN new ELSE Overtake(req[g], r.s)]
    BY DEF VoteCommit
  <1>5. /\ req'[h] = new
        /\ \A g \in Handlers \ {h} :
             /\ req'[g] \in Requests
             /\ req'[g].pc = req[g].pc
             /\ req[g].pc # "idle" => req'[g].s = req[g].s /\ req'[g].by = req[g].by
             /\ req[g].pc \in {"count", "commit", "refetch"} =>
                  req'[g].user = req[g].user /\ req'[g].dir = req[g].dir
             /\ req[g].pc = "commit" => req'[g].net = req[g].net
             /\ req[g].pc = "commit" /\ req[g].s = r.s => req'[g].stale
             /\ req[g].pc = "commit" /\ req[g].s # r.s => req'[g].stale = req[g].stale
             /\ req[g].pc # "commit" => req'[g] = req[g]
    <2>1. \A g \in Handlers : req[g] \in Requests
      BY DEF IInv, TypeOK
    <2> QED
      BY <1>1, <1>4, <2>1, OvertakeShape
  <1>6. votes[r.s] \in Ballots /\ upvoters[r.s] \in SUBSET Users
    BY <1>1 DEF IInv, TypeOK
  <1>7. /\ votes' = [votes EXCEPT ![r.s] = Ballot(r)]
        /\ netVotes' = [netVotes EXCEPT ![r.s] = r.net]
        /\ recountStale' = [recountStale EXCEPT ![r.s] = r.stale]
        /\ upvoters' = [upvoters EXCEPT ![r.s] = @ \cup mine]
    BY <1>1 DEF VoteCommit, Ballot, IInv, TypeOK
  <1>8. Ballot(r) \in Ballots /\ Ups(Ballot(r)) \subseteq Ups(votes[r.s]) \cup mine
    BY <1>1, <1>6, BallotUps DEF Ballot
  <1>9. TypeOK'
    <2>1. req' \in [Handlers -> Requests]
      BY <1>2, <1>4, <1>5
    <2> QED
      BY <1>1, <1>3, <1>7, <1>8, <2>1 DEF entities, written, lost, IInv, TypeOK
  <1>10. Life'
    <2>1. \A g \in Handlers : /\ req'[g].pc # "idle" =>
                                 req'[g].s \in Suggestions /\ status[req'[g].s] # "absent"
                              /\ req'[g].pc \in {"write", "mark"} => req'[g] = req[g]
      BY RequestShape, <1>1, <1>5 DEF IInv, Life, On
    <2> QED
      BY <2>1, <1>3, LifeStep DEF entities, written
  <1>11. Count'
    <2>1. ~ r.stale => r.net = Tally(Ballot(r))
      BY <1>1 DEF IInv, Count, On
    <2>2. \A s \in Suggestions :
            ~ recountStale'[s] => netVotes'[s] = Tally(votes'[s])
      BY <1>1, <1>7, <2>1 DEF IInv, TypeOK, Count, NetVotesExact
    <2>3. ASSUME NEW g \in Handlers, req'[g].pc = "commit", ~ req'[g].stale
          PROVE  req'[g].net = Tally([votes'[req'[g].s] EXCEPT ![req'[g].user] = req'[g].dir])
      <3>1. g # h /\ req[g].pc = "commit" /\ req[g].s # r.s /\ ~ req[g].stale
        BY <1>5, <2>3
      <3>2. req[g].s \in Suggestions
        BY <3>1, RequestShape DEF IInv, On
      <3>3. votes'[req[g].s] = votes[req[g].s]
        BY <1>7, <3>1, <3>2 DEF IInv, TypeOK
      <3> QED
        BY <1>5, <3>1, <3>3 DEF IInv, Count, Ballot, On
    <2>4. NetVotesExact'
      BY <2>2 DEF NetVotesExact, Tally, Ups, Downs
    <2> QED
      BY <2>3, <2>4 DEF Count, Ballot, On, Tally, Ups, Downs
  <1>12. Gate'
    <2>1. \A s \in Suggestions : /\ upvoters[s] \subseteq upvoters'[s]
                                 /\ upvoters'[s] \in SUBSET Users
                                 /\ upvoters'[s] \subseteq upvoters[s] \cup Users
      BY <1>7, <1>9 DEF IInv, TypeOK
    <2>2. \A s \in Suggestions : Reached(upvoters[s]) => Reached(upvoters'[s])
      BY <2>1, UserSets
    <2>3. upvoters'[r.s] = upvoters[r.s] \cup mine
      BY <1>1, <1>7 DEF IInv, TypeOK
    <2>4. \A s \in Suggestions : s # r.s => /\ upvoters'[s] = upvoters[s]
                                            /\ votes'[s] = votes[s]
                                            /\ netVotes'[s] = netVotes[s]
      BY <1>7 DEF IInv, TypeOK
    <2>5. \A g \in Handlers :
            req'[g].pc \in {"count", "commit", "refetch"} => req'[g].user # Author[req'[g].s]
      BY <1>1, <1>5 DEF IInv, Gate
    <2>6. \A s \in Suggestions :
            Author[s] \notin upvoters'[s] /\ Ups(votes'[s]) \subseteq upvoters'[s]
      <3>1. votes'[r.s] = Ballot(r)
        BY <1>1, <1>7 DEF IInv, TypeOK
      <3>2. Author[r.s] \notin upvoters'[r.s] /\ Ups(votes'[r.s]) \subseteq upvoters'[r.s]
        BY <1>1, <1>8, <2>3, <3>1 DEF IInv, Gate
      <3> QED
        BY <2>4, <3>2 DEF IInv, Gate
    <2>7. \A s \in Suggestions : netVotes'[s] >= Threshold => Reached(upvoters'[s])
      <3>1. netVotes'[r.s] = r.net
        BY <1>1, <1>7 DEF IInv, TypeOK
      <3>2. r.net >= Threshold => Reached(upvoters'[r.s])
        BY <1>1, <2>3 DEF IInv, Gate, On
      <3> QED
        BY <2>4, <3>1, <3>2 DEF IInv, Gate
    <2>8. ASSUME NEW g \in Handlers, req'[g].pc = "commit", req'[g].net >= Threshold
          PROVE  Reached(upvoters'[req'[g].s]
                           \cup (IF req'[g].dir = "up" THEN {req'[g].user} ELSE {}))
      <3> DEFINE V == upvoters[req[g].s] \cup (IF req[g].dir = "up" THEN {req[g].user} ELSE {})
                 W == upvoters'[req[g].s] \cup (IF req[g].dir = "up" THEN {req[g].user} ELSE {})
      <3>1. g # h /\ req[g].pc = "commit" /\ req[g].net >= Threshold
        BY <1>5, <2>8
      <3>2. req[g].s \in Suggestions /\ req[g].user \in Users
        BY <3>1, RequestShape DEF IInv, On
      <3>3. Reached(V)
        BY <3>1 DEF IInv, Gate, On
      <3>4. W \in SUBSET Users /\ V \in SUBSET W
        BY <2>1, <3>2
      <3>5. Reached(W)
        BY <3>3, <3>4, UserSets
      <3> QED
        BY <1>5, <3>1, <3>5
    <2>9. ASSUME NEW g \in Handlers, req'[g].pc \in {"load", "write"}, req'[g].by = "vote"
          PROVE  Reached(upvoters'[req'[g].s])
      <3>1. g # h /\ req[g].pc \in {"load", "write"} /\ req[g].by = "vote" /\ req'[g].s = req[g].s
        BY <1>5, <2>9
      <3>2. req[g].s \in Suggestions
        BY <3>1, RequestShape DEF IInv, On
      <3> QED
        BY <2>2, <3>1, <3>2 DEF IInv, Gate, On
    <2>10. AutoApplyHadVoters'
      <3>1. \A s \in autoApplied : s \in Suggestions /\ Reached(upvoters[s])
        BY DEF IInv, TypeOK, Gate, AutoApplyHadVoters, Reached
      <3>2. \A s \in autoApplied : Reached(upvoters'[s])
        BY <2>2, <3>1
      <3> QED
        BY <1>3, <2>6, <3>1, <3>2 DEF AutoApplyHadVoters, Reached, written
    <2> QED
      BY <2>5, <2>6, <2>7, <2>8, <2>9, <2>10 DEF Gate, Reached, On, Ups
  <1> QED
    BY <1>9, <1>10, <1>11, <1>12 DEF IInv

\* The re-fetch starts a write only at the threshold.
LEMMA VoteRefetchIInv ==
    ASSUME IInv, NEW h \in Handlers, VoteRefetch(h)
    PROVE  IInv'
  <1> DEFINE s == req[h].s
             new == [pc |-> "load", by |-> "vote", s |-> s]
  <1>1. req[h].pc = "refetch" /\ s \in Suggestions /\ status[s] # "absent"
    BY RequestShape DEF VoteRefetch, On, IInv, Life
  <1>2. new \in Requests /\ Idle \in Requests
    BY <1>1 DEF Requests, ApplyRequests
  <1>3. UNCHANGED <<table, entities, history>>
    BY DEF VoteRefetch
  <1>4. /\ \A g \in Handlers \ {h} : req'[g] = req[g]
        /\ req'[h] = Idle \/ (req'[h] = new /\ netVotes[s] >= Threshold)
        /\ req' \in [Handlers -> Requests]
    BY <1>2 DEF VoteRefetch, IInv, TypeOK
  <1>5. TypeOK'
    BY <1>3, <1>4 DEF table, entities, history, written, lost, IInv, TypeOK
  <1>6. Life'
    <2>1. \A g \in Handlers : /\ req'[g].pc # "idle" =>
                                 req'[g].s \in Suggestions /\ status[req'[g].s] # "absent"
                              /\ req'[g].pc \in {"write", "mark"} => req'[g] = req[g]
      BY RequestShape, <1>1, <1>4 DEF IInv, Life, On, Idle
    <2> QED
      BY <2>1, <1>3, LifeStep DEF table, entities, history, written
  <1>7. \A g \in Handlers : req'[g].pc \in {"count", "commit", "refetch"} => req'[g] = req[g]
    BY <1>4 DEF Idle
  <1>8. Count'
    BY <1>3, <1>7 DEF table, history, written, IInv, Count, NetVotesExact, Ballot, On
  <1>9. Gate'
    <2>1. \A g \in Handlers :
            req'[g].pc \in {"load", "write"} /\ req'[g].by = "vote" =>
               Reached(upvoters[req'[g].s])
      BY <1>1, <1>4 DEF IInv, Gate, On, Idle
    <2> QED
      BY <1>3, <1>7, <2>1 DEF table, history, written, IInv, Gate, AutoApplyHadVoters, Reached, On
  <1> QED
    BY <1>5, <1>6, <1>8, <1>9 DEF IInv

\* admin_approve's check starts a write of the admin's.
LEMMA AdminApproveIInv ==
    ASSUME IInv, NEW h \in Handlers, NEW s \in Suggestions, AdminApprove(h, s)
    PROVE  IInv'
  <1> DEFINE new == [pc |-> "load", by |-> "admin", s |-> s]
  <1>1. new \in Requests
    BY DEF Requests, ApplyRequests
  <1>2. UNCHANGED <<table, entities, history>> /\ req[h].pc = "idle" /\ status[s] = "pending"
    BY DEF AdminApprove, On
  <1>3. /\ \A g \in Handlers \ {h} : req'[g] = req[g]
        /\ req'[h] = new
        /\ req' \in [Handlers -> Requests]
    BY <1>1 DEF AdminApprove, IInv, TypeOK
  <1>4. TypeOK'
    BY <1>2, <1>3 DEF table, entities, history, written, lost, IInv, TypeOK
  <1>5. Life'
    <2>1. \A g \in Handlers : /\ req'[g].pc # "idle" =>
                                 req'[g].s \in Suggestions /\ status[req'[g].s] # "absent"
                              /\ req'[g].pc \in {"write", "mark"} => req'[g] = req[g]
      BY RequestShape, <1>2, <1>3 DEF IInv, Life, On
    <2> QED
      BY <2>1, <1>2, LifeStep DEF table, entities, history, written
  <1>6. Count' /\ Gate'
    BY <1>2, <1>3, NoVoteStep DEF table, history, written
  <1> QED
    BY <1>4, <1>5, <1>6 DEF IInv

\* apply_edit learns the entity: the suggestion's own.
LEMMA ApplyReadIInv ==
    ASSUME IInv, NEW h \in Handlers, ApplyRead(h)
    PROVE  IInv'
  <1> DEFINE s == req[h].s
             new == [pc |-> "write", by |-> req[h].by, s |-> s, e |-> entity[s]]
  <1>1. /\ req[h].pc = "load" /\ s \in Suggestions /\ status[s] # "absent"
        /\ req[h].by \in {"vote", "admin"}
    BY RequestShape DEF ApplyRead, On, IInv, Life
  <1>2. new \in Requests
    BY <1>1 DEF Requests, ApplyRequests, IInv, TypeOK
  <1>3. UNCHANGED <<table, entities, history>> /\ req' = [req EXCEPT ![h] = new]
    BY DEF ApplyRead
  <1>4. /\ \A g \in Handlers \ {h} : req'[g] = req[g]
        /\ req'[h] = new
        /\ req' \in [Handlers -> Requests]
    BY <1>2, <1>3 DEF IInv, TypeOK
  <1>5. TypeOK'
    BY <1>3, <1>4 DEF table, entities, history, written, lost, IInv, TypeOK
  <1>6. Life'
    <2>1. entity[s] \in there \/ s \in unfounded
      BY <1>1 DEF IInv, Life
    <2>2. \A g \in Handlers : /\ req'[g].pc # "idle" => status[req'[g].s] # "absent"
                              /\ req'[g].pc = "write" =>
                                    req'[g].e \in there \/ Excused(req'[g].s)
                              /\ req'[g].pc = "mark" => req'[g] = req[g]
      BY <1>1, <1>4, <2>1 DEF IInv, Life, Excused, On
    <2> QED
      BY <1>3, <2>2 DEF table, entities, history, written, lost, IInv, Life, Excused,
         ApprovedWasApplied, On
  <1>7. UNCHANGED <<votes, netVotes, upvoters, autoApplied, recountStale>>
    BY <1>3 DEF table, history, written
  <1>8. Count' /\ Gate'
    BY <1>1, <1>4, <1>7, NoVoteStep
  <1> QED
    BY <1>5, <1>6, <1>8 DEF IInv

\* apply_edit writes the entity if it is there; a vote handler got here through
\* the gate.
LEMMA ApplyWriteIInv ==
    ASSUME IInv, NEW h \in Handlers, ApplyWrite(h)
    PROVE  IInv'
  <1> DEFINE s == req[h].s
             e == req[h].e
             new == [pc |-> "mark", by |-> req[h].by, s |-> s]
  <1>1. /\ req[h].pc = "write" /\ s \in Suggestions /\ status[s] # "absent"
        /\ req[h].by \in {"vote", "admin"} /\ e \in Entities
        /\ e \in there \/ Excused(s)
    BY RequestShape DEF ApplyWrite, On, IInv, Life
  <1>2. new \in Requests
    BY <1>1 DEF Requests, ApplyRequests
  <1>3. /\ UNCHANGED <<table, entity, there, lost, upvoters, recountStale>>
        /\ req' = [req EXCEPT ![h] = new]
        /\ \/ /\ e \in there
              /\ content' = [content EXCEPT ![e][Field[s]] = s]
              /\ applied' = applied \cup {s}
              /\ autoApplied' = IF req[h].by = "vote" THEN autoApplied \cup {s} ELSE autoApplied
           \/ e \notin there /\ UNCHANGED <<content, applied, autoApplied>>
    BY DEF ApplyWrite, written
  <1>4. /\ \A g \in Handlers \ {h} : req'[g] = req[g]
        /\ req'[h] = new
        /\ req' \in [Handlers -> Requests]
    BY <1>2, <1>3 DEF IInv, TypeOK
  <1>5. TypeOK'
    <2>1. Field[s] \in Fields
      BY <1>1, ConstantsAssumption
    <2>2. content' \in [Entities -> [Fields -> Suggestions \cup {Original}]]
      <3>1. CASE e \in there
        <4> DEFINE row == [content[e] EXCEPT ![Field[s]] = s]
        <4>1. row \in [Fields -> Suggestions \cup {Original}]
          BY <1>1, <2>1 DEF IInv, TypeOK
        <4>2. content' = [content EXCEPT ![e] = row]
          BY <1>3, <3>1
        <4> HIDE DEF row
        <4> QED
          BY <1>1, <4>1, <4>2 DEF IInv, TypeOK
      <3>2. CASE e \notin there
        BY <1>3, <3>2 DEF IInv, TypeOK
      <3> QED
        BY <3>1, <3>2
    <2>3. applied' \subseteq Suggestions /\ autoApplied' \subseteq applied'
      BY <1>1, <1>3 DEF IInv, TypeOK
    <2> QED
      BY <1>3, <1>4, <2>2, <2>3 DEF table, lost, IInv, TypeOK
  <1>6. Life'
    <2>1. applied \subseteq applied' /\ (s \in applied' \/ Excused(s))
      BY <1>1, <1>3
    <2>2. \A g \in Handlers : /\ req'[g].pc # "idle" => status[req'[g].s] # "absent"
                              /\ req'[g].pc = "mark" => req'[g].s \in applied' \/ Excused(req'[g].s)
                              /\ req'[g].pc = "write" => req'[g] = req[g]
      BY <1>1, <1>4, <2>1 DEF IInv, Life, On
    <2>3. UNCHANGED <<status, entity, there, unfounded, overtaken>>
      BY <1>3 DEF table, lost
    <2>4. ApprovedWasApplied'
      BY <2>1, <2>3 DEF IInv, Life, ApprovedWasApplied
    <2> QED
      BY <2>2, <2>3, <2>4 DEF IInv, Life, Excused, On
  <1>7. \A g \in Handlers :
          req'[g].pc \in {"count", "commit", "refetch", "load", "write"} => req'[g] = req[g]
    BY <1>4
  <1>8. Count'
    BY <1>3, <1>7 DEF table, IInv, Count, NetVotesExact, Ballot, On
  <1>9. Gate'
    <2>1. req[h].by = "vote" => Reached(upvoters[s]) /\ Author[s] \notin upvoters[s]
      BY <1>1 DEF IInv, Gate, On
    <2>2. AutoApplyHadVoters'
      BY <1>3, <2>1 DEF IInv, Gate, AutoApplyHadVoters, Reached
    <2> QED
      BY <1>3, <1>7, <2>2 DEF table, IInv, Gate, Reached, On
  <1> QED
    BY <1>5, <1>6, <1>8, <1>9 DEF IInv

\* The status is set after the write, if the suggestion is still pending.
LEMMA ApplyMarkIInv ==
    ASSUME IInv, NEW h \in Handlers, ApplyMark(h)
    PROVE  IInv'
  <1> DEFINE s == req[h].s
  <1>1. /\ req[h].pc = "mark" /\ s \in Suggestions /\ status[s] # "absent"
        /\ s \in applied \/ Excused(s)
    BY RequestShape DEF ApplyMark, On, IInv, Life
  <1>2. /\ UNCHANGED <<lapsed, votes, netVotes, entities, history>>
        /\ SetIfPending(s, "approved")
        /\ req' = [req EXCEPT ![h] = Idle]
    BY DEF ApplyMark
  <1>3. /\ \A g \in Handlers \ {h} : req'[g] = req[g]
        /\ req'[h].pc = "idle"
        /\ req' \in [Handlers -> Requests]
    BY <1>2 DEF IInv, TypeOK, Requests, Idle
  <1>4. /\ status' \in [Suggestions -> Statuses]
        /\ \A t \in Suggestions \ {s} : status'[t] = status[t]
        /\ status'[s] # "absent"
    BY <1>1, <1>2 DEF SetIfPending, IInv, TypeOK, Statuses
  <1>5. TypeOK'
    BY <1>2, <1>3, <1>4 DEF entities, history, written, lost, IInv, TypeOK
  <1>6. Life'
    <2>1. \A g \in Handlers : /\ req'[g].pc # "idle" =>
                                 req'[g] = req[g] /\ status'[req'[g].s] # "absent"
      BY <1>3, <1>4, RequestShape DEF IInv, Life, On
    <2>2. UNCHANGED <<entity, there, applied, unfounded, overtaken>>
      BY <1>2 DEF entities, history, written, lost
    <2>3. \A t \in Suggestions :
            status'[t] # "absent" => entity[t] \in there \/ t \in unfounded
      BY <1>1, <1>4 DEF IInv, Life
    <2>4. ApprovedWasApplied'
      BY <1>1, <1>4, <2>2 DEF IInv, Life, ApprovedWasApplied, Excused
    <2> QED
      BY <2>1, <2>2, <2>3, <2>4 DEF IInv, Life, Excused, On
  <1>7. UNCHANGED <<votes, netVotes, upvoters, autoApplied, recountStale>>
    BY <1>2 DEF history, written
  <1>8. Count' /\ Gate'
    BY <1>3, <1>7, NoVoteStep
  <1> QED
    BY <1>5, <1>6, <1>8 DEF IInv

\* A dropped writer leaves its suggestion to the next one.
LEMMA DropIInv ==
    ASSUME IInv, NEW h \in Handlers, Drop(h)
    PROVE  IInv'
  <1>1. /\ UNCHANGED <<table, entities, history>>
        /\ req' = [req EXCEPT ![h] = Idle]
    BY DEF Drop, On
  <1>2. /\ \A g \in Handlers \ {h} : req'[g] = req[g]
        /\ req'[h].pc = "idle"
        /\ req' \in [Handlers -> Requests]
    BY <1>1 DEF IInv, TypeOK, Requests, Idle
  <1>3. TypeOK'
    BY <1>1, <1>2 DEF table, entities, history, written, lost, IInv, TypeOK
  <1>4. Life'
    <2>1. \A g \in Handlers : /\ req'[g].pc # "idle" =>
                                 req'[g].s \in Suggestions /\ status[req'[g].s] # "absent"
                              /\ req'[g].pc \in {"write", "mark"} => req'[g] = req[g]
      BY <1>2, RequestShape DEF IInv, Life, On
    <2> QED
      BY <1>1, <2>1, LifeStep DEF table, entities, history, written
  <1>5. Count' /\ Gate'
    BY <1>1, <1>2, NoVoteStep DEF table, history, written
  <1> QED
    BY <1>3, <1>4, <1>5 DEF IInv

\* Every step keeps the invariant.
LEMMA NextIInv == IInv /\ [Next]_vars => IInv'
  <1> SUFFICES ASSUME IInv, [Next]_vars PROVE IInv'
    OBVIOUS
  <1>1. CASE UNCHANGED vars
    BY <1>1 DEF vars, table, entities, history, written, lost, IInv, TypeOK, Life, Count, Gate,
       ApprovedWasApplied, Excused, NetVotesExact, AutoApplyHadVoters, Ballot, Reached, On
  <1>2. CASE Next
    <2>1. CASE (\E s \in Suggestions : Lapse(s) \/ AdminReject(s)) \/ Expire
      BY <2>1, StatusIInv
    <2>2. CASE \E h \in Handlers, u \in Users, s \in Suggestions, dir \in {"up", "down"} :
                 VoteBegin(h, u, s, dir)
      BY <2>2, VoteBeginIInv
    <2>3. CASE \E h \in Handlers, s \in Suggestions : AdminApprove(h, s)
      BY <2>3, AdminApproveIInv
    <2>4. CASE \E h \in Handlers : HandlerStep(h) \/ Drop(h)
      BY <2>4, VoteCountIInv, VoteCommitIInv, VoteRefetchIInv, ApplyReadIInv, ApplyWriteIInv,
         ApplyMarkIInv, DropIInv DEF HandlerStep
    <2>5. CASE \E s \in Suggestions : CreateSuggestion(s)
      BY <2>5, CreateIInv
    <2>6. CASE \E from, into \in Entities : Merge(from, into)
      BY <2>6, MergeIInv
    <2> QED
      BY <1>2, <2>1, <2>2, <2>3, <2>4, <2>5, <2>6 DEF Next
  <1> QED
    BY <1>1, <1>2

-----------------------------------------------------------------------------
\* The inductive invariant holds in every reachable state.
THEOREM Invariance == Spec => []IInv
  <1> QED
    BY InitIInv, NextIInv, PTL DEF Spec

\* The variables keep their types.
THEOREM TypeCorrect == Spec => []TypeOK
  <1>1. IInv => TypeOK
    BY DEF IInv
  <1> QED
    BY Invariance, <1>1, PTL

\* Whatever is approved was written to its entity, through any number of merges,
\* races and dropped requests: except what was suggested for an entity that was
\* not there, and what a merge overtook between apply_edit's SELECT and its UPDATE.
THEOREM WriteBeforeMark == Spec => []ApprovedWasApplied
  <1>1. IInv => ApprovedWasApplied
    BY DEF IInv, Life
  <1> QED
    BY Invariance, <1>1, PTL

\* net_votes is the sum of the votes unless the transaction that wrote it last
\* was overtaken by another.
THEOREM CountExact == Spec => []NetVotesExact
  <1>1. IInv => NetVotesExact
    BY DEF IInv, Count
  <1> QED
    BY Invariance, <1>1, PTL

\* Whatever races there were, an edit the community applied was up-voted by
\* Threshold users, the author not among them.
THEOREM ConsensusWasReached == Spec => []AutoApplyHadVoters
  <1>1. IInv => AutoApplyHadVoters
    BY DEF IInv, Gate
  <1> QED
    BY Invariance, <1>1, PTL

\* Nobody overwrites a decision.
THEOREM Final == Spec => DecisionIsFinal
  <1> DEFINE Kept == \A s \in Suggestions : status[s] \in Decided => status'[s] = status[s]
  <1>1. ASSUME TypeOK, Next PROVE Kept
    <2>1. ASSUME NEW s \in Suggestions, CreateSuggestion(s) \/ Lapse(s) \/ AdminReject(s)
          PROVE  Kept
      BY <1>1, <2>1 DEF CreateSuggestion, Lapse, AdminReject, SetIfPending, TypeOK, Decided
    <2>2. ASSUME NEW h \in Handlers, HandlerStep(h) \/ Drop(h)
          PROVE  Kept
      BY <1>1, <2>2, RequestShape DEF HandlerStep, VoteCount, VoteCommit, VoteRefetch, ApplyRead,
         ApplyWrite, ApplyMark, Drop, SetIfPending, table, TypeOK, Decided
    <2>3. ASSUME NEW h \in Handlers, NEW u \in Users, NEW s \in Suggestions,
                 NEW dir \in {"up", "down"}, VoteBegin(h, u, s, dir)
          PROVE  Kept
      BY <2>3 DEF VoteBegin, table
    <2>4. ASSUME NEW h \in Handlers, NEW s \in Suggestions, AdminApprove(h, s) PROVE Kept
      BY <2>4 DEF AdminApprove, table
    <2>5. ASSUME NEW from \in Entities, NEW into \in Entities, Merge(from, into) PROVE Kept
      BY <2>5 DEF Merge, table
    <2>6. CASE Expire
      BY <2>6 DEF Expire, Decided
    <2> QED
      BY <1>1, <2>1, <2>2, <2>3, <2>4, <2>5, <2>6 DEF Next
  <1>2. ASSUME TypeOK, [Next]_vars PROVE [Kept]_vars
    BY <1>1, <1>2
  <1> QED
    BY TypeCorrect, <1>2, PTL DEF Spec, DecisionIsFinal

\* A decided suggestion that no request works on is never worked on again.
THEOREM NoRevival == Spec => SettledStaysQuiet
  <1> DEFINE Still == \A s \in Suggestions :
                        status[s] \in Decided /\ Quiet(s) => Quiet(s)'
             Kept == \A h \in Handlers :
                       req'[h].pc # "idle" =>
                         \/ req[h].pc # "idle" /\ req'[h].s = req[h].s
                         \/ status[req'[h].s] = "pending"
  <1>1. ASSUME TypeOK, Next PROVE Kept
    <2> USE <1>1
    <2>1. ASSUME UNCHANGED req PROVE Kept
      BY <2>1
    <2>2. ASSUME NEW h \in Handlers, NEW u \in Users, NEW s \in Suggestions,
                 NEW dir \in {"up", "down"}, VoteBegin(h, u, s, dir)
          PROVE  Kept
      BY <2>2 DEF VoteBegin, TypeOK
    <2>3. ASSUME NEW h \in Handlers, NEW s \in Suggestions, AdminApprove(h, s) PROVE Kept
      BY <2>3 DEF AdminApprove, TypeOK
    <2>4. ASSUME NEW h \in Handlers, VoteCommit(h) PROVE Kept
      <3>1. \A g \in Handlers : req[g] \in Requests
        BY DEF TypeOK
      <3>2. req[h].pc = "commit" /\ req[h].s \in Suggestions
        BY <2>4, RequestShape DEF VoteCommit, On
      <3>3. \A g \in Handlers \ {h} : req'[g] = Overtake(req[g], req[h].s)
        BY <2>4 DEF VoteCommit
      <3>4. req'[h].s = req[h].s
        BY <2>4 DEF VoteCommit
      <3> QED
        BY <3>1, <3>2, <3>3, <3>4, OvertakeShape
    <2>5. ASSUME NEW h \in Handlers,
                 \/ VoteCount(h) \/ VoteRefetch(h) \/ ApplyRead(h) \/ ApplyWrite(h)
                 \/ ApplyMark(h) \/ Drop(h)
          PROVE  Kept
      <3>1. \A g \in Handlers \ {h} : req'[g] = req[g]
        BY <2>5 DEF VoteCount, VoteRefetch, ApplyRead, ApplyWrite, ApplyMark, Drop, TypeOK
      <3>2. req[h].pc # "idle" /\ (req'[h].pc # "idle" => req'[h].s = req[h].s)
        BY <2>5 DEF VoteCount, VoteRefetch, ApplyRead, ApplyWrite, ApplyMark, Drop, TypeOK, On, Idle
      <3> QED
        BY <3>1, <3>2
    <2> QED
      BY <2>1, <2>2, <2>3, <2>4, <2>5 DEF Next, HandlerStep, CreateSuggestion, Lapse,
         AdminReject, Merge, Expire
  <1>2. ASSUME TypeOK, Next PROVE Still
    BY <1>1, <1>2 DEF Quiet, Active, On, Decided
  <1>3. ASSUME TypeOK, [Next]_vars PROVE [Still]_vars
    BY <1>2, <1>3
  <1> QED
    BY TypeCorrect, <1>3, PTL DEF Spec, SettledStaysQuiet
=============================================================================
