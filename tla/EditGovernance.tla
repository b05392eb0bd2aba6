--------------------------- MODULE EditGovernance ---------------------------
(***************************************************************************)
(* Community edit suggestions: routes/edit_suggestions.rs.                  *)
(*                                                                         *)
(* A suggestion proposes a new value for one field of a restaurant or dish. *)
(* It is voted on, approved or rejected by an admin, or expired by a        *)
(* background loop.  A handler is a concurrent HTTP request; each of its    *)
(* awaited database statements (or transactions) is one action, so that     *)
(* anything may happen between two of them.  A client that disconnects, a   *)
(* database error or a restart drops a handler wherever it is (Drop).       *)
(*                                                                         *)
(* The clock is abstracted to one bit per suggestion, lapsed[s], "now is    *)
(* past expires_at": the three comparisons in the code agree on it.         *)
(*                                                                         *)
(* entity_id has no foreign key and nothing checks it: a suggestion may     *)
(* name an entity that is not there, and a merge (routes/restaurants.rs)    *)
(* repoints suggestions and deletes an entity while requests hold its id.   *)
(***************************************************************************)
EXTENDS Integers, FiniteSets

CONSTANTS
    Suggestions,    \* ids of the rows of edit_suggestions
    Entities,       \* ids of restaurants (or of dishes: the two never meet)
    Fields,         \* editable columns of an entity
    Users,          \* authenticated callers
    Handlers,       \* requests that can be in flight at once
    Author,         \* suggested_by, [Suggestions -> Users]
    Field,          \* the column proposed to change, [Suggestions -> Fields]
    Threshold,      \* net votes that apply an edit; 3 in the code
    Original        \* the value of a column that no suggestion wrote

ASSUME ConstantsAssumption ==
    /\ IsFiniteSet(Users)
    /\ Author \in [Suggestions -> Users]
    /\ Field \in [Suggestions -> Fields]
    /\ Threshold \in Nat \ {0}

VARIABLES
    status,         \* edit_suggestions.status; "absent" before the INSERT
    lapsed,         \* now > edit_suggestions.expires_at
    votes,          \* edit_approvals: one row per (suggestion, user)
    netVotes,       \* edit_suggestions.net_votes
    entity,         \* edit_suggestions.entity_id; before the INSERT, what its author will name
    there,          \* the entities that have a row
    content,        \* the columns of the entities; a suggestion stands for its proposed_value
    req,            \* what each request in flight knows
    \* History variables: they record what happened and are never read by the actions.
    applied,        \* suggestions whose value was ever written to an entity
    autoApplied,    \* those of them a vote handler wrote
    upvoters,       \* who ever cast a committed up-vote
    unfounded,      \* suggestions created for an entity that was not there
    overtaken,      \* suggestions whose entity a merge took from a request about to write it
    recountStale    \* the last recount missed a vote committed meanwhile

table == <<status, lapsed, votes, netVotes>>
entities == <<entity, there, content>>
written == <<applied, autoApplied>>
lost == <<unfounded, overtaken>>
history == <<written, lost, upvoters, recountStale>>
vars == <<table, entities, req, history>>

Statuses == {"absent", "pending", "approved", "rejected", "expired"}
Decided == {"approved", "rejected", "expired"}
Ballots == [Users -> {"none", "up", "down"}]

Ups(ballot) == {u \in Users : ballot[u] = "up"}
Downs(ballot) == {u \in Users : ballot[u] = "down"}

\* SUM(CASE WHEN vote = 'up' THEN 1 ELSE -1 END) over the rows of one suggestion.
Tally(ballot) == Cardinality(Ups(ballot)) - Cardinality(Downs(ballot))

\* pc names the next statement of the request:
\*   "count"   the vote transaction     "commit"  its COMMIT
\*   "refetch" re-read of net_votes     "load"    apply_edit's SELECT
\*   "write"   UPDATE of the entity     "mark"    UPDATE of the status
Idle == [pc |-> "idle"]
VoteRequests ==
    [pc : {"count", "refetch"}, by : {"vote"},
     s : Suggestions, user : Users, dir : {"up", "down"}]
    \cup
    [pc : {"commit"}, by : {"vote"}, s : Suggestions, user : Users,
     dir : {"up", "down"}, net : Int, stale : BOOLEAN]
ApplyRequests ==
    [pc : {"load", "mark"}, by : {"vote", "admin"}, s : Suggestions]
    \cup
    [pc : {"write"}, by : {"vote", "admin"}, s : Suggestions, e : Entities]
Requests == {Idle} \cup VoteRequests \cup ApplyRequests

TypeOK ==
    /\ status \in [Suggestions -> Statuses]
    /\ lapsed \in [Suggestions -> BOOLEAN]
    /\ votes \in [Suggestions -> Ballots]
    /\ netVotes \in [Suggestions -> Int]
    /\ entity \in [Suggestions -> Entities]
    /\ there \subseteq Entities
    /\ content \in [Entities -> [Fields -> Suggestions \cup {Original}]]
    /\ req \in [Handlers -> Requests]
    /\ applied \subseteq Suggestions
    /\ autoApplied \subseteq applied
    /\ upvoters \in [Suggestions -> SUBSET Users]
    /\ unfounded \subseteq Suggestions
    /\ overtaken \subseteq Suggestions
    /\ recountStale \in [Suggestions -> BOOLEAN]

Init ==
    /\ status = [s \in Suggestions |-> "absent"]
    /\ lapsed = [s \in Suggestions |-> FALSE]
    /\ votes = [s \in Suggestions |-> [u \in Users |-> "none"]]
    /\ netVotes = [s \in Suggestions |-> 0]
    /\ entity \in [Suggestions -> Entities]
    /\ there \in SUBSET Entities
    /\ content = [e \in Entities |-> [f \in Fields |-> Original]]
    /\ req = [h \in Handlers |-> Idle]
    /\ applied = {}
    /\ autoApplied = {}
    /\ upvoters = [s \in Suggestions |-> {}]
    /\ unfounded = {}
    /\ overtaken = {}
    /\ recountStale = [s \in Suggestions |-> FALSE]

On(h, pc) == req[h].pc = pc
Active(h, s) == ~ On(h, "idle") /\ req[h].s = s
Quiet(s) == \A h \in Handlers : ~ Active(h, s)

\* The row UPDATEs of the file that carry "AND status = 'pending'".
SetIfPending(s, new) ==
    status' = IF status[s] = "pending" THEN [status EXCEPT ![s] = new] ELSE status

-----------------------------------------------------------------------------
\* POST /edit-suggestions: the INSERT, pending with an expiry 7 days ahead.  The
\* type, the field and the value are checked, the entity is not.
CreateSuggestion(s) ==
    /\ status[s] = "absent"
    /\ status' = [status EXCEPT ![s] = "pending"]
    /\ unfounded' = IF entity[s] \in there THEN unfounded ELSE unfounded \cup {s}
    /\ UNCHANGED <<lapsed, votes, netVotes, entities, req, written, overtaken,
                   upvoters, recountStale>>

\* The wall clock passes expires_at.
Lapse(s) ==
    /\ status[s] # "absent"
    /\ ~ lapsed[s]
    /\ lapsed' = [lapsed EXCEPT ![s] = TRUE]
    /\ UNCHANGED <<status, votes, netVotes, entities, req, history>>

\* Mutant: the suggester may vote too.
VoteBegin_AnyUser(h, u, s, dir) ==
    /\ On(h, "idle")
    /\ status[s] = "pending"
    /\ ~ lapsed[s]
    /\ req' = [req EXCEPT ![h] =
                 [pc |-> "count", by |-> "vote", s |-> s, user |-> u, dir |-> dir]]
    /\ UNCHANGED <<table, entities, history>>

\* vote_suggestion: the first read and the checks made on it.
VoteBegin(h, u, s, dir) ==
    /\ On(h, "idle")
    /\ u # Author[s]
    /\ status[s] = "pending"
    /\ ~ lapsed[s]
    /\ req' = [req EXCEPT ![h] =
                 [pc |-> "count", by |-> "vote", s |-> s, user |-> u, dir |-> dir]]
    /\ UNCHANGED <<table, entities, history>>

\* Mutant: net_votes is recomputed before the vote is upserted.
VoteCount_OwnVoteMissing(h) ==
    /\ On(h, "count")
    /\ LET r == req[h] IN
       req' = [req EXCEPT ![h] =
                 [pc |-> "commit", by |-> "vote", s |-> r.s, user |-> r.user,
                  dir |-> r.dir, stale |-> FALSE, net |-> Tally(votes[r.s])]]
    /\ UNCHANGED <<table, entities, history>>

\* Inside the transaction: the vote is upserted and net_votes is recomputed by
\* a sub-select.  Under READ COMMITTED it sees the rows committed before the
\* statement began and this transaction's own row.  A second vote of the same
\* user on the same suggestion waits for the row lock of the first.
VoteCount(h) ==
    /\ On(h, "count")
    /\ LET r == req[h] IN
       /\ \A g \in Handlers :
            ~ (On(g, "commit") /\ req[g].s = r.s /\ req[g].user = r.user)
       /\ req' = [req EXCEPT ![h] =
                    [pc |-> "commit", by |-> "vote", s |-> r.s, user |-> r.user,
                     dir |-> r.dir, stale |-> FALSE,
                     net |-> Tally([votes[r.s] EXCEPT ![r.user] = r.dir])]]
    /\ UNCHANGED <<table, entities, history>>

\* A vote on s is committed after r counted and before r writes its count.
Overtake(r, s) ==
    IF r.pc = "commit" /\ r.s = s
    THEN [pc |-> "commit", by |-> "vote", s |-> s, user |-> r.user, dir |-> r.dir,
          net |-> r.net, stale |-> TRUE]
    ELSE r

\* COMMIT: the vote and the counted net_votes become visible together.  A
\* transaction that counted before this commit and has yet to write waits on
\* the row lock and then writes the number it had already counted.
VoteCommit(h) ==
    /\ On(h, "commit")
    /\ LET r == req[h] IN
       /\ votes' = [votes EXCEPT ![r.s][r.user] = r.dir]
       /\ netVotes' = [netVotes EXCEPT ![r.s] = r.net]
       /\ req' = [g \in Handlers |->
                    IF g = h
                    THEN [pc |-> "refetch", by |-> "vote", s |-> r.s,
                          user |-> r.user, dir |-> r.dir]
                    ELSE Overtake(req[g], r.s)]
       /\ recountStale' = [recountStale EXCEPT ![r.s] = r.stale]
       /\ upvoters' = IF r.dir = "up"
                      THEN [upvoters EXCEPT ![r.s] = @ \cup {r.user}]
                      ELSE upvoters
    /\ UNCHANGED <<status, lapsed, entities, written, lost>>

\* The re-fetch after the commit decides whether the edit is applied.
VoteRefetch(h) ==
    /\ On(h, "refetch")
    /\ LET s == req[h].s IN
       req' = [req EXCEPT ![h] =
                 IF netVotes[s] >= Threshold /\ ~ lapsed[s]
                 THEN [pc |-> "load", by |-> "vote", s |-> s]
                 ELSE Idle]
    /\ UNCHANGED <<table, entities, history>>

\* admin_approve: the read and the check, then apply_edit.
AdminApprove(h, s) ==
    /\ On(h, "idle")
    /\ status[s] = "pending"
    /\ req' = [req EXCEPT ![h] = [pc |-> "load", by |-> "admin", s |-> s]]
    /\ UNCHANGED <<table, entities, history>>

\* admin_reject: one compare-and-set.
AdminReject(s) ==
    /\ status[s] = "pending"
    /\ SetIfPending(s, "rejected")
    /\ UNCHANGED <<lapsed, votes, netVotes, entities, req, history>>

\* apply_edit: what is to be written, and to which entity.
ApplyRead(h) ==
    /\ On(h, "load")
    /\ LET s == req[h].s IN
       req' = [req EXCEPT ![h] =
                 [pc |-> "write", by |-> req[h].by, s |-> s, e |-> entity[s]]]
    /\ UNCHANGED <<table, entities, history>>

\* apply_edit: the entity is written whatever the suggestion's status is by now.
\* The UPDATE may find no row; nobody looks at how many it changed.
ApplyWrite(h) ==
    /\ On(h, "write")
    /\ LET s == req[h].s
           e == req[h].e
       IN
       /\ IF e \in there
          THEN /\ content' = [content EXCEPT ![e][Field[s]] = s]
               /\ applied' = applied \cup {s}
               /\ autoApplied' = IF req[h].by = "vote" THEN autoApplied \cup {s} ELSE autoApplied
          ELSE UNCHANGED <<content, written>>
       /\ req' = [req EXCEPT ![h] = [pc |-> "mark", by |-> req[h].by, s |-> s]]
    /\ UNCHANGED <<table, entity, there, lost, upvoters, recountStale>>

\* apply_edit: the suggestion is marked approved if it is still pending.
ApplyMark(h) ==
    /\ On(h, "mark")
    /\ SetIfPending(req[h].s, "approved")
    /\ req' = [req EXCEPT ![h] = Idle]
    /\ UNCHANGED <<lapsed, votes, netVotes, entities, history>>

\* Mutant: suggestions that have a positive score never expire.
Expire_KeepsLiked ==
    /\ \E s \in Suggestions : status[s] = "pending" /\ lapsed[s] /\ netVotes[s] <= 0
    /\ status' = [s \in Suggestions |->
                    IF status[s] = "pending" /\ lapsed[s] /\ netVotes[s] <= 0
                    THEN "expired" ELSE status[s]]
    /\ UNCHANGED <<lapsed, votes, netVotes, entities, req, history>>

\* run_expiry_loop: one UPDATE over all rows, every 60 seconds.
Expire ==
    /\ \E s \in Suggestions : status[s] = "pending" /\ lapsed[s]
    /\ status' = [s \in Suggestions |->
                    IF status[s] = "pending" /\ lapsed[s] THEN "expired" ELSE status[s]]
    /\ UNCHANGED <<lapsed, votes, netVotes, entities, req, history>>

\* The suggestions a request is about to write to the entity from.
Losing(from) ==
    {s \in Suggestions : \E h \in Handlers :
        On(h, "write") /\ req[h].s = s /\ req[h].e = from}

\* Mutant: the merge leaves the suggestions where they point.
Merge_LeavesEdits(from, into) ==
    /\ from \in there /\ into \in there \ {from}
    /\ there' = there \ {from}
    /\ overtaken' = overtaken \cup Losing(from)
    /\ UNCHANGED <<table, entity, content, req, written, unfounded, upvoters,
                   recountStale>>

\* The merge of one entity into another: every suggestion of it, decided or not,
\* is repointed, and its row is deleted.  One transaction, whose COMMIT this is;
\* a suggestion inserted behind the UPDATE of edit_suggestions is as one that is
\* created when the entity is gone.
Merge(from, into) ==
    /\ from \in there /\ into \in there \ {from}
    /\ there' = there \ {from}
    /\ entity' = [s \in Suggestions |->
                    IF status[s] # "absent" /\ entity[s] = from THEN into ELSE entity[s]]
    /\ overtaken' = overtaken \cup Losing(from)
    /\ UNCHANGED <<table, content, req, written, unfounded, upvoters, recountStale>>

\* The handler's future is dropped, or one of its statements fails: whatever
\* is not committed is rolled back, whatever is committed stays.
Drop(h) ==
    /\ ~ On(h, "idle")
    /\ req' = [req EXCEPT ![h] = Idle]
    /\ UNCHANGED <<table, entities, history>>

HandlerStep(h) ==
    \/ VoteCount(h) \/ VoteCommit(h) \/ VoteRefetch(h)
    \/ ApplyRead(h) \/ ApplyWrite(h) \/ ApplyMark(h)

Next ==
    \/ \E s \in Suggestions : CreateSuggestion(s) \/ Lapse(s) \/ AdminReject(s)
    \/ \E h \in Handlers, u \in Users, s \in Suggestions, dir \in {"up", "down"} :
         VoteBegin(h, u, s, dir)
    \/ \E h \in Handlers, s \in Suggestions : AdminApprove(h, s)
    \/ \E h \in Handlers : HandlerStep(h) \/ Drop(h)
    \/ \E from, into \in Entities : Merge(from, into)
    \/ Expire

Spec == Init /\ [][Next]_vars

\* The clock advances and the expiry loop never exits; nothing obliges a user,
\* an admin or a request in flight to act.
Fairness ==
    /\ \A s \in Suggestions : WF_vars(Lapse(s))
    /\ WF_vars(Expire)

FairSpec == Spec /\ Fairness

-----------------------------------------------------------------------------
\* An approved suggestion's value was written to its entity, however merges moved
\* the suggestion and wherever requests were dropped: unless there was no entity
\* when it was created, or a merge deleted the entity between apply_edit's SELECT
\* and its UPDATE, which then change nothing and are followed by the approval.
ApprovedWasApplied ==
    \A s \in Suggestions :
        status[s] = "approved" => s \in applied \cup unfounded \cup overtaken

\* net_votes equals the sum over edit_approvals unless the transaction that
\* last wrote it overlapped another one; a later vote that runs alone repairs it.
NetVotesExact ==
    \A s \in Suggestions : ~ recountStale[s] => netVotes[s] = Tally(votes[s])

\* However the votes of an edit raced or changed, an edit applied by the
\* community was up-voted by Threshold users other than its author.
AutoApplyHadVoters ==
    \A s \in autoApplied :
        /\ Cardinality(upvoters[s]) >= Threshold
        /\ Author[s] \notin upvoters[s]

\* A decision is final: admins, the expiry loop and the appliers race for the
\* row and none of them overwrites another's verdict.
DecisionIsFinal ==
    [][\A s \in Suggestions : status[s] \in Decided => status'[s] = status[s]]_vars

\* Once a suggestion is decided and no request on it is in flight, no later
\* request revives it: late writes can come from overlapping requests only.
SettledStaysQuiet ==
    [][\A s \in Suggestions :
         status[s] \in Decided /\ Quiet(s) => Quiet(s)']_vars

\* Every suggestion is eventually approved, rejected or expired.
EventuallyDecided ==
    \A s \in Suggestions : status[s] = "pending" ~> status[s] \in Decided
=============================================================================
