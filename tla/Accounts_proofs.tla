-------------------------- MODULE Accounts_proofs ---------------------------
(****************************************************************************)
(* Proofs about an account, for any number of tokens, accounts, purchases,  *)
(* notifications and concurrent requests and any durations: the safety      *)
(* properties of RefreshSessions, and what the races of ProEntitlement cannot*)
(* break.                                                                   *)
(****************************************************************************)
EXTENDS RefreshSessions, ProEntitlement, TLAPS

-----------------------------------------------------------------------------
(* RefreshSessions *)

\* What the safety properties need besides themselves to be inductive.
Bookkeeping ==
    /\ \A t \in Tokens : revokedAt[t] <= now
    /\ \A t \in Tokens \ Issued : parent[t] = SignedIn
    /\ \A h \in Handlers : On(h, "rotate") => req[h].tok \in Issued

\* A request that is about to rotate a token which already has a successor
\* overlapped the request that gave it one.
SecondRotationOverlaps ==
    \A h \in Handlers, n \in Issued :
        On(h, "rotate") /\ parent[n] = req[h].tok => parent[n] \in overlapped

\* A request about to rotate a condemned token was past its check at the last
\* revoke-all, or the token itself escaped it.
LateRequests ==
    \A h \in Handlers :
        On(h, "rotate") /\ req[h].tok \in condemned =>
            req[h].late \/ req[h].tok \in escaped

IInv ==
    /\ TypeOK
    /\ Bookkeeping
    /\ RotationIsAtomic
    /\ OneSuccessor
    /\ SecondRotationOverlaps
    /\ RevokeAllSticks
    /\ LateRequests
    /\ NukeNeedsStaleReplay
    /\ ReplayIsRecognised

\* A request's record, by its program counter.
LEMMA RequestShape ==
    ASSUME TypeOK, NEW h \in Handlers
    PROVE  /\ On(h, "rotate") => /\ req[h].tok \in Tokens
                                 /\ req[h].late \in BOOLEAN
                                 /\ req[h] = [pc |-> "rotate", tok |-> req[h].tok, late |-> req[h].late]
           /\ On(h, "nuke") => req[h].tok \in Tokens
    BY DEF TypeOK, Requests, Idle, On

\* MarkLate keeps a request what it is and makes a rotation late.
LEMMA MarkLateShape ==
    ASSUME NEW r \in Requests
    PROVE  /\ MarkLate(r) \in Requests
           /\ MarkLate(r).pc = r.pc
           /\ r.pc \in {"rotate", "nuke"} => MarkLate(r).tok = r.tok
           /\ r.pc = "rotate" => MarkLate(r).late
    BY DEF MarkLate, Requests, Idle

\* What one step does to the table, which is all the properties ask of it.
LEMMA RevokeShape ==
    ASSUME TypeOK, NEW T \in SUBSET Tokens, Revoke(T)
    PROVE  /\ state' \in [Tokens -> {"unissued", "live", "revoked", "pruned"}]
           /\ revokedAt' \in [Tokens -> Nat]
           /\ Live' = Live \ T
           /\ Issued' = Issued
           /\ \A t \in Tokens : t \notin Live => state'[t] = state[t] /\ revokedAt'[t] = revokedAt[t]
           /\ \A t \in Tokens : revokedAt'[t] \in {revokedAt[t], now}
    BY DEF TypeOK, Revoke, Live, Issued

\* The properties hold initially.
LEMMA InitIInv == Init => IInv
  <1> SUFFICES ASSUME Init PROVE IInv
    OBVIOUS
  <1>1. Issued = {} /\ Live = {}
    BY DEF Init, Issued, Live
  <1>2. TypeOK
    BY <1>1 DEF Init, TypeOK, Requests
  <1>3. \A h \in Handlers : On(h, "idle")
    BY DEF Init, On, Idle
  <1> QED
    BY <1>1, <1>2, <1>3 DEF Init, IInv, Bookkeeping, RotationIsAtomic, OneSuccessor,
       SecondRotationOverlaps, RevokeAllSticks, LateRequests, NukeNeedsStaleReplay,
       ReplayIsRecognised, On

\* The clock moves: nothing else does.
LEMMA TickIInv == IInv /\ Tick => IInv'
  <1> SUFFICES ASSUME IInv, Tick PROVE IInv'
    OBVIOUS
  <1> USE ConstantsAssumption DEF IInv
  <1>1. Issued' = Issued /\ Live' = Live
    BY DEF Tick, rows, Issued, Live
  <1>2. TypeOK'
    BY <1>1 DEF Tick, rows, history, TypeOK
  <1>3. Bookkeeping'
    BY <1>1 DEF Tick, rows, history, TypeOK, Bookkeeping, On
  <1>4. NukeNeedsStaleReplay'
    <2> SUFFICES ASSUME NEW h \in Handlers, On(h, "nuke")
                 PROVE  req[h].tok \in Issued \ Live /\ revokedAt[req[h].tok] + Grace <= now + 1
      BY <1>1 DEF Tick, rows, NukeNeedsStaleReplay, On
    <2>1. revokedAt[req[h].tok] \in Nat
      BY RequestShape DEF TypeOK
    <2> QED
      BY <2>1 DEF NukeNeedsStaleReplay, TypeOK
  <1>5. ReplayIsRecognised'
    <2> SUFFICES ASSUME NEW t \in Issued, now + 1 <= expiresAt[t] + Leeway
                 PROVE  state[t] # "pruned"
      BY <1>1 DEF Tick, rows, ReplayIsRecognised, VerifyToken
    <2>1. now <= expiresAt[t] + Leeway
      BY DEF TypeOK, Issued
    <2> QED
      BY <2>1 DEF ReplayIsRecognised, VerifyToken
  <1> QED
    BY <1>1, <1>2, <1>3, <1>4, <1>5 DEF Tick, rows, history, RotationIsAtomic, OneSuccessor,
       SecondRotationOverlaps, RevokeAllSticks, LateRequests, On

\* A sign-in adds a token without parent or past.
LEMMA SignInIInv == ASSUME NEW n \in Tokens, IInv, SignIn(n) PROVE IInv'
  <1> USE ConstantsAssumption DEF IInv
  <1>1. Issued' = Issued \cup {n} /\ Live' = Live \cup {n} /\ n \notin Issued
    BY DEF SignIn, Issued, Live, TypeOK
  <1>2. TypeOK'
    BY <1>1 DEF SignIn, history, TypeOK
  <1>3. parent[n] = SignedIn /\ n \notin condemned
    BY <1>1 DEF Bookkeeping, TypeOK
  <1>4. Bookkeeping'
    BY <1>1 DEF SignIn, history, Bookkeeping, On
  <1>5. RotationIsAtomic' /\ OneSuccessor' /\ SecondRotationOverlaps'
    <2>1. \A h \in Handlers : On(h, "rotate") => req[h].tok # SignedIn
      BY RequestShape
    <2>2. \A m \in Issued' : parent[m] \in Tokens => m \in Issued
      BY <1>1, <1>3
    <2>3. RotationIsAtomic'
      BY <1>1, <2>2 DEF SignIn, history, RotationIsAtomic
    <2>4. OneSuccessor'
      BY <2>2 DEF SignIn, history, OneSuccessor
    <2>5. SecondRotationOverlaps'
      BY <1>1, <1>3, <2>1 DEF SignIn, history, SecondRotationOverlaps, On
    <2> QED
      BY <2>3, <2>4, <2>5
  <1>6. RevokeAllSticks'
    BY <1>1, <1>3 DEF SignIn, history, RevokeAllSticks
  <1>7. LateRequests'
    BY DEF SignIn, history, LateRequests, On
  <1>8. NukeNeedsStaleReplay'
    BY <1>1 DEF SignIn, history, NukeNeedsStaleReplay, On, Issued
  <1>9. ReplayIsRecognised'
    BY <1>1 DEF SignIn, ReplayIsRecognised, VerifyToken, Issued, TypeOK
  <1> QED
    BY <1>2, <1>4, <1>5, <1>6, <1>7, <1>8, <1>9

\* The read of a refresh starts a rotation of a live token, which has no
\* successor yet, or the reuse response to a long retired one.
LEMMA RefreshReadIInv ==
    ASSUME NEW h \in Handlers, NEW t \in Tokens, IInv, RefreshRead(h, t) PROVE IInv'
  <1> USE ConstantsAssumption DEF IInv
  <1>1. Issued' = Issued /\ Live' = Live /\ t \in Issued
    BY DEF RefreshRead, rows, Issued, Live
  <1>2. \/ t \in Live /\ req' = [req EXCEPT ![h] = [pc |-> "rotate", tok |-> t, late |-> FALSE]]
        \/ /\ t \in Issued \ Live /\ revokedAt[t] + Grace <= now
           /\ req' = [req EXCEPT ![h] = [pc |-> "nuke", tok |-> t]]
    <2>1. revokedAt[t] \in Nat /\ now \in Nat /\ revokedAt[t] <= now
      BY DEF TypeOK, Bookkeeping
    <2> QED
      BY <2>1 DEF RefreshRead, IsRecentRotation, Issued, Live
  <1>3. UNCHANGED <<now, state, revokedAt, expiresAt, parent, retired, overlapped, condemned, escaped>>
    BY DEF RefreshRead, rows, history
  <1>4. TypeOK'
    <2>1. [pc |-> "rotate", tok |-> t, late |-> FALSE] \in Requests
      BY DEF Requests
    <2>2. [pc |-> "nuke", tok |-> t] \in Requests
      BY DEF Requests
    <2>3. req' \in [Handlers -> Requests]
      BY <1>2, <2>1, <2>2 DEF TypeOK
    <2> QED
      BY <1>1, <1>3, <2>3 DEF TypeOK
  <1>5. \A g \in Handlers : g # h => req'[g] = req[g]
    BY <1>2 DEF TypeOK
  <1>6. \/ /\ req'[h] = [pc |-> "rotate", tok |-> t, late |-> FALSE]
           /\ t \in Live
        \/ /\ req'[h] = [pc |-> "nuke", tok |-> t]
           /\ t \in Issued \ Live
           /\ revokedAt[t] + Grace <= now
    BY <1>2 DEF TypeOK
  <1>7. t \in Live => ~ \E n \in Issued : parent[n] = t
    BY DEF RotationIsAtomic
  <1>8. t \in Live /\ t \in condemned => t \in escaped
    BY DEF RevokeAllSticks
  <1>9. Bookkeeping' /\ RotationIsAtomic' /\ OneSuccessor' /\ RevokeAllSticks'
    BY <1>1, <1>3, <1>5, <1>6 DEF Bookkeeping, RotationIsAtomic, OneSuccessor, RevokeAllSticks, On
  <1>10. SecondRotationOverlaps'
    BY <1>1, <1>3, <1>5, <1>6, <1>7 DEF SecondRotationOverlaps, On
  <1>11. LateRequests'
    BY <1>3, <1>5, <1>6, <1>8 DEF LateRequests, On
  <1>12. NukeNeedsStaleReplay'
    BY <1>1, <1>3, <1>5, <1>6 DEF NukeNeedsStaleReplay, On
  <1>13. ReplayIsRecognised'
    BY <1>1, <1>3 DEF ReplayIsRecognised, VerifyToken
  <1> QED
    BY <1>4, <1>9, <1>10, <1>11, <1>12, <1>13

\* The rotation: the old token is dead afterwards, its successor is live, and
\* any other request that is about to rotate the old token is recorded.
LEMMA RotateCommitIInv ==
    ASSUME NEW h \in Handlers, NEW n \in Tokens, IInv, RotateCommit(h, n) PROVE IInv'
  <1> USE ConstantsAssumption DEF IInv
  <1> DEFINE t == req[h].tok
  <1>1. /\ t \in Tokens /\ t \in Issued /\ n \notin Issued /\ t # n
        /\ parent[n] = SignedIn /\ n \notin condemned
    BY RequestShape DEF RotateCommit, Bookkeeping, Issued, TypeOK
  <1>2. Issued' = Issued \cup {n} /\ Live' = (Live \ {t}) \cup {n}
    BY <1>1 DEF RotateCommit, Issued, Live, TypeOK
  <1>3. /\ req'[h] = [pc |-> "prune"]
        /\ \A g \in Handlers \ {h} : req'[g] = req[g]
        /\ parent'[n] = t
        /\ \A m \in Tokens \ {n} : parent'[m] = parent[m]
    BY DEF RotateCommit, TypeOK
  <1>4. TypeOK'
    <2>1. [pc |-> "prune"] \in Requests
      BY DEF Requests
    <2>2. req' \in [Handlers -> Requests]
      BY <2>1 DEF RotateCommit, TypeOK
    <2>3. state' \in [Tokens -> {"unissued", "live", "revoked", "pruned"}]
      BY DEF RotateCommit, TypeOK
    <2>4. revokedAt' \in [Tokens -> Nat] /\ expiresAt' \in [Tokens -> Nat]
      BY <1>1 DEF RotateCommit, TypeOK
    <2>5. parent' \in [Tokens -> Tokens \cup {SignedIn}]
      BY <1>1 DEF RotateCommit, TypeOK
    <2> QED
      BY <1>1, <1>2, <2>2, <2>3, <2>4, <2>5 DEF RotateCommit, TypeOK
  <1>5. Bookkeeping'
    <2>1. \A s \in Tokens : revokedAt'[s] <= now
      BY <1>1 DEF RotateCommit, Bookkeeping, TypeOK
    <2> QED
      BY <1>2, <1>3, <2>1 DEF RotateCommit, Bookkeeping, On
  <1>6. RotationIsAtomic'
    <2>1. \A m \in Issued' : parent'[m] \in Tokens => parent'[m] \in Issued' \ Live'
      <3>1. ASSUME NEW m \in Issued, parent[m] \in Tokens
            PROVE  parent'[m] \in Issued' \ Live'
        <4>1. m \in Tokens \ {n} /\ parent[m] \in Issued \ Live
          BY <1>1, <3>1 DEF RotationIsAtomic, Issued
        <4> QED
          BY <1>1, <1>2, <1>3, <4>1
      <3> QED
        BY <1>1, <1>2, <1>3, <3>1 DEF Issued
    <2>2. retired' \subseteq retired \cup {t}
      BY DEF RotateCommit
    <2>3. \A s \in retired' : \E m \in Issued' : parent'[m] = s
      BY <1>1, <1>2, <1>3, <2>2 DEF RotationIsAtomic, Issued
    <2> QED
      BY <2>1, <2>3 DEF RotationIsAtomic
  <1>7. OneSuccessor'
    <2>1. overlapped \subseteq overlapped'
      BY DEF RotateCommit
    <2>2. \A m \in Issued : parent[m] = t => t \in overlapped
      BY DEF RotateCommit, SecondRotationOverlaps
    <2> QED
      BY <1>1, <1>2, <1>3, <2>1, <2>2 DEF OneSuccessor, Issued
  <1>8. SecondRotationOverlaps'
    <2>1. overlapped \subseteq overlapped'
      BY DEF RotateCommit
    <2>2. \A g \in Handlers \ {h} : On(g, "rotate") /\ req[g].tok = t => t \in overlapped'
      BY DEF RotateCommit, Rotating
    <2> QED
      BY <1>1, <1>2, <1>3, <2>1, <2>2 DEF SecondRotationOverlaps, On, Issued
  <1>9. RevokeAllSticks'
    BY <1>1, <1>2 DEF RotateCommit, RevokeAllSticks, LateRequests
  <1>10. LateRequests'
    BY <1>1, <1>3 DEF RotateCommit, LateRequests, Bookkeeping, On
  <1>11. NukeNeedsStaleReplay'
    <2> SUFFICES ASSUME NEW g \in Handlers, On(g, "nuke")'
                 PROVE  /\ req'[g].tok \in Issued' \ Live'
                        /\ revokedAt'[req'[g].tok] + Grace <= now'
      BY DEF NukeNeedsStaleReplay
    <2>1. g # h /\ On(g, "nuke") /\ req'[g] = req[g]
      BY <1>3 DEF On
    <2>2. req[g].tok \in Issued \ Live /\ revokedAt[req[g].tok] + Grace <= now
      BY <2>1 DEF NukeNeedsStaleReplay
    <2>3. revokedAt'[req[g].tok] = revokedAt[req[g].tok] /\ req[g].tok # n
      BY <1>1, <2>2 DEF RotateCommit, TypeOK, Issued
    <2> QED
      BY <1>2, <2>1, <2>2, <2>3 DEF RotateCommit
  <1>12. ReplayIsRecognised'
    BY <1>1, <1>2 DEF RotateCommit, ReplayIsRecognised, VerifyToken, Issued, TypeOK
  <1> QED
    BY <1>4, <1>5, <1>6, <1>7, <1>8, <1>9, <1>10, <1>11, <1>12

\* Revoking a set of tokens, with whatever becomes of the requests, disturbs
\* neither the family tree nor what is known of old tokens.
LEMMA RevokeKeeps ==
    ASSUME NEW T \in SUBSET Tokens, IInv, Revoke(T),
           req' \in [Handlers -> Requests],
           \A g \in Handlers : \/ req'[g] = Idle
                               \/ req'[g] = MarkLate(req[g])
                               \/ req'[g] = req[g],
           UNCHANGED <<now, expiresAt, parent, retired, overlapped>>
    PROVE  /\ Bookkeeping' /\ RotationIsAtomic' /\ OneSuccessor'
           /\ SecondRotationOverlaps' /\ NukeNeedsStaleReplay' /\ ReplayIsRecognised'
  <1> USE DEF IInv
  <1>1. Live' = Live \ T /\ Issued' = Issued
    BY RevokeShape
  <1>2. \A g \in Handlers :
          /\ On(g, "rotate")' => On(g, "rotate") /\ req'[g].tok = req[g].tok
          /\ On(g, "nuke")' => On(g, "nuke") /\ req'[g].tok = req[g].tok
    <2> SUFFICES ASSUME NEW g \in Handlers
                 PROVE  /\ On(g, "rotate")' => On(g, "rotate") /\ req'[g].tok = req[g].tok
                        /\ On(g, "nuke")' => On(g, "nuke") /\ req'[g].tok = req[g].tok
      OBVIOUS
    <2>1. req[g] \in Requests
      BY DEF TypeOK
    <2> QED
      BY <2>1, MarkLateShape DEF On, Idle
  <1>3. Bookkeeping'
    BY <1>1, <1>2, RevokeShape DEF Bookkeeping, TypeOK
  <1>4. RotationIsAtomic' /\ OneSuccessor' /\ SecondRotationOverlaps'
    BY <1>1, <1>2 DEF RotationIsAtomic, OneSuccessor, SecondRotationOverlaps
  <1>5. NukeNeedsStaleReplay'
    BY <1>1, <1>2, RevokeShape DEF NukeNeedsStaleReplay, Issued
  <1>6. ReplayIsRecognised'
    <2>1. \A t \in Tokens : state'[t] = "pruned" => state[t] = "pruned"
      BY DEF Revoke, TypeOK
    <2> QED
      BY <1>1, <2>1 DEF ReplayIsRecognised, VerifyToken, Issued
  <1> QED
    BY <1>3, <1>4, <1>5, <1>6

\* Revoking everything condemns every token, and every rotation under way is late.
LEMMA RevokeAllIInv ==
    ASSUME IInv, RevokeAll,
           \A g \in Handlers : req'[g] = Idle \/ req'[g] = MarkLate(req[g]),
           req' \in [Handlers -> Requests]
    PROVE  IInv'
  <1> USE DEF IInv
  <1>1. Live' = {} /\ Issued' = Issued
    <2>1. Live \subseteq Tokens
      BY DEF Live
    <2> QED
      BY <2>1, RevokeShape DEF RevokeAll
  <1>2. TypeOK'
    BY <1>1, RevokeShape DEF RevokeAll, TypeOK
  <1>3. LateRequests'
    <2> SUFFICES ASSUME NEW g \in Handlers, On(g, "rotate")'
                 PROVE  req'[g].late
      BY DEF LateRequests
    <2>1. req'[g] = MarkLate(req[g]) /\ req[g] \in Requests
      BY DEF On, Idle, TypeOK
    <2> QED
      BY <2>1, MarkLateShape DEF On
  <1>4. RevokeAllSticks'
    BY <1>1 DEF RevokeAllSticks
  <1> QED
    BY <1>2, <1>3, <1>4, RevokeKeeps DEF RevokeAll

\* The three ways a session is revoked without a successor.
LEMMA SignOutsIInv ==
    ASSUME IInv, \/ \E h \in Handlers : Nuke(h)
                 \/ SignOutAll
                 \/ \E t \in Tokens : SignOut(t)
    PROVE  IInv'
  <1> USE DEF IInv
  <1>1. ASSUME NEW h \in Handlers, Nuke(h) PROVE IInv'
    <2>1. req' \in [Handlers -> Requests]
      BY <1>1, MarkLateShape DEF Nuke, TypeOK, Requests
    <2> QED
      BY <1>1, <2>1, RevokeAllIInv DEF Nuke
  <1>2. CASE SignOutAll
    <2>1. req' \in [Handlers -> Requests]
      BY <1>2, MarkLateShape DEF SignOutAll, TypeOK
    <2> QED
      BY <1>2, <2>1, RevokeAllIInv DEF SignOutAll
  <1>3. ASSUME NEW t \in Tokens, SignOut(t) PROVE IInv'
    <2>1. req' = req /\ req \in [Handlers -> Requests]
      BY <1>3 DEF SignOut, TypeOK
    <2>2. /\ Bookkeeping' /\ RotationIsAtomic' /\ OneSuccessor'
          /\ SecondRotationOverlaps' /\ NukeNeedsStaleReplay' /\ ReplayIsRecognised'
      BY <1>3, <2>1, RevokeKeeps DEF SignOut, history
    <2>3. Live' = Live \ {t} /\ Issued' = Issued
      BY <1>3, RevokeShape DEF SignOut
    <2>4. TypeOK'
      BY <1>3, <2>1, <2>3, RevokeShape DEF SignOut, history, TypeOK
    <2>5. RevokeAllSticks' /\ LateRequests'
      BY <1>3, <2>1, <2>3 DEF SignOut, history, RevokeAllSticks, LateRequests, On
    <2> QED
      BY <2>2, <2>4, <2>5
  <1> QED
    BY <1>1, <1>2, <1>3

\* Housekeeping removes rows whose token can no longer be presented.
LEMMA PruneIInv == ASSUME NEW h \in Handlers, IInv, Prune(h) PROVE IInv'
  <1> USE ConstantsAssumption DEF IInv
  <1>1. Issued' = Issued /\ Live' \subseteq Live
    BY DEF Prune, Issued, Live, TypeOK
  <1>2. /\ UNCHANGED <<now, revokedAt, expiresAt, parent, retired, overlapped, condemned, escaped>>
        /\ req'[h] = Idle
        /\ \A g \in Handlers \ {h} : req'[g] = req[g]
    BY DEF Prune, history, TypeOK
  <1>3. TypeOK'
    <2>1. req' \in [Handlers -> Requests]
      BY DEF Prune, TypeOK, Requests
    <2>2. state' \in [Tokens -> {"unissued", "live", "revoked", "pruned"}]
      BY DEF Prune, TypeOK
    <2> QED
      BY <1>1, <1>2, <2>1, <2>2 DEF TypeOK
  <1>4. \A g \in Handlers : \A pc \in {"rotate", "nuke"} :
          On(g, pc)' => On(g, pc) /\ req'[g] = req[g]
    BY <1>2 DEF On, Idle
  <1>5. Bookkeeping' /\ RotationIsAtomic' /\ OneSuccessor' /\ SecondRotationOverlaps'
    BY <1>1, <1>2, <1>4 DEF Bookkeeping, RotationIsAtomic, OneSuccessor, SecondRotationOverlaps
  <1>6. RevokeAllSticks' /\ LateRequests'
    BY <1>1, <1>2, <1>4 DEF RevokeAllSticks, LateRequests
  <1>7. NukeNeedsStaleReplay'
    BY <1>1, <1>2, <1>4 DEF NukeNeedsStaleReplay
  <1>8. ReplayIsRecognised'
    <2> SUFFICES ASSUME NEW t \in Issued, now <= expiresAt[t] + Leeway
                 PROVE  state'[t] # "pruned"
      BY <1>1, <1>2 DEF ReplayIsRecognised, VerifyToken
    <2>1. now \in Nat /\ expiresAt[t] \in Nat /\ t \in Tokens /\ state[t] # "pruned"
      BY DEF TypeOK, Issued, ReplayIsRecognised, VerifyToken
    <2>2. ~ (expiresAt[t] + Retention < now)
      BY <2>1
    <2> QED
      BY <2>1, <2>2 DEF Prune
  <1> QED
    BY <1>3, <1>5, <1>6, <1>7, <1>8

\* A dropped request leaves the table as it is.
LEMMA DropIInv == ASSUME NEW h \in Handlers, IInv, Drop(h) PROVE IInv'
  <1> USE DEF IInv
  <1>1. Issued' = Issued /\ Live' = Live
    BY DEF Drop, rows, Issued, Live
  <1>2. /\ UNCHANGED <<now, state, revokedAt, expiresAt, parent, retired, overlapped, condemned, escaped>>
        /\ req'[h] = Idle
        /\ \A g \in Handlers \ {h} : req'[g] = req[g]
    BY DEF Drop, rows, history, TypeOK
  <1>3. TypeOK'
    <2>1. req' \in [Handlers -> Requests]
      BY DEF Drop, TypeOK, Requests
    <2> QED
      BY <1>1, <1>2, <2>1 DEF TypeOK
  <1>4. \A g \in Handlers : \A pc \in {"rotate", "nuke"} :
          On(g, pc)' => On(g, pc) /\ req'[g] = req[g]
    BY <1>2 DEF On, Idle
  <1> QED
    BY <1>1, <1>2, <1>3, <1>4 DEF Bookkeeping, RotationIsAtomic, OneSuccessor,
       SecondRotationOverlaps, RevokeAllSticks, LateRequests, NukeNeedsStaleReplay,
       ReplayIsRecognised, VerifyToken

\* Every step keeps the inductive invariant.
LEMMA NextIInv == IInv /\ [Next]_vars => IInv'
  <1> SUFFICES ASSUME IInv, [Next]_vars PROVE IInv'
    OBVIOUS
  <1>1. CASE UNCHANGED vars
    BY <1>1 DEF vars, rows, history, IInv, TypeOK, Bookkeeping, RotationIsAtomic, OneSuccessor,
       SecondRotationOverlaps, RevokeAllSticks, LateRequests, NukeNeedsStaleReplay,
       ReplayIsRecognised, VerifyToken, Issued, Live, On
  <1>2. CASE Tick
    BY <1>2, TickIInv
  <1>3. ASSUME NEW t \in Tokens, SignIn(t) PROVE IInv'
    BY <1>3, SignInIInv
  <1>4. ASSUME NEW h \in Handlers, NEW t \in Tokens, RefreshRead(h, t) PROVE IInv'
    BY <1>4, RefreshReadIInv
  <1>5. ASSUME NEW h \in Handlers, NEW t \in Tokens, RotateCommit(h, t) PROVE IInv'
    BY <1>5, RotateCommitIInv
  <1>6. ASSUME NEW h \in Handlers, Prune(h) PROVE IInv'
    BY <1>6, PruneIInv
  <1>7. ASSUME NEW h \in Handlers, Drop(h) PROVE IInv'
    BY <1>7, DropIInv
  <1> QED
    BY <1>1, <1>2, <1>3, <1>4, <1>5, <1>6, <1>7, SignOutsIInv DEF Next

\* The inductive invariant holds in every reachable state.
THEOREM Invariance == Spec => []IInv
  BY InitIInv, NextIInv, PTL DEF Spec

\* Every variable keeps its type: TypeOK holds of refresh_sessions and requests.
THEOREM TypeCorrect == Spec => []TypeOK
  <1>1. IInv => TypeOK
    BY DEF IInv
  <1> QED
    BY Invariance, <1>1, PTL

\* refresh_tokens never leaves a token and its successor both live, nor a token
\* retired by rotation without successor; two successors need two overlapping
\* refreshes of the token.
THEOREM RotationSafe == Spec => [](RotationIsAtomic /\ OneSuccessor)
  <1>1. IInv => RotationIsAtomic /\ OneSuccessor
    BY DEF IInv
  <1> QED
    BY Invariance, <1>1, PTL

\* revoke_all_for_user ends every session of before, but for those that go back
\* to a refresh that had passed its check.
THEOREM RevokeAllHolds == Spec => []RevokeAllSticks
  <1>1. IInv => RevokeAllSticks
    BY DEF IInv
  <1> QED
    BY Invariance, <1>1, PTL

\* The reuse response needs a token that was retired at least Grace before.
THEOREM ReuseDetection == Spec => []NukeNeedsStaleReplay
  <1>1. IInv => NukeNeedsStaleReplay
    BY DEF IInv
  <1> QED
    BY Invariance, <1>1, PTL

\* prune_expired never makes a rotated token unknown while its JWT verifies.
THEOREM ReplayRecognition == Spec => []ReplayIsRecognised
  <1>1. IInv => ReplayIsRecognised
    BY DEF IInv
  <1> QED
    BY Invariance, <1>1, PTL

\* No step revives a revoked session or moves its revoked_at.
THEOREM RevocationFinal == Spec => RevocationIsFinal
  <1> DEFINE Final == \A t \in Issued \ Live :
                        /\ state'[t] \in {state[t], "pruned"}
                        /\ revokedAt'[t] = revokedAt[t]
  <1>1. ASSUME TypeOK, Next PROVE Final
    <2>1. \A t \in Issued \ Live : t \in Tokens /\ t \notin Live /\ state[t] # "unissued"
      BY DEF Issued
    <2>2. CASE Tick
      BY <2>2 DEF Tick, rows
    <2>3. ASSUME NEW n \in Tokens, SignIn(n) PROVE Final
      BY <2>1, <2>3 DEF SignIn, TypeOK
    <2>4. ASSUME NEW h \in Handlers, NEW t \in Tokens, RefreshRead(h, t) PROVE Final
      BY <2>4 DEF RefreshRead, rows
    <2>5. ASSUME NEW h \in Handlers, NEW n \in Tokens, RotateCommit(h, n) PROVE Final
      BY <2>1, <2>5 DEF RotateCommit, TypeOK
    <2>6. ASSUME NEW h \in Handlers, Prune(h) PROVE Final
      BY <2>1, <2>6 DEF Prune
    <2>7. ASSUME NEW h \in Handlers, Drop(h) PROVE Final
      BY <2>7 DEF Drop, rows
    <2>8. ASSUME NEW T \in SUBSET Tokens, Revoke(T) PROVE Final
      BY <1>1, <2>1, <2>8, RevokeShape
    <2> QED
      BY <1>1, <2>2, <2>3, <2>4, <2>5, <2>6, <2>7, <2>8 DEF Next, Nuke, SignOutAll, RevokeAll, SignOut
  <1>2. ASSUME TypeOK, [Next]_vars PROVE [Final]_vars
    BY <1>1, <1>2
  <1> QED
    BY TypeCorrect, <1>2, PTL DEF Spec, RevocationIsFinal

-----------------------------------------------------------------------------
(* ProEntitlement *)

\* A webhook in flight is about a notification that exists.
RequestsKnown ==
    \A h \in Calls : call[h].pc \in {"fetch", "apply"} => call[h].n \in 1 .. Len(log)

\* last_notification_at is an upper bound of what was applied, and a row whose
\* last writer was stamped carries that writer's timestamp.
ClockBounds ==
    \A u \in Users :
        /\ \A n \in applied[u] : log[n].stamped /\ n <= lastNotification[u]
        /\ lastNotification[u] # 0 => lastNotification[u] \in applied[u]

ProIInv ==
    /\ ProTypeOK
    /\ RequestsKnown
    /\ OneAccountPerPurchase
    /\ ClockBounds
    /\ NewestWins

\* The fields a request has, by its program counter.
LEMMA CallShape ==
    ASSUME ProTypeOK, NEW h \in Calls
    PROVE  /\ call[h].pc \in {"idle", "fetch", "apply", "claim"}
           /\ call[h].pc \in {"fetch", "apply"} => call[h].n \in Nat
           /\ call[h].pc = "apply" => call[h].paid \in Nat
           /\ call[h].pc = "claim" =>
                 call[h].user \in Users /\ call[h].of \in Purchases /\ call[h].paid \in Nat
  <1>1. call[h] \in CallStates
    BY DEF ProTypeOK
  <1> QED
    BY <1>1 DEF CallStates, NoCall

\* Nothing is claimed initially.
LEMMA ProInitIInv == ProInit => ProIInv
  <1> SUFFICES ASSUME ProInit PROVE ProIInv
    OBVIOUS
  <1>1. ProTypeOK
    BY ProAssumption DEF ProInit, ProTypeOK, CallStates
  <1>2. \A h \in Calls : call[h].pc = "idle"
    BY DEF ProInit, NoCall
  <1> QED
    BY <1>1, <1>2, ProAssumption DEF ProInit, ProIInv, RequestsKnown, OneAccountPerPurchase,
       ClockBounds, NewestWins

\* The store's log grows: the notifications there were stay what they were.
LEMMA StoreEventIInv ==
    ASSUME ProIInv, NEW t \in Purchases, NEW kind \in {"grant", "revoke", "cancel"},
           NEW stamped \in BOOLEAN, StoreEvent(t, kind, stamped)
    PROVE  ProIInv'
  <1> DEFINE e == [of |-> t, kind |-> kind, stamped |-> stamped]
  <1>1. log \in Seq(Events) /\ e \in Events /\ log' = Append(log, e)
    BY DEF StoreEvent, ProIInv, ProTypeOK, Events
  <1>2. /\ log' \in Seq(Events)
        /\ Len(log') = Len(log) + 1
        /\ Len(log) \in Nat
        /\ \A n \in 1 .. Len(log) : log'[n] = log[n]
    BY <1>1
  <1>3. 1 .. Len(log) \subseteq 1 .. Len(log')
    BY <1>2
  <1>4. UNCHANGED <<acked, purchaseToken, proStatus, proExpiresAt, lastNotification, call,
                    source, applied, outdated>>
    BY DEF StoreEvent, row, proHistory
  <1>5. ProTypeOK'
    BY <1>2, <1>3, <1>4 DEF ProIInv, ProTypeOK
  <1>6. RequestsKnown' /\ OneAccountPerPurchase'
    BY <1>3, <1>4 DEF ProIInv, RequestsKnown, OneAccountPerPurchase
  <1>7. \A u \in Users : applied[u] \subseteq 1 .. Len(log)
    BY DEF ProIInv, ProTypeOK
  <1>8. ClockBounds' /\ NewestWins'
    BY <1>2, <1>4, <1>7 DEF ProIInv, ClockBounds, NewestWins
  <1> QED
    BY <1>5, <1>6, <1>8 DEF ProIInv

\* The steps before the row is written: only a request and the acknowledgements move.
LEMMA BeforeWriteIInv ==
    ASSUME ProIInv, NEW h \in Calls,
           \/ \E n \in 1 .. Len(log) : Deliver(h, n)
           \/ \E u \in Users, t \in Purchases : VerifyFetch(h, u, t)
           \/ Fetch(h)
           \/ CutOff(h)
    PROVE  ProIInv'
  <1>1. UNCHANGED <<log, row, proHistory>>
    BY DEF Deliver, VerifyFetch, Fetch, CutOff
  <1>2. acked' \subseteq 1 .. Len(log)
    BY DEF Deliver, VerifyFetch, Fetch, CutOff, ProIInv, ProTypeOK, RequestsKnown, At
  <1>3. \A t \in Purchases : ActivePeriod(t) \subseteq Nat
    BY DEF ActivePeriod, Turns
  <1>4. PICK r \in CallStates :
            /\ call' = [call EXCEPT ![h] = r] \/ UNCHANGED call
            /\ r.pc \in {"fetch", "apply"} => r.n \in 1 .. Len(log)
    <2>1. NoCall \in CallStates /\ NoCall.pc = "idle"
      BY DEF CallStates, NoCall
    <2>2. ASSUME NEW n \in 1 .. Len(log), Deliver(h, n)
          PROVE  \E r \in CallStates :
                   /\ call' = [call EXCEPT ![h] = r] \/ UNCHANGED call
                   /\ r.pc \in {"fetch", "apply"} => r.n \in 1 .. Len(log)
      <3>1. [pc |-> "fetch", n |-> n] \in CallStates /\ [pc |-> "apply", n |-> n, paid |-> 0] \in CallStates
        BY DEF CallStates
      <3> QED
        BY <2>1, <2>2, <3>1 DEF Deliver
    <2>3. ASSUME NEW u \in Users, NEW t \in Purchases, VerifyFetch(h, u, t)
          PROVE  \E r \in CallStates :
                   /\ call' = [call EXCEPT ![h] = r] \/ UNCHANGED call
                   /\ r.pc \in {"fetch", "apply"} => r.n \in 1 .. Len(log)
      <3>1. PICK p \in ActivePeriod(t) :
              call' = [call EXCEPT ![h] = [pc |-> "claim", user |-> u, of |-> t, paid |-> p]]
        BY <2>3 DEF VerifyFetch
      <3>2. [pc |-> "claim", user |-> u, of |-> t, paid |-> p] \in CallStates
        BY <1>3, <3>1 DEF CallStates
      <3> QED
        BY <3>1, <3>2
    <2>4. ASSUME Fetch(h)
          PROVE  \E r \in CallStates :
                   /\ call' = [call EXCEPT ![h] = r] \/ UNCHANGED call
                   /\ r.pc \in {"fetch", "apply"} => r.n \in 1 .. Len(log)
      <3>1. call[h].n \in 1 .. Len(log)
        BY <2>4 DEF Fetch, ProIInv, RequestsKnown, At
      <3>2. log[call[h].n] \in Events
        BY <3>1 DEF ProIInv, ProTypeOK
      <3>3. log[call[h].n].of \in Purchases
        BY <3>2 DEF Events
      <3>4. ActivePeriod(log[call[h].n].of) \subseteq Nat
        BY <1>3, <3>3
      <3>5. \A p \in ActivePeriod(log[call[h].n].of) :
              [pc |-> "apply", n |-> call[h].n, paid |-> p] \in CallStates
        BY <3>1, <3>4 DEF CallStates
      <3> QED
        BY <2>1, <2>4, <3>1, <3>5 DEF Fetch
    <2>5. CASE \E n \in 1 .. Len(log) : Deliver(h, n)
      BY <2>2, <2>5
    <2>6. CASE \E u \in Users, t \in Purchases : VerifyFetch(h, u, t)
      BY <2>3, <2>6
    <2>7. CASE Fetch(h)
      BY <2>4, <2>7
    <2>8. CASE CutOff(h)
      BY <2>1, <2>8 DEF CutOff
    <2> QED
      BY <2>5, <2>6, <2>7, <2>8
  <1>5. ProTypeOK'
    BY <1>1, <1>2, <1>4 DEF row, proHistory, ProIInv, ProTypeOK
  <1>6. RequestsKnown'
    BY <1>1, <1>4 DEF ProIInv, ProTypeOK, RequestsKnown
  <1>7. OneAccountPerPurchase' /\ ClockBounds' /\ NewestWins'
    BY <1>1 DEF row, proHistory, ProIInv, OneAccountPerPurchase, ClockBounds, NewestWins
  <1> QED
    BY <1>5, <1>6, <1>7 DEF ProIInv

\* The conditional UPDATE lets only a newer stamped notification through.
LEMMA ApplyIInv ==
    ASSUME ProIInv, NEW h \in Calls, Apply(h)
    PROVE  ProIInv'
  <1> DEFINE n == call[h].n
             Hit(u) == purchaseToken[u] = log[n].of /\ ShouldApply(n, u)
  <1>1. n \in 1 .. Len(log) /\ call[h].paid \in Nat
    BY CallShape DEF Apply, ProIInv, RequestsKnown, At
  <1>2. log[n] \in Events /\ Len(log) \in Nat
    BY <1>1 DEF ProIInv, ProTypeOK
  <1>3. UNCHANGED <<log, purchaseToken>> /\ call' = [call EXCEPT ![h] = NoCall]
    BY DEF Apply
  <1>4. /\ acked' = acked \cup {n}
        /\ proStatus' = [u \in Users |-> IF Hit(u) THEN log[n].kind = "grant" ELSE proStatus[u]]
        /\ proExpiresAt' = [u \in Users |-> IF Hit(u) /\ log[n].kind = "grant"
                                            THEN call[h].paid ELSE proExpiresAt[u]]
        /\ lastNotification' = [u \in Users |-> IF Hit(u) /\ log[n].stamped
                                                THEN n ELSE lastNotification[u]]
        /\ source' = [u \in Users |-> IF Hit(u) THEN n ELSE source[u]]
        /\ applied' = [u \in Users |-> IF Hit(u) /\ log[n].stamped
                                       THEN applied[u] \cup {n} ELSE applied[u]]
        /\ outdated' \in [Users -> BOOLEAN]
    BY DEF Apply, ProIInv, ProTypeOK, Muted
  <1>5. ProTypeOK'
    <2>1. NoCall \in CallStates /\ n \in Nat
      BY <1>1 DEF CallStates
    <2>2. call' \in [Calls -> CallStates]
      BY <1>3, <2>1 DEF ProIInv, ProTypeOK
    <2>3. acked' \subseteq 1 .. Len(log) /\ applied' \in [Users -> SUBSET (1 .. Len(log))]
      BY <1>1, <1>4 DEF ProIInv, ProTypeOK
    <2>4. /\ proStatus' \in [Users -> BOOLEAN]
          /\ proExpiresAt' \in [Users -> Nat]
          /\ lastNotification' \in [Users -> Nat]
          /\ source' \in [Users -> Nat]
      BY <1>1, <1>4, <2>1 DEF ProIInv, ProTypeOK
    <2> QED
      BY <1>3, <1>4, <2>2, <2>3, <2>4 DEF ProIInv, ProTypeOK
  <1>6. RequestsKnown' /\ OneAccountPerPurchase'
    BY <1>3 DEF ProIInv, ProTypeOK, RequestsKnown, OneAccountPerPurchase, NoCall
  <1>7. \A u \in Users : Hit(u) /\ log[n].stamped => \A m \in applied[u] : m < n
    <2> SUFFICES ASSUME NEW u \in Users, Hit(u), log[n].stamped, NEW m \in applied[u]
                 PROVE  m < n
      OBVIOUS
    <2>1. m \in 1 .. Len(log) /\ m <= lastNotification[u] /\ lastNotification[u] \in Nat
      BY DEF ProIInv, ProTypeOK, ClockBounds
    <2>2. lastNotification[u] < n
      BY <2>1 DEF ShouldApply
    <2> QED
      BY <1>1, <2>1, <2>2
  <1>8. ClockBounds'
    <2> SUFFICES ASSUME NEW u \in Users
                 PROVE  /\ \A m \in applied'[u] : log[m].stamped /\ m <= lastNotification'[u]
                        /\ lastNotification'[u] # 0 => lastNotification'[u] \in applied'[u]
      BY <1>3 DEF ClockBounds
    <2>1. CASE Hit(u) /\ log[n].stamped
      <3>1. \A m \in applied[u] : m \in Nat /\ m <= n
        BY <1>1, <1>7, <2>1 DEF ProIInv, ProTypeOK
      <3> QED
        BY <1>1, <1>4, <2>1, <3>1 DEF ProIInv, ClockBounds
    <2>2. CASE ~ (Hit(u) /\ log[n].stamped)
      BY <1>4, <2>2 DEF ProIInv, ClockBounds
    <2> QED
      BY <2>1, <2>2
  <1>9. NewestWins'
    <2> SUFFICES ASSUME NEW u \in Users, source'[u] \in applied'[u]
                 PROVE  /\ \A m \in applied'[u] : m <= source'[u]
                        /\ proStatus'[u] = (log[source'[u]].kind = "grant")
      BY <1>3 DEF NewestWins
    <2>1. CASE Hit(u) /\ log[n].stamped
      <3>1. \A m \in applied[u] : m \in Nat /\ m <= n
        BY <1>1, <1>7, <2>1 DEF ProIInv, ProTypeOK
      <3> QED
        BY <1>1, <1>4, <2>1, <3>1
    <2>2. CASE Hit(u) /\ ~ log[n].stamped
      <3>1. source'[u] = n /\ applied'[u] = applied[u]
        BY <1>4, <2>2
      <3> QED
        BY <2>2, <3>1 DEF ProIInv, ClockBounds
    <2>3. CASE ~ Hit(u)
      BY <1>4, <2>3 DEF ProIInv, NewestWins
    <2> QED
      BY <2>1, <2>2, <2>3
  <1> QED
    BY <1>5, <1>6, <1>8, <1>9 DEF ProIInv

\* The claim goes through only if no other account holds the purchase.
LEMMA ClaimIInv ==
    ASSUME ProIInv, NEW h \in Calls, Claim(h)
    PROVE  ProIInv'
  <1> DEFINE u == call[h].user
             t == call[h].of
  <1>1. u \in Users /\ t \in Purchases /\ call[h].paid \in Nat
    BY CallShape DEF Claim, ProIInv, At
  <1>2. UNCHANGED <<log, acked, lastNotification, applied>> /\ call' = [call EXCEPT ![h] = NoCall]
    BY DEF Claim, row, proHistory
  <1>3. NoCall \in CallStates /\ NoCall.pc = "idle"
    BY DEF CallStates, NoCall
  <1>4. RequestsKnown'
    BY <1>2, <1>3 DEF ProIInv, ProTypeOK, RequestsKnown
  <1>5. ClockBounds'
    BY <1>2 DEF ProIInv, ClockBounds
  <1>6. CASE UNCHANGED <<row, proHistory>>
    BY <1>2, <1>3, <1>4, <1>5, <1>6
       DEF row, proHistory, ProIInv, ProTypeOK, OneAccountPerPurchase, NewestWins
  <1>7. CASE /\ \A v \in Users \ {u} : purchaseToken[v] # t
             /\ purchaseToken' = [purchaseToken EXCEPT ![u] = t]
             /\ proStatus' = [proStatus EXCEPT ![u] = TRUE]
             /\ proExpiresAt' = [proExpiresAt EXCEPT ![u] = call[h].paid]
             /\ source' = [source EXCEPT ![u] = 0]
             /\ outdated' = [outdated EXCEPT ![u] =
                               \E m \in Turns(t) : m > call[h].paid /\ m \in acked]
    <2>1. ProTypeOK'
      BY <1>1, <1>2, <1>3, <1>7 DEF ProIInv, ProTypeOK
    <2>2. OneAccountPerPurchase'
      BY <1>1, <1>7 DEF ProIInv, ProTypeOK, OneAccountPerPurchase
    <2>3. source'[u] \notin applied'[u]
      BY <1>1, <1>2, <1>7 DEF ProIInv, ProTypeOK
    <2>4. NewestWins'
      BY <1>2, <1>7, <2>3 DEF ProIInv, ProTypeOK, NewestWins
    <2> QED
      BY <1>4, <1>5, <2>1, <2>2, <2>4 DEF ProIInv
  <1> QED
    BY <1>6, <1>7 DEF Claim

\* Every step keeps the invariant.
LEMMA ProNextIInv == ProIInv /\ [ProNext]_proVars => ProIInv'
  <1> SUFFICES ASSUME ProIInv, [ProNext]_proVars PROVE ProIInv'
    OBVIOUS
  <1>1. CASE UNCHANGED proVars
    BY <1>1 DEF proVars, row, proHistory, ProIInv, ProTypeOK, RequestsKnown, OneAccountPerPurchase,
       ClockBounds, NewestWins
  <1>2. CASE ProNext
    BY <1>2, StoreEventIInv, BeforeWriteIInv, ApplyIInv, ClaimIInv DEF ProNext
  <1> QED
    BY <1>1, <1>2

-----------------------------------------------------------------------------
\* The inductive invariant holds in every reachable state.
THEOREM ProInvariance == ProSpec => []ProIInv
  <1> QED
    BY ProInitIInv, ProNextIInv, PTL DEF ProSpec

\* The variables keep their types.
THEOREM ProTypeCorrect == ProSpec => []ProTypeOK
  <1>1. ProIInv => ProTypeOK
    BY DEF ProIInv
  <1> QED
    BY ProInvariance, <1>1, PTL

\* However accounts race in verify_purchase, none shares a purchase with another.
THEOREM SingleRedemption == ProSpec => []OneAccountPerPurchase
  <1>1. ProIInv => OneAccountPerPurchase
    BY DEF ProIInv
  <1> QED
    BY ProInvariance, <1>1, PTL

\* However the store's notifications are delayed, reordered and repeated, and
\* however slow their handlers are, the newest one applied to a row decides it.
THEOREM NewestNotificationWins == ProSpec => []NewestWins
  <1>1. ProIInv => NewestWins
    BY DEF ProIInv
  <1> QED
    BY ProInvariance, <1>1, PTL

-----------------------------------------------------------------------------
(* What a row says once everything is answered *)

\* The events that bought a period, of a purchase.
Grants(t) == {n \in Turns(t) : log[n].kind = "grant"}

\* What a request in flight has heard from the store came after what it is about.
Heard ==
    \A h \in Calls :
        /\ call[h].pc = "fetch" => log[call[h].n].kind = "grant"
        /\ call[h].pc = "apply" =>
             /\ log[call[h].n].kind # "cancel"
             /\ log[call[h].n].kind = "grant" =>
                  call[h].paid \in Grants(log[call[h].n].of) /\ call[h].n <= call[h].paid
        /\ call[h].pc = "claim" => call[h].paid \in Grants(call[h].of)

\* What a row was stamped with was answered, and no period is of the future.
Stamped ==
    \A u \in Users :
        /\ lastNotification[u] # 0 =>
             lastNotification[u] \in acked /\ log[lastNotification[u]].kind # "cancel"
        /\ proExpiresAt[u] <= Len(log)

\* The event a row rests on: the one that bought its period, or the one that ended it.
Basis(u) == IF proStatus[u] THEN proExpiresAt[u] ELSE source[u]

\* Unless outdated, a row rests on an event of its purchase that says what the row says,
\* and whatever turned later is, or is followed by, news that is still to be answered.
Founded ==
    \A u \in Users : purchaseToken[u] # NoPurchase /\ ~ outdated[u] =>
        /\ Basis(u) \in Turns(purchaseToken[u])
        /\ proStatus[u] <=> log[Basis(u)].kind = "grant"
        /\ \A m \in Turns(purchaseToken[u]) : m > Basis(u) =>
             /\ \E k \in Turns(purchaseToken[u]) : k >= m /\ k \notin acked
             /\ ~ proStatus[u] => m > proExpiresAt[u]

SettledIInv == ProIInv /\ Heard /\ Stamped /\ Founded

\* What a turn of a purchase is.
LEMMA TurnsShape ==
    ASSUME ProTypeOK, NEW t, NEW n \in Turns(t)
    PROVE  n \in 1 .. Len(log) /\ n \in Nat /\ log[n].of = t /\ log[n].kind \in {"grant", "revoke"}
  <1>1. n \in 1 .. Len(log) /\ log[n].of = t /\ log[n].kind # "cancel"
    BY DEF Turns
  <1>2. log[n] \in Events /\ Len(log) \in Nat
    BY <1>1 DEF ProTypeOK
  <1> QED
    BY <1>1, <1>2 DEF Events

\* Turns and Grants after a step.
TurnsThen(t) == {n \in 1 .. Len(log') : log'[n].of = t /\ log'[n].kind # "cancel"}
GrantsThen(t) == {n \in TurnsThen(t) : log'[n].kind = "grant"}

\* An entry of the log stays, and a new one comes last.
LEMMA TurnsGrow ==
    ASSUME ProTypeOK, NEW t \in Purchases, NEW kind \in {"grant", "revoke", "cancel"},
           NEW stamped \in BOOLEAN, StoreEvent(t, kind, stamped), NEW p
    PROVE  /\ \A n \in 1 .. Len(log) : log'[n] = log[n]
           /\ Turns(p) \subseteq TurnsThen(p) /\ Grants(p) \subseteq GrantsThen(p)
           /\ \A n \in TurnsThen(p) : n \in Turns(p) \/ n = Len(log) + 1
           /\ Len(log) \in Nat /\ Len(log') = Len(log) + 1
  <1> DEFINE e == [of |-> t, kind |-> kind, stamped |-> stamped]
  <1>1. log \in Seq(Events) /\ e \in Events /\ log' = Append(log, e)
    BY DEF StoreEvent, ProTypeOK, Events
  <1>2. /\ Len(log') = Len(log) + 1 /\ Len(log) \in Nat
        /\ \A n \in 1 .. Len(log) : log'[n] = log[n]
    BY <1>1
  <1>3. Turns(p) \subseteq TurnsThen(p) /\ Grants(p) \subseteq GrantsThen(p)
    BY <1>2 DEF Turns, Grants, TurnsThen, GrantsThen
  <1>4. \A n \in TurnsThen(p) : n \in Turns(p) \/ n = Len(log) + 1
    BY <1>2 DEF Turns, TurnsThen
  <1> QED
    BY <1>2, <1>3, <1>4

\* No row holds a purchase initially.
LEMMA SettledInit == ASSUME ProInit PROVE SettledIInv
  <1>1. ProIInv
    BY ProInitIInv
  <1>2. \A h \in Calls : call[h].pc = "idle"
    BY DEF ProInit, NoCall
  <1>3. Len(log) = 0
    BY DEF ProInit
  <1> QED
    BY <1>1, <1>2, <1>3 DEF ProInit, SettledIInv, Heard, Stamped, Founded

\* What happens at the store is news that nobody has answered yet.
LEMMA StoreEventSettled ==
    ASSUME SettledIInv, NEW t \in Purchases, NEW kind \in {"grant", "revoke", "cancel"},
           NEW stamped \in BOOLEAN, StoreEvent(t, kind, stamped)
    PROVE  Heard' /\ Stamped' /\ Founded'
  <1>0. ProTypeOK /\ ProIInv /\ Heard /\ Stamped /\ Founded
    BY DEF SettledIInv, ProIInv
  <1>1. UNCHANGED <<acked, purchaseToken, proStatus, proExpiresAt, lastNotification, call,
                    source, applied, outdated>>
    BY DEF StoreEvent, row, proHistory
  <1>2. /\ \A n \in 1 .. Len(log) : log'[n] = log[n]
        /\ Len(log) \in Nat /\ Len(log') = Len(log) + 1
        /\ acked \subseteq 1 .. Len(log)
    BY <1>0, TurnsGrow DEF ProTypeOK
  <1>3. \A p : /\ Turns(p) \subseteq TurnsThen(p) /\ Grants(p) \subseteq GrantsThen(p)
               /\ \A n \in TurnsThen(p) : n \in Turns(p) \/ n = Len(log) + 1
    BY <1>0, TurnsGrow
  <1>4. Heard'
    <2>1. \A h \in Calls : call[h].pc \in {"fetch", "apply"} =>
            call[h].n \in 1 .. Len(log) /\ log'[call[h].n] = log[call[h].n]
      BY <1>0, <1>2 DEF ProIInv, RequestsKnown
    <2>2. \A p : Grants(p)' = GrantsThen(p)
      BY DEF Grants, Turns, GrantsThen, TurnsThen
    <2>3. ASSUME NEW h \in Calls
          PROVE  /\ call[h].pc = "fetch" => log'[call[h].n].kind = "grant"
                 /\ call[h].pc = "apply" =>
                      /\ log'[call[h].n].kind # "cancel"
                      /\ log'[call[h].n].kind = "grant" =>
                           call[h].paid \in GrantsThen(log'[call[h].n].of)
                           /\ call[h].n <= call[h].paid
                 /\ call[h].pc = "claim" => call[h].paid \in GrantsThen(call[h].of)
      BY <1>0, <1>3, <2>1 DEF Heard
    <2> QED
      BY <1>1, <2>3 DEF Heard, Grants, Turns, GrantsThen, TurnsThen
  <1>5. Stamped'
    <2>1. \A u \in Users : proExpiresAt[u] \in Nat
      BY <1>0 DEF ProTypeOK
    <2>2. \A u \in Users : lastNotification[u] # 0 =>
            /\ lastNotification[u] \in acked /\ log[lastNotification[u]].kind # "cancel"
            /\ log'[lastNotification[u]] = log[lastNotification[u]]
      BY <1>0, <1>2 DEF Stamped
    <2>3. \A u \in Users : proExpiresAt[u] <= Len(log')
      BY <1>0, <1>2, <2>1 DEF Stamped
    <2> QED
      BY <1>1, <2>2, <2>3 DEF Stamped
  <1>6. ASSUME NEW u \in Users, purchaseToken[u] # NoPurchase, ~ outdated[u]
        PROVE  /\ Basis(u) \in TurnsThen(purchaseToken[u])
               /\ proStatus[u] <=> log'[Basis(u)].kind = "grant"
               /\ \A m \in TurnsThen(purchaseToken[u]) : m > Basis(u) =>
                    /\ \E k \in TurnsThen(purchaseToken[u]) : k >= m /\ k \notin acked
                    /\ ~ proStatus[u] => m > proExpiresAt[u]
    <2> DEFINE b == Basis(u)
    <2>0. PICK p : p = purchaseToken[u]
      OBVIOUS
    <2>1. /\ b \in Turns(p)
          /\ proStatus[u] <=> log[b].kind = "grant"
          /\ \A m \in Turns(p) : m > b =>
               /\ \E k \in Turns(p) : k >= m /\ k \notin acked
               /\ ~ proStatus[u] => m > proExpiresAt[u]
      BY <1>0, <1>6, <2>0 DEF Founded
    <2>2. b \in 1 .. Len(log)
      BY <1>0, <2>1, TurnsShape
    <2>3. proExpiresAt[u] \in Nat /\ proExpiresAt[u] <= Len(log)
      BY <1>0 DEF ProTypeOK, Stamped
    <2> HIDE DEF b
    <2>5. ASSUME NEW m \in TurnsThen(p), m > b
          PROVE  /\ \E k \in TurnsThen(p) : k >= m /\ k \notin acked
                 /\ ~ proStatus[u] => m > proExpiresAt[u]
      <3>1. CASE m \in Turns(p)
        BY <1>3, <2>1, <2>5, <3>1
      <3>2. CASE m = Len(log) + 1
        BY <1>2, <2>3, <2>5, <3>2
      <3> QED
        BY <1>3, <2>5, <3>1, <3>2
    <2> QED
      BY <1>2, <1>3, <2>0, <2>1, <2>2, <2>5 DEF b
  <1>7. Founded'
    BY <1>1, <1>6 DEF Founded, Basis, Turns, TurnsThen
  <1> QED
    BY <1>4, <1>5, <1>7

\* An answer to news that is not the last of its purchase, or turns nothing, leaves
\* every row founded.
LEMMA AnswerSettled ==
    ASSUME SettledIInv, NEW n \in 1 .. Len(log),
           UNCHANGED <<log, row, proHistory>>, acked' = acked \cup {n},
           \A t : n \in Turns(t) => \E j \in Turns(t) : j > n
    PROVE  Stamped' /\ Founded'
  <1>0. ProTypeOK /\ Stamped /\ Founded
    BY DEF SettledIInv, ProIInv
  <1>1. UNCHANGED <<log, purchaseToken, proStatus, proExpiresAt, lastNotification, source, outdated>>
    BY DEF row, proHistory
  <1>2. Stamped'
    BY <1>0, <1>1 DEF Stamped
  <1>3. ASSUME NEW u \in Users, purchaseToken[u] # NoPurchase, ~ outdated[u]
        PROVE  /\ Basis(u) \in Turns(purchaseToken[u])
               /\ proStatus[u] <=> log[Basis(u)].kind = "grant"
               /\ \A m \in Turns(purchaseToken[u]) : m > Basis(u) =>
                    /\ \E k \in Turns(purchaseToken[u]) : k >= m /\ k \notin acked'
                    /\ ~ proStatus[u] => m > proExpiresAt[u]
    <2> DEFINE b == Basis(u)
    <2>0. PICK p : p = purchaseToken[u]
      OBVIOUS
    <2>1. /\ b \in Turns(p)
          /\ proStatus[u] <=> log[b].kind = "grant"
          /\ \A m \in Turns(p) : m > b =>
               /\ \E k \in Turns(p) : k >= m /\ k \notin acked
               /\ ~ proStatus[u] => m > proExpiresAt[u]
      BY <1>0, <1>3, <2>0 DEF Founded
    <2>2. Turns(p) \subseteq Nat
      BY <1>0, TurnsShape
    <2> HIDE DEF b
    <2>3. ASSUME NEW m \in Turns(p), m > b
          PROVE  \E k \in Turns(p) : k >= m /\ k \notin acked'
      <3>1. PICK k \in Turns(p) : k >= m /\ k \notin acked
        BY <2>1, <2>3
      <3>2. CASE k # n
        BY <3>1, <3>2
      <3>3. CASE k = n
        <4>1. PICK j \in Turns(p) : j > n
          BY <3>3
        <4>2. j > b
          BY <2>1, <2>2, <2>3, <3>1, <3>3, <4>1
        <4>3. PICK i \in Turns(p) : i >= j /\ i \notin acked
          BY <2>1, <4>1, <4>2
        <4>4. i >= m /\ i # n
          BY <2>2, <2>3, <3>1, <3>3, <4>1, <4>3
        <4> QED
          BY <4>3, <4>4
      <3> QED
        BY <3>2, <3>3
    <2> QED
      BY <2>0, <2>1, <2>3 DEF b
  <1>4. Founded'
    BY <1>1, <1>3 DEF Founded, Basis, Turns
  <1> QED
    BY <1>2, <1>4

\* The steps before the row is written.
LEMMA BeforeWriteSettled ==
    ASSUME SettledIInv, NEW h \in Calls,
           \/ \E n \in 1 .. Len(log) : Deliver(h, n)
           \/ \E u \in Users, t \in Purchases : VerifyFetch(h, u, t)
           \/ Fetch(h)
           \/ CutOff(h)
    PROVE  Heard' /\ Stamped' /\ Founded'
  <1>0. ProTypeOK /\ ProIInv /\ Heard /\ Stamped /\ Founded
    BY DEF SettledIInv, ProIInv
  <1>1. UNCHANGED <<log, row, proHistory>>
    BY DEF Deliver, VerifyFetch, Fetch, CutOff
  <1>2. NoCall.pc = "idle"
    BY DEF NoCall
  <1> DEFINE Good(r) ==
               /\ r.pc = "fetch" => log[r.n].kind = "grant"
               /\ r.pc = "apply" =>
                    /\ log[r.n].kind # "cancel"
                    /\ log[r.n].kind = "grant" => r.paid \in Grants(log[r.n].of) /\ r.n <= r.paid
               /\ r.pc = "claim" => r.paid \in Grants(r.of)
  <1>3. \A g \in Calls : Good(call[g])
    BY <1>0 DEF Heard
  <1>4. ASSUME NEW r, call' = [call EXCEPT ![h] = r], Good(r)
        PROVE  Heard'
    <2>1. \A g \in Calls : Good(call'[g])
      BY <1>0, <1>3, <1>4 DEF ProTypeOK
    <2> HIDE DEF Good
    <2>2. \A g \in Calls :
            /\ call'[g].pc = "fetch" => log[call'[g].n].kind = "grant"
            /\ call'[g].pc = "apply" =>
                 /\ log[call'[g].n].kind # "cancel"
                 /\ log[call'[g].n].kind = "grant" =>
                      call'[g].paid \in Grants(log[call'[g].n].of) /\ call'[g].n <= call'[g].paid
            /\ call'[g].pc = "claim" => call'[g].paid \in Grants(call'[g].of)
      BY <2>1 DEF Good
    <2> QED
      BY <1>1, <2>2 DEF Heard, Grants, Turns
  <1>5. UNCHANGED acked => Stamped' /\ Founded'
    BY <1>0, <1>1 DEF row, proHistory, Stamped, Founded, Basis, Turns
  <1>6. ASSUME NEW n \in 1 .. Len(log), Deliver(h, n)
        PROVE  Heard' /\ Stamped' /\ Founded'
    <2>1. CASE /\ log[n].kind = "grant"
               /\ call' = [call EXCEPT ![h] = [pc |-> "fetch", n |-> n]]
               /\ UNCHANGED acked
      BY <1>4, <1>5, <2>1
    <2>2. CASE /\ log[n].kind = "revoke"
               /\ call' = [call EXCEPT ![h] = [pc |-> "apply", n |-> n, paid |-> 0]]
               /\ UNCHANGED acked
      BY <1>4, <1>5, <2>2
    <2>3. CASE /\ log[n].kind = "cancel"
               /\ acked' = acked \cup {n}
               /\ UNCHANGED call
      <3>1. \A t : n \notin Turns(t)
        BY <2>3 DEF Turns
      <3>2. Heard'
        BY <1>0, <1>1, <2>3 DEF Heard, Grants, Turns
      <3> QED
        BY <1>1, <2>3, <3>1, <3>2, AnswerSettled
    <2> QED
      BY <1>6, <2>1, <2>2, <2>3 DEF Deliver
  <1>7. ASSUME NEW u \in Users, NEW t \in Purchases, VerifyFetch(h, u, t)
        PROVE  Heard' /\ Stamped' /\ Founded'
    <2>1. PICK p \in ActivePeriod(t) :
            call' = [call EXCEPT ![h] = [pc |-> "claim", user |-> u, of |-> t, paid |-> p]]
      BY <1>7 DEF VerifyFetch
    <2>2. p \in Grants(t)
      BY <2>1 DEF ActivePeriod, Grants
    <2>3. UNCHANGED acked
      BY <1>7 DEF VerifyFetch
    <2> QED
      BY <1>4, <1>5, <2>1, <2>2, <2>3
  <1>8. ASSUME Fetch(h)
        PROVE  Heard' /\ Stamped' /\ Founded'
    <2>0. PICK n : n = call[h].n
      OBVIOUS
    <2>1. n \in 1 .. Len(log) /\ log[n].kind = "grant"
      BY <1>0, <1>8, <2>0 DEF Fetch, At, ProIInv, RequestsKnown, Heard
    <2>2. n \in Turns(log[n].of)
      BY <2>1 DEF Turns
    <2>3. CASE \E p \in ActivePeriod(log[n].of) :
                 /\ call' = [call EXCEPT ![h] = [pc |-> "apply", n |-> n, paid |-> p]]
                 /\ UNCHANGED acked
      <3>1. PICK p \in ActivePeriod(log[n].of) :
              call' = [call EXCEPT ![h] = [pc |-> "apply", n |-> n, paid |-> p]]
        BY <2>3
      <3>2. p \in Grants(log[n].of) /\ n <= p
        BY <2>2, <3>1 DEF ActivePeriod, Grants
      <3> QED
        BY <1>4, <1>5, <2>1, <2>3, <3>1, <3>2
    <2>4. CASE /\ ActivePeriod(log[n].of) = {}
               /\ call' = [call EXCEPT ![h] = NoCall]
               /\ acked' = acked \cup {n}
      <3>1. PICK j \in Turns(log[n].of) : ~ (j <= n)
        BY <2>1, <2>2, <2>4 DEF ActivePeriod
      <3>2. j > n
        BY <1>0, <2>1, <3>1, TurnsShape DEF ProTypeOK
      <3>3. \A t : n \in Turns(t) => t = log[n].of
        BY DEF Turns
      <3>4. Stamped' /\ Founded'
        BY <1>1, <2>1, <2>4, <3>1, <3>2, <3>3, AnswerSettled
      <3> QED
        BY <1>2, <1>4, <2>4, <3>4
    <2> QED
      BY <1>8, <2>0, <2>3, <2>4 DEF Fetch
  <1>9. ASSUME CutOff(h)
        PROVE  Heard' /\ Stamped' /\ Founded'
    BY <1>2, <1>4, <1>5, <1>9 DEF CutOff
  <1> QED
    BY <1>6, <1>7, <1>8, <1>9

\* The UPDATE founds the row on the notification or on the period the store told its
\* handler of; where the guard dropped it, what dropped it is founded or to come.
LEMMA ApplySettled ==
    ASSUME SettledIInv, NEW h \in Calls, Apply(h)
    PROVE  Heard' /\ Stamped' /\ Founded'
  <1>0. ProTypeOK /\ ProIInv /\ Heard /\ Stamped /\ Founded
    BY DEF SettledIInv, ProIInv
  <1>a. PICK n : n = call[h].n
    OBVIOUS
  <1>b. PICK paid : paid = call[h].paid
    OBVIOUS
  <1>c. PICK t : t = log[n].of
    OBVIOUS
  <1> DEFINE Hit(u) == purchaseToken[u] = t /\ ShouldApply(n, u)
  <1>1. n \in 1 .. Len(log) /\ n \in Nat /\ paid \in Nat /\ Len(log) \in Nat
    BY <1>0, <1>a, <1>b, CallShape DEF Apply, ProIInv, ProTypeOK, RequestsKnown, At
  <1>2. /\ log[n].kind # "cancel"
        /\ log[n].kind = "grant" => paid \in Grants(t) /\ n <= paid
    BY <1>0, <1>a, <1>b, <1>c DEF Apply, At, Heard
  <1>3. n \in Turns(t)
    BY <1>1, <1>2, <1>c DEF Turns
  <1>4. UNCHANGED <<log, purchaseToken>> /\ call' = [call EXCEPT ![h] = NoCall]
    BY DEF Apply
  <1>5. /\ acked' = acked \cup {n}
        /\ proStatus' = [u \in Users |-> IF Hit(u) THEN log[n].kind = "grant" ELSE proStatus[u]]
        /\ proExpiresAt' = [u \in Users |-> IF Hit(u) /\ log[n].kind = "grant"
                                            THEN paid ELSE proExpiresAt[u]]
        /\ lastNotification' = [u \in Users |-> IF Hit(u) /\ log[n].stamped
                                                THEN n ELSE lastNotification[u]]
        /\ source' = [u \in Users |-> IF Hit(u) THEN n ELSE source[u]]
        /\ outdated' = [u \in Users |->
                          IF Hit(u)
                          THEN \E m \in Turns(t) : m > n /\ (m \in acked \/ m <= proExpiresAt[u])
                          ELSE outdated[u] \/ Muted(n, u)]
    BY <1>a, <1>b, <1>c DEF Apply
  <1>6. Turns(t) \subseteq Nat /\ \A p : Turns(p) \subseteq 1 .. Len(log)
    BY <1>0, TurnsShape
  <1> HIDE DEF Hit
  <1>7. Heard'
    <2>1. NoCall.pc = "idle"
      BY DEF NoCall
    <2>2. \A g \in Calls : call'[g].pc = "idle" \/ call'[g] = call[g]
      BY <1>0, <1>4, <2>1 DEF ProTypeOK
    <2>3. \A g \in Calls :
            /\ call'[g].pc = "fetch" => log[call'[g].n].kind = "grant"
            /\ call'[g].pc = "apply" =>
                 /\ log[call'[g].n].kind # "cancel"
                 /\ log[call'[g].n].kind = "grant" =>
                      call'[g].paid \in Grants(log[call'[g].n].of) /\ call'[g].n <= call'[g].paid
            /\ call'[g].pc = "claim" => call'[g].paid \in Grants(call'[g].of)
      BY <1>0, <2>2 DEF Heard
    <2> QED
      BY <1>4, <2>3 DEF Heard, Grants, Turns
  <1>8. Stamped'
    <2>1. paid <= Len(log) \/ log[n].kind # "grant"
      BY <1>1, <1>2, <1>6 DEF Grants
    <2>2. ASSUME NEW u \in Users
          PROVE  /\ lastNotification'[u] # 0 =>
                      lastNotification'[u] \in acked' /\ log[lastNotification'[u]].kind # "cancel"
                 /\ proExpiresAt'[u] <= Len(log)
      <3>1. proExpiresAt'[u] <= Len(log)
        BY <1>0, <1>5, <2>1 DEF Stamped
      <3>2. CASE lastNotification'[u] = n
        BY <1>2, <1>5, <3>1, <3>2
      <3>3. CASE lastNotification'[u] = lastNotification[u]
        BY <1>0, <1>5, <3>1, <3>3 DEF Stamped
      <3> QED
        BY <1>5, <3>2, <3>3
    <2> QED
      BY <1>4, <2>2 DEF Stamped
  <1>9. ASSUME NEW u \in Users, purchaseToken[u] # NoPurchase, ~ outdated'[u]
        PROVE  /\ (IF proStatus'[u] THEN proExpiresAt'[u] ELSE source'[u]) \in Turns(purchaseToken[u])
               /\ proStatus'[u] <=>
                    log[IF proStatus'[u] THEN proExpiresAt'[u] ELSE source'[u]].kind = "grant"
               /\ \A m \in Turns(purchaseToken[u]) :
                    m > (IF proStatus'[u] THEN proExpiresAt'[u] ELSE source'[u]) =>
                    /\ \E k \in Turns(purchaseToken[u]) : k >= m /\ k \notin acked'
                    /\ ~ proStatus'[u] => m > proExpiresAt'[u]
    <2>0. PICK p : p = purchaseToken[u]
      OBVIOUS
    <2>1. CASE Hit(u)
      <3>1. p = t
        BY <2>0, <2>1 DEF Hit
      <3>2. \A m \in Turns(t) : m > n => m \notin acked' /\ m > proExpiresAt[u]
        <4>1. \A m \in Turns(t) : m > n => ~ (m \in acked \/ m <= proExpiresAt[u])
          BY <1>5, <1>9, <2>1
        <4>2. proExpiresAt[u] \in Nat
          BY <1>0 DEF ProTypeOK
        <4> QED
          BY <1>1, <1>5, <1>6, <4>1, <4>2
      <3>3. CASE log[n].kind = "grant"
        <4>1. proStatus'[u] /\ proExpiresAt'[u] = paid
          BY <1>5, <2>1, <3>3
        <4>2. paid \in Turns(t) /\ log[paid].kind = "grant" /\ n <= paid
          BY <1>2, <3>3 DEF Grants
        <4>3. \A m \in Turns(t) : m > paid => \E k \in Turns(t) : k >= m /\ k \notin acked'
          BY <1>1, <1>6, <3>2, <4>2
        <4> QED
          BY <2>0, <3>1, <4>1, <4>2, <4>3
      <3>4. CASE log[n].kind # "grant"
        <4>1. ~ proStatus'[u] /\ proExpiresAt'[u] = proExpiresAt[u] /\ source'[u] = n
          BY <1>5, <2>1, <3>4
        <4>2. \A m \in Turns(t) : m > n => \E k \in Turns(t) : k >= m /\ k \notin acked'
          BY <1>6, <3>2
        <4> QED
          BY <1>3, <2>0, <3>1, <3>2, <3>4, <4>1, <4>2
      <3> QED
        BY <3>3, <3>4
    <2>2. CASE ~ Hit(u)
      <3> DEFINE b == Basis(u)
      <3>1. /\ proStatus'[u] = proStatus[u] /\ proExpiresAt'[u] = proExpiresAt[u]
            /\ source'[u] = source[u]
        BY <1>5, <2>2
      <3>2. ~ outdated[u] /\ ~ Muted(n, u)
        BY <1>5, <1>9, <2>2
      <3>3. /\ b \in Turns(p)
            /\ proStatus[u] <=> log[b].kind = "grant"
            /\ \A m \in Turns(p) : m > b =>
                 /\ \E k \in Turns(p) : k >= m /\ k \notin acked
                 /\ ~ proStatus[u] => m > proExpiresAt[u]
        BY <1>0, <1>9, <2>0, <3>2 DEF Founded
      <3>4. proStatus[u] => b = proExpiresAt[u]
        BY DEF Basis
      <3>5. Turns(p) \subseteq Nat /\ proExpiresAt[u] \in Nat
        BY <1>0, <1>6 DEF ProTypeOK
      <3> HIDE DEF b
      <3>6. ASSUME NEW m \in Turns(p), m > b
            PROVE  \E k \in Turns(p) : k >= m /\ k \notin acked'
        <4>1. PICK k \in Turns(p) : k >= m /\ k \notin acked
          BY <3>3, <3>6
        <4>2. CASE k # n
          BY <1>5, <4>1, <4>2
        <4>3. CASE k = n
          <5>1. p = t
            BY <1>c, <4>1, <4>3 DEF Turns
          <5>2. n > b
            BY <3>3, <3>5, <3>6, <4>1, <4>3
          <5>3. n > proExpiresAt[u]
            BY <3>3, <3>4, <4>1, <4>3, <5>2
          <5> DEFINE last == lastNotification[u]
          <5>4. last # 0 /\ last >= n /\ last \in Nat
            <6>1. ~ ShouldApply(n, u)
              BY <2>0, <2>2, <5>1 DEF Hit
            <6>2. last \in Nat
              BY <1>0 DEF ProTypeOK
            <6> QED
              BY <1>1, <6>1, <6>2 DEF ShouldApply
          <5>5. log[last].of = t
            BY <1>c, <2>0, <2>2, <3>2, <5>1, <5>3 DEF Muted, Hit
          <5>6. last \in acked /\ log[last].kind # "cancel"
            BY <1>0, <5>4 DEF Stamped
          <5>7. last \in Turns(t)
            BY <1>0, <5>5, <5>6 DEF Turns, ProTypeOK
          <5>8. last > b
            BY <1>1, <3>3, <3>5, <5>2, <5>4
          <5>9. PICK j \in Turns(p) : j >= last /\ j \notin acked
            BY <3>3, <5>1, <5>7, <5>8
          <5>10. j >= m /\ j # n
            <6>1. last # n
              BY <4>1, <4>3, <5>6
            <6> QED
              BY <1>1, <3>5, <3>6, <4>1, <4>3, <5>4, <5>9, <6>1
          <5> QED
            BY <1>5, <5>9, <5>10
        <4> QED
          BY <4>2, <4>3
      <3> QED
        BY <2>0, <3>1, <3>3, <3>6 DEF b, Basis
    <2> QED
      BY <2>1, <2>2
  <1>10. Founded'
    BY <1>4, <1>9 DEF Founded, Basis, Turns
  <1> QED
    BY <1>7, <1>8, <1>10

\* A claim founds its row on the period the store told it of.
LEMMA ClaimSettled ==
    ASSUME SettledIInv, NEW h \in Calls, Claim(h)
    PROVE  Heard' /\ Stamped' /\ Founded'
  <1>0. ProTypeOK /\ ProIInv /\ Heard /\ Stamped /\ Founded
    BY DEF SettledIInv, ProIInv
  <1>a. PICK w : w = call[h].user
    OBVIOUS
  <1>b. PICK t : t = call[h].of
    OBVIOUS
  <1>c. PICK paid : paid = call[h].paid
    OBVIOUS
  <1>1. w \in Users /\ t \in Purchases /\ paid \in Grants(t)
    BY <1>0, <1>a, <1>b, <1>c, CallShape DEF Claim, At, Heard
  <1>2. UNCHANGED <<log, acked, lastNotification>> /\ call' = [call EXCEPT ![h] = NoCall]
    BY DEF Claim, row, proHistory
  <1>3. Turns(t) \subseteq Nat /\ Turns(t) \subseteq 1 .. Len(log) /\ Len(log) \in Nat
    BY <1>0, TurnsShape DEF ProTypeOK
  <1>4. Heard'
    <2>1. NoCall.pc = "idle"
      BY DEF NoCall
    <2>2. \A g \in Calls : call'[g].pc = "idle" \/ call'[g] = call[g]
      BY <1>0, <1>2, <2>1 DEF ProTypeOK
    <2>3. \A g \in Calls :
            /\ call'[g].pc = "fetch" => log[call'[g].n].kind = "grant"
            /\ call'[g].pc = "apply" =>
                 /\ log[call'[g].n].kind # "cancel"
                 /\ log[call'[g].n].kind = "grant" =>
                      call'[g].paid \in Grants(log[call'[g].n].of) /\ call'[g].n <= call'[g].paid
            /\ call'[g].pc = "claim" => call'[g].paid \in Grants(call'[g].of)
      BY <1>0, <2>2 DEF Heard
    <2> QED
      BY <1>2, <2>3 DEF Heard, Grants, Turns
  <1>5. CASE UNCHANGED <<row, proHistory>>
    <2>1. Stamped' /\ Founded'
      BY <1>0, <1>2, <1>5 DEF row, proHistory, Stamped, Founded, Basis, Turns
    <2> QED
      BY <1>4, <2>1
  <1>6. CASE /\ purchaseToken' = [purchaseToken EXCEPT ![w] = t]
             /\ proStatus' = [proStatus EXCEPT ![w] = TRUE]
             /\ proExpiresAt' = [proExpiresAt EXCEPT ![w] = paid]
             /\ source' = [source EXCEPT ![w] = 0]
             /\ outdated' = [outdated EXCEPT ![w] = \E m \in Turns(t) : m > paid /\ m \in acked]
    <2>1. Stamped'
      <3>1. paid <= Len(log)
        BY <1>1, <1>3 DEF Grants
      <3> QED
        BY <1>0, <1>2, <1>6, <3>1 DEF Stamped, ProTypeOK
    <2>2. ASSUME NEW u \in Users, purchaseToken'[u] # NoPurchase, ~ outdated'[u]
          PROVE  /\ (IF proStatus'[u] THEN proExpiresAt'[u] ELSE source'[u]) \in Turns(purchaseToken'[u])
                 /\ proStatus'[u] <=>
                      log[IF proStatus'[u] THEN proExpiresAt'[u] ELSE source'[u]].kind = "grant"
                 /\ \A m \in Turns(purchaseToken'[u]) :
                      m > (IF proStatus'[u] THEN proExpiresAt'[u] ELSE source'[u]) =>
                      /\ \E k \in Turns(purchaseToken'[u]) : k >= m /\ k \notin acked
                      /\ ~ proStatus'[u] => m > proExpiresAt'[u]
      <3>1. CASE u = w
        <4>1. purchaseToken'[u] = t /\ proStatus'[u] /\ proExpiresAt'[u] = paid
          BY <1>0, <1>1, <1>6, <3>1 DEF ProTypeOK
        <4>2. \A m \in Turns(t) : m > paid => m \notin acked
          BY <1>0, <1>1, <1>6, <2>2, <3>1 DEF ProTypeOK
        <4>3. paid \in Turns(t) /\ log[paid].kind = "grant"
          BY <1>1 DEF Grants
        <4>4. \A m \in Turns(t) : m > paid => \E k \in Turns(t) : k >= m /\ k \notin acked
          BY <1>3, <4>2
        <4> QED
          BY <4>1, <4>3, <4>4
      <3>2. CASE u # w
        <4>1. /\ purchaseToken'[u] = purchaseToken[u] /\ proStatus'[u] = proStatus[u]
              /\ proExpiresAt'[u] = proExpiresAt[u] /\ source'[u] = source[u]
              /\ outdated'[u] = outdated[u]
          BY <1>0, <1>6, <3>2 DEF ProTypeOK
        <4> QED
          BY <1>0, <2>2, <4>1 DEF Founded, Basis
      <3> QED
        BY <3>1, <3>2
    <2>3. Founded'
      BY <1>2, <2>2 DEF Founded, Basis, Turns
    <2> QED
      BY <1>4, <2>1, <2>3
  <1> QED
    BY <1>a, <1>b, <1>c, <1>5, <1>6 DEF Claim

\* Every step keeps the invariant.
LEMMA SettledNext == SettledIInv /\ [ProNext]_proVars => SettledIInv'
  <1> SUFFICES ASSUME SettledIInv, [ProNext]_proVars PROVE SettledIInv'
    OBVIOUS
  <1>1. ProIInv'
    BY ProNextIInv DEF SettledIInv
  <1>2. Heard' /\ Stamped' /\ Founded'
    <2>1. CASE UNCHANGED proVars
      BY <2>1 DEF proVars, row, proHistory, SettledIInv, Heard, Stamped, Founded, Basis, Grants, Turns
    <2>2. CASE ProNext
      BY <2>2, StoreEventSettled, BeforeWriteSettled, ApplySettled, ClaimSettled DEF ProNext
    <2> QED
      BY <2>1, <2>2
  <1> QED
    BY <1>1, <1>2 DEF SettledIInv

-----------------------------------------------------------------------------
\* Every row that is not outdated is founded on an event of its purchase, in every
\* reachable state.
THEOREM SettledInvariance == ProSpec => []SettledIInv
  <1> QED
    BY SettledInit, SettledNext, PTL DEF ProSpec

\* Whatever verifies and notifications raced to write a row, once every notification of
\* its purchase was answered it says what the store says, unless it was written with
\* outdated news or dropped one purchase's news for another's.
THEOREM SettledRows == ProSpec => []SettledAgrees
  <1>1. ASSUME SettledIInv PROVE SettledAgrees
    <2>0. ProTypeOK /\ Founded
      BY <1>1 DEF SettledIInv, ProIInv
    <2> SUFFICES ASSUME NEW u \in Users, NEW t, t = purchaseToken[u], t # NoPurchase,
                        ~ outdated[u], Turns(t) \subseteq acked
                 PROVE  /\ proStatus[u] <=> ActivePeriod(t) # {}
                        /\ proStatus[u] => proExpiresAt[u] \in ActivePeriod(t)
      BY DEF SettledAgrees
    <2> DEFINE b == Basis(u)
    <2>1. b \in Turns(t) /\ (proStatus[u] <=> log[b].kind = "grant")
      BY <2>0 DEF Founded
    <2>2. \A m \in Turns(t) : ~ (m > b)
      BY <2>0 DEF Founded
    <2>3. Turns(t) \subseteq Nat
      BY <2>0, TurnsShape
    <2>4. proStatus[u] => b = proExpiresAt[u]
      BY DEF Basis
    <2> HIDE DEF b
    <2>5. \A m \in Turns(t) : m <= b
      BY <2>1, <2>2, <2>3
    <2>6. \A p \in ActivePeriod(t) : p = b
      BY <2>1, <2>3, <2>5 DEF ActivePeriod
    <2> QED
      BY <2>1, <2>4, <2>5, <2>6 DEF ActivePeriod
  <1> QED
    BY SettledInvariance, <1>1, PTL
=============================================================================
