-------------------------- MODULE RefreshSessions --------------------------
(***************************************************************************)
(* Refresh-token sessions of one account: auth/session.rs and the handlers  *)
(* of routes/auth.rs (and /payments/verify, which also opens a session).    *)
(*                                                                         *)
(* Every issued token is a row of refresh_sessions.  A refresh reads the    *)
(* row outside any transaction, decides, and only then rotates it, so two   *)
(* refreshes of one token, a refresh and a sign-out, or a refresh and the   *)
(* reuse response can interleave.  Any token ever issued may be presented:  *)
(* by the device that holds it, by one whose answer was lost, or by whoever *)
(* else kept a copy.                                                        *)
(***************************************************************************)
EXTENDS Integers, FiniteSets

CONSTANTS
    Tokens,         \* refresh tokens (each has its own jti, so each is used once)
    Handlers,       \* refresh requests that can be in flight at once
    SignedIn,       \* "parent" of a token issued by a sign-in
    Lifetime,       \* jwt_refresh_expiry_days
    Grace,          \* REUSE_GRACE
    Leeway,         \* clock leeway of the JWT library
    Retention,      \* how long prune_expired keeps an expired row
    MaxTime         \* bound: the clock stops here

ASSUME ConstantsAssumption ==
    /\ SignedIn \notin Tokens
    /\ Lifetime \in Nat \ {0}
    /\ Grace \in Nat \ {0}
    /\ Leeway \in Nat
    /\ Retention \in Nat
    /\ Leeway <= Retention
    /\ MaxTime \in Nat

VARIABLES
    now,            \* the clock
    state,          \* the row of each token
    revokedAt,      \* revoked_at, meaningful once the row was revoked
    expiresAt,      \* expires_at, also the JWT's exp
    req,            \* what each refresh in flight knows
    \* History variables, never read by the actions.
    parent,         \* the token a token was rotated from
    retired,        \* tokens revoked by a rotation
    overlapped,     \* tokens rotated while another refresh of them was in flight
    condemned,      \* tokens issued before the last revoke-all, and what was rotated from them
    escaped         \* condemned tokens that go back to a refresh that was in flight then

rows == <<state, revokedAt, expiresAt>>
history == <<parent, retired, overlapped, condemned, escaped>>
vars == <<now, rows, req, history>>

Idle == [pc |-> "idle"]
Requests ==
    {Idle}
    \cup [pc : {"rotate"}, tok : Tokens, late : BOOLEAN]
    \cup [pc : {"nuke"}, tok : Tokens]
    \cup [pc : {"prune"}]

Issued == {t \in Tokens : state[t] # "unissued"}
Live == {t \in Tokens : state[t] = "live"}

TypeOK ==
    /\ now \in Nat
    /\ state \in [Tokens -> {"unissued", "live", "revoked", "pruned"}]
    /\ revokedAt \in [Tokens -> Nat]
    /\ expiresAt \in [Tokens -> Nat]
    /\ req \in [Handlers -> Requests]
    /\ parent \in [Tokens -> Tokens \cup {SignedIn}]
    /\ retired \subseteq Tokens
    /\ overlapped \subseteq Tokens
    /\ condemned \subseteq Issued
    /\ escaped \subseteq condemned

Init ==
    /\ now = 0
    /\ state = [t \in Tokens |-> "unissued"]
    /\ revokedAt = [t \in Tokens |-> 0]
    /\ expiresAt = [t \in Tokens |-> 0]
    /\ req = [h \in Handlers |-> Idle]
    /\ parent = [t \in Tokens |-> SignedIn]
    /\ retired = {}
    /\ overlapped = {}
    /\ condemned = {}
    /\ escaped = {}

On(h, pc) == req[h].pc = pc
Rotating(h, t) == On(h, "rotate") /\ req[h].tok = t

\* verify_token: the JWT library rejects a token Leeway past its exp.
VerifyToken(t) == now <= expiresAt[t] + Leeway

\* classify
Classify(t) ==
    IF state[t] = "revoked" THEN "Revoked"
    ELSE IF expiresAt[t] <= now THEN "Expired"
    ELSE "Active"

\* is_recent_rotation
IsRecentRotation(t) == now >= revokedAt[t] /\ now - revokedAt[t] < Grace

\* UPDATE refresh_sessions SET revoked_at = NOW() WHERE ... AND revoked_at IS NULL
Revoke(T) ==
    /\ state' = [t \in Tokens |-> IF t \in T \cap Live THEN "revoked" ELSE state[t]]
    /\ revokedAt' = [t \in Tokens |-> IF t \in T \cap Live THEN now ELSE revokedAt[t]]

-----------------------------------------------------------------------------
Tick ==
    /\ now < MaxTime
    /\ now' = now + 1
    /\ UNCHANGED <<rows, req, history>>

\* google_auth and verify_purchase end by recording a new session.
SignIn(n) ==
    /\ state[n] = "unissued"
    /\ state' = [state EXCEPT ![n] = "live"]
    /\ expiresAt' = [expiresAt EXCEPT ![n] = now + Lifetime]
    /\ UNCHANGED <<now, revokedAt, req, history>>

\* Mutant: there is no grace, any revoked token is reuse.
RefreshRead_NoGrace(h, t) ==
    /\ On(h, "idle")
    /\ VerifyToken(t)
    /\ \/ /\ state[t] = "live"
          /\ Classify(t) = "Active"
          /\ req' = [req EXCEPT ![h] = [pc |-> "rotate", tok |-> t, late |-> FALSE]]
       \/ /\ state[t] = "revoked"
          /\ req' = [req EXCEPT ![h] = [pc |-> "nuke", tok |-> t]]
    /\ UNCHANGED <<now, rows, history>>

\* Mutant: a recently rotated token is rotated again.
RefreshRead_RetryRotates(h, t) ==
    /\ On(h, "idle")
    /\ VerifyToken(t)
    /\ \/ /\ \/ state[t] = "live" /\ Classify(t) = "Active"
             \/ state[t] = "revoked" /\ IsRecentRotation(t)
          /\ req' = [req EXCEPT ![h] = [pc |-> "rotate", tok |-> t, late |-> FALSE]]
       \/ /\ state[t] = "revoked" /\ ~ IsRecentRotation(t)
          /\ req' = [req EXCEPT ![h] = [pc |-> "nuke", tok |-> t]]
    /\ UNCHANGED <<now, rows, history>>

\* refresh_tokens up to its decision: the JWT is verified, the row is read and
\* classified.  An unknown, expired or recently rotated token is only rejected.
RefreshRead(h, t) ==
    /\ On(h, "idle")
    /\ VerifyToken(t)
    /\ \/ /\ state[t] = "live"
          /\ Classify(t) = "Active"
          /\ req' = [req EXCEPT ![h] = [pc |-> "rotate", tok |-> t, late |-> FALSE]]
       \/ /\ state[t] = "revoked"
          /\ Classify(t) = "Revoked"
          /\ ~ IsRecentRotation(t)
          /\ req' = [req EXCEPT ![h] = [pc |-> "nuke", tok |-> t]]
    /\ UNCHANGED <<now, rows, history>>

\* The rotation transaction commits: the presented token is revoked (if nothing
\* revoked it meanwhile: the number of rows is not looked at) and its successor
\* is inserted.
RotateCommit(h, n) ==
    /\ On(h, "rotate")
    /\ state[n] = "unissued"
    /\ LET t == req[h].tok IN
       /\ state' = [s \in Tokens |->
                      IF s = n THEN "live"
                      ELSE IF s = t /\ s \in Live THEN "revoked"
                      ELSE state[s]]
       /\ revokedAt' = IF t \in Live THEN [revokedAt EXCEPT ![t] = now] ELSE revokedAt
       /\ expiresAt' = [expiresAt EXCEPT ![n] = now + Lifetime]
       /\ parent' = [parent EXCEPT ![n] = t]
       /\ retired' = IF t \in Live THEN retired \cup {t} ELSE retired
       /\ overlapped' = IF \E g \in Handlers \ {h} : Rotating(g, t)
                        THEN overlapped \cup {t} ELSE overlapped
       /\ condemned' = IF t \in condemned THEN condemned \cup {n} ELSE condemned
       /\ escaped' = IF t \in condemned /\ (req[h].late \/ t \in escaped)
                     THEN escaped \cup {n} ELSE escaped
    /\ req' = [req EXCEPT ![h] = [pc |-> "prune"]]
    /\ UNCHANGED now

\* Mutant: only one of the account's sessions is revoked.
RevokeAll_OneSession ==
    /\ \E t \in Tokens : Revoke({t})
    /\ condemned' = Issued
    /\ escaped' = {}
    /\ UNCHANGED <<now, expiresAt, parent, retired, overlapped>>

\* revoke_all_for_user, the one statement of the reuse response and of sign-out
\* on all devices.
RevokeAll ==
    /\ Revoke(Tokens)
    /\ condemned' = Issued
    /\ escaped' = {}
    /\ UNCHANGED <<now, expiresAt, parent, retired, overlapped>>

\* A refresh past its check when every session is revoked.
MarkLate(r) ==
    IF r.pc = "rotate" THEN [pc |-> "rotate", tok |-> r.tok, late |-> TRUE] ELSE r

\* Reuse detected: every session of the account is revoked.
Nuke(h) ==
    /\ On(h, "nuke")
    /\ RevokeAll
    /\ req' = [g \in Handlers |-> IF g = h THEN Idle ELSE MarkLate(req[g])]

\* POST /auth/signout with all_devices
SignOutAll ==
    /\ Live # {}
    /\ RevokeAll
    /\ req' = [g \in Handlers |-> MarkLate(req[g])]

\* POST /auth/signout with the device's own token
SignOut(t) ==
    /\ t \in Live
    /\ Revoke({t})
    /\ UNCHANGED <<now, expiresAt, req, history>>

\* Mutant: expired rows are dropped at once.
Prune_NoRetention(h) ==
    /\ On(h, "prune")
    /\ state' = [t \in Tokens |->
                   IF t \in Issued /\ expiresAt[t] < now THEN "pruned" ELSE state[t]]
    /\ req' = [req EXCEPT ![h] = Idle]
    /\ UNCHANGED <<now, revokedAt, expiresAt, history>>

\* Housekeeping after the commit, and the answer to the client.
Prune(h) ==
    /\ On(h, "prune")
    /\ state' = [t \in Tokens |->
                   IF t \in Issued /\ expiresAt[t] + Retention < now
                   THEN "pruned" ELSE state[t]]
    /\ req' = [req EXCEPT ![h] = Idle]
    /\ UNCHANGED <<now, revokedAt, expiresAt, history>>

\* The request is dropped between two statements.
Drop(h) ==
    /\ ~ On(h, "idle")
    /\ req' = [req EXCEPT ![h] = Idle]
    /\ UNCHANGED <<now, rows, history>>

Next ==
    \/ Tick
    \/ \E t \in Tokens : SignIn(t) \/ SignOut(t)
    \/ SignOutAll
    \/ \E h \in Handlers, t \in Tokens : RefreshRead(h, t) \/ RotateCommit(h, t)
    \/ \E h \in Handlers : Nuke(h) \/ Prune(h) \/ Drop(h)

Spec == Init /\ [][Next]_vars

-----------------------------------------------------------------------------
\* Old token and new are never both live, and a token that died by rotation has
\* a successor: what the comment on the rotation transaction promises.
RotationIsAtomic ==
    /\ \A n \in Issued : parent[n] \in Tokens => parent[n] \in Issued \ Live
    /\ \A t \in retired : \E n \in Issued : parent[n] = t

\* A token has one successor unless two refreshes of it overlapped: the read of
\* the row and the rotation are not one transaction.
OneSuccessor ==
    \A m, n \in Issued :
        m # n /\ parent[m] = parent[n] /\ parent[m] \in Tokens => parent[m] \in overlapped

\* After sign-out everywhere or the reuse response, a session of before is live
\* only through a refresh that was past its check at that moment.
RevokeAllSticks == Live \cap condemned \subseteq escaped

\* The reuse response is only triggered by a token retired at least Grace ago:
\* a client that retries a lost answer within the grace never costs the account
\* its other sessions, however refreshes of that token race.
NukeNeedsStaleReplay ==
    \A h \in Handlers :
        On(h, "nuke") =>
            /\ req[h].tok \in Issued \ Live
            /\ revokedAt[req[h].tok] + Grace <= now

\* As long as the JWT of a token still verifies its row is there, so a replay is
\* recognised rather than an unknown token.
ReplayIsRecognised ==
    \A t \in Issued : VerifyToken(t) => state[t] # "pruned"

\* Revocation is final and keeps its first time: a second revoke of a token
\* neither revives it nor restarts its grace window.
RevocationIsFinal ==
    [][\A t \in Issued \ Live :
         /\ state'[t] \in {state[t], "pruned"}
         /\ revokedAt'[t] = revokedAt[t]]_vars
=============================================================================
