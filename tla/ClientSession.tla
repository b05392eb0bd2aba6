---------------------------- MODULE ClientSession ----------------------------
(***************************************************************************)
(* The session the app holds (auth_state.dart) and what its HTTP client     *)
(* does when a request is answered 401 (api_client.dart): requests that     *)
(* fail together share one refresh, are sent again with its token, or sign  *)
(* the user out.  The refresh goes through the same client, as does the     *)
(* request that signs out, and a verified purchase signs in again.          *)
(*                                                                         *)
(* A refresh token and the access token issued with it are one number.  The *)
(* server is the one of RefreshSessions, as far as a single device sees it. *)
(***************************************************************************)
EXTENDS Integers, FiniteSets, Sequences

CONSTANTS
    Users,
    Calls,          \* requests that can be in flight at once
    Buyers,         \* those among them that verify a purchase
    Ui, Refresh,    \* the user at the screen, and refreshInFlight
    Nobody,
    MaxSends, MaxSignIns,   \* bounds: requests, sign-ins
    MaxExpiries, MaxFailures

Actors == Calls \cup {Ui, Refresh}

ASSUME ConstantsAssumption ==
    /\ Buyers \subseteq Calls
    /\ Ui \notin Calls /\ Refresh \notin Calls /\ Ui # Refresh
    /\ Nobody \notin [user : Users, tok : Nat]
    /\ MaxSends \in Nat /\ MaxSignIns \in Nat /\ MaxExpiries \in Nat /\ MaxFailures \in Nat

VARIABLES
    session,        \* auth_user in the secure storage, and the state of AuthState
    owner,          \* the user of every token the server has issued
    live,           \* tokens whose session is neither revoked nor rotated
    valid,          \* tokens whose access token has not expired
    actor,          \* what each actor is waiting for
    sends, signIns, expiries, failures,
    \* History variables, never read by the actions.
    disturbed,      \* the answer of a refresh was lost, the server ended the session, the
                    \* storage failed, or a sign-in or sign-out overlapped a request or a
                    \* restart
    swapped         \* a purchase of one user was verified while another signed in

server == <<owner, live, valid>>
bounds == <<sends, signIns, expiries, failures>>
history == <<disturbed, swapped>>
vars == <<session, server, actor, bounds, history>>

Token == DOMAIN owner
Sessions == [user : Users, tok : Nat]

\* A request on its way carries a token, 0 for none.  "wait" waits for the refresh,
\* "post" is the refresh at the server and "none" its failure, "signout" the request of
\* a sign-out; "adopt" makes a session the app's, "clear" leaves it without one.  Each of
\* these two awaits the storage and then sets the state, here in one step.  "hung" is a
\* request whose handler threw: nobody will ever answer it.
Idle == [pc |-> "idle"]
Waits ==
    {Idle}
    \cup [pc : {"sent"}, tok : {0} \cup Token, retried : BOOLEAN, resent : BOOLEAN]
    \cup [pc : {"wait"}, resent : BOOLEAN]
    \cup [pc : {"post", "adopt"}, user : Users, tok : Token]
    \cup [pc : {"none", "clear", "hung"}]
    \cup [pc : {"signout"}, tok : Token]

\* Only the refresh posts or fails, and it ends when its waiters go on.
TypeOK ==
    /\ owner \in Seq(Users) /\ live \subseteq Token /\ valid \subseteq Token
    /\ session = Nobody \/ (session \in Sessions /\ session.tok \in Token)
    /\ actor \in [Actors -> Waits]
    /\ sends \in 0 .. MaxSends /\ signIns \in 0 .. MaxSignIns
    /\ expiries \in 0 .. MaxExpiries /\ failures \in 0 .. MaxFailures
    /\ disturbed \in BOOLEAN /\ swapped \in BOOLEAN
    /\ \A a \in Actors : actor[a].pc \in {"post", "none"} => a = Refresh
    /\ (\E c \in Calls : actor[c].pc = "wait") => actor[Refresh].pc # "idle"

Init ==
    /\ session = Nobody
    /\ owner = <<>> /\ live = {} /\ valid = {}
    /\ actor = [a \in Actors |-> Idle]
    /\ sends = 0 /\ signIns = 0 /\ expiries = 0 /\ failures = 0
    /\ disturbed = FALSE /\ swapped = FALSE

On(a, pc) == actor[a].pc = pc
Become(a, state) == actor' = [actor EXCEPT ![a] = state]
Fail == failures < MaxFailures /\ failures' = failures + 1 /\ UNCHANGED <<sends, signIns, expiries>>
Busy == \E a \in Actors : ~ On(a, "idle")

Current == IF session = Nobody THEN 0 ELSE session.tok

\* The server issues a pair of tokens to u.
Issue(u, S) ==
    /\ owner' = Append(owner, u)
    /\ live' = S \cup {Len(owner) + 1}
    /\ valid' = valid \cup {Len(owner) + 1}

-----------------------------------------------------------------------------
(* Requests *)

Sent(tok, retried, resent) ==
    [pc |-> "sent", tok |-> tok, retried |-> retried, resent |-> resent]

\* onRequest: the request carries the access token of whoever is signed in, and keeps the
\* one it has when nobody is.
Carried(old) == IF session = Nobody THEN old ELSE session.tok

Send(c) ==
    /\ On(c, "idle")
    /\ sends < MaxSends
    /\ sends' = sends + 1
    /\ Become(c, Sent(Carried(0), FALSE, FALSE))
    /\ disturbed' = (disturbed \/ ~ On(Ui, "idle"))
    /\ UNCHANGED <<session, server, signIns, expiries, failures, swapped>>

Served(c) ==
    /\ On(c, "sent") /\ actor[c].tok \in valid /\ c \notin Buyers
    /\ Become(c, Idle)
    /\ UNCHANGED <<session, server, bounds, history>>

\* _verifyAndActivate: the server issues a pair to the user of the request, which signs
\* in whoever the app has by then.
Bought(c) ==
    LET u == owner[actor[c].tok] IN
    /\ On(c, "sent") /\ actor[c].tok \in valid /\ c \in Buyers
    /\ Issue(u, live)
    /\ Become(c, IF session = Nobody THEN Idle
                 ELSE [pc |-> "adopt", user |-> session.user, tok |-> Len(owner) + 1])
    /\ swapped' = (swapped \/ (session # Nobody /\ session.user # u))
    /\ UNCHANGED <<session, bounds, disturbed>>

\* A timeout: a GET is sent once more, the same options through onRequest again.
TimesOut(c) ==
    /\ On(c, "sent")
    /\ Fail
    /\ Become(c, IF c \in Buyers \/ actor[c].resent THEN Idle
                 ELSE Sent(Carried(actor[c].tok), actor[c].retried, TRUE))
    /\ UNCHANGED <<session, server, history>>

Unauthorized(c) == On(c, "sent") /\ actor[c].tok \notin valid

\* signOut: the token to revoke is the one of now; without a session it only clears.
SigningOut == IF session = Nobody THEN [pc |-> "clear"] ELSE [pc |-> "signout", tok |-> session.tok]

\* 401, and not sent again yet: refreshInFlight ??= tryRefreshAccessToken().
Join(c) ==
    /\ Unauthorized(c) /\ ~ actor[c].retried
    /\ actor' = [actor EXCEPT
                   ![c] = [pc |-> "wait", resent |-> @.resent],
                   ![Refresh] = IF ~ On(Refresh, "idle") THEN @
                                ELSE IF session = Nobody THEN [pc |-> "none"]
                                ELSE [pc |-> "post", user |-> session.user, tok |-> session.tok]]
    /\ UNCHANGED <<session, server, bounds, history>>

\* 401 after it was sent again.
SecondUnauthorized(c) ==
    /\ Unauthorized(c) /\ actor[c].retried
    /\ Become(c, SigningOut)
    /\ UNCHANGED <<session, server, bounds, history>>

-----------------------------------------------------------------------------
(* tryRefreshAccessToken: the session is read, then awaits the server and the storage *)

Replayed(t) == t \notin live

\* Mutant: the tokens come to whoever is signed in by then.
RefreshServed_Late ==
    LET r == actor[Refresh] IN
    /\ On(Refresh, "post") /\ ~ Replayed(r.tok)
    /\ Issue(owner[r.tok], live \ {r.tok})
    /\ Become(Refresh, [pc |-> "adopt", tok |-> Len(owner) + 1,
                        user |-> IF session = Nobody THEN r.user ELSE session.user])
    /\ UNCHANGED <<session, bounds, history>>

\* The server rotates a live token.
RefreshServed ==
    LET r == actor[Refresh] IN
    /\ On(Refresh, "post") /\ ~ Replayed(r.tok)
    /\ Issue(owner[r.tok], live \ {r.tok})
    /\ Become(Refresh, [pc |-> "adopt", user |-> r.user, tok |-> Len(owner) + 1])
    /\ UNCHANGED <<session, bounds, history>>

\* Mutant: the rejection waits for the refresh under way, as any 401 does.
RefreshRejected_Joins ==
    /\ On(Refresh, "post") /\ Replayed(actor[Refresh].tok) /\ ~ Busy
    /\ Become(Refresh, [pc |-> "none"])
    /\ UNCHANGED <<session, server, bounds, history>>

\* It rejects any other, one that is retired, expired or unknown, and revokes all sessions
\* of the user if one was replayed and the grace is over.
\* The path is excluded from the handling of a 401.
RefreshRejected ==
    LET u == owner[actor[Refresh].tok] IN
    /\ On(Refresh, "post") /\ Replayed(actor[Refresh].tok)
    /\ live' \in {live, {t \in live : owner[t] # u}}
    /\ Become(Refresh, [pc |-> "none"])
    /\ UNCHANGED <<session, owner, valid, bounds, history>>

\* No answer, served or not, or the tokens cannot be stored: any exception is FALSE.
RefreshFails ==
    LET r == actor[Refresh] IN
    /\ On(Refresh, "post") \/ On(Refresh, "adopt")
    /\ Fail
    /\ \/ UNCHANGED server
       \/ On(Refresh, "post") /\ ~ Replayed(r.tok) /\ Issue(owner[r.tok], live \ {r.tok})
    /\ disturbed' = TRUE
    /\ Become(Refresh, [pc |-> "none"])
    /\ UNCHANGED <<session, swapped>>

Waiting == {c \in Calls : On(c, "wait")}

\* Mutant: one of the waiters goes on.
Retry_First ==
    [a \in Actors |->
       IF a = Refresh THEN Idle
       ELSE IF \E c \in Waiting : a = CHOOSE d \in Waiting : TRUE
       THEN [pc |-> "sent", tok |-> actor[Refresh].tok, retried |-> TRUE,
             resent |-> actor[a].resent]
       ELSE actor[a]]

\* The waiters go on in the same turn of the event loop: refreshInFlight is null again,
\* and all of them are sent with the new token.
Retry ==
    [a \in Actors |->
       IF a = Refresh THEN Idle
       ELSE IF a \in Waiting
       THEN [pc |-> "sent", tok |-> actor[Refresh].tok, retried |-> TRUE,
             resent |-> actor[a].resent]
       ELSE actor[a]]

\* Mutant: the app keeps its old refresh token.
Refreshed_Unrotated ==
    /\ On(Refresh, "adopt")
    /\ actor' = Retry
    /\ UNCHANGED <<session, server, bounds, history>>

Refreshed ==
    /\ On(Refresh, "adopt")
    /\ session' = [user |-> actor[Refresh].user, tok |-> actor[Refresh].tok]
    /\ actor' = Retry
    /\ UNCHANGED <<server, bounds, history>>

\* Not refreshed: each of them signs out.
NotRefreshed ==
    /\ On(Refresh, "none")
    /\ actor' = [a \in Actors |->
                   IF a = Refresh THEN Idle ELSE IF a \in Waiting THEN SigningOut ELSE actor[a]]
    /\ UNCHANGED <<session, server, bounds, history>>

-----------------------------------------------------------------------------
(* signIn and signOut *)

\* Google's sign-in, on the screen that is there when nobody is signed in.
SignIn(u) ==
    /\ On(Ui, "idle") /\ session = Nobody
    /\ signIns < MaxSignIns
    /\ signIns' = signIns + 1
    /\ Issue(u, live)
    /\ Become(Ui, [pc |-> "adopt", user |-> u, tok |-> Len(owner) + 1])
    /\ disturbed' = (disturbed \/ Busy)
    /\ UNCHANGED <<session, sends, expiries, failures, swapped>>

\* signIn: the session is stored, then shown.
Adopt(a) ==
    /\ a # Refresh /\ On(a, "adopt")
    /\ session' = [user |-> actor[a].user, tok |-> actor[a].tok]
    /\ Become(a, Idle)
    /\ UNCHANGED <<server, bounds, history>>

SignOut ==
    /\ On(Ui, "idle") /\ session # Nobody
    /\ Become(Ui, SigningOut)
    /\ disturbed' = (disturbed \/ Busy)
    /\ UNCHANGED <<session, server, bounds, swapped>>

\* POST /auth/signout: with a valid access token it revokes.
SignOutPosted(a) ==
    /\ On(a, "signout")
    /\ live' = IF actor[a].tok \in valid THEN live \ {actor[a].tok} ELSE live
    /\ Become(a, [pc |-> "clear"])
    /\ UNCHANGED <<session, owner, valid, bounds, history>>

\* Whatever comes of it, the app forgets the session.
SignOutFails(a) ==
    /\ On(a, "signout")
    /\ Fail
    /\ Become(a, [pc |-> "clear"])
    /\ UNCHANGED <<session, server, history>>

\* The storage is cleared, then the state.
Clear(a) ==
    /\ On(a, "clear")
    /\ session' = Nobody
    /\ Become(a, Idle)
    /\ UNCHANGED <<server, bounds, history>>

\* The secure storage throws, and so do signIn and signOut: the session stays what it was.
\* On the screen and in a purchase that is all; the handler of a 401 never calls next.
StorageFails(a) ==
    /\ a # Refresh /\ actor[a].pc \in {"adopt", "clear"}
    /\ Fail
    /\ disturbed' = TRUE
    /\ Become(a, IF a \in Calls /\ On(a, "clear") THEN [pc |-> "hung"] ELSE Idle)
    /\ UNCHANGED <<session, server, swapped>>

-----------------------------------------------------------------------------
\* An access token expires, of the session or on its way (any other matters to nobody);
\* if it does under a request that was sent again, which carries it or will after a
\* timeout, that is as good as a lost refresh.
Expire(t) ==
    /\ t \in valid
    /\ t = Current \/ \E c \in Calls : On(c, "sent") /\ actor[c].tok = t
    /\ expiries < MaxExpiries
    /\ expiries' = expiries + 1
    /\ valid' = valid \ {t}
    /\ disturbed' = (disturbed \/ \E c \in Calls : On(c, "sent") /\ actor[c].retried
                                                    /\ t \in {actor[c].tok, Current})
    /\ UNCHANGED <<session, owner, live, actor, sends, signIns, failures, swapped>>

\* The server's session expires, or is revoked from another device, whether its access
\* token is still good or not.
Lapses(t) ==
    /\ t \in live
    /\ t = Current \/ (On(Refresh, "post") /\ actor[Refresh].tok = t)
    /\ Fail
    /\ live' = live \ {t}
    /\ disturbed' = TRUE
    /\ UNCHANGED <<session, owner, valid, actor, swapped>>

\* The app is killed and starts with what is stored (build).
Restart ==
    /\ Fail
    /\ actor' = [a \in Actors |-> Idle]
    /\ disturbed' = (disturbed \/ ~ On(Refresh, "idle") \/ ~ On(Ui, "idle"))
    /\ UNCHANGED <<session, server, swapped>>

Step(a) ==
    \/ a \in Calls /\ (Served(a) \/ Bought(a) \/ Join(a) \/ SecondUnauthorized(a))
    \/ Adopt(a) \/ SignOutPosted(a) \/ Clear(a)
RefreshStep == RefreshServed \/ RefreshRejected \/ Refreshed \/ NotRefreshed

Next ==
    \/ \E c \in Calls : Send(c) \/ TimesOut(c)
    \/ \E a \in Calls \cup {Ui} : Step(a) \/ SignOutFails(a) \/ StorageFails(a)
    \/ RefreshStep \/ RefreshFails
    \/ (\E u \in Users : SignIn(u)) \/ SignOut
    \/ \E t \in Token : Expire(t) \/ Lapses(t)
    \/ Restart

Spec == Init /\ [][Next]_vars

\* The event loop runs what can go on, and a server answers or a timeout does.
FairSpec ==
    /\ Spec
    /\ \A a \in Calls \cup {Ui} : WF_vars(Step(a))
    /\ WF_vars(RefreshStep)

-----------------------------------------------------------------------------
(* Properties *)

\* The tokens of a session belong to the user it names, whoever signed in or out while
\* they were fetched, except after a purchase that was verified across such a change.
IdentityMatches ==
    session # Nobody /\ ~ swapped => owner[session.tok] = session.user

\* No request signs a user out, however many fail at once or late, unless the answer of a
\* refresh was lost, the session expired or was revoked elsewhere, the storage failed, the
\* user signed in or out around it or a token expired under a request that was already
\* sent again: the shared refresh never presents a token twice.
StaysSignedIn ==
    [][\A c \in Calls : (actor[c].pc # "signout" /\ actor'[c].pc = "signout") => disturbed]_vars

\* Every request ends, no 401 waits for a refresh that waits for it, but one whose handler
\* signs out while the storage cannot delete the session: that one is never answered.
EveryCallEnds ==
    \A c \in Calls : []<>(actor[c].pc \in {"idle", "hung"})
=============================================================================
