------------------------ MODULE ClientSession_proofs ------------------------
(***************************************************************************)
(* Proofs, for any users and any number of requests, that the tokens of the *)
(* app's session are its user's, and that no failing request signs a user   *)
(* out who was left alone: a refresh never presents a token twice.          *)
(***************************************************************************)
EXTENDS ClientSession, TLAPS

\* Tokens that were fetched are the user's they were fetched for.
Owned ==
    /\ IdentityMatches
    /\ ~ swapped => \A a \in Actors : actor[a].pc \in {"post", "adopt"} =>
         owner[actor[a].tok] = actor[a].user

\* Tokens that are not adopted yet are nowhere else.
Fresh ==
    \A a \in Actors : On(a, "adopt") =>
        /\ actor[a].tok # Current
        /\ \A b \in Actors \ {a} :
             actor[b].pc \in {"sent", "post", "adopt"} => actor[b].tok # actor[a].tok

\* The user signs in or out while nothing else is under way.
OneAtATime ==
    On(Ui, "idle") \/ \A a \in Calls \cup {Refresh} : On(a, "idle")

\* Requests of a user who is signed in stay clear of signing out, those of nobody
\* carry no token.
SignedOut ==
    session = Nobody =>
        /\ \A c \in Calls : \/ actor[c].pc \in {"idle", "wait", "clear"}
                            \/ On(c, "sent") /\ actor[c].tok = 0
        /\ actor[Refresh].pc \in {"idle", "none"}
SignedIn ==
    /\ \A c \in Calls : ~ On(c, "signout")
    /\ session # Nobody => ~ On(Refresh, "none") /\ \A c \in Calls : ~ On(c, "clear")

\* The token of the session has not been presented, but to be replaced at once.
Lives ==
    /\ session # Nobody /\ ~ On(Refresh, "adopt") /\ ~ On(Ui, "clear") => session.tok \in live
    /\ On(Refresh, "post") => actor[Refresh].tok \in live
    /\ \A a \in Actors : On(a, "adopt") => actor[a].tok \in live

\* A request that was sent again carries a good token, now and after a timeout.
Unexpired ==
    \A c \in Calls : On(c, "sent") /\ actor[c].retried =>
        actor[c].tok \in valid /\ Current \in valid

Unadopted == \A a \in Actors : On(a, "adopt") => actor[a].tok \in valid
Calm == OneAtATime /\ SignedOut /\ SignedIn /\ Lives /\ Unexpired

IInv == TypeOK /\ Owned /\ Fresh /\ Unadopted /\ (~ disturbed => Calm)

-----------------------------------------------------------------------------
LEMMA ActorsApart ==
    /\ Ui \in Actors /\ Refresh \in Actors /\ Calls \subseteq Actors
    /\ Ui \notin Calls /\ Refresh \notin Calls /\ Ui # Refresh
    /\ \A a \in Actors : a \in Calls \/ a = Ui \/ a = Refresh
  BY ConstantsAssumption DEF Actors

LEMMA Shapes ==
    ASSUME TypeOK
    PROVE  \A a \in Actors :
             /\ actor[a] \in Waits
             /\ actor[a].pc \in {"idle", "sent", "wait", "post", "adopt", "none", "clear", "signout",
                               "hung"}
             /\ On(a, "sent") => /\ actor[a].tok \in {0} \cup Token
                                 /\ actor[a].retried \in BOOLEAN /\ actor[a].resent \in BOOLEAN
             /\ On(a, "wait") => actor[a].resent \in BOOLEAN
             /\ actor[a].pc \in {"post", "adopt"} => actor[a].user \in Users /\ actor[a].tok \in Token
             /\ On(a, "signout") => actor[a].tok \in Token
  <1>1. \A a \in Actors : actor[a] \in Waits
    BY DEF TypeOK
  <1> QED
    BY <1>1 DEF Waits, Idle, On

\* The tokens are numbered from 1.
LEMMA Tokens ==
    ASSUME TypeOK
    PROVE  /\ Token = 1 .. Len(owner) /\ Len(owner) \in Nat /\ 0 \notin Token
           /\ Len(owner) + 1 \notin Token /\ Len(owner) + 1 # 0
           /\ \A t \in Token : owner[t] \in Users
           /\ Current \in {0} \cup Token
           /\ session # Nobody =>
                /\ session.user \in Users /\ session.tok \in Token
                /\ session = [user |-> session.user, tok |-> session.tok]
  <1>1. Token = 1 .. Len(owner) /\ Len(owner) \in Nat
    BY DEF TypeOK, Token
  <1>2. \A t \in Token : owner[t] \in Users
    BY <1>1 DEF TypeOK, Token
  <1> QED
    BY <1>1, <1>2 DEF TypeOK, Current, Sessions

\* What the app can sign in with is a session.
LEMMA NotNobody ==
    ASSUME NEW u \in Users, NEW t \in Nat
    PROVE  [user |-> u, tok |-> t] # Nobody
  BY ConstantsAssumption

LEMMA IdleTyped == Idle \in Waits /\ Idle \in Waits' /\ Idle.pc = "idle"
  BY DEF Waits, Idle

\* The server's tokens are kept.
LEMMA Issued ==
    ASSUME TypeOK, NEW u \in Users, NEW S \in SUBSET live, Issue(u, S)
    PROVE  /\ owner' \in Seq(Users) /\ live' \subseteq Token' /\ valid' \subseteq Token'
           /\ Token' = Token \cup {Len(owner) + 1}
           /\ Len(owner) + 1 \in live' /\ S \subseteq live'
           /\ Len(owner) + 1 \in valid' /\ valid \subseteq valid'
           /\ \A t \in Token : owner'[t] = owner[t]
           /\ owner'[Len(owner) + 1] = u
  <1>1. /\ owner' = Append(owner, u)
        /\ live' = S \cup {Len(owner) + 1}
        /\ valid' = valid \cup {Len(owner) + 1}
    BY DEF Issue
  <1>2. /\ owner' \in Seq(Users) /\ Len(owner') = Len(owner) + 1
        /\ \A t \in 1 .. Len(owner) : owner'[t] = owner[t]
        /\ owner'[Len(owner) + 1] = u
    BY <1>1 DEF TypeOK
  <1>3. Token' = Token \cup {Len(owner) + 1}
    BY <1>2, Tokens DEF Token
  <1> QED
    BY <1>1, <1>2, <1>3, Tokens DEF TypeOK

\* The new state of one actor, and the old one of the others.
LEMMA Became ==
    ASSUME TypeOK, Token \subseteq Token', NEW a \in Actors, NEW w, w \in Waits', Become(a, w)
    PROVE  /\ actor' \in [Actors -> Waits']
           /\ actor'[a] = w /\ \A b \in Actors \ {a} : actor'[b] = actor[b]
  <1>1. Waits \subseteq Waits'
    BY DEF Waits, Idle
  <1> QED
    BY <1>1 DEF TypeOK, Become

-----------------------------------------------------------------------------
\* What a step may do to the session and to the tokens that are on their way

\* Tokens come from the server for the user they are fetched for.
LEMMA OwnedKept ==
    ASSUME TypeOK, Owned, \A t \in Token : owner'[t] = owner[t],
           swapped => swapped',
           \/ session' \in {session, Nobody}
           \/ \E a \in Actors : /\ On(a, "adopt")
                                /\ session' = [user |-> actor[a].user, tok |-> actor[a].tok],
           ~ swapped' => \A a \in Actors : actor'[a].pc \in {"post", "adopt"} =>
             actor'[a] = actor[a] \/ owner'[actor'[a].tok] = actor'[a].user
    PROVE  Owned'
  <1>1. IdentityMatches'
    BY Tokens, Shapes DEF Owned, IdentityMatches, On
  <1>2. ASSUME ~ swapped', NEW a \in Actors, actor'[a].pc \in {"post", "adopt"}
        PROVE  owner'[actor'[a].tok] = actor'[a].user
    BY <1>2, Shapes DEF Owned
  <1> QED
    BY <1>1, <1>2 DEF Owned

\* Tokens are taken from the session, from who does not adopt them any more, or are new.
Free == {0, Current} \cup {actor[r].tok : r \in {r \in Actors : On(r, "adopt") /\ ~ On(r, "adopt")'}}

LEMMA FreshKept ==
    ASSUME TypeOK, Fresh, Current' \in Free,
           \A a \in Actors : actor'[a].pc \in {"sent", "post", "adopt"} =>
             \/ actor'[a] = actor[a]
             \/ ~ On(a, "adopt")' /\ actor'[a].tok \in Free
             \/ On(a, "sent") /\ On(a, "sent")' /\ actor'[a].tok = actor[a].tok
             \/ On(a, "adopt")' /\ actor'[a].tok = Len(owner) + 1,
           \A a, b \in Actors : On(a, "adopt")' /\ On(b, "adopt")'
                                /\ actor'[a] # actor[a] /\ actor'[b] # actor[b] => a = b
    PROVE  Fresh'
  <1> DEFINE n == Len(owner) + 1
  <1>1. n \notin Free /\ n \notin Token /\ n # 0
    BY Tokens, Shapes DEF Free, On
  <1> HIDE DEF n
  <1>2. ASSUME NEW a \in Actors, On(a, "adopt"), On(a, "adopt")'
        PROVE  actor[a].tok \notin Free
    <2>1. actor[a].tok # 0 /\ actor[a].tok # Current
      BY <1>2, Tokens, Shapes DEF Fresh, On
    <2>2. \A r \in Actors : On(r, "adopt") /\ ~ On(r, "adopt")' => actor[r].tok # actor[a].tok
      BY <1>2 DEF Fresh, On
    <2> QED
      BY <2>1, <2>2 DEF Free
  <1> SUFFICES ASSUME NEW a \in Actors, On(a, "adopt")'
               PROVE  /\ actor'[a].tok # Current'
                      /\ \A b \in Actors \ {a} :
                           actor'[b].pc \in {"sent", "post", "adopt"} => actor'[b].tok # actor'[a].tok
    BY DEF Fresh
  <1>3. CASE actor'[a] = actor[a]
    <2>1. actor[a].tok \in Token /\ actor[a].tok \notin Free /\ On(a, "adopt")
      BY <1>2, <1>3, Shapes DEF On
    <2> QED
      BY <1>1, <1>3, <2>1 DEF Fresh, On, n
  <1>4. CASE actor'[a] # actor[a]
    <2>1. actor'[a].tok = n
      BY <1>4 DEF On, n
    <2>2. \A b \in Actors : actor[b].pc \in {"sent", "post", "adopt"} => actor[b].tok \in {0} \cup Token
      BY Shapes DEF On
    <2> QED
      BY <1>1, <1>4, <2>1, <2>2 DEF On
  <1> QED
    BY <1>3, <1>4

-----------------------------------------------------------------------------
LEMMA InitIInv == Init => IInv
  <1> SUFFICES ASSUME Init PROVE IInv
    OBVIOUS
  <1>1. \A a \in Actors : actor[a] = Idle /\ actor[a].pc = "idle"
    BY DEF Init, Idle
  <1>2. TypeOK
    <2>1. owner \in Seq(Users) /\ actor \in [Actors -> Waits]
      BY IdleTyped DEF Init
    <2>2. /\ sends \in 0 .. MaxSends /\ signIns \in 0 .. MaxSignIns
          /\ expiries \in 0 .. MaxExpiries /\ failures \in 0 .. MaxFailures
      BY ConstantsAssumption DEF Init
    <2> QED
      BY <1>1, <2>1, <2>2, ActorsApart DEF Init, TypeOK
  <1>3. Owned /\ Fresh /\ Unadopted
    BY <1>1 DEF Init, Owned, IdentityMatches, Fresh, Unadopted, On
  <1>4. Calm
    BY <1>1, ActorsApart DEF Init, Calm, OneAtATime, SignedOut, SignedIn, Lives, Unexpired, On
  <1> QED
    BY <1>2, <1>3, <1>4 DEF IInv

LEMMA WaitsGrow == ASSUME Token \subseteq Token' PROVE Waits \subseteq Waits'
  BY DEF Waits, Idle

\* A request that is sent, or sent once more, or over.
LEMMA CallGoes ==
    ASSUME IInv, NEW c \in Calls, NEW w, w \in Waits, Become(c, w),
           w.pc \in {"idle", "sent"},
           w.pc = "sent" => /\ \/ w.tok = Current
                               \/ session = Nobody /\ On(c, "sent") /\ w.tok = actor[c].tok
                            /\ w.retried => On(c, "sent") /\ actor[c].retried,
           UNCHANGED <<session, server, swapped>>,
           /\ sends' \in 0 .. MaxSends /\ signIns' \in 0 .. MaxSignIns
           /\ expiries' \in 0 .. MaxExpiries /\ failures' \in 0 .. MaxFailures,
           disturbed' \in BOOLEAN, ~ disturbed' => ~ disturbed /\ On(Ui, "idle")
    PROVE  IInv'
  <1>1. /\ session' = session /\ owner' = owner /\ live' = live /\ valid' = valid
        /\ Token' = Token /\ Current' = Current
    BY DEF server, Token, Current
  <1>2. /\ actor' \in [Actors -> Waits']
        /\ actor'[c] = w /\ \A b \in Actors \ {c} : actor'[b] = actor[b]
    BY <1>1, WaitsGrow, Became, ActorsApart DEF IInv
  <1>3. TypeOK'
    BY <1>1, <1>2, ActorsApart DEF IInv, TypeOK
  <1>4. Owned'
    BY <1>1, <1>2, OwnedKept DEF IInv
  <1>5. \A a \in Actors : On(a, "adopt")' => a # c /\ On(a, "adopt") /\ actor'[a] = actor[a]
    BY <1>2 DEF On
  <1>6. Fresh'
    <2>1. Current \in Free
      BY DEF Free
    <2> QED
      BY <1>1, <1>2, <1>5, <2>1, FreshKept DEF IInv, On
  <1>7. Unadopted'
    BY <1>1, <1>5 DEF IInv, Unadopted
  <1>8. ASSUME ~ disturbed' PROVE Calm'
    <2>1. Calm /\ On(Ui, "idle")
      BY <1>8 DEF IInv
    <2>2. OneAtATime'
      BY <1>2, <2>1, ActorsApart DEF OneAtATime, On
    <2>3. SignedOut'
      BY <1>1, <1>2, <2>1, ActorsApart DEF Calm, SignedOut, On, Current
    <2>4. SignedIn'
      BY <1>1, <1>2, <2>1, ActorsApart DEF Calm, SignedIn, On
    <2>5. Lives'
      BY <1>1, <1>2, <1>5, <2>1, ActorsApart DEF Calm, Lives, On
    <2>6. Unexpired'
      BY <1>1, <1>2, <2>1, ActorsApart DEF Calm, Unexpired, On
    <2> QED
      BY <2>2, <2>3, <2>4, <2>5, <2>6 DEF Calm
  <1> QED
    BY <1>3, <1>4, <1>6, <1>7, <1>8 DEF IInv

LEMMA SentTyped ==
    ASSUME NEW t \in {0} \cup Token, NEW r \in BOOLEAN, NEW e \in BOOLEAN
    PROVE  /\ Sent(t, r, e) \in Waits /\ Sent(t, r, e).pc = "sent"
           /\ Sent(t, r, e).tok = t /\ Sent(t, r, e).retried = r
  BY DEF Sent, Waits

\* Whoever is signed in, or else the token that was there.
LEMMA CarriedIs ==
    ASSUME TypeOK, NEW t \in {0} \cup Token
    PROVE  /\ Carried(t) \in {0} \cup Token
           /\ Carried(t) = Current \/ (session = Nobody /\ Carried(t) = t)
           /\ Carried(0) = Current
  BY Tokens DEF Carried, Current

LEMMA SendIInv == ASSUME IInv, NEW c \in Calls, Send(c) PROVE IInv'
  <1>1. /\ sends < MaxSends /\ sends' = sends + 1 /\ Become(c, Sent(Carried(0), FALSE, FALSE))
        /\ UNCHANGED <<session, server, signIns, expiries, failures, swapped>>
    BY DEF Send
  <1>2. disturbed' \in BOOLEAN /\ (~ disturbed' => ~ disturbed /\ On(Ui, "idle"))
    BY DEF Send
  <1>3. sends' \in 0 .. MaxSends
    BY <1>1, ConstantsAssumption DEF IInv, TypeOK
  <1>4. Carried(0) = Current /\ Carried(0) \in {0} \cup Token
    BY CarriedIs DEF IInv
  <1> QED
    BY <1>1, <1>2, <1>3, <1>4, SentTyped, CallGoes DEF IInv, TypeOK

\* A step of a request or of the refresh, while the user is left alone.
LEMMA UiIdle ==
    ASSUME OneAtATime, NEW a \in Calls \cup {Refresh}, ~ On(a, "idle")
    PROVE  On(Ui, "idle")
  BY DEF OneAtATime

LEMMA ServedIInv == ASSUME IInv, NEW c \in Calls, Served(c) PROVE IInv'
  <1>1. On(c, "sent") /\ Become(c, Idle) /\ UNCHANGED <<session, server, bounds, history>>
    BY DEF Served
  <1>2. ~ disturbed' => ~ disturbed /\ On(Ui, "idle")
    <2>1. ~ On(c, "idle")
      BY <1>1 DEF On
    <2> QED
      BY <1>1, <2>1, UiIdle DEF IInv, Calm, history
  <1> QED
    BY <1>1, <1>2, IdleTyped, CallGoes DEF IInv, TypeOK, bounds, history

LEMMA FailTyped ==
    ASSUME TypeOK, Fail
    PROVE  /\ failures' \in 0 .. MaxFailures
           /\ sends' = sends /\ signIns' = signIns /\ expiries' = expiries
  BY ConstantsAssumption DEF TypeOK, Fail

LEMMA TimesOutIInv == ASSUME IInv, NEW c \in Calls, TimesOut(c) PROVE IInv'
  <1> DEFINE t == Carried(actor[c].tok)
             w == IF c \in Buyers \/ actor[c].resent THEN Idle ELSE Sent(t, actor[c].retried, TRUE)
  <1>1. On(c, "sent") /\ Fail /\ Become(c, w) /\ UNCHANGED <<session, server, history>>
    BY DEF TimesOut
  <1>2. actor[c].retried \in BOOLEAN /\ actor[c].tok \in {0} \cup Token
    BY <1>1, Shapes, ActorsApart DEF IInv
  <1>5. t \in {0} \cup Token /\ (t = Current \/ (session = Nobody /\ t = actor[c].tok))
    BY <1>2, CarriedIs DEF IInv
  <1> HIDE DEF t
  <1>3. /\ w \in Waits /\ w.pc \in {"idle", "sent"}
        /\ w.pc = "sent" => /\ t = w.tok
                            /\ w.retried => On(c, "sent") /\ actor[c].retried
    BY <1>1, <1>2, <1>5, IdleTyped, SentTyped
  <1> HIDE DEF w
  <1>4. ~ disturbed' => ~ disturbed /\ On(Ui, "idle")
    <2>1. ~ On(c, "idle")
      BY <1>1 DEF On
    <2> QED
      BY <1>1, <2>1, UiIdle DEF IInv, Calm, history
  <1> QED
    BY <1>1, <1>3, <1>4, <1>5, FailTyped, CallGoes DEF IInv, TypeOK, history

LEMMA BoughtIInv == ASSUME IInv, NEW c \in Calls, Bought(c) PROVE IInv'
  <1> DEFINE n == Len(owner) + 1
             w == IF session = Nobody THEN Idle
                  ELSE [pc |-> "adopt", user |-> session.user, tok |-> n]
  <1>1. /\ On(c, "sent") /\ actor[c].tok \in valid
        /\ Issue(owner[actor[c].tok], live) /\ Become(c, w)
        /\ swapped' = (swapped \/ (session # Nobody /\ session.user # owner[actor[c].tok]))
        /\ UNCHANGED <<session, bounds, disturbed>>
    BY DEF Bought
  <1>2. actor[c].tok \in Token /\ owner[actor[c].tok] \in Users
    BY <1>1, Tokens DEF IInv, TypeOK
  <1>3. /\ owner' \in Seq(Users) /\ live' \subseteq Token' /\ valid' \subseteq Token'
        /\ Token' = Token \cup {n} /\ n \in live' /\ live \subseteq live'
        /\ n \in valid' /\ valid \subseteq valid'
        /\ \A t \in Token : owner'[t] = owner[t]
        /\ owner'[n] = owner[actor[c].tok]
    BY <1>1, <1>2, Issued DEF IInv
  <1>4. w \in Waits' /\ w.pc \in {"idle", "adopt"}
    BY <1>3, Tokens, IdleTyped DEF IInv, Waits
  <1>5. w.pc = "adopt" => w.tok = n /\ session # Nobody /\ w.user = session.user
    BY IdleTyped
  <1> HIDE DEF w, n
  <1>6. /\ actor' \in [Actors -> Waits']
        /\ actor'[c] = w /\ \A b \in Actors \ {c} : actor'[b] = actor[b]
    BY <1>1, <1>3, <1>4, Became, ActorsApart DEF IInv
  <1>7. session' = session /\ Current' = Current
    BY <1>1 DEF Current
  <1>8. TypeOK'
    <2>1. swapped' \in BOOLEAN
      BY <1>1 DEF IInv, TypeOK
    <2> QED
      BY <1>1, <1>3, <1>4, <1>6, <1>7, <2>1, ActorsApart DEF IInv, TypeOK, bounds
  <1>9. Owned'
    <2>1. swapped => swapped'
      BY <1>1
    <2>2. ~ swapped' => \A a \in Actors : actor'[a].pc \in {"post", "adopt"} =>
            actor'[a] = actor[a] \/ owner'[actor'[a].tok] = actor'[a].user
      BY <1>1, <1>3, <1>4, <1>5, <1>6
    <2> QED
      BY <1>3, <1>7, <2>1, <2>2, OwnedKept DEF IInv
  <1>10. Fresh'
    <2>1. Current' \in Free
      BY <1>7 DEF Free
    <2>2. \A a \in Actors : actor'[a] = actor[a] \/ a = c
      BY <1>6
    <2> QED
      BY <1>4, <1>5, <1>6, <2>1, <2>2, FreshKept DEF IInv, On, n
  <1>11. Unadopted'
    BY <1>3, <1>4, <1>5, <1>6 DEF IInv, Unadopted, On
  <1>12. ASSUME ~ disturbed' PROVE Calm'
    <2>1. Calm
      BY <1>1, <1>12 DEF IInv
    <2>2. session # Nobody
      BY <1>1, <1>2, <2>1, Tokens DEF Calm, SignedOut, On, IInv
    <2>3. On(Ui, "idle")
      BY <1>1, <2>1, UiIdle DEF Calm, On
    <2>4. OneAtATime'
      BY <1>6, <2>3, ActorsApart DEF OneAtATime, On
    <2>5. SignedOut' /\ SignedIn'
      BY <1>4, <1>6, <1>7, <2>1, <2>2, ActorsApart DEF Calm, SignedOut, SignedIn, On
    <2>6. Lives'
      BY <1>3, <1>4, <1>5, <1>6, <1>7, <2>1, ActorsApart DEF Calm, Lives, On
    <2>7. Unexpired'
      BY <1>3, <1>4, <1>6, <1>7, <2>1, ActorsApart DEF Calm, Unexpired, On
    <2> QED
      BY <2>4, <2>5, <2>6, <2>7 DEF Calm
  <1> QED
    BY <1>8, <1>9, <1>10, <1>11, <1>12 DEF IInv

LEMMA JoinIInv == ASSUME IInv, NEW c \in Calls, Join(c) PROVE IInv'
  <1> DEFINE v == [pc |-> "wait", resent |-> actor[c].resent]
             w == IF ~ On(Refresh, "idle") THEN actor[Refresh]
                  ELSE IF session = Nobody THEN [pc |-> "none"]
                  ELSE [pc |-> "post", user |-> session.user, tok |-> session.tok]
  <1>1. /\ On(c, "sent") /\ UNCHANGED <<session, server, bounds, history>>
        /\ actor' = [actor EXCEPT ![c] = v, ![Refresh] = w]
    BY DEF Join, Unauthorized
  <1>2. /\ session' = session /\ owner' = owner /\ live' = live /\ valid' = valid
        /\ Token' = Token /\ Current' = Current
    BY <1>1 DEF server, Token, Current
  <1>3. v \in Waits
    BY <1>1, Shapes, ActorsApart DEF IInv, Waits
  <1>4. w \in Waits
    BY Shapes, Tokens, ActorsApart DEF IInv, Waits
  <1>5. /\ w.pc # "idle" /\ (w.pc = "adopt" => w = actor[Refresh])
        /\ \/ w = actor[Refresh]
           \/ w.pc = "none" /\ session = Nobody
           \/ /\ w.pc = "post" /\ session # Nobody /\ On(Refresh, "idle")
              /\ w.user = session.user /\ w.tok = session.tok
    BY DEF On
  <1> HIDE DEF w
  <1>6. /\ actor' \in [Actors -> Waits']
        /\ actor'[c] = v /\ actor'[Refresh] = w
        /\ \A b \in Actors \ {c, Refresh} : actor'[b] = actor[b]
    <2>1. Waits \subseteq Waits'
      BY <1>2, WaitsGrow
    <2>2. actor \in [Actors -> Waits']
      BY <2>1 DEF IInv, TypeOK
    <2> QED
      BY <1>1, <1>3, <1>4, <2>1, <2>2, ActorsApart
  <1>7. TypeOK'
    BY <1>1, <1>2, <1>5, <1>6, ActorsApart DEF IInv, TypeOK, bounds, history
  <1>8. Owned'
    <2>1. ~ swapped' => \A a \in Actors : actor'[a].pc \in {"post", "adopt"} =>
            actor'[a] = actor[a] \/ owner'[actor'[a].tok] = actor'[a].user
      BY <1>1, <1>2, <1>5, <1>6 DEF IInv, Owned, IdentityMatches, history
    <2> QED
      BY <1>1, <1>2, <2>1, OwnedKept DEF IInv, history
  <1>9. Fresh'
    <2>1. Current' \in Free
      BY <1>2 DEF Free
    <2>2. \A a \in Actors : actor'[a].pc \in {"sent", "post", "adopt"} =>
            \/ actor'[a] = actor[a]
            \/ ~ On(a, "adopt")' /\ actor'[a].tok \in Free
      BY <1>5, <1>6 DEF On, Current, Free
    <2>3. \A a \in Actors : On(a, "adopt")' => actor'[a] = actor[a]
      BY <1>5, <1>6 DEF On
    <2> QED
      BY <2>1, <2>2, <2>3, FreshKept DEF IInv
  <1>10. \A a \in Actors : On(a, "adopt")' => On(a, "adopt") /\ actor'[a] = actor[a]
    BY <1>5, <1>6 DEF On
  <1>11. Unadopted'
    BY <1>2, <1>10 DEF IInv, Unadopted
  <1>12. ASSUME ~ disturbed' PROVE Calm'
    <2>1. Calm
      BY <1>1, <1>12 DEF IInv, history
    <2>2. On(Ui, "idle")
      BY <1>1, <2>1, UiIdle DEF Calm, On
    <2>3. OneAtATime'
      BY <1>6, <2>2, ActorsApart DEF OneAtATime, On
    <2>4. SignedOut'
      BY <1>2, <1>5, <1>6, <2>1, ActorsApart DEF Calm, SignedOut, On
    <2>5. SignedIn'
      BY <1>2, <1>5, <1>6, <2>1, ActorsApart DEF Calm, SignedIn, On
    <2>6. Lives'
      BY <1>2, <1>5, <1>6, <1>10, <2>1, <2>2, ActorsApart DEF Calm, Lives, On
    <2>7. Unexpired'
      BY <1>2, <1>6, <2>1, ActorsApart DEF Calm, Unexpired, On
    <2> QED
      BY <2>3, <2>4, <2>5, <2>6, <2>7 DEF Calm
  <1> QED
    BY <1>7, <1>8, <1>9, <1>11, <1>12 DEF IInv

LEMMA SigningOutTyped ==
    ASSUME TypeOK
    PROVE  /\ SigningOut \in Waits /\ SigningOut.pc \in {"clear", "signout"}
           /\ session = Nobody => SigningOut.pc = "clear"
           /\ session # Nobody => SigningOut.pc = "signout"
  BY Tokens DEF SigningOut, Waits

LEMMA SecondUnauthorizedIInv == ASSUME IInv, NEW c \in Calls, SecondUnauthorized(c) PROVE IInv'
  <1>1. /\ On(c, "sent") /\ actor[c].tok \notin valid /\ actor[c].retried
        /\ Become(c, SigningOut) /\ UNCHANGED <<session, server, bounds, history>>
    BY DEF SecondUnauthorized, Unauthorized
  <1>2. /\ session' = session /\ owner' = owner /\ live' = live /\ valid' = valid
        /\ Token' = Token /\ Current' = Current
    BY <1>1 DEF server, Token, Current
  <1>3. /\ actor' \in [Actors -> Waits']
        /\ actor'[c] = SigningOut /\ \A b \in Actors \ {c} : actor'[b] = actor[b]
    BY <1>1, <1>2, SigningOutTyped, WaitsGrow, Became, ActorsApart DEF IInv
  <1>4. TypeOK'
    BY <1>1, <1>2, <1>3, SigningOutTyped, ActorsApart DEF IInv, TypeOK, bounds, history
  <1>5. \A a \in Actors : actor'[a].pc \in {"sent", "post", "adopt"} => actor'[a] = actor[a]
    BY <1>3, SigningOutTyped DEF IInv
  <1>6. Owned'
    BY <1>1, <1>2, <1>5, OwnedKept DEF IInv, history
  <1>7. Fresh'
    <2>1. Current' \in Free
      BY <1>2 DEF Free
    <2> QED
      BY <1>5, <2>1, FreshKept DEF IInv, On
  <1>8. Unadopted'
    BY <1>2, <1>5 DEF IInv, Unadopted, On
  <1>9. disturbed'
    BY <1>1 DEF IInv, Calm, Unexpired, history
  <1> QED
    BY <1>4, <1>6, <1>7, <1>8, <1>9 DEF IInv

LEMMA RefreshServedIInv == ASSUME IInv, RefreshServed PROVE IInv'
  <1> DEFINE n == Len(owner) + 1
             r == actor[Refresh]
             w == [pc |-> "adopt", user |-> r.user, tok |-> n]
  <1>1. /\ On(Refresh, "post") /\ Issue(owner[r.tok], live \ {r.tok}) /\ Become(Refresh, w)
        /\ UNCHANGED <<session, bounds, history>>
    BY DEF RefreshServed
  <1>2. r.user \in Users /\ r.tok \in Token /\ owner[r.tok] \in Users
    BY <1>1, Shapes, Tokens, ActorsApart DEF IInv, On
  <1>3. /\ owner' \in Seq(Users) /\ live' \subseteq Token' /\ valid' \subseteq Token'
        /\ Token' = Token \cup {n} /\ n \in live' /\ live \ {r.tok} \subseteq live'
        /\ n \in valid' /\ valid \subseteq valid'
        /\ \A t \in Token : owner'[t] = owner[t]
        /\ owner'[n] = owner[r.tok]
    BY <1>1, <1>2, Issued DEF IInv
  <1>4. w \in Waits'
    BY <1>2, <1>3 DEF Waits
  <1> HIDE DEF n
  <1>5. /\ actor' \in [Actors -> Waits']
        /\ actor'[Refresh] = w /\ \A b \in Actors \ {Refresh} : actor'[b] = actor[b]
    BY <1>1, <1>3, <1>4, Became, ActorsApart DEF IInv
  <1>6. session' = session /\ Current' = Current
    BY <1>1 DEF Current
  <1>7. TypeOK'
    BY <1>1, <1>3, <1>5, <1>6, ActorsApart DEF IInv, TypeOK, bounds, history
  <1>8. Owned'
    <2>1. ~ swapped => owner[r.tok] = r.user
      BY <1>1, ActorsApart DEF IInv, Owned, On
    <2>2. ~ swapped' => \A a \in Actors : actor'[a].pc \in {"post", "adopt"} =>
            actor'[a] = actor[a] \/ owner'[actor'[a].tok] = actor'[a].user
      BY <1>1, <1>3, <1>5, <2>1 DEF history
    <2> QED
      BY <1>1, <1>3, <1>6, <2>2, OwnedKept DEF IInv, history
  <1>9. Fresh'
    <2>1. Current' \in Free
      BY <1>6 DEF Free
    <2> QED
      BY <1>5, <2>1, FreshKept DEF IInv, On, n
  <1>10. Unadopted'
    BY <1>3, <1>5 DEF IInv, Unadopted, On
  <1>11. ASSUME ~ disturbed' PROVE Calm'
    <2>1. Calm
      BY <1>1, <1>11 DEF IInv, history
    <2>2. On(Ui, "idle")
      BY <1>1, <2>1, UiIdle DEF Calm, On
    <2>3. OneAtATime'
      BY <1>5, <2>2, ActorsApart DEF OneAtATime, On
    <2>4. session # Nobody
      BY <1>1, <2>1 DEF Calm, SignedOut, On
    <2>5. SignedOut' /\ SignedIn'
      BY <1>5, <1>6, <2>1, <2>4, ActorsApart DEF Calm, SignedOut, SignedIn, On
    <2>6. Lives'
      <3>1. \A a \in Actors \ {Refresh} : On(a, "adopt") => actor[a].tok # r.tok
        BY <1>1, ActorsApart DEF IInv, Fresh, On
      <3> QED
        BY <1>3, <1>5, <1>6, <2>1, <3>1, ActorsApart DEF Calm, Lives, On
    <2>7. Unexpired'
      BY <1>3, <1>5, <1>6, <2>1, ActorsApart DEF Calm, Unexpired, On
    <2> QED
      BY <2>3, <2>5, <2>6, <2>7 DEF Calm
  <1> QED
    BY <1>7, <1>8, <1>9, <1>10, <1>11 DEF IInv

\* A live token is not rejected.
LEMMA RefreshRejectedIInv == ASSUME IInv, RefreshRejected PROVE IInv'
  <1> DEFINE w == [pc |-> "none"]
  <1>1. /\ On(Refresh, "post") /\ actor[Refresh].tok \notin live
        /\ live' \in {live, {t \in live : owner[t] # owner[actor[Refresh].tok]}}
        /\ Become(Refresh, w)
        /\ UNCHANGED <<session, owner, valid, bounds, history>>
    BY DEF RefreshRejected, Replayed
  <1>2. /\ session' = session /\ owner' = owner /\ valid' = valid /\ live' \subseteq live
        /\ Token' = Token /\ Current' = Current
    BY <1>1 DEF Token, Current
  <1>3. w \in Waits'
    BY DEF Waits
  <1>4. /\ actor' \in [Actors -> Waits']
        /\ actor'[Refresh] = w /\ \A b \in Actors \ {Refresh} : actor'[b] = actor[b]
    BY <1>1, <1>2, <1>3, Became, ActorsApart DEF IInv
  <1>5. TypeOK'
    BY <1>1, <1>2, <1>4, ActorsApart DEF IInv, TypeOK, bounds, history
  <1>6. \A a \in Actors : actor'[a].pc \in {"sent", "post", "adopt"} => actor'[a] = actor[a]
    BY <1>4
  <1>7. Owned'
    BY <1>1, <1>2, <1>6, OwnedKept DEF IInv, history
  <1>8. Fresh'
    <2>1. Current' \in Free
      BY <1>2 DEF Free
    <2> QED
      BY <1>6, <2>1, FreshKept DEF IInv, On
  <1>9. Unadopted'
    BY <1>2, <1>6 DEF IInv, Unadopted, On
  <1>10. disturbed'
    BY <1>1 DEF IInv, Calm, Lives, history
  <1> QED
    BY <1>5, <1>7, <1>8, <1>9, <1>10 DEF IInv

LEMMA RefreshFailsIInv == ASSUME IInv, RefreshFails PROVE IInv'
  <1> DEFINE r == actor[Refresh]
             w == [pc |-> "none"]
  <1>1. /\ On(Refresh, "post") \/ On(Refresh, "adopt")
        /\ Fail /\ disturbed' = TRUE /\ Become(Refresh, w) /\ UNCHANGED <<session, swapped>>
        /\ \/ UNCHANGED server
           \/ Issue(owner[r.tok], live \ {r.tok})
    BY DEF RefreshFails
  <1>2. /\ owner' \in Seq(Users) /\ live' \subseteq Token' /\ valid' \subseteq Token'
        /\ Token \subseteq Token' /\ valid \subseteq valid'
        /\ \A t \in Token : owner'[t] = owner[t]
    <2>1. CASE UNCHANGED server
      BY <2>1 DEF IInv, TypeOK, server, Token
    <2>2. CASE Issue(owner[r.tok], live \ {r.tok})
      <3>1. owner[r.tok] \in Users
        BY <1>1, Shapes, Tokens, ActorsApart DEF IInv, On
      <3> QED
        BY <2>2, <3>1, Issued DEF IInv
    <2> QED
      BY <1>1, <2>1, <2>2
  <1>3. session' = session /\ Current' = Current
    BY <1>1 DEF Current
  <1>4. w \in Waits'
    BY DEF Waits
  <1>5. /\ actor' \in [Actors -> Waits']
        /\ actor'[Refresh] = w /\ \A b \in Actors \ {Refresh} : actor'[b] = actor[b]
    BY <1>1, <1>2, <1>4, Became, ActorsApart DEF IInv
  <1>6. TypeOK'
    BY <1>1, <1>2, <1>3, <1>5, FailTyped, ActorsApart DEF IInv, TypeOK
  <1>7. \A a \in Actors : actor'[a].pc \in {"sent", "post", "adopt"} => actor'[a] = actor[a]
    BY <1>5
  <1>8. Owned'
    BY <1>1, <1>2, <1>3, <1>7, OwnedKept DEF IInv
  <1>9. Fresh'
    <2>1. Current' \in Free
      BY <1>3 DEF Free
    <2> QED
      BY <1>7, <2>1, FreshKept DEF IInv, On
  <1>10. Unadopted'
    BY <1>2, <1>7 DEF IInv, Unadopted, On
  <1> QED
    BY <1>1, <1>6, <1>8, <1>9, <1>10 DEF IInv

LEMMA RefreshedIInv == ASSUME IInv, Refreshed PROVE IInv'
  <1> DEFINE r == actor[Refresh]
             w(a) == [pc |-> "sent", tok |-> r.tok, retried |-> TRUE, resent |-> actor[a].resent]
  <1>1. /\ On(Refresh, "adopt")
        /\ session' = [user |-> r.user, tok |-> r.tok] /\ actor' = Retry
        /\ UNCHANGED <<server, bounds, history>>
    BY DEF Refreshed
  <1>2. r.user \in Users /\ r.tok \in Token /\ r.tok \in Nat
    BY <1>1, Shapes, Tokens, ActorsApart DEF IInv, On
  <1>3. /\ session' # Nobody /\ session' \in Sessions
        /\ session'.user = r.user /\ session'.tok = r.tok /\ Current' = r.tok
    BY <1>1, <1>2, NotNobody DEF Current, Sessions
  <1>4. /\ owner' = owner /\ live' = live /\ valid' = valid /\ Token' = Token
    BY <1>1 DEF server, Token
  <1>5. \A c \in Waiting : w(c) \in Waits
    BY <1>2, Shapes, ActorsApart DEF IInv, Waits, Waiting
  <1>6. /\ actor' \in [Actors -> Waits'] /\ actor'[Refresh] = Idle
        /\ \A c \in Waiting : actor'[c] = w(c)
        /\ \A b \in Actors \ {Refresh} : b \notin Waiting => actor'[b] = actor[b]
    <2>1. Waits \subseteq Waits'
      BY <1>4, WaitsGrow
    <2>2. Waiting \subseteq Calls
      BY DEF Waiting
    <2>3. \A a \in Actors : actor[a] \in Waits'
      BY <2>1, Shapes DEF IInv
    <2>4. \A c \in Waiting : w(c) \in Waits'
      BY <1>5, <2>1
    <2>5. actor' = [a \in Actors |-> IF a = Refresh THEN Idle ELSE IF a \in Waiting THEN w(a) ELSE actor[a]]
      BY <1>1 DEF Retry
    <2> HIDE DEF w
    <2> QED
      BY <2>2, <2>3, <2>4, <2>5, IdleTyped, ActorsApart
  <1>7. \A c \in Waiting : c \in Calls /\ actor'[c].pc = "sent" /\ actor'[c].tok = r.tok
    <2>1. Waiting \subseteq Calls
      BY DEF Waiting
    <2> SUFFICES ASSUME NEW c \in Waiting PROVE actor'[c].pc = "sent" /\ actor'[c].tok = r.tok
      BY <2>1
    <2>2. actor'[c] = w(c)
      BY <1>6
    <2> QED
      BY <2>2
  <1>8. \A a \in Actors \ Waiting : actor'[a].pc # "idle" => a # Refresh /\ actor'[a] = actor[a]
    BY <1>6, IdleTyped
  <1>9. TypeOK'
    <2>1. \A a \in Actors : actor'[a].pc \in {"post", "none"} => a = Refresh
      BY <1>7, <1>8 DEF IInv, TypeOK
    <2>2. \A c \in Calls : actor'[c].pc # "wait"
      BY <1>7, <1>8, ActorsApart DEF Waiting, On
    <2> QED
      BY <1>1, <1>2, <1>3, <1>4, <1>6, <2>1, <2>2 DEF IInv, TypeOK, bounds, history
  <1>10. Owned'
    <2>1. \A a \in Actors : actor'[a].pc \in {"post", "adopt"} => actor'[a] = actor[a]
      BY <1>7, <1>8
    <2> QED
      BY <1>1, <1>4, <2>1, OwnedKept, ActorsApart DEF IInv, history
  <1>11. Fresh'
    <2>1. ~ On(Refresh, "adopt")'
      BY <1>6, IdleTyped DEF On
    <2>2. r.tok \in Free
      BY <1>1, <2>1, ActorsApart DEF Free
    <2>3. \A a \in Actors : On(a, "adopt")' => actor'[a] = actor[a]
      BY <1>7, <1>8 DEF On
    <2>4. \A a \in Actors : actor'[a].pc \in {"sent", "post", "adopt"} =>
            \/ actor'[a] = actor[a]
            \/ ~ On(a, "adopt")' /\ actor'[a].tok \in Free
      BY <1>7, <1>8, <2>2 DEF On
    <2> QED
      BY <1>3, <2>2, <2>3, <2>4, FreshKept DEF IInv
  <1>12. r.tok \in valid /\ Unadopted'
    <2>1. \A a \in Actors : On(a, "adopt")' => On(a, "adopt") /\ actor'[a] = actor[a]
      BY <1>7, <1>8 DEF On
    <2> QED
      BY <1>1, <1>4, <2>1, ActorsApart DEF IInv, Unadopted
  <1>13. ASSUME ~ disturbed' PROVE Calm'
    <2>1. Calm
      BY <1>1, <1>13 DEF IInv, history
    <2>2. On(Ui, "idle") /\ session # Nobody
      BY <1>1, <2>1, UiIdle DEF Calm, SignedOut, On
    <2>3. OneAtATime'
      BY <1>6, <1>7, <2>2, ActorsApart DEF OneAtATime, On
    <2>4. SignedOut' /\ SignedIn'
      BY <1>3, <1>6, <1>7, <1>8, <2>1, <2>2, IdleTyped, ActorsApart DEF Calm, SignedOut, SignedIn, On
    <2>5. Lives'
      BY <1>1, <1>3, <1>4, <1>6, <1>7, <1>8, <2>1, IdleTyped, ActorsApart DEF Calm, Lives, On
    <2>6. Unexpired'
      BY <1>3, <1>4, <1>7, <1>8, <1>12, <2>1, ActorsApart DEF Calm, Unexpired, On
    <2> QED
      BY <2>3, <2>4, <2>5, <2>6 DEF Calm
  <1> QED
    BY <1>9, <1>10, <1>11, <1>12, <1>13 DEF IInv

\* A refresh fails for those who have no session, unless it was disturbed.
LEMMA NotRefreshedIInv == ASSUME IInv, NotRefreshed PROVE IInv'
  <1>1. /\ On(Refresh, "none") /\ UNCHANGED <<session, server, bounds, history>>
        /\ actor' = [a \in Actors |->
                       IF a = Refresh THEN Idle ELSE IF a \in Waiting THEN SigningOut ELSE actor[a]]
    BY DEF NotRefreshed
  <1>2. /\ session' = session /\ owner' = owner /\ live' = live /\ valid' = valid
        /\ Token' = Token /\ Current' = Current
    BY <1>1 DEF server, Token, Current
  <1>3. /\ actor' \in [Actors -> Waits'] /\ actor'[Refresh] = Idle
        /\ \A c \in Waiting : c \in Calls /\ actor'[c] = SigningOut
        /\ \A b \in Actors \ {Refresh} : b \notin Waiting => actor'[b] = actor[b]
    <2>1. Waits \subseteq Waits'
      BY <1>2, WaitsGrow
    <2>2. Waiting \subseteq Calls
      BY DEF Waiting
    <2>3. \A a \in Actors : actor[a] \in Waits'
      BY <2>1, Shapes DEF IInv
    <2>4. SigningOut \in Waits'
      BY <2>1, SigningOutTyped DEF IInv
    <2> QED
      BY <1>1, <2>2, <2>3, <2>4, IdleTyped, ActorsApart
  <1>4. \A c \in Waiting : actor'[c].pc \in {"clear", "signout"}
    BY <1>3, SigningOutTyped DEF IInv
  <1>5. \A a \in Actors \ Waiting : actor'[a].pc # "idle" => a # Refresh /\ actor'[a] = actor[a]
    BY <1>3, IdleTyped
  <1>6. TypeOK'
    <2>1. \A a \in Actors : actor'[a].pc \in {"post", "none"} => a = Refresh
      BY <1>4, <1>5 DEF IInv, TypeOK
    <2>2. \A c \in Calls : actor'[c].pc # "wait"
      BY <1>4, <1>5, ActorsApart DEF Waiting, On
    <2> QED
      BY <1>1, <1>2, <1>3, <2>1, <2>2 DEF IInv, TypeOK, bounds, history
  <1>7. \A a \in Actors : actor'[a].pc \in {"sent", "post", "adopt"} => actor'[a] = actor[a]
    BY <1>4, <1>5
  <1>8. Owned'
    BY <1>1, <1>2, <1>7, OwnedKept DEF IInv, history
  <1>9. Fresh'
    <2>1. Current' \in Free
      BY <1>2 DEF Free
    <2> QED
      BY <1>7, <2>1, FreshKept DEF IInv, On
  <1>10. Unadopted'
    BY <1>2, <1>7 DEF IInv, Unadopted, On
  <1>11. ASSUME ~ disturbed' PROVE Calm'
    <2>1. Calm
      BY <1>1, <1>11 DEF IInv, history
    <2>2. On(Ui, "idle") /\ session = Nobody
      BY <1>1, <2>1, UiIdle DEF Calm, SignedIn, On
    <2>3. \A c \in Waiting : c \in Calls /\ actor'[c].pc = "clear"
      BY <1>3, <2>2, SigningOutTyped DEF IInv
    <2>4. OneAtATime'
      BY <1>3, <2>2, ActorsApart DEF OneAtATime, On
    <2>5. SignedOut' /\ SignedIn'
      BY <1>2, <1>3, <1>5, <2>1, <2>2, <2>3, IdleTyped, ActorsApart DEF Calm, SignedOut, SignedIn, On
    <2>6. Lives'
      BY <1>2, <1>3, <1>7, <2>1, <2>2, IdleTyped, ActorsApart DEF Calm, Lives, On
    <2>7. Unexpired'
      BY <1>2, <1>7, <2>1, ActorsApart DEF Calm, Unexpired, On
    <2> QED
      BY <2>4, <2>5, <2>6, <2>7 DEF Calm
  <1> QED
    BY <1>6, <1>8, <1>9, <1>10, <1>11 DEF IInv

-----------------------------------------------------------------------------
LEMMA SignInIInv == ASSUME IInv, NEW u \in Users, SignIn(u) PROVE IInv'
  <1> DEFINE n == Len(owner) + 1
             w == [pc |-> "adopt", user |-> u, tok |-> n]
  <1>1. /\ On(Ui, "idle") /\ session = Nobody
        /\ signIns < MaxSignIns /\ signIns' = signIns + 1
        /\ Issue(u, live) /\ Become(Ui, w)
        /\ disturbed' = (disturbed \/ Busy)
        /\ UNCHANGED <<session, sends, expiries, failures, swapped>>
    BY DEF SignIn
  <1>2. /\ owner' \in Seq(Users) /\ live' \subseteq Token' /\ valid' \subseteq Token'
        /\ Token' = Token \cup {n} /\ n \in live' /\ live \subseteq live'
        /\ n \in valid' /\ valid \subseteq valid'
        /\ \A t \in Token : owner'[t] = owner[t]
        /\ owner'[n] = u
    BY <1>1, Issued DEF IInv
  <1>3. w \in Waits'
    BY <1>2 DEF Waits
  <1> HIDE DEF n
  <1>4. /\ actor' \in [Actors -> Waits']
        /\ actor'[Ui] = w /\ \A b \in Actors \ {Ui} : actor'[b] = actor[b]
    BY <1>1, <1>2, <1>3, Became, ActorsApart DEF IInv
  <1>5. session' = session /\ Current' = Current
    BY <1>1 DEF Current
  <1>6. TypeOK'
    <2>1. disturbed' \in BOOLEAN /\ signIns' \in 0 .. MaxSignIns
      BY <1>1, ConstantsAssumption DEF IInv, TypeOK
    <2>2. /\ \A a \in Actors : actor'[a].pc \in {"post", "none"} => a = Refresh
          /\ (\E c \in Calls : actor'[c].pc = "wait") => actor'[Refresh].pc # "idle"
      BY <1>4, ActorsApart DEF IInv, TypeOK
    <2>3. session' = Nobody /\ UNCHANGED <<sends, expiries, failures, swapped>>
      BY <1>1
    <2> HIDE DEF w
    <2> QED
      BY <1>2, <1>4, <2>1, <2>2, <2>3 DEF IInv, TypeOK
  <1>7. Owned'
    <2>1. \A a \in Actors : actor'[a].pc \in {"post", "adopt"} =>
            actor'[a] = actor[a] \/ owner'[actor'[a].tok] = actor'[a].user
      BY <1>2, <1>4
    <2> QED
      BY <1>1, <1>2, <2>1, OwnedKept DEF IInv
  <1>8. Fresh'
    <2>1. Current' \in Free
      BY <1>5 DEF Free
    <2> QED
      BY <1>4, <2>1, FreshKept DEF IInv, On, n
  <1>9. Unadopted'
    BY <1>2, <1>4 DEF IInv, Unadopted, On
  <1>10. ASSUME ~ disturbed' PROVE Calm'
    <2>1. \A a \in Actors \ {Ui} : actor'[a].pc = "idle"
      BY <1>1, <1>4, <1>10 DEF Busy, On
    <2>2. session' = Nobody /\ actor'[Ui].pc = "adopt" /\ actor'[Ui].tok \in live'
      BY <1>1, <1>2, <1>4
    <2> QED
      BY <2>1, <2>2, ActorsApart DEF Calm, OneAtATime, SignedOut, SignedIn, Lives, Unexpired, On
  <1> QED
    BY <1>6, <1>7, <1>8, <1>9, <1>10 DEF IInv

LEMMA AdoptIInv == ASSUME IInv, NEW a \in Calls \cup {Ui}, Adopt(a) PROVE IInv'
  <1> DEFINE r == actor[a]
  <1>1. /\ On(a, "adopt") /\ session' = [user |-> r.user, tok |-> r.tok]
        /\ Become(a, Idle) /\ UNCHANGED <<server, bounds, history>>
    BY DEF Adopt
  <1>2. r.user \in Users /\ r.tok \in Token /\ r.tok \in Nat
    BY <1>1, Shapes, Tokens, ActorsApart DEF IInv, On
  <1>3. /\ session' # Nobody /\ session' \in Sessions
        /\ session'.user = r.user /\ session'.tok = r.tok /\ Current' = r.tok
    BY <1>1, <1>2, NotNobody DEF Current, Sessions
  <1>4. /\ owner' = owner /\ live' = live /\ valid' = valid /\ Token' = Token
    BY <1>1 DEF server, Token
  <1>5. /\ actor' \in [Actors -> Waits']
        /\ actor'[a] = Idle /\ \A b \in Actors \ {a} : actor'[b] = actor[b]
    BY <1>1, <1>4, IdleTyped, Became, ActorsApart DEF IInv
  <1>6. \A b \in Actors : actor'[b].pc # "idle" => b # a /\ actor'[b] = actor[b]
    BY <1>5, IdleTyped
  <1>7. TypeOK'
    BY <1>1, <1>2, <1>3, <1>4, <1>5, <1>6, ActorsApart DEF IInv, TypeOK, bounds, history
  <1>8. Owned'
    BY <1>1, <1>4, <1>6, OwnedKept, ActorsApart DEF IInv, history
  <1>9. Fresh'
    <2>1. ~ On(a, "adopt")'
      BY <1>5, IdleTyped DEF On
    <2>2. r.tok \in Free
      BY <1>1, <2>1, ActorsApart DEF Free
    <2> QED
      BY <1>3, <1>6, <2>2, FreshKept DEF IInv, On
  <1>10. r.tok \in valid /\ Unadopted'
    <2>1. \A b \in Actors : On(b, "adopt")' => On(b, "adopt") /\ actor'[b] = actor[b]
      BY <1>6 DEF On
    <2> QED
      BY <1>1, <1>4, <2>1, ActorsApart DEF IInv, Unadopted
  <1>11. ASSUME ~ disturbed' PROVE Calm'
    <2>1. Calm /\ ~ On(a, "idle")
      BY <1>1, <1>11 DEF IInv, history, On
    <2>2. a = Ui => \A b \in Calls \cup {Refresh} : On(b, "idle")
      BY <2>1 DEF Calm, OneAtATime
    <2>3. a \in Calls => On(Ui, "idle") /\ session # Nobody
      BY <1>1, <2>1, UiIdle DEF Calm, SignedOut, On
    <2>4. On(Ui, "idle")'
      BY <1>5, <2>3, IdleTyped, ActorsApart DEF On
    <2>5. OneAtATime'
      BY <2>4 DEF OneAtATime
    <2>6. SignedOut'
      BY <1>3 DEF SignedOut
    <2>7. SignedIn'
      BY <1>6, <2>1, <2>2, <2>3, ActorsApart DEF Calm, SignedIn, On
    <2>8. Lives'
      BY <1>1, <1>3, <1>4, <1>6, <2>1, ActorsApart DEF Calm, Lives, On
    <2>9. Unexpired'
      BY <1>3, <1>4, <1>6, <1>10, <2>1, ActorsApart DEF Calm, Unexpired, On
    <2> QED
      BY <2>5, <2>6, <2>7, <2>8, <2>9 DEF Calm
  <1> QED
    BY <1>7, <1>8, <1>9, <1>10, <1>11 DEF IInv

LEMMA SignOutIInv == ASSUME IInv, SignOut PROVE IInv'
  <1>1. /\ On(Ui, "idle") /\ session # Nobody
        /\ Become(Ui, SigningOut) /\ disturbed' = (disturbed \/ Busy)
        /\ UNCHANGED <<session, server, bounds, swapped>>
    BY DEF SignOut
  <1>2. /\ session' = session /\ owner' = owner /\ live' = live /\ valid' = valid
        /\ Token' = Token /\ Current' = Current
    BY <1>1 DEF server, Token, Current
  <1>3. /\ actor' \in [Actors -> Waits']
        /\ actor'[Ui] = SigningOut /\ \A b \in Actors \ {Ui} : actor'[b] = actor[b]
    BY <1>1, <1>2, SigningOutTyped, WaitsGrow, Became, ActorsApart DEF IInv
  <1>4. actor'[Ui].pc = "signout"
    BY <1>1, <1>3, SigningOutTyped DEF IInv
  <1>5. TypeOK'
    <2>1. disturbed' \in BOOLEAN
      BY <1>1 DEF IInv, TypeOK
    <2> QED
      BY <1>1, <1>2, <1>3, <1>4, <2>1, ActorsApart DEF IInv, TypeOK, bounds
  <1>6. \A a \in Actors : actor'[a].pc \in {"sent", "post", "adopt"} => actor'[a] = actor[a]
    BY <1>3, <1>4
  <1>7. Owned'
    BY <1>1, <1>2, <1>6, OwnedKept DEF IInv
  <1>8. Fresh'
    <2>1. Current' \in Free
      BY <1>2 DEF Free
    <2> QED
      BY <1>6, <2>1, FreshKept DEF IInv, On
  <1>9. Unadopted'
    BY <1>2, <1>6 DEF IInv, Unadopted, On
  <1>10. ASSUME ~ disturbed' PROVE Calm'
    <2>1. Calm
      BY <1>1, <1>10 DEF IInv
    <2>2. \A a \in Actors \ {Ui} : actor'[a].pc = "idle"
      BY <1>1, <1>3, <1>10 DEF Busy, On
    <2>3. session' # Nobody /\ session'.tok \in live'
      BY <1>1, <1>2, <1>3, <2>1, <2>2, ActorsApart DEF Calm, Lives, On
    <2> QED
      BY <1>4, <2>2, <2>3, ActorsApart DEF Calm, OneAtATime, SignedOut, SignedIn, Lives, Unexpired, On
  <1> QED
    BY <1>5, <1>7, <1>8, <1>9, <1>10 DEF IInv

\* The user's own sign-out comes to clear the session.
LEMMA SignOutEnds ==
    ASSUME IInv, NEW a \in Calls \cup {Ui}, On(a, "signout"), Become(a, [pc |-> "clear"]),
           UNCHANGED <<session, owner, valid, history>>, live' \subseteq live,
           /\ sends' \in 0 .. MaxSends /\ signIns' \in 0 .. MaxSignIns
           /\ expiries' \in 0 .. MaxExpiries /\ failures' \in 0 .. MaxFailures
    PROVE  IInv'
  <1> DEFINE w == [pc |-> "clear"]
  <1>1. session' = session /\ Token' = Token /\ Current' = Current
    BY DEF Token, Current
  <1>2. w \in Waits'
    BY DEF Waits
  <1>3. /\ actor' \in [Actors -> Waits']
        /\ actor'[a] = w /\ \A b \in Actors \ {a} : actor'[b] = actor[b]
    BY <1>1, <1>2, Became, ActorsApart DEF IInv
  <1>4. \A b \in Actors : actor'[b].pc # "clear" => b # a /\ actor'[b] = actor[b]
    BY <1>3
  <1>5. TypeOK'
    <2>1. actor'[a].pc = "clear" /\ a # Refresh
      BY <1>3, ActorsApart
    <2> QED
      BY <1>1, <1>3, <2>1, ActorsApart DEF IInv, TypeOK, history
  <1>6. Owned'
    BY <1>1, <1>4, OwnedKept DEF IInv, history
  <1>7. Fresh'
    <2>1. Current' \in Free
      BY <1>1 DEF Free
    <2> QED
      BY <1>4, <2>1, FreshKept DEF IInv, On
  <1>8. Unadopted'
    BY <1>4 DEF IInv, Unadopted, On
  <1>9. ASSUME ~ disturbed' PROVE Calm'
    <2>1. Calm
      BY <1>9 DEF IInv, history
    <2>2. a = Ui
      BY <2>1 DEF Calm, SignedIn
    <2>3. \A b \in Actors \ {Ui} : actor'[b].pc = "idle"
      BY <1>3, <2>1, <2>2, ActorsApart DEF Calm, OneAtATime, On
    <2>4. actor'[Ui].pc = "clear"
      BY <1>3, <2>2
    <2> QED
      BY <2>3, <2>4, ActorsApart DEF Calm, OneAtATime, SignedOut, SignedIn, Lives, Unexpired, On
  <1> QED
    BY <1>5, <1>6, <1>7, <1>8, <1>9 DEF IInv

LEMMA SignOutPostedIInv ==
    ASSUME IInv, NEW a \in Calls \cup {Ui}, SignOutPosted(a) PROVE IInv'
  <1>1. /\ On(a, "signout") /\ Become(a, [pc |-> "clear"]) /\ live' \subseteq live
        /\ UNCHANGED <<session, owner, valid, bounds, history>>
    BY DEF SignOutPosted
  <1> QED
    BY <1>1, SignOutEnds DEF IInv, TypeOK, bounds

LEMMA SignOutFailsIInv ==
    ASSUME IInv, NEW a \in Calls \cup {Ui}, SignOutFails(a) PROVE IInv'
  <1>1. /\ On(a, "signout") /\ Become(a, [pc |-> "clear"]) /\ Fail
        /\ UNCHANGED <<session, server, history>>
    BY DEF SignOutFails
  <1> QED
    BY <1>1, FailTyped, SignOutEnds DEF IInv, TypeOK, server

LEMMA ClearIInv == ASSUME IInv, NEW a \in Calls \cup {Ui}, Clear(a) PROVE IInv'
  <1>1. /\ On(a, "clear") /\ session' = Nobody
        /\ Become(a, Idle) /\ UNCHANGED <<server, bounds, history>>
    BY DEF Clear
  <1>2. /\ owner' = owner /\ live' = live /\ valid' = valid /\ Token' = Token /\ Current' = 0
    BY <1>1 DEF server, Token, Current
  <1>3. /\ actor' \in [Actors -> Waits']
        /\ actor'[a] = Idle /\ \A b \in Actors \ {a} : actor'[b] = actor[b]
    BY <1>1, <1>2, IdleTyped, Became, ActorsApart DEF IInv
  <1>4. \A b \in Actors : actor'[b].pc # "idle" => b # a /\ actor'[b] = actor[b]
    BY <1>3, IdleTyped
  <1>5. TypeOK'
    BY <1>1, <1>2, <1>3, <1>4, ActorsApart DEF IInv, TypeOK, bounds, history
  <1>6. Owned'
    BY <1>1, <1>2, <1>4, OwnedKept DEF IInv, history
  <1>7. Fresh'
    <2>1. Current' \in Free
      BY <1>2 DEF Free
    <2> QED
      BY <1>4, <2>1, FreshKept DEF IInv, On
  <1>8. Unadopted'
    BY <1>2, <1>4 DEF IInv, Unadopted, On
  <1>9. ASSUME ~ disturbed' PROVE Calm'
    <2>1. Calm /\ ~ On(a, "idle")
      BY <1>1, <1>9 DEF IInv, history, On
    <2>2. a = Ui => \A b \in Calls \cup {Refresh} : On(b, "idle")
      BY <2>1 DEF Calm, OneAtATime
    <2>3. a \in Calls => On(Ui, "idle") /\ session = Nobody
      BY <1>1, <2>1, UiIdle DEF Calm, SignedIn
    <2>4. OneAtATime'
      BY <1>3, <2>3, IdleTyped, ActorsApart DEF OneAtATime, On
    <2>5. SignedOut'
      BY <1>3, <1>4, <2>1, <2>2, <2>3, IdleTyped, ActorsApart DEF Calm, SignedOut, On
    <2>6. SignedIn'
      BY <1>1, <1>4, <2>1, ActorsApart DEF Calm, SignedIn, On
    <2>7. Lives'
      BY <1>1, <1>2, <1>4, <2>1, ActorsApart DEF Calm, Lives, On
    <2>8. Unexpired'
      BY <1>2, <1>4, <2>1, <2>2, <2>3, ActorsApart DEF Calm, Unexpired, On, Current
    <2> QED
      BY <2>4, <2>5, <2>6, <2>7, <2>8 DEF Calm
  <1> QED
    BY <1>5, <1>6, <1>7, <1>8, <1>9 DEF IInv

\* A step that is excepted from calm has to keep the types and the owners only.
LEMMA StorageFailsIInv ==
    ASSUME IInv, NEW a \in Calls \cup {Ui}, StorageFails(a) PROVE IInv'
  <1> DEFINE w == IF a \in Calls /\ On(a, "clear") THEN [pc |-> "hung"] ELSE Idle
  <1>1. Fail /\ disturbed' = TRUE /\ Become(a, w) /\ UNCHANGED <<session, server, swapped>>
    BY DEF StorageFails
  <1>2. /\ owner' = owner /\ live' = live /\ valid' = valid /\ Token' = Token
        /\ session' = session /\ Current' = Current
    BY <1>1 DEF server, Token, Current
  <1>3. w \in Waits' /\ w.pc \in {"idle", "hung"}
    BY IdleTyped DEF Waits
  <1> HIDE DEF w
  <1>4. /\ actor' \in [Actors -> Waits']
        /\ actor'[a] = w /\ \A b \in Actors \ {a} : actor'[b] = actor[b]
    BY <1>1, <1>2, <1>3, Became, ActorsApart DEF IInv
  <1>5. \A b \in Actors : actor'[b].pc \notin {"idle", "hung"} => b # a /\ actor'[b] = actor[b]
    BY <1>3, <1>4
  <1>6. TypeOK'
    BY <1>1, <1>2, <1>3, <1>4, <1>5, FailTyped, ActorsApart DEF IInv, TypeOK
  <1>7. Owned'
    BY <1>1, <1>2, <1>5, OwnedKept DEF IInv
  <1>8. Fresh'
    <2>1. Current' \in Free
      BY <1>2 DEF Free
    <2> QED
      BY <1>5, <2>1, FreshKept DEF IInv, On
  <1>9. Unadopted'
    BY <1>2, <1>5 DEF IInv, Unadopted, On
  <1> QED
    BY <1>1, <1>6, <1>7, <1>8, <1>9 DEF IInv

LEMMA LapsesIInv == ASSUME IInv, NEW t \in Token, Lapses(t) PROVE IInv'
  <1>1. /\ Fail /\ live' = live \ {t} /\ disturbed' = TRUE
        /\ UNCHANGED <<session, owner, valid, actor, swapped>>
    BY DEF Lapses
  <1>2. Token' = Token /\ Waits' = Waits /\ Current' = Current
    BY <1>1 DEF Token, Waits, Current
  <1>3. TypeOK'
    BY <1>1, <1>2, FailTyped DEF IInv, TypeOK
  <1>4. Owned'
    BY <1>1, OwnedKept DEF IInv
  <1>5. Fresh' /\ Unadopted'
    BY <1>1, <1>2 DEF IInv, Fresh, Unadopted, On
  <1> QED
    BY <1>1, <1>3, <1>4, <1>5 DEF IInv

\* No token that waits to be adopted is the session's or on its way.
LEMMA ExpireIInv == ASSUME IInv, NEW t \in Token, Expire(t) PROVE IInv'
  <1>1. /\ t = Current \/ \E c \in Calls : On(c, "sent") /\ actor[c].tok = t
        /\ expiries < MaxExpiries /\ expiries' = expiries + 1
        /\ valid' = valid \ {t}
        /\ disturbed' = (disturbed \/ \E c \in Calls : On(c, "sent") /\ actor[c].retried
                                                        /\ t \in {actor[c].tok, Current})
        /\ UNCHANGED <<session, owner, live, actor, sends, signIns, failures, swapped>>
    BY DEF Expire
  <1>2. Token' = Token /\ Waits' = Waits /\ Current' = Current
    BY <1>1 DEF Token, Waits, Current
  <1>3. TypeOK'
    <2>1. expiries' \in 0 .. MaxExpiries /\ disturbed' \in BOOLEAN
      BY <1>1, ConstantsAssumption DEF IInv, TypeOK
    <2> QED
      BY <1>1, <1>2, <2>1 DEF IInv, TypeOK
  <1>4. Owned'
    BY <1>1, OwnedKept DEF IInv
  <1>5. Fresh'
    BY <1>1, <1>2 DEF IInv, Fresh, On
  <1>6. Unadopted'
    <2>1. \A a \in Actors : On(a, "adopt") => actor[a].tok # t
      BY <1>1, ActorsApart DEF IInv, Fresh, On
    <2> QED
      BY <1>1, <2>1 DEF IInv, Unadopted, On
  <1>7. ASSUME ~ disturbed' PROVE Calm'
    <2>1. Calm /\ \A c \in Calls : On(c, "sent") /\ actor[c].retried =>
            actor[c].tok # t /\ Current # t
      BY <1>1, <1>7 DEF IInv
    <2>2. Unexpired'
      BY <1>1, <1>2, <2>1 DEF Calm, Unexpired, On
    <2> QED
      BY <1>1, <2>1, <2>2 DEF Calm, OneAtATime, SignedOut, SignedIn, Lives, On
  <1> QED
    BY <1>3, <1>4, <1>5, <1>6, <1>7 DEF IInv

LEMMA RestartIInv == ASSUME IInv, Restart PROVE IInv'
  <1>1. /\ Fail /\ actor' = [a \in Actors |-> Idle]
        /\ disturbed' = (disturbed \/ ~ On(Refresh, "idle") \/ ~ On(Ui, "idle"))
        /\ UNCHANGED <<session, server, swapped>>
    BY DEF Restart
  <1>2. /\ session' = session /\ owner' = owner /\ live' = live /\ valid' = valid
        /\ Token' = Token /\ Current' = Current
    BY <1>1 DEF server, Token, Current
  <1>3. \A a \in Actors : actor'[a] = Idle /\ actor'[a].pc = "idle"
    BY <1>1, IdleTyped
  <1>4. TypeOK'
    <2>1. actor' \in [Actors -> Waits'] /\ disturbed' \in BOOLEAN
      BY <1>1, IdleTyped DEF IInv, TypeOK
    <2> QED
      BY <1>1, <1>2, <1>3, <2>1, FailTyped, ActorsApart DEF IInv, TypeOK
  <1>5. Owned' /\ Fresh' /\ Unadopted'
    <2>1. Owned'
      BY <1>1, <1>2, <1>3, OwnedKept DEF IInv
    <2> QED
      BY <1>3, <2>1 DEF Fresh, Unadopted, On
  <1>6. ASSUME ~ disturbed' PROVE Calm'
    <2>1. Calm /\ On(Refresh, "idle") /\ On(Ui, "idle")
      BY <1>1, <1>6 DEF IInv
    <2>2. Lives'
      BY <1>2, <1>3, <2>1, ActorsApart DEF Calm, Lives, On
    <2> QED
      BY <1>3, <2>2, ActorsApart DEF Calm, OneAtATime, SignedOut, SignedIn, Unexpired, On
  <1> QED
    BY <1>4, <1>5, <1>6 DEF IInv

LEMMA NextIInv == ASSUME IInv, [Next]_vars PROVE IInv'
  <1>1. CASE UNCHANGED vars
    <2>1. UNCHANGED <<session, owner, live, valid, actor, sends, signIns, expiries, failures,
                      disturbed, swapped>>
      BY <1>1 DEF vars, server, bounds, history
    <2>2. Waits' = Waits /\ Token' = Token /\ Current' = Current
      BY <2>1 DEF Waits, Token, Current
    <2>3. TypeOK'
      BY <2>1, <2>2 DEF IInv, TypeOK
    <2>4. Owned' /\ Fresh' /\ Unadopted'
      BY <2>1, <2>2 DEF IInv, Owned, IdentityMatches, Fresh, Unadopted, On
    <2>5. Calm = Calm'
      BY <2>1, <2>2 DEF Calm, OneAtATime, SignedOut, SignedIn, Lives, Unexpired, On
    <2> QED
      BY <2>1, <2>3, <2>4, <2>5 DEF IInv
  <1>2. ASSUME NEW c \in Calls, Send(c) \/ TimesOut(c) PROVE IInv'
    BY <1>2, SendIInv, TimesOutIInv
  <1>3. ASSUME NEW a \in Calls \cup {Ui}, Step(a) \/ SignOutFails(a) \/ StorageFails(a)
        PROVE  IInv'
    BY <1>3, ServedIInv, BoughtIInv, JoinIInv, SecondUnauthorizedIInv, AdoptIInv,
       SignOutPostedIInv, SignOutFailsIInv, ClearIInv, StorageFailsIInv DEF Step
  <1>4. CASE RefreshStep \/ RefreshFails
    BY <1>4, RefreshServedIInv, RefreshRejectedIInv, RefreshedIInv, NotRefreshedIInv,
       RefreshFailsIInv DEF RefreshStep
  <1>5. CASE (\E u \in Users : SignIn(u)) \/ SignOut
    BY <1>5, SignInIInv, SignOutIInv
  <1>6. CASE (\E t \in Token : Expire(t) \/ Lapses(t)) \/ Restart
    BY <1>6, ExpireIInv, LapsesIInv, RestartIInv
  <1> QED
    BY <1>1, <1>2, <1>3, <1>4, <1>5, <1>6 DEF Next

-----------------------------------------------------------------------------
\* The app's session in every state: what was fetched is its user's, what is not adopted
\* is nowhere else, and while a user is left alone no token is presented twice.
THEOREM Invariant == Spec => []IInv
  <1>1. IInv /\ [Next]_vars => IInv'
    BY NextIInv
  <1> QED
    BY InitIInv, <1>1, PTL DEF Spec

\* Every actor of the client waits for one thing of its type, and requests wait for a
\* refresh only while there is one.
THEOREM TypeCorrect == Spec => []TypeOK
  <1>1. IInv => TypeOK
    BY DEF IInv
  <1> QED
    BY Invariant, <1>1, PTL

\* The tokens of the session are its user's, but after a purchase that was verified
\* across a change of users (signIn, tryRefreshAccessToken).
THEOREM Identity == Spec => []IdentityMatches
  <1>1. IInv => IdentityMatches
    BY DEF IInv, Owned
  <1> QED
    BY Invariant, <1>1, PTL

\* No request signs out a user who was left alone: onError refreshes once for all of
\* them, with a token that was not presented before.
THEOREM NobodyIsSignedOut == Spec => StaysSignedIn
  <1> DEFINE Stays == \A c \in Calls :
               (actor[c].pc # "signout" /\ actor'[c].pc = "signout") => disturbed
  <1>1. IInv /\ [Next]_vars => [Stays]_vars
    <2> SUFFICES ASSUME IInv, Next PROVE Stays
      OBVIOUS
    <2> SUFFICES ASSUME NEW c \in Calls, actor[c].pc # "signout", actor'[c].pc = "signout",
                        ~ disturbed
                 PROVE  FALSE
      OBVIOUS
    <2>1. Calm /\ TypeOK /\ c \in Actors /\ c # Ui /\ c # Refresh
      BY ActorsApart DEF IInv
    <2>2. ASSUME NEW a \in Actors, NEW w, Become(a, w), a # c \/ w.pc # "signout" PROVE FALSE
      BY <2>1, <2>2 DEF TypeOK, Become
    <2>3. Idle.pc # "signout" /\ \A t, r, e : Sent(t, r, e).pc # "signout"
      BY DEF Idle, Sent
    <2>4. ASSUME NEW d \in Calls, Send(d) \/ TimesOut(d) PROVE FALSE
      <3>1. PICK w : Become(d, w) /\ w.pc # "signout"
        <4>1. CASE Send(d)
          BY <2>3, <4>1 DEF Send
        <4>2. CASE TimesOut(d)
          <5> DEFINE w == IF d \in Buyers \/ actor[d].resent THEN Idle
                          ELSE Sent(Carried(actor[d].tok), actor[d].retried, TRUE)
          <5>1. w.pc # "signout"
            BY <2>3
          <5> QED
            BY <4>2, <5>1 DEF TimesOut
        <4> QED
          BY <2>4, <4>1, <4>2
      <3> QED
        BY <2>2, <3>1, ActorsApart
    <2>5. ASSUME NEW d \in Calls, Served(d) \/ Bought(d) PROVE FALSE
      <3>1. PICK w : Become(d, w) /\ w.pc # "signout"
        BY <2>3, <2>5 DEF Served, Bought
      <3> QED
        BY <2>2, <3>1, ActorsApart
    <2>6. ASSUME NEW d \in Calls, Join(d) PROVE FALSE
      BY <2>1, <2>6 DEF Join, TypeOK
    <2>7. ASSUME NEW d \in Calls, SecondUnauthorized(d) PROVE FALSE
      BY <2>1, <2>7 DEF SecondUnauthorized, Unauthorized, Calm, Unexpired
    <2>8. ASSUME NEW a \in Calls \cup {Ui}, Adopt(a) \/ SignOutPosted(a) \/ Clear(a) \/ SignOutFails(a)
                                               \/ StorageFails(a)
          PROVE  FALSE
      <3>1. PICK w : Become(a, w) /\ w.pc # "signout"
        BY <2>3, <2>8 DEF Adopt, SignOutPosted, Clear, SignOutFails, StorageFails
      <3> QED
        BY <2>2, <3>1, ActorsApart
    <2>9. CASE RefreshServed \/ RefreshRejected \/ RefreshFails
      <3>1. PICK w : Become(Refresh, w)
        BY <2>9 DEF RefreshServed, RefreshRejected, RefreshFails
      <3> QED
        BY <2>1, <2>2, <3>1, ActorsApart
    <2>10. CASE Refreshed
      BY <2>1, <2>10 DEF Refreshed, Retry
    <2>11. CASE NotRefreshed
      <3>1. SigningOut.pc = "clear"
        BY <2>1, <2>11, SigningOutTyped DEF NotRefreshed, Calm, SignedIn
      <3> QED
        BY <2>1, <2>11, <3>1 DEF NotRefreshed
    <2>12. CASE (\E u \in Users : SignIn(u)) \/ SignOut
      <3>1. PICK w : Become(Ui, w)
        BY <2>12 DEF SignIn, SignOut
      <3> QED
        BY <2>1, <2>2, <3>1, ActorsApart
    <2>13. CASE (\E t \in Token : Expire(t) \/ Lapses(t)) \/ Restart
      BY <2>1, <2>3, <2>13 DEF Expire, Lapses, Restart
    <2> QED
      BY <2>4, <2>5, <2>6, <2>7, <2>8, <2>9, <2>10, <2>11, <2>12, <2>13 DEF Next, Step, RefreshStep
  <1> QED
    BY Invariant, <1>1, PTL DEF StaysSignedIn, Spec
=============================================================================
