--------------------------- MODULE ProEntitlement ---------------------------
(***************************************************************************)
(* Who is Pro: POST /payments/verify (routes/payments.rs), the Google Play  *)
(* notifications (routes/webhooks.rs) and what both ask the store           *)
(* (services/google_play.rs).                                               *)
(*                                                                         *)
(* log is everything that happened to subscriptions at the store, in order; *)
(* each entry is also a notification, and its position stands for           *)
(* eventTimeMillis.  Pub/Sub delivers a notification again until a handler  *)
(* acknowledges it, perhaps after that too, and in any order.  Handlers of  *)
(* both routes ask the store first and write the user's row later.          *)
(***************************************************************************)
EXTENDS Integers, Sequences

CONSTANTS
    Users,          \* accounts
    Purchases,      \* purchase tokens
    NoPurchase,     \* users.purchase_token IS NULL
    Calls,          \* requests in flight, of both routes
    MaxEvents       \* bound: the store's log is no longer than this

ASSUME ProAssumption ==
    /\ NoPurchase \notin Purchases
    /\ MaxEvents \in Nat

VARIABLES
    log,            \* what happened at the store
    acked,          \* notifications answered with 204
    purchaseToken,  \* users.purchase_token
    proStatus,      \* users.pro_status
    proExpiresAt,   \* users.pro_expires_at: the event that bought the period, 0 for NULL
    lastNotification,   \* users.last_notification_at, 0 for NULL
    call,           \* what each request in flight knows
    \* History variables, never read by the actions.
    source,         \* the notification that last wrote the row, 0 if a verify did
    applied,        \* stamped notifications that were written to the row
    outdated        \* the row was last written with older news than was already
                    \* answered, or news of it was dropped for another purchase's

row == <<purchaseToken, proStatus, proExpiresAt, lastNotification>>
proHistory == <<source, applied, outdated>>
proVars == <<log, acked, row, call, proHistory>>

\* "grant" is PURCHASED, RENEWED, RECOVERED, GRACE_PERIOD or RESTARTED, "revoke" is
\* EXPIRED, REVOKED, ON_HOLD or PAUSED, and "cancel" is CANCELED, which ends nothing yet.
Events == [of : Purchases, kind : {"grant", "revoke", "cancel"}, stamped : BOOLEAN]

NoCall == [pc |-> "idle"]
CallStates ==
    {NoCall}
    \cup [pc : {"fetch"}, n : Nat]
    \cup [pc : {"apply"}, n : Nat, paid : Nat]
    \cup [pc : {"claim"}, user : Users, of : Purchases, paid : Nat]

ProTypeOK ==
    /\ log \in Seq(Events)
    /\ acked \subseteq 1 .. Len(log)
    /\ purchaseToken \in [Users -> Purchases \cup {NoPurchase}]
    /\ proStatus \in [Users -> BOOLEAN]
    /\ proExpiresAt \in [Users -> Nat]
    /\ lastNotification \in [Users -> Nat]
    /\ call \in [Calls -> CallStates]
    /\ source \in [Users -> Nat]
    /\ applied \in [Users -> SUBSET (1 .. Len(log))]
    /\ outdated \in [Users -> BOOLEAN]

ProInit ==
    /\ log = <<>>
    /\ acked = {}
    /\ purchaseToken = [u \in Users |-> NoPurchase]
    /\ proStatus = [u \in Users |-> FALSE]
    /\ proExpiresAt = [u \in Users |-> 0]
    /\ lastNotification = [u \in Users |-> 0]
    /\ call = [h \in Calls |-> NoCall]
    /\ source = [u \in Users |-> 0]
    /\ applied = [u \in Users |-> {}]
    /\ outdated = [u \in Users |-> FALSE]

At(h, pc) == call[h].pc = pc

\* The events of a purchase that start or end the right to Pro.
Turns(t) == {n \in 1 .. Len(log) : log[n].of = t /\ log[n].kind # "cancel"}

\* What the store answers about a purchase: the event that bought the current
\* period, or nothing if the subscription is not active.
ActivePeriod(t) == {n \in Turns(t) : log[n].kind = "grant" /\ \A m \in Turns(t) : m <= n}

-----------------------------------------------------------------------------
\* Something happens to a subscription at the store.
StoreEvent(t, kind, stamped) ==
    /\ Len(log) < MaxEvents
    /\ kind # "grant" => ActivePeriod(t) # {}
    /\ log' = Append(log, [of |-> t, kind |-> kind, stamped |-> stamped])
    /\ UNCHANGED <<acked, row, call, proHistory>>

\* google_play_webhook up to its first await.
Deliver(h, n) ==
    /\ At(h, "idle")
    /\ \/ /\ log[n].kind = "grant"
          /\ call' = [call EXCEPT ![h] = [pc |-> "fetch", n |-> n]]
          /\ UNCHANGED acked
       \/ /\ log[n].kind = "revoke"
          /\ call' = [call EXCEPT ![h] = [pc |-> "apply", n |-> n, paid |-> 0]]
          /\ UNCHANGED acked
       \/ /\ log[n].kind = "cancel"
          /\ acked' = acked \cup {n}
          /\ UNCHANGED call
    /\ UNCHANGED <<log, row, proHistory>>

\* verify_subscription for a grant: an inactive subscription is acknowledged
\* and skipped; a failed call is not acknowledged (Drop).
Fetch(h) ==
    /\ At(h, "fetch")
    /\ LET n == call[h].n IN
       \/ \E p \in ActivePeriod(log[n].of) :
            /\ call' = [call EXCEPT ![h] = [pc |-> "apply", n |-> n, paid |-> p]]
            /\ UNCHANGED acked
       \/ /\ ActivePeriod(log[n].of) = {}
          /\ call' = [call EXCEPT ![h] = NoCall]
          /\ acked' = acked \cup {n}
    /\ UNCHANGED <<log, row, proHistory>>

\* Mutant: an older notification is applied too.
ShouldApply_Unordered(n, u) == TRUE

\* The ordering guard of the two UPDATEs (and should_apply).
ShouldApply(n, u) ==
    \/ ~ log[n].stamped
    \/ lastNotification[u] = 0
    \/ lastNotification[u] < n

\* Two purchases of an account share its last_notification_at: news of the one
\* it holds is dropped because the other one's was newer.
Muted(n, u) ==
    /\ purchaseToken[u] = log[n].of
    /\ ~ ShouldApply(n, u)
    /\ log[lastNotification[u]].of # log[n].of
    /\ n > proExpiresAt[u]

\* Mutant: the revoke leaves pro_status to its expiry.
Apply_NoRevoke(h) ==
    /\ At(h, "apply")
    /\ LET n == call[h].n
           Hit(u) == purchaseToken[u] = log[n].of /\ ShouldApply(n, u)
       IN
       /\ proStatus' = [u \in Users |-> proStatus[u] \/ (Hit(u) /\ log[n].kind = "grant")]
       /\ proExpiresAt' = [u \in Users |->
                             IF Hit(u) /\ log[n].kind = "grant" THEN call[h].paid ELSE proExpiresAt[u]]
       /\ lastNotification' = [u \in Users |->
                                 IF Hit(u) /\ log[n].stamped THEN n ELSE lastNotification[u]]
       /\ acked' = acked \cup {n}
    /\ call' = [call EXCEPT ![h] = NoCall]
    /\ UNCHANGED <<log, purchaseToken, proHistory>>

\* The UPDATE of the row that holds the purchase, if any does and the ordering
\* guard lets it, and the 204 either way.
Apply(h) ==
    /\ At(h, "apply")
    /\ LET n == call[h].n
           Hit(u) == purchaseToken[u] = log[n].of /\ ShouldApply(n, u)
       IN
       /\ proStatus' = [u \in Users |->
                          IF Hit(u) THEN log[n].kind = "grant" ELSE proStatus[u]]
       /\ proExpiresAt' = [u \in Users |->
                             IF Hit(u) /\ log[n].kind = "grant" THEN call[h].paid ELSE proExpiresAt[u]]
       /\ lastNotification' = [u \in Users |->
                                 IF Hit(u) /\ log[n].stamped THEN n ELSE lastNotification[u]]
       /\ acked' = acked \cup {n}
       /\ source' = [u \in Users |-> IF Hit(u) THEN n ELSE source[u]]
       /\ applied' = [u \in Users |->
                        IF Hit(u) /\ log[n].stamped THEN applied[u] \cup {n} ELSE applied[u]]
       /\ outdated' = [u \in Users |->
                         IF Hit(u)
                         THEN \E m \in Turns(log[n].of) :
                                m > n /\ (m \in acked \/ m <= proExpiresAt[u])
                         ELSE outdated[u] \/ Muted(n, u)]
    /\ call' = [call EXCEPT ![h] = NoCall]
    /\ UNCHANGED <<log, purchaseToken>>

\* verify_purchase asks the store; an inactive subscription is refused.
VerifyFetch(h, u, t) ==
    /\ At(h, "idle")
    /\ \E p \in ActivePeriod(t) :
         call' = [call EXCEPT ![h] = [pc |-> "claim", user |-> u, of |-> t, paid |-> p]]
    /\ UNCHANGED <<log, acked, row, proHistory>>

\* Mutant: the unique index of migration 0011 is missing.
Claim_NoIndex(h) ==
    /\ At(h, "claim")
    /\ LET u == call[h].user
           t == call[h].of
       IN
       /\ purchaseToken' = [purchaseToken EXCEPT ![u] = t]
       /\ proStatus' = [proStatus EXCEPT ![u] = TRUE]
       /\ proExpiresAt' = [proExpiresAt EXCEPT ![u] = call[h].paid]
    /\ call' = [call EXCEPT ![h] = NoCall]
    /\ UNCHANGED <<log, acked, lastNotification, proHistory>>

\* The claiming UPDATE; the unique index makes it fail if another account holds
\* the purchase.
Claim(h) ==
    /\ At(h, "claim")
    /\ LET u == call[h].user
           t == call[h].of
           free == \A v \in Users \ {u} : purchaseToken[v] # t
       IN
       \/ /\ free
          /\ purchaseToken' = [purchaseToken EXCEPT ![u] = t]
          /\ proStatus' = [proStatus EXCEPT ![u] = TRUE]
          /\ proExpiresAt' = [proExpiresAt EXCEPT ![u] = call[h].paid]
          /\ source' = [source EXCEPT ![u] = 0]
          /\ outdated' = [outdated EXCEPT ![u] =
                            \E m \in Turns(t) : m > call[h].paid /\ m \in acked]
          /\ UNCHANGED <<lastNotification, applied>>
       \/ /\ ~ free
          /\ UNCHANGED <<row, proHistory>>
    /\ call' = [call EXCEPT ![h] = NoCall]
    /\ UNCHANGED <<log, acked>>

\* A call to the store or a statement fails, or the request is dropped: nothing
\* is acknowledged.
CutOff(h) ==
    /\ ~ At(h, "idle")
    /\ call' = [call EXCEPT ![h] = NoCall]
    /\ UNCHANGED <<log, acked, row, proHistory>>

ProNext ==
    \/ \E t \in Purchases, kind \in {"grant", "revoke", "cancel"}, stamped \in BOOLEAN :
         StoreEvent(t, kind, stamped)
    \/ \E h \in Calls, n \in 1 .. Len(log) : Deliver(h, n)
    \/ \E h \in Calls, u \in Users, t \in Purchases : VerifyFetch(h, u, t)
    \/ \E h \in Calls : Fetch(h) \/ Apply(h) \/ Claim(h) \/ CutOff(h)

ProSpec == ProInit /\ [][ProNext]_proVars

-----------------------------------------------------------------------------
\* However two accounts race to verify it, a purchase makes one account Pro.
OneAccountPerPurchase ==
    \A u, v \in Users :
        purchaseToken[u] = purchaseToken[v] /\ purchaseToken[u] # NoPurchase => u = v

\* A row that was last written by a stamped notification says what the newest of
\* all notifications applied to it said: neither a late nor a repeated one, nor one
\* whose handler was slow to hear from the store, overwrites a newer one.
NewestWins ==
    \A u \in Users :
        source[u] \in applied[u] =>
            /\ \A n \in applied[u] : n <= source[u]
            /\ proStatus[u] = (log[source[u]].kind = "grant")

\* Once every notification of a purchase was answered, the account that holds it is
\* Pro iff the store says so, and until the date the store says, unless its last write
\* was outdated news (a verify that a notification overtook, a notification a verify
\* overtook or one without a timestamp) or an account with two purchases dropped one's
\* news for the other's.
SettledAgrees ==
    \A u \in Users :
        LET t == purchaseToken[u] IN
        /\ t # NoPurchase
        /\ ~ outdated[u]
        /\ Turns(t) \subseteq acked
        => /\ proStatus[u] <=> ActivePeriod(t) # {}
           /\ proStatus[u] => proExpiresAt[u] \in ActivePeriod(t)
=============================================================================
