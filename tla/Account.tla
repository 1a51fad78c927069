------------------------------ MODULE Account -------------------------------
(***************************************************************************)
(* One browser used by several accounts: signing in and out, and whose     *)
(* notifications are pushed to it (services/notifications/push.ts,         *)
(* hooks/useProfile.ts, pages/Login.tsx, pages/ChatPage.tsx, authToken.ts).*)
(*                                                                         *)
(* Subscribing and unsubscribing are asynchronous: each call of either is  *)
(* a flow of its own that waits for the browser, then for the server, and  *)
(* goes on whatever page is shown.  A request carries the token stored at  *)
(* the time it is sent (api.ts), not the one of the account that asked.    *)
(***************************************************************************)
EXTENDS Naturals, FiniteSets

CONSTANTS
    Accounts,
    MaxFlows,       \* bound: calls of subscribeToPush and unsubscribeFromPush
    MaxEndpoints,   \* bound: subscriptions the browser hands out
    MaxLogins       \* bound: calls of Login.handleSubmit

Nobody == 0

ASSUME AccountAssumption ==
    /\ 0 \notin Accounts
    /\ MaxFlows \in Nat /\ MaxEndpoints \in Nat /\ MaxLogins \in Nat

VARIABLES
    token,          \* localStorage: the account of the access token, or Nobody
    inChat,         \* the chat page is mounted
    granted,        \* the permission, which the browser keeps for all accounts
    browserSub,     \* the endpoint the browser is subscribed with, 0 for none
    endpoints,      \* endpoints handed out so far
    owner,          \* push_subscriptions: endpoint -> account, Nobody without a row
    flows,          \* the calls in progress
    pushCalls, logins,
    assured,        \* the account signed in, once a subscribeToPush for it returned true
    crossed         \* calls for different ends have overlapped since all was quiet

accountVars == <<token, inChat, granted, browserSub, endpoints, owner, flows,
                 pushCalls, logins, assured, crossed>>

Endpoints == 1..MaxEndpoints

AccountInit ==
    /\ token = Nobody /\ inChat = FALSE /\ granted \in BOOLEAN /\ browserSub = 0
    /\ endpoints = 0 /\ owner = [e \in Endpoints |-> Nobody] /\ flows = {}
    /\ pushCalls = 0 /\ logins = 0 /\ assured = Nobody /\ crossed = FALSE

\* What a call waits for: "browser" for its registration and subscription (and
\* the server's key), "grant" for a new subscription, "server" for its request,
\* which carries the token of "as" and the endpoint found.
Call(n, kind) == [id |-> n, kind |-> kind, at |-> "browser", as |-> Nobody, endpoint |-> 0,
                  for |-> token]

\* The calls of one handler start together.
Begin(new) ==
    /\ pushCalls + Cardinality(new) <= MaxFlows /\ pushCalls' = pushCalls + Cardinality(new)
    /\ flows' = flows \union new
    /\ crossed' = (flows # {} /\ (crossed \/ \E f \in flows, g \in new :
                                                f.kind # g.kind \/ f.for # g.for))

\* A call returns; subscribeToPush with true only when the server took it.
Return(f, ok) ==
    /\ flows' = flows \ {f}
    /\ assured' = IF ok /\ f.kind = "subscribe" /\ f.as = token THEN token ELSE assured
    /\ UNCHANGED <<pushCalls, crossed>>

Move(f, g) == flows' = (flows \ {f}) \union {g} /\ UNCHANGED <<pushCalls, crossed, assured>>

\* The token is stored, and the chat page subscribes when it is mounted with
\* the permission.
SignIn(u) ==
    /\ ~inChat /\ token = Nobody /\ logins < MaxLogins /\ logins' = logins + 1
    /\ token' = u /\ inChat' = TRUE /\ assured' = Nobody
    /\ IF granted
       THEN Begin({[Call(pushCalls + 1, "subscribe") EXCEPT !.for = u]})
       ELSE UNCHANGED <<flows, pushCalls, crossed>>
    /\ UNCHANGED <<granted, browserSub, endpoints, owner>>

\* The handler subscribes, and so does the effect that the new permission runs.
EnableNotifications ==
    /\ inChat /\ ~granted /\ granted' = TRUE
    /\ Begin({Call(pushCalls + 1, "subscribe"), Call(pushCalls + 2, "subscribe")})
    /\ UNCHANGED <<token, inChat, browserSub, endpoints, owner, logins, assured>>

\* The stored token is dropped before unsubscribeFromPush gets past its first
\* await.
Logout ==
    /\ inChat /\ Begin({Call(pushCalls + 1, "unsubscribe")})
    /\ token' = Nobody /\ inChat' = FALSE /\ assured' = Nobody
    /\ UNCHANGED <<granted, browserSub, endpoints, owner, logins>>

\* Deleting the account, and being turned away by the socket, leave the
\* subscription as it is.
SignedOutOtherwise ==
    /\ inChat /\ token' = Nobody /\ inChat' = FALSE /\ assured' = Nobody
    /\ UNCHANGED <<granted, browserSub, endpoints, owner, flows, pushCalls, logins, crossed>>

\* getValidAccessToken clears a token that has expired; the page stays.
Expires ==
    /\ token # Nobody /\ token' = Nobody /\ assured' = Nobody
    /\ UNCHANGED <<inChat, granted, browserSub, endpoints, owner, flows, pushCalls, logins, crossed>>

Request(f, e) == [f EXCEPT !.at = "server", !.as = token, !.endpoint = e]

\* Bug: a browser that is subscribed already is not registered again.
RegisterNewOnly(f) ==
    IF browserSub # 0
    THEN Return([f EXCEPT !.as = token], TRUE)
    ELSE Move(f, [f EXCEPT !.at = "grant"])

\* With a subscription of the browser's, whoever made it, the server is told
\* at once; without one, the browser is asked for one.
RegisterFound(f) ==
    IF browserSub # 0
    THEN Move(f, Request(f, browserSub))
    ELSE Move(f, [f EXCEPT !.at = "grant"])

Looks(f) ==
    /\ f.kind = "subscribe" /\ f.at = "browser" /\ RegisterFound(f)
    /\ UNCHANGED <<token, inChat, granted, browserSub, endpoints, owner, logins>>

\* No service worker, no key (push is disabled), or the browser refuses.
GivesUp(f) ==
    /\ f.at \in {"browser", "grant"} /\ Return(f, FALSE)
    /\ UNCHANGED <<token, inChat, granted, browserSub, endpoints, owner, logins>>

BrowserSubscribes(f) ==
    /\ f.at = "grant"
    /\ IF browserSub # 0
       THEN UNCHANGED <<browserSub, endpoints>>
       ELSE /\ endpoints < MaxEndpoints /\ endpoints' = endpoints + 1
            /\ browserSub' = endpoints'
    /\ Move(f, Request(f, browserSub'))
    /\ UNCHANGED <<token, inChat, granted, owner, logins>>

\* A subscription the browser cannot undo is reported all the same.
BrowserUnsubscribes(f, ok) ==
    /\ f.kind = "unsubscribe" /\ f.at = "browser" /\ browserSub # 0
    /\ browserSub' = IF ok THEN 0 ELSE browserSub
    /\ Move(f, Request(f, browserSub))
    /\ UNCHANGED <<token, inChat, granted, endpoints, owner, logins>>

\* The endpoint's row becomes that of the account that asks.
Upserts(f) ==
    /\ f.kind = "subscribe" /\ f.at = "server" /\ f.as # Nobody
    /\ owner' = [owner EXCEPT ![f.endpoint] = f.as]
    /\ \E ok \in BOOLEAN : Return(f, ok)
    /\ UNCHANGED <<token, inChat, granted, browserSub, endpoints, logins>>

\* Any signed-in account may delete an endpoint's row.
Deletes(f) ==
    /\ f.kind = "unsubscribe" /\ f.at = "server" /\ f.as # Nobody
    /\ owner' = [owner EXCEPT ![f.endpoint] = Nobody] /\ Return(f, TRUE)
    /\ UNCHANGED <<token, inChat, granted, browserSub, endpoints, logins>>

\* Without a token the server answers 401; any request may be lost.
RequestFails(f) ==
    /\ f.at = "server" /\ Return(f, FALSE)
    /\ UNCHANGED <<token, inChat, granted, browserSub, endpoints, owner, logins>>

\* The push service answers 410 for an endpoint the browser gave up.
PushFindsGone(e) ==
    /\ owner[e] # Nobody /\ browserSub # e /\ owner' = [owner EXCEPT ![e] = Nobody]
    /\ UNCHANGED <<token, inChat, granted, browserSub, endpoints, flows, pushCalls, logins, assured,
                   crossed>>

AccountNext ==
    \/ \E u \in Accounts : SignIn(u)
    \/ EnableNotifications \/ Logout \/ SignedOutOtherwise \/ Expires
    \/ \E f \in flows :
          \/ Looks(f) \/ GivesUp(f) \/ BrowserSubscribes(f)
          \/ \E ok \in BOOLEAN : BrowserUnsubscribes(f, ok)
          \/ Upserts(f) \/ Deletes(f) \/ RequestFails(f)
    \/ \E e \in Endpoints : PushFindsGone(e)

-----------------------------------------------------------------------------
(* Properties *)

\* Whoever was told that notifications are on gets them, and nobody else does:
\* the browser's endpoint is registered for the account signed in, whichever
\* account subscribed the browser first and however that one left, as long as
\* no unsubscription and no subscription of another account ran beside
\* (UpsertPushSubscription: "a browser re-subscribing after login/logout
\* updates its row").
PushIsOwn ==
    (flows = {} /\ ~crossed /\ assured # Nobody)
        => browserSub # 0 /\ owner[browserSub] = token

(***************************************************************************)
(* Why the endpoint is that of the account signed in.                      *)
(***************************************************************************)

Calls == [id : Nat, kind : {"subscribe", "unsubscribe"}, at : {"browser", "grant", "server"},
          as : Accounts \union {Nobody}, endpoint : Endpoints \union {0},
          for : Accounts \union {Nobody}]

AccountTypeOK ==
    /\ token \in Accounts \union {Nobody} /\ (assured = Nobody \/ assured = token)
    /\ inChat \in BOOLEAN /\ granted \in BOOLEAN /\ crossed \in BOOLEAN
    /\ browserSub \in Endpoints \union {0} /\ endpoints \in 0..MaxEndpoints
    /\ owner \in [Endpoints -> Accounts \union {Nobody}] /\ pushCalls \in Nat
    /\ flows \subseteq Calls

\* Nobody subscribes without the permission.
GrantedFirst == assured # Nobody \/ (\E f \in flows : f.kind = "subscribe") => granted

\* The calls under way serve one end: a subscription is for whoever is signed
\* in, and its request names the browser's endpoint.
OneEnd ==
    /\ \A f, g \in flows : f.kind = g.kind /\ f.for = g.for
    /\ \A f \in flows : f.kind = "subscribe" =>
           /\ token # Nobody => f.for = token
           /\ f.as # Nobody => f.as = f.for
           /\ f.at = "server" => f.endpoint = browserSub /\ browserSub # 0

Assured ==
    assured # Nobody => /\ browserSub # 0 /\ owner[browserSub] = token
                        /\ \A f \in flows : f.kind = "subscribe"

AccountInv == AccountTypeOK /\ GrantedFirst /\ (~crossed => OneEnd /\ Assured)

=============================================================================
