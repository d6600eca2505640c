---------------------------- MODULE OAuthRefresh ----------------------------
(***************************************************************************)
(* Token refresh on a 401 (executeHttpConnector and refreshOAuthToken in   *)
(* internal/server/server.go), composed with the resolver: every access to *)
(* a token goes through the steps of module Resolver.                      *)
(*                                                                         *)
(* A token is the number of the grant that issued it.  The provider        *)
(* accepts one access token and one refresh token at a time; it may or may *)
(* not rotate the refresh token when it is spent.  A goroutine serves an   *)
(* operation on an OAuth site or a GET /admin/secrets/status, one at a     *)
(* time; the gateway may crash anywhere, while the credential store and    *)
(* the provider survive.                                                   *)
(***************************************************************************)
EXTENDS Resolver

CONSTANTS
    MaxGrant    \* bound: grants the provider issues, the initial one included

Access  == "access"
Refresh == "refresh"
NoToken == 0

ASSUME OAuthAssumption ==
    /\ MaxGrant \in Nat \ {0}
    /\ Key = {Access, Refresh}
    /\ Secret = 1..MaxGrant
    /\ Short \subseteq Secret

VARIABLES
    hpc,        \* where each handler is
    sent,       \* the access token of its first attempt
    got,        \* the tokens of the provider's reply: access and, if rotated, refresh
    mu,         \* holders of oauthRefreshMu
    grants,     \* provider: number of the last grant
    liveA,      \* provider: the access token it accepts
    liveR,      \* provider: the refresh token it accepts
    lost        \* history: a rotated refresh token did not reach the store

resolverVars == <<store, cacheVal, cacheAge, tainted, pc, key, val,
                  overtaken, late, exposed>>
provider     == <<grants, liveA, liveR>>
oauthVars    == <<hpc, sent, got, mu, grants, liveA, liveR, lost>>
allVars      == <<resolverVars, oauthVars>>

Phase == {"idle", "status", "resolve", "resolving", "send", "lock", "rt", "rting", "post",
          "storeA", "keptA", "failedA", "storeR", "keptR", "flush",
          "reresolve", "reresolving", "resend"}

Token == 0..MaxGrant

OAuthTypeOK ==
    /\ TypeOK
    /\ hpc \in [Proc -> Phase]
    /\ sent \in [Proc -> Token]
    /\ got \in [Proc -> [a : Token, r : Token]]
    /\ mu \subseteq Proc
    /\ grants \in 1..MaxGrant
    /\ liveA \in Token
    /\ liveR \in 1..MaxGrant
    /\ lost \in BOOLEAN

NoReply == [a |-> NoToken, r |-> NoToken]

OAuthInit ==
    /\ store = [k \in Key |-> 1]
    /\ cacheVal = [k \in Key |-> NoSecret]
    /\ cacheAge = [k \in Key |-> TTL]
    /\ tainted = {}
    /\ pc = [p \in Proc |-> "idle"]
    /\ key = [p \in Proc |-> Access]
    /\ val = [p \in Proc |-> NoSecret]
    /\ overtaken = {} /\ late = {} /\ exposed = {}
    /\ hpc = [p \in Proc |-> "idle"]
    /\ sent = [p \in Proc |-> NoToken]
    /\ got = [p \in Proc |-> NoReply]
    /\ mu = {}
    /\ grants = 1 /\ liveA = 1 /\ liveR = 1
    /\ lost = FALSE

-----------------------------------------------------------------------------
(* Calls into the resolver.                                                *)

Goto(p, from, to) == hpc[p] = from /\ hpc' = [hpc EXCEPT ![p] = to]

BeginResolve(p, k) == CacheHit(p, k) \/ CacheMiss(p, k)

\* Resolve returned a secret: the caller takes it.
Take(p) ==
    /\ pc[p] = "held"
    /\ pc' = [pc EXCEPT ![p] = "idle"]
    /\ val' = [val EXCEPT ![p] = NoSecret]
    /\ UNCHANGED <<key, store, cacheVars, tainted, overtaken, late, exposed>>

\* Resolve returned an error.
ResolveFailed(p) == pc[p] = "idle" /\ UNCHANGED resolverVars

\* The steps inside Resolve.
ResolverStep(p) ==
    /\ StoreRead(p) \/ StoreReadFails(p) \/ Insert(p) \/ Taint(p)
    /\ UNCHANGED oauthVars

\* GET /admin/secrets/status resolves the secrets one after the other and
\* keeps nothing of one when it turns to the next.
StatusCheck(p) ==
    /\ Goto(p, "idle", "status")
    /\ \E k \in Key : BeginResolve(p, k)
    /\ UNCHANGED <<sent, got, mu, provider, lost>>

StatusChecked(p) ==
    /\ Goto(p, "status", "idle")
    /\ Take(p) \/ ResolveFailed(p)
    /\ UNCHANGED <<sent, got, mu, provider, lost>>

-----------------------------------------------------------------------------
(* The first attempt.                                                      *)

Arrive(p) ==
    /\ Goto(p, "idle", "resolve")
    /\ UNCHANGED <<resolverVars, sent, got, mu, provider, lost>>

ResolveAccess(p) ==
    /\ Goto(p, "resolve", "resolving")
    /\ BeginResolve(p, Access)
    /\ UNCHANGED <<sent, got, mu, provider, lost>>

\* An unresolved credential is only logged: the request goes out without it.
AccessResolved(p) ==
    /\ Goto(p, "resolving", "send")
    /\ \/ Take(p) /\ sent' = [sent EXCEPT ![p] = val[p]]
       \/ ResolveFailed(p) /\ sent' = [sent EXCEPT ![p] = NoToken]
    /\ UNCHANGED <<got, mu, provider, lost>>

\* The site answers: anything but a 401 ends the request, as a transport
\* error does; a 401 starts a refresh.
Send(p) ==
    /\ \/ Goto(p, "send", "idle") /\ sent' = [sent EXCEPT ![p] = NoToken]
       \/ /\ sent[p] = NoToken \/ sent[p] # liveA
          /\ Goto(p, "send", "lock")
          /\ UNCHANGED sent
    /\ UNCHANGED <<resolverVars, got, mu, provider, lost>>

-----------------------------------------------------------------------------
(* refreshOAuthToken.                                                      *)

\* Mutant: refreshes are not serialised.
LockUnserialised(p) ==
    /\ Goto(p, "lock", "rt")
    /\ mu' = mu \cup {p}
    /\ UNCHANGED <<resolverVars, sent, got, provider, lost>>

Lock(p) ==
    /\ mu = {}
    /\ Goto(p, "lock", "rt")
    /\ mu' = {p}
    /\ UNCHANGED <<resolverVars, sent, got, provider, lost>>

ResolveRefresh(p) ==
    /\ Goto(p, "rt", "rting")
    /\ BeginResolve(p, Refresh)
    /\ UNCHANGED <<sent, got, mu, provider, lost>>

\* The refresh token to present is kept in got.r until the reply replaces it.
RefreshResolved(p) ==
    /\ Goto(p, "rting", "post")
    /\ got' = [got EXCEPT ![p] = [a |-> NoToken, r |-> val[p]]]
    /\ Take(p)
    /\ UNCHANGED <<sent, mu, provider, lost>>

\* Mutant: the failure path forgets the deferred Unlock.
GiveUpLocked(p) ==
    /\ hpc' = [hpc EXCEPT ![p] = "idle"]
    /\ got' = [got EXCEPT ![p] = NoReply]
    /\ sent' = [sent EXCEPT ![p] = NoToken]
    /\ UNCHANGED mu

\* return false: the deferred Unlock runs and the 401 goes to the caller.
GiveUp(p) ==
    /\ hpc' = [hpc EXCEPT ![p] = "idle"]
    /\ got' = [got EXCEPT ![p] = NoReply]
    /\ sent' = [sent EXCEPT ![p] = NoToken]
    /\ mu' = mu \ {p}

RefreshUnresolved(p) ==
    /\ hpc[p] = "rting"
    /\ ResolveFailed(p)
    /\ GiveUp(p)
    /\ UNCHANGED <<provider, lost>>

\* The provider spends the refresh token: a new access token and, if it
\* rotates, a new refresh token that replaces the old one.
Grant(rotates) ==
    /\ grants < MaxGrant
    /\ grants' = grants + 1
    /\ liveA' = grants + 1
    /\ liveR' = IF rotates THEN grants + 1 ELSE liveR

\* The token endpoint answers 200 with an access token.
PostGranted(p) ==
    /\ Goto(p, "post", "storeA")
    /\ got[p].r = liveR
    /\ \E rotates \in BOOLEAN :
         /\ Grant(rotates)
         /\ got' = [got EXCEPT ![p] =
                       [a |-> grants + 1,
                        r |-> IF rotates THEN grants + 1 ELSE NoToken]]
    /\ UNCHANGED <<resolverVars, sent, mu, lost>>

\* Transport error, time-out, non-200, undecodable body or no access_token;
\* the provider may have spent the token before the reply was lost.
PostFails(p) ==
    /\ hpc[p] = "post"
    /\ \/ UNCHANGED provider /\ UNCHANGED lost
       \/ /\ got[p].r = liveR
          /\ \E rotates \in BOOLEAN : Grant(rotates) /\ lost' = (lost \/ rotates)
    /\ GiveUp(p)
    /\ UNCHANGED resolverVars

\* resolver.Set of the access token; when it fails the rotated refresh token
\* is dropped with it.
StoreAccess(p) ==
    /\ \/ Goto(p, "storeA", "keptA") /\ Write(p, Access, got[p].a) /\ UNCHANGED lost
       \/ /\ Goto(p, "storeA", "failedA")
          /\ WriteFails(p, Access)
          /\ lost' = (lost \/ got[p].r # NoToken)
    /\ UNCHANGED <<sent, got, mu, provider>>

AccessForgotten(p) ==
    /\ forget(p)
    /\ \/ /\ Goto(p, "keptA", IF got[p].r # NoToken THEN "storeR" ELSE "flush")
          /\ UNCHANGED <<sent, got, mu>>
       \/ hpc[p] = "failedA" /\ GiveUp(p)
    /\ UNCHANGED <<provider, lost>>

\* Mutant: the rotated refresh token is not persisted.
StoreRefreshSkipped(p) ==
    /\ Goto(p, "storeR", "flush")
    /\ UNCHANGED <<resolverVars, sent, got, mu, provider, lost>>

\* resolver.Set of the rotated refresh token; a failure is only logged.
StoreRefresh(p) ==
    /\ \/ Goto(p, "storeR", "keptR") /\ Write(p, Refresh, got[p].r) /\ UNCHANGED lost
       \/ Goto(p, "storeR", "keptR") /\ WriteFails(p, Refresh) /\ lost' = TRUE
    /\ UNCHANGED <<sent, got, mu, provider>>

RefreshForgotten(p) ==
    /\ Goto(p, "keptR", "flush")
    /\ forget(p)
    /\ UNCHANGED <<sent, got, mu, provider, lost>>

\* FlushCache, return true and the deferred Unlock.
Refreshed(p) ==
    /\ Goto(p, "flush", "reresolve")
    /\ FlushCache(p)
    /\ mu' = mu \ {p}
    /\ got' = [got EXCEPT ![p] = NoReply]
    /\ UNCHANGED <<sent, provider, lost>>

-----------------------------------------------------------------------------
(* The retry.                                                              *)

ResolveAgain(p) ==
    /\ Goto(p, "reresolve", "reresolving")
    /\ BeginResolve(p, Access)
    /\ UNCHANGED <<sent, got, mu, provider, lost>>

\* The new credential goes out in got.a; without one the first 401 stands.
AgainResolved(p) ==
    /\ \/ /\ Goto(p, "reresolving", "resend")
          /\ Take(p)
          /\ got' = [got EXCEPT ![p].a = val[p]]
          /\ UNCHANGED sent
       \/ /\ Goto(p, "reresolving", "idle")
          /\ ResolveFailed(p)
          /\ sent' = [sent EXCEPT ![p] = NoToken]
          /\ UNCHANGED got
    /\ UNCHANGED <<mu, provider, lost>>

\* The second answer is final, whatever it is.
Resend(p) ==
    /\ Goto(p, "resend", "idle")
    /\ got' = [got EXCEPT ![p] = NoReply]
    /\ sent' = [sent EXCEPT ![p] = NoToken]
    /\ UNCHANGED <<resolverVars, mu, provider, lost>>

-----------------------------------------------------------------------------
(* Environment.                                                            *)

Expire ==
    /\ liveA # NoToken
    /\ liveA' = NoToken
    /\ UNCHANGED <<resolverVars, hpc, sent, got, mu, grants, liveR, lost>>

\* A gateway crash: memory is gone, and with it a rotated refresh token that
\* was on its way to the store.
InTransit(p) ==
    hpc[p] \in {"storeA", "keptA", "failedA", "storeR"} /\ got[p].r # NoToken

Crash ==
    /\ lost' = (lost \/ \E p \in Proc : InTransit(p))
    /\ cacheVal' = [k \in Key |-> NoSecret]
    /\ cacheAge' = [k \in Key |-> TTL]
    /\ tainted' = {} /\ overtaken' = {} /\ late' = {}
    /\ pc' = [p \in Proc |-> "idle"]
    /\ key' = [p \in Proc |-> Access]
    /\ val' = [p \in Proc |-> NoSecret]
    /\ hpc' = [p \in Proc |-> "idle"]
    /\ sent' = [p \in Proc |-> NoToken]
    /\ got' = [p \in Proc |-> NoReply]
    /\ mu' = {}
    /\ UNCHANGED <<store, exposed, provider>>

Clock == Tick /\ UNCHANGED oauthVars

-----------------------------------------------------------------------------

\* What a handler does by itself once it has arrived, but for taking the lock.
HandlerStep(p) ==
    \/ ResolverStep(p) \/ StatusChecked(p)
    \/ ResolveAccess(p) \/ AccessResolved(p) \/ Send(p)
    \/ ResolveRefresh(p) \/ RefreshResolved(p) \/ RefreshUnresolved(p)
    \/ PostGranted(p) \/ PostFails(p)
    \/ StoreAccess(p) \/ AccessForgotten(p)
    \/ StoreRefresh(p) \/ RefreshForgotten(p) \/ Refreshed(p)
    \/ ResolveAgain(p) \/ AgainResolved(p) \/ Resend(p)

OAuthNext ==
    \/ \E p \in Proc : Arrive(p) \/ StatusCheck(p) \/ Lock(p) \/ HandlerStep(p)
    \/ Expire
    \/ Crash
    \/ Clock

OAuthSpec == OAuthInit /\ [][OAuthNext]_allVars

\* Handlers run, their store and HTTP calls return (the clients time out), and
\* sync.Mutex does not starve a waiter.
OAuthFairSpec ==
    /\ OAuthSpec
    /\ \A p \in Proc : WF_allVars(HandlerStep(p)) /\ SF_allVars(Lock(p))

-----------------------------------------------------------------------------

\* The refresh token the provider accepts is in the store, or in the hands of
\* the one handler that will store it, or was lost to a failure the code could
\* not repair: a lost reply, a failed Set or a crash.
LiveRefreshAccountedFor ==
    \/ lost
    \/ store[Refresh] = liveR
    \/ \E p \in mu : InTransit(p) /\ got[p].r = liveR

\* A refresh never replaces the stored access token by an older one
\* (oauthRefreshMu: "race on storing").
AccessNeverRollsBack == [][store'[Access] >= store[Access]]_allVars

\* Every request that meets a 401 is answered: whatever fails on the way, the
\* refresh lock is released.
RefreshEnds == \A p \in Proc : hpc[p] = "lock" ~> hpc[p] = "idle"

\* server.go says two concurrent 401s do not each spend a refresh token: a
\* handler about to spend one was refused with the access token that is still
\* the stored one, no other handler having replaced it.
RefreshSpentOnce ==
    \A p \in Proc :
        hpc[p] = "post" /\ sent[p] # NoToken => store[Access] = sent[p]

\* The stored rotation keeps the next refresh from presenting a dead token
\* (server.go, after the refresh): a cached refresh token that a handler takes
\* under the lock is the one the provider accepts, unless a rotation was lost,
\* or a status check, which takes no lock, had read the old one and cached it
\* after the new one was stored (late).
DeadTokenOnlyByRace ==
    [][\A p \in Proc :
          hpc[p] = "rt" /\ hpc'[p] = "rting" /\ val'[p] \notin {NoSecret, liveR}
          => lost \/ Refresh \in late]_allVars

-----------------------------------------------------------------------------
(* What makes them inductive.                                              *)

UnderLock == {"rt", "rting", "post", "storeA", "keptA", "failedA", "storeR", "keptR", "flush"}

\* The holder of the lock is the one handler inside refreshOAuthToken.
LockHeld ==
    /\ \A p, q \in mu : p = q
    /\ \A p \in Proc : p \in mu <=> hpc[p] \in UnderLock

\* Only a handler inside Set has a key to forget, and outside Resolve nobody
\* holds a secret.
Placed ==
    \A p \in Proc :
        /\ pc[p] = "forget" => hpc[p] = "keptR" \/ (hpc[p] \in {"keptA", "failedA"} /\ key[p] = Access)
        /\ pc[p] \in {"idle", "read", "forget"} => val[p] = NoSecret

\* What a refresh carries is what the provider has granted last.
Carried ==
    /\ store[Access] \in 1..grants
    /\ store[Refresh] \in Secret
    /\ \A p \in Proc :
          /\ hpc[p] = "storeA" => got[p].a = grants
          /\ InTransit(p) => got[p].r = liveR
          /\ hpc[p] = "storeR" => InTransit(p)
          /\ hpc[p] = "failedA" /\ got[p].r # NoToken => lost

OAuthInv ==
    /\ OAuthTypeOK
    /\ FillCurrent /\ StaleOnlyByRace
    /\ LockHeld /\ Placed /\ Carried /\ LiveRefreshAccountedFor
=============================================================================
