------------------------ MODULE OAuthRefresh_proofs ------------------------
(***************************************************************************)
(* For any number of goroutines, of grants and of failures: where the      *)
(* refresh token that the provider accepts is, the order in which access   *)
(* tokens reach the store, and the causes of a dead token under the lock.  *)
(* And before that, for any number of goroutines, keys and secrets, of the *)
(* resolver alone: its types, the taint cover, and the two causes of a     *)
(* stale cache entry, which the refresh rests on.                          *)
(***************************************************************************)
EXTENDS OAuthRefresh, TLAPS

-----------------------------------------------------------------------------
(* The resolver alone.                                                     *)

\* A step of the resolver keeps the types; also of use where the resolver is a
\* part of a larger system.
LEMMA TypeKept == TypeOK /\ [Next]_vars => TypeOK'
<1> USE ResolverAssumption
<1> SUFFICES ASSUME TypeOK, [Next]_vars PROVE TypeOK'
  OBVIOUS
<1> USE DEF TypeOK, StoredValue, cacheVars, callVars
<1>1. ASSUME NEW p \in Proc, NEW k \in Key, CacheHit(p, k) PROVE TypeOK'
  BY <1>1 DEF CacheHit, Fresh
<1>2. ASSUME NEW p \in Proc, NEW k \in Key, CacheMiss(p, k) PROVE TypeOK'
  BY <1>2 DEF CacheMiss
<1>3. ASSUME NEW p \in Proc, StoreRead(p) PROVE TypeOK'
  BY <1>3 DEF StoreRead
<1>4. ASSUME NEW p \in Proc, StoreReadFails(p) PROVE TypeOK'
  BY <1>4 DEF StoreReadFails
<1>5. ASSUME NEW p \in Proc, Insert(p) PROVE TypeOK'
  BY <1>5 DEF Insert
<1>6. ASSUME NEW p \in Proc, Taint(p) PROVE TypeOK'
  BY <1>6 DEF Taint
<1>7. ASSUME NEW p \in Proc, Respond(p) PROVE TypeOK'
  BY <1>7 DEF Respond
<1>8. ASSUME NEW p \in Proc, forget(p) PROVE TypeOK'
  BY <1>8 DEF forget
<1>9. ASSUME NEW p \in Proc, NEW k \in Key, NEW v \in StoredValue, Write(p, k, v)
      PROVE TypeOK'
  BY <1>9 DEF Write, Overtake
<1>10. ASSUME NEW p \in Proc, NEW k \in Key, WriteFails(p, k) PROVE TypeOK'
  BY <1>10 DEF WriteFails
<1>11. ASSUME NEW p \in Proc, FlushCache(p) PROVE TypeOK'
  BY <1>11 DEF FlushCache
<1>12. CASE Tick
  <2>1. cacheAge' \in [Key -> 0..TTL]
    BY <1>12 DEF Tick
  <2>2. QED
    BY <1>12, <2>1 DEF Tick
<1>13. CASE UNCHANGED vars
  BY <1>13 DEF vars
<1>14. QED
  BY <1>1, <1>2, <1>3, <1>4, <1>5, <1>6, <1>7, <1>8, <1>9, <1>10, <1>11, <1>12, <1>13
     DEF Next, Progress, Set, Delete

\* Every behaviour of the resolver is type correct; in particular only values
\* that pass checkEmpty are ever cached or handed to a caller.
THEOREM TypeCorrect == Spec => []TypeOK
<1> USE ResolverAssumption
<1>1. Init => TypeOK
  BY DEF Init, TypeOK, StoredValue
<1>2. QED
  BY <1>1, TypeKept, PTL DEF Spec

\* A step of the resolver keeps every cached or handed-out secret covered.
LEMMA TaintKept == TypeOK /\ TaintCover /\ [Next]_vars => TaintCover'
<1> USE ResolverAssumption
<1> SUFFICES ASSUME TypeOK, TaintCover, [Next]_vars PROVE TaintCover'
  OBVIOUS
<1> USE DEF TypeOK, TaintCover, Covered, cacheVars, callVars
<1>1. ASSUME NEW p \in Proc, NEW k \in Key, CacheHit(p, k) PROVE TaintCover'
  BY <1>1 DEF CacheHit, Fresh
<1>2. ASSUME NEW p \in Proc, NEW k \in Key, CacheMiss(p, k) PROVE TaintCover'
  BY <1>2 DEF CacheMiss
<1>3. ASSUME NEW p \in Proc, StoreRead(p) PROVE TaintCover'
  BY <1>3 DEF StoreRead
<1>4. ASSUME NEW p \in Proc, StoreReadFails(p) PROVE TaintCover'
  BY <1>4 DEF StoreReadFails
<1>5. ASSUME NEW p \in Proc, Insert(p) PROVE TaintCover'
  BY <1>5 DEF Insert
<1>6. ASSUME NEW p \in Proc, Taint(p) PROVE TaintCover'
  BY <1>6 DEF Taint
<1>7. ASSUME NEW p \in Proc, Respond(p) PROVE TaintCover'
  BY <1>7 DEF Respond
<1>8. ASSUME NEW p \in Proc, forget(p) PROVE TaintCover'
  BY <1>8 DEF forget
<1>9. ASSUME NEW p \in Proc, NEW k \in Key, NEW v \in StoredValue, Write(p, k, v)
      PROVE TaintCover'
  BY <1>9 DEF Write
<1>10. ASSUME NEW p \in Proc, NEW k \in Key, WriteFails(p, k) PROVE TaintCover'
  BY <1>10 DEF WriteFails
<1>11. ASSUME NEW p \in Proc, FlushCache(p) PROVE TaintCover'
  BY <1>11 DEF FlushCache
<1>12. CASE Tick
  BY <1>12 DEF Tick
<1>13. CASE UNCHANGED vars
  BY <1>13 DEF vars
<1>14. QED
  BY <1>1, <1>2, <1>3, <1>4, <1>5, <1>6, <1>7, <1>8, <1>9, <1>10, <1>11, <1>12, <1>13
     DEF Next, Progress, Set, Delete, StoredValue

\* Every cached or handed-out secret is tainted, too short to taint, or about
\* to be tainted by the goroutine that inserted it.
THEOREM TaintCovers == Spec => []TaintCover
<1>1. Init => TaintCover
  BY ResolverAssumption DEF Init, TaintCover
<1>2. QED
  BY <1>1, TaintKept, TypeCorrect, PTL DEF Spec

\* An unredacted answer implies a goroutine caught between insert and Taint.
THEOREM ExposureWindow == Spec => ExposedOnlyWhilePending
<1>1. TypeOK /\ TaintCover /\ [Next]_vars =>
        [\A v \in exposed' \ exposed :
            \E q \in Proc : pc[q] = "taint" /\ val[q] = v]_vars
  <2> SUFFICES ASSUME TypeOK, TaintCover, [Next]_vars,
                      NEW v \in exposed' \ exposed
               PROVE  \E q \in Proc : pc[q] = "taint" /\ val[q] = v
    OBVIOUS
  <2>1. ASSUME NEW p \in Proc, Respond(p)
        PROVE  \E q \in Proc : pc[q] = "taint" /\ val[q] = v
    BY <2>1 DEF Respond, TaintCover, Covered
  <2>2. exposed' = exposed \/ \E p \in Proc : Respond(p)
    BY DEF Next, Progress, Set, Delete, CacheHit, CacheMiss, StoreRead, StoreReadFails,
           Insert, Taint, forget, Write, WriteFails, FlushCache, Tick, vars
  <2>3. QED
    BY <2>1, <2>2
<1>2. QED
  BY <1>1, TypeCorrect, TaintCovers, PTL DEF Spec, ExposedOnlyWhilePending

StaleInv == FillCurrent /\ StaleOnlyByRace

\* A step of the resolver gives a stale entry no further cause.
LEMMA StaleKept == TypeOK /\ StaleInv /\ [Next]_vars => StaleInv'
<1> USE ResolverAssumption
<1> SUFFICES ASSUME TypeOK, StaleInv, [Next]_vars PROVE StaleInv'
  OBVIOUS
<1> USE DEF TypeOK, StaleInv, FillCurrent, StaleOnlyByRace, cacheVars, callVars
<1>1. ASSUME NEW p \in Proc, NEW k \in Key, CacheHit(p, k) PROVE StaleInv'
  BY <1>1 DEF CacheHit
<1>2. ASSUME NEW p \in Proc, NEW k \in Key, CacheMiss(p, k) PROVE StaleInv'
  BY <1>2 DEF CacheMiss
<1>3. ASSUME NEW p \in Proc, StoreRead(p) PROVE StaleInv'
  BY <1>3 DEF StoreRead
<1>4. ASSUME NEW p \in Proc, StoreReadFails(p) PROVE StaleInv'
  BY <1>4 DEF StoreReadFails
<1>5. ASSUME NEW p \in Proc, Insert(p) PROVE StaleInv'
  <2>1. FillCurrent'
    BY <1>5 DEF Insert
  <2>2. StaleOnlyByRace'
    BY <1>5 DEF Insert
  <2>3. QED
    BY <2>1, <2>2
<1>6. ASSUME NEW p \in Proc, Taint(p) PROVE StaleInv'
  BY <1>6 DEF Taint
<1>7. ASSUME NEW p \in Proc, Respond(p) PROVE StaleInv'
  BY <1>7 DEF Respond
<1>8. ASSUME NEW p \in Proc, forget(p) PROVE StaleInv'
  BY <1>8 DEF forget
<1>9. ASSUME NEW p \in Proc, NEW k \in Key, NEW v \in StoredValue, Write(p, k, v)
      PROVE StaleInv'
  <2>1. FillCurrent'
    BY <1>9 DEF Write, Overtake
  <2>2. StaleOnlyByRace'
    BY <1>9 DEF Write
  <2>3. QED
    BY <2>1, <2>2
<1>10. ASSUME NEW p \in Proc, NEW k \in Key, WriteFails(p, k) PROVE StaleInv'
  BY <1>10 DEF WriteFails
<1>11. ASSUME NEW p \in Proc, FlushCache(p) PROVE StaleInv'
  BY <1>11 DEF FlushCache
<1>12. CASE Tick
  BY <1>12 DEF Tick
<1>13. CASE UNCHANGED vars
  BY <1>13 DEF vars
<1>14. QED
  BY <1>1, <1>2, <1>3, <1>4, <1>5, <1>6, <1>7, <1>8, <1>9, <1>10, <1>11, <1>12, <1>13
     DEF Next, Progress, Set, Delete, StoredValue

\* A cached secret that is not the stored one is waiting for a forget, or was
\* inserted by a Resolve that a write overtook.
THEOREM StaleCauses == Spec => []StaleOnlyByRace
<1> USE ResolverAssumption
<1>1. Init => StaleInv
  BY DEF Init, StaleInv, FillCurrent, StaleOnlyByRace
<1>2. QED
  BY <1>1, StaleKept, TypeCorrect, PTL DEF Spec, StaleInv

-----------------------------------------------------------------------------
(* The refresh of a token.                                                 *)

\* OAuthInv without what is shown of the resolver alone.
RefreshInv ==
    /\ hpc \in [Proc -> Phase]
    /\ sent \in [Proc -> Token]
    /\ got \in [Proc -> [a : Token, r : Token]]
    /\ mu \subseteq Proc
    /\ grants \in 1..MaxGrant
    /\ liveA \in Token
    /\ liveR \in 1..MaxGrant
    /\ lost \in BOOLEAN
    /\ LockHeld /\ Placed /\ Carried /\ LiveRefreshAccountedFor

LEMMA Parts == OAuthInv <=> TypeOK /\ StaleInv /\ RefreshInv
  BY DEF OAuthInv, OAuthTypeOK, RefreshInv, StaleInv

LEMMA InitInv == OAuthInit => OAuthInv
<1> SUFFICES ASSUME OAuthInit PROVE OAuthInv
  OBVIOUS
<1> USE OAuthAssumption, ResolverAssumption
<1>1. TypeOK
  <2>1. 1 \in Secret /\ Access \in Key /\ TTL \in 0..TTL
    OBVIOUS
  <2>2. /\ store \in [Key -> StoredValue]
        /\ cacheVal \in [Key -> Secret \cup {NoSecret}]
        /\ cacheAge \in [Key -> 0..TTL]
    BY <2>1, Zenon DEF OAuthInit, StoredValue
  <2>3. /\ pc \in [Proc -> {"idle", "read", "insert", "taint", "held", "forget"}]
        /\ key \in [Proc -> Key]
        /\ val \in [Proc -> Secret \cup {NoSecret}]
        /\ \A p \in Proc : pc[p] = "idle"
    BY <2>1, Zenon DEF OAuthInit
  <2>4. tainted = {} /\ overtaken = {} /\ late = {} /\ exposed = {}
    BY DEF OAuthInit
  <2> HIDE OAuthAssumption, ResolverAssumption
  <2> QED
    BY <2>2, <2>3, <2>4 DEF TypeOK
<1>2. StaleInv
  BY DEF OAuthInit, StaleInv, FillCurrent, StaleOnlyByRace
<1>3. RefreshInv
  <2>1. store[Access] = 1 /\ store[Refresh] = 1 /\ 1 \in Secret /\ 1 \in Token
    BY DEF OAuthInit, Token
  <2>2. \A p \in Proc : pc[p] = "idle" /\ hpc[p] = "idle" /\ val[p] = NoSecret
    BY DEF OAuthInit
  <2>3. hpc \in [Proc -> Phase] /\ sent \in [Proc -> Token] /\ got \in [Proc -> [a : Token, r : Token]]
    BY DEF OAuthInit, NoReply, NoToken, Token, Phase
  <2>4. LockHeld /\ Placed /\ LiveRefreshAccountedFor
    BY <2>1, <2>2 DEF OAuthInit, LockHeld, UnderLock, Placed, LiveRefreshAccountedFor
  <2>5. Carried
    BY <2>1, <2>2 DEF OAuthInit, Carried, InTransit
  <2> QED
    BY <2>1, <2>3, <2>4, <2>5 DEF OAuthInit, RefreshInv
<1> QED
  BY <1>1, <1>2, <1>3, Parts

\* Every step but a crash is a step of the resolver, or none.
LEMMA ResolverPart == OAuthInv /\ OAuthNext => [Next]_vars \/ Crash
<1> SUFFICES ASSUME OAuthInv, OAuthNext, ~Crash PROVE [Next]_vars
  OBVIOUS
<1> USE OAuthAssumption
<1>1. Access \in Key /\ Refresh \in Key
  OBVIOUS
<1>2. ASSUME NEW p \in Proc, NEW k \in Key, BeginResolve(p, k) PROVE Next
  BY <1>2 DEF BeginResolve, Next
<1>3. ASSUME NEW p \in Proc, Take(p) PROVE Next
  <2>1. Respond(p)
    BY <1>3 DEF Take, Respond
  <2> QED
    BY <2>1 DEF Next, Progress
<1>4. ASSUME NEW p \in Proc, ResolverStep(p) PROVE Next
  BY <1>4 DEF ResolverStep, Next, Progress
<1>5. ASSUME NEW p \in Proc, NEW k \in Key, NEW v \in Secret, Write(p, k, v) PROVE Next
  BY <1>5 DEF Next, Set
<1>6. ASSUME NEW p \in Proc, NEW k \in Key, WriteFails(p, k) PROVE Next
  BY <1>6 DEF Next, Set
<1>7. ASSUME NEW p \in Proc, StoreAccess(p) PROVE Next
  <2>1. hpc[p] = "storeA" => got[p].a \in Secret
    BY DEF OAuthInv, OAuthTypeOK, Carried
  <2> QED
    BY <1>1, <1>5, <1>6, <1>7, <2>1 DEF StoreAccess, Goto
<1>8. ASSUME NEW p \in Proc, StoreRefresh(p) PROVE Next
  <2>1. hpc[p] = "storeR" => got[p].r \in Secret
    BY DEF OAuthInv, OAuthTypeOK, Carried, InTransit
  <2> QED
    BY <1>1, <1>5, <1>6, <1>8, <2>1 DEF StoreRefresh, Goto
<1>9. ASSUME NEW p \in Proc, forget(p) \/ FlushCache(p) PROVE Next
  BY <1>9 DEF Next, Progress
<1>10. ASSUME NEW p \in Proc, StatusCheck(p) \/ StatusChecked(p) PROVE [Next]_vars
  BY <1>2, <1>3, <1>10 DEF StatusCheck, StatusChecked, ResolveFailed, resolverVars, vars
<1>11. ASSUME NEW p \in Proc,
              Arrive(p) \/ Send(p) \/ Lock(p) \/ PostGranted(p) \/ PostFails(p) \/ Resend(p)
       PROVE  UNCHANGED vars
  BY <1>11 DEF Arrive, Send, Lock, PostGranted, PostFails, Resend, resolverVars, vars
<1>12. ASSUME NEW p \in Proc, ResolveAccess(p) \/ ResolveRefresh(p) \/ ResolveAgain(p)
       PROVE  Next
  BY <1>1, <1>2, <1>12 DEF ResolveAccess, ResolveRefresh, ResolveAgain
<1>13. ASSUME NEW p \in Proc,
              AccessResolved(p) \/ RefreshResolved(p) \/ RefreshUnresolved(p) \/ AgainResolved(p)
       PROVE  [Next]_vars
  BY <1>3, <1>13 DEF AccessResolved, RefreshResolved, RefreshUnresolved, AgainResolved,
                     ResolveFailed, resolverVars, vars
<1>14. ASSUME NEW p \in Proc, AccessForgotten(p) \/ RefreshForgotten(p) \/ Refreshed(p)
       PROVE  Next
  BY <1>9, <1>14 DEF AccessForgotten, RefreshForgotten, Refreshed
<1>15. Expire => UNCHANGED vars
  BY DEF Expire, resolverVars, vars
<1>16. Clock => Next
  BY DEF Clock, Next
<1> QED
  BY <1>4, <1>7, <1>8, <1>10, <1>11, <1>12, <1>13, <1>14, <1>15, <1>16 DEF OAuthNext, HandlerStep

LEMMA SentType == ASSUME sent \in [Proc -> Token], NEW p \in Proc, NEW t \in Token,
                         sent' = sent \/ sent' = [sent EXCEPT ![p] = t]
                  PROVE  sent' \in [Proc -> Token]
  OBVIOUS

LEMMA GotType == ASSUME got \in [Proc -> [a : Token, r : Token]], NEW p \in Proc,
                        NEW g \in [a : Token, r : Token],
                        got' = got \/ got' = [got EXCEPT ![p] = g]
                 PROVE  got' \in [Proc -> [a : Token, r : Token]]
  OBVIOUS

-----------------------------------------------------------------------------
(* The handlers' steps, one lemma for each.                                *)

LEMMA ArriveKeeps == ASSUME OAuthInv, NEW p \in Proc, Arrive(p) PROVE RefreshInv'
<1> USE OAuthAssumption
<1> USE DEF Arrive, Goto, resolverVars, cacheVars, provider, oauthVars
<1>1. TypeOK /\ RefreshInv
  BY Parts
<1>2. /\ hpc' \in [Proc -> Phase] /\ sent' \in [Proc -> Token] /\ got' \in [Proc -> [a : Token, r : Token]]
      /\ mu' \subseteq Proc /\ grants' \in 1..MaxGrant /\ liveA' \in Token /\ liveR' \in 1..MaxGrant
      /\ lost' \in BOOLEAN
  BY <1>1 DEF RefreshInv, TypeOK, Phase, Token
<1>3. LockHeld'
  BY <1>1 DEF RefreshInv, TypeOK, LockHeld, UnderLock
<1>4. Placed'
  BY <1>1 DEF RefreshInv, TypeOK, Placed
<1>5. Carried'
  BY <1>1 DEF RefreshInv, TypeOK, Carried, InTransit, LockHeld, UnderLock
<1>6. LiveRefreshAccountedFor'
  BY <1>1 DEF RefreshInv, TypeOK, Carried, InTransit, LockHeld, UnderLock, LiveRefreshAccountedFor
<1> QED
  BY <1>2, <1>3, <1>4, <1>5, <1>6 DEF RefreshInv

LEMMA StatusCheckKeeps == ASSUME OAuthInv, NEW p \in Proc, StatusCheck(p) PROVE RefreshInv'
<1> USE OAuthAssumption
<1> USE DEF StatusCheck, Goto, BeginResolve, CacheHit, CacheMiss, resolverVars, cacheVars, provider, oauthVars
<1>1. TypeOK /\ RefreshInv
  BY Parts
<1>2. /\ hpc' \in [Proc -> Phase] /\ sent' \in [Proc -> Token] /\ got' \in [Proc -> [a : Token, r : Token]]
      /\ mu' \subseteq Proc /\ grants' \in 1..MaxGrant /\ liveA' \in Token /\ liveR' \in 1..MaxGrant
      /\ lost' \in BOOLEAN
  BY <1>1 DEF RefreshInv, TypeOK, Phase, Token
<1>3. LockHeld'
  BY <1>1 DEF RefreshInv, TypeOK, LockHeld, UnderLock
<1>4. Placed'
  BY <1>1 DEF RefreshInv, TypeOK, Placed
<1>5. Carried'
  BY <1>1 DEF RefreshInv, TypeOK, Carried, InTransit, LockHeld, UnderLock
<1>6. LiveRefreshAccountedFor'
  BY <1>1 DEF RefreshInv, TypeOK, Carried, InTransit, LockHeld, UnderLock, LiveRefreshAccountedFor
<1> QED
  BY <1>2, <1>3, <1>4, <1>5, <1>6 DEF RefreshInv

LEMMA StatusCheckedKeeps == ASSUME OAuthInv, NEW p \in Proc, StatusChecked(p) PROVE RefreshInv'
<1> USE OAuthAssumption
<1> USE DEF StatusChecked, Goto, Take, ResolveFailed, resolverVars, cacheVars, provider, oauthVars
<1>1. TypeOK /\ RefreshInv
  BY Parts
<1>2. /\ hpc' \in [Proc -> Phase] /\ sent' \in [Proc -> Token] /\ got' \in [Proc -> [a : Token, r : Token]]
      /\ mu' \subseteq Proc /\ grants' \in 1..MaxGrant /\ liveA' \in Token /\ liveR' \in 1..MaxGrant
      /\ lost' \in BOOLEAN
  BY <1>1 DEF RefreshInv, TypeOK, Phase, Token
<1>3. LockHeld'
  BY <1>1 DEF RefreshInv, TypeOK, LockHeld, UnderLock
<1>4. Placed'
  BY <1>1 DEF RefreshInv, TypeOK, Placed
<1>5. Carried'
  BY <1>1 DEF RefreshInv, TypeOK, Carried, InTransit, LockHeld, UnderLock
<1>6. LiveRefreshAccountedFor'
  BY <1>1 DEF RefreshInv, TypeOK, Carried, InTransit, LockHeld, UnderLock, LiveRefreshAccountedFor
<1> QED
  BY <1>2, <1>3, <1>4, <1>5, <1>6 DEF RefreshInv

LEMMA ResolveAccessKeeps == ASSUME OAuthInv, NEW p \in Proc, ResolveAccess(p) PROVE RefreshInv'
<1> USE OAuthAssumption
<1> USE DEF ResolveAccess, Goto, BeginResolve, CacheHit, CacheMiss, resolverVars, cacheVars, provider, oauthVars
<1>1. TypeOK /\ RefreshInv
  BY Parts
<1>2. /\ hpc' \in [Proc -> Phase] /\ sent' \in [Proc -> Token] /\ got' \in [Proc -> [a : Token, r : Token]]
      /\ mu' \subseteq Proc /\ grants' \in 1..MaxGrant /\ liveA' \in Token /\ liveR' \in 1..MaxGrant
      /\ lost' \in BOOLEAN
  BY <1>1 DEF RefreshInv, TypeOK, Phase, Token
<1>3. LockHeld'
  BY <1>1 DEF RefreshInv, TypeOK, LockHeld, UnderLock
<1>4. Placed'
  BY <1>1 DEF RefreshInv, TypeOK, Placed
<1>5. Carried'
  BY <1>1 DEF RefreshInv, TypeOK, Carried, InTransit, LockHeld, UnderLock
<1>6. LiveRefreshAccountedFor'
  BY <1>1 DEF RefreshInv, TypeOK, Carried, InTransit, LockHeld, UnderLock, LiveRefreshAccountedFor
<1> QED
  BY <1>2, <1>3, <1>4, <1>5, <1>6 DEF RefreshInv

LEMMA AccessResolvedKeeps == ASSUME OAuthInv, NEW p \in Proc, AccessResolved(p) PROVE RefreshInv'
<1> USE OAuthAssumption
<1> USE DEF AccessResolved, Goto, Take, ResolveFailed, NoToken, resolverVars, cacheVars, provider, oauthVars
<1>1. TypeOK /\ RefreshInv
  BY Parts
<1>2. /\ hpc' \in [Proc -> Phase] /\ sent' \in [Proc -> Token] /\ got' \in [Proc -> [a : Token, r : Token]]
      /\ mu' \subseteq Proc /\ grants' \in 1..MaxGrant /\ liveA' \in Token /\ liveR' \in 1..MaxGrant
      /\ lost' \in BOOLEAN
  BY <1>1 DEF RefreshInv, TypeOK, Phase, Token
<1>3. LockHeld'
  BY <1>1 DEF RefreshInv, TypeOK, LockHeld, UnderLock
<1>4. Placed'
  BY <1>1 DEF RefreshInv, TypeOK, Placed
<1>5. Carried'
  BY <1>1 DEF RefreshInv, TypeOK, Carried, InTransit, LockHeld, UnderLock
<1>6. LiveRefreshAccountedFor'
  BY <1>1 DEF RefreshInv, TypeOK, Carried, InTransit, LockHeld, UnderLock, LiveRefreshAccountedFor
<1> QED
  BY <1>2, <1>3, <1>4, <1>5, <1>6 DEF RefreshInv

LEMMA SendKeeps == ASSUME OAuthInv, NEW p \in Proc, Send(p) PROVE RefreshInv'
<1> USE OAuthAssumption
<1> USE DEF Send, Goto, NoToken, resolverVars, cacheVars, provider, oauthVars
<1>1. TypeOK /\ RefreshInv
  BY Parts
<1>2. /\ hpc' \in [Proc -> Phase] /\ sent' \in [Proc -> Token] /\ got' \in [Proc -> [a : Token, r : Token]]
      /\ mu' \subseteq Proc /\ grants' \in 1..MaxGrant /\ liveA' \in Token /\ liveR' \in 1..MaxGrant
      /\ lost' \in BOOLEAN
  <2>1. hpc' \in [Proc -> Phase]
    BY <1>1 DEF RefreshInv, Phase
  <2>2. sent' \in [Proc -> Token]
    <3>1. sent' = sent \/ sent' = [sent EXCEPT ![p] = NoToken]
      OBVIOUS
    <3>2. NoToken \in Token
      BY DEF Token
    <3> QED
      BY <1>1, <3>1, <3>2, SentType DEF RefreshInv
  <2>3. got' \in [Proc -> [a : Token, r : Token]]
    BY <1>1 DEF RefreshInv
  <2> QED
    BY <1>1, <2>1, <2>2, <2>3 DEF RefreshInv
<1>3. LockHeld'
  BY <1>1 DEF RefreshInv, TypeOK, LockHeld, UnderLock
<1>4. Placed'
  BY <1>1 DEF RefreshInv, TypeOK, Placed
<1>5. Carried'
  BY <1>1 DEF RefreshInv, TypeOK, Carried, InTransit, LockHeld, UnderLock
<1>6. LiveRefreshAccountedFor'
  BY <1>1 DEF RefreshInv, TypeOK, Carried, InTransit, LockHeld, UnderLock, LiveRefreshAccountedFor
<1> QED
  BY <1>2, <1>3, <1>4, <1>5, <1>6 DEF RefreshInv

LEMMA LockKeeps == ASSUME OAuthInv, NEW p \in Proc, Lock(p) PROVE RefreshInv'
<1> USE OAuthAssumption
<1> USE DEF Lock, Goto, resolverVars, cacheVars, provider, oauthVars
<1>1. TypeOK /\ RefreshInv
  BY Parts
<1>2. /\ hpc' \in [Proc -> Phase] /\ sent' \in [Proc -> Token] /\ got' \in [Proc -> [a : Token, r : Token]]
      /\ mu' \subseteq Proc /\ grants' \in 1..MaxGrant /\ liveA' \in Token /\ liveR' \in 1..MaxGrant
      /\ lost' \in BOOLEAN
  BY <1>1 DEF RefreshInv, TypeOK, Phase, Token
<1>3. LockHeld'
  BY <1>1 DEF RefreshInv, TypeOK, LockHeld, UnderLock
<1>4. Placed'
  BY <1>1 DEF RefreshInv, TypeOK, Placed
<1>5. Carried'
  BY <1>1 DEF RefreshInv, TypeOK, Carried, InTransit, LockHeld, UnderLock
<1>6. LiveRefreshAccountedFor'
  BY <1>1 DEF RefreshInv, TypeOK, Carried, InTransit, LockHeld, UnderLock, LiveRefreshAccountedFor
<1> QED
  BY <1>2, <1>3, <1>4, <1>5, <1>6 DEF RefreshInv

LEMMA ResolveRefreshKeeps == ASSUME OAuthInv, NEW p \in Proc, ResolveRefresh(p) PROVE RefreshInv'
<1> USE OAuthAssumption
<1> USE DEF ResolveRefresh, Goto, BeginResolve, CacheHit, CacheMiss, resolverVars, cacheVars, provider, oauthVars
<1>1. TypeOK /\ RefreshInv
  BY Parts
<1>2. /\ hpc' \in [Proc -> Phase] /\ sent' \in [Proc -> Token] /\ got' \in [Proc -> [a : Token, r : Token]]
      /\ mu' \subseteq Proc /\ grants' \in 1..MaxGrant /\ liveA' \in Token /\ liveR' \in 1..MaxGrant
      /\ lost' \in BOOLEAN
  BY <1>1 DEF RefreshInv, TypeOK, Phase, Token
<1>3. LockHeld'
  BY <1>1 DEF RefreshInv, TypeOK, LockHeld, UnderLock
<1>4. Placed'
  BY <1>1 DEF RefreshInv, TypeOK, Placed
<1>5. Carried'
  BY <1>1 DEF RefreshInv, TypeOK, Carried, InTransit, LockHeld, UnderLock
<1>6. LiveRefreshAccountedFor'
  BY <1>1 DEF RefreshInv, TypeOK, Carried, InTransit, LockHeld, UnderLock, LiveRefreshAccountedFor
<1> QED
  BY <1>2, <1>3, <1>4, <1>5, <1>6 DEF RefreshInv

LEMMA RefreshResolvedKeeps == ASSUME OAuthInv, NEW p \in Proc, RefreshResolved(p) PROVE RefreshInv'
<1> USE OAuthAssumption
<1> USE DEF RefreshResolved, Goto, Take, resolverVars, cacheVars, provider, oauthVars
<1>1. TypeOK /\ RefreshInv
  BY Parts
<1>2. /\ hpc' \in [Proc -> Phase] /\ sent' \in [Proc -> Token] /\ got' \in [Proc -> [a : Token, r : Token]]
      /\ mu' \subseteq Proc /\ grants' \in 1..MaxGrant /\ liveA' \in Token /\ liveR' \in 1..MaxGrant
      /\ lost' \in BOOLEAN
  <2>1. hpc' \in [Proc -> Phase]
    BY <1>1 DEF RefreshInv, Phase
  <2>2. sent' \in [Proc -> Token]
    BY <1>1 DEF RefreshInv, TypeOK, Token
  <2>3. got' \in [Proc -> [a : Token, r : Token]]
    <3> DEFINE g == [a |-> NoToken, r |-> val[p]]
    <3>1. g \in [a : Token, r : Token]
      BY <1>1 DEF RefreshInv, TypeOK, Token, NoToken
    <3>2. got' = got \/ got' = [got EXCEPT ![p] = g]
      OBVIOUS
    <3> HIDE DEF g
    <3> QED
      BY <1>1, <3>1, <3>2, GotType DEF RefreshInv
  <2> QED
    BY <1>1, <2>1, <2>2, <2>3 DEF RefreshInv
<1>3. LockHeld'
  BY <1>1 DEF RefreshInv, TypeOK, LockHeld, UnderLock
<1>4. Placed'
  BY <1>1 DEF RefreshInv, TypeOK, Placed
<1>5. Carried'
  BY <1>1 DEF RefreshInv, TypeOK, Carried, InTransit, LockHeld, UnderLock
<1>6. LiveRefreshAccountedFor'
  BY <1>1 DEF RefreshInv, TypeOK, Carried, InTransit, LockHeld, UnderLock, LiveRefreshAccountedFor
<1> QED
  BY <1>2, <1>3, <1>4, <1>5, <1>6 DEF RefreshInv

LEMMA RefreshUnresolvedKeeps == ASSUME OAuthInv, NEW p \in Proc, RefreshUnresolved(p) PROVE RefreshInv'
<1> USE OAuthAssumption
<1> USE DEF RefreshUnresolved, Goto, ResolveFailed, GiveUp, NoReply, NoToken, resolverVars, cacheVars, provider, oauthVars
<1>1. TypeOK /\ RefreshInv
  BY Parts
<1>2. /\ hpc' \in [Proc -> Phase] /\ sent' \in [Proc -> Token] /\ got' \in [Proc -> [a : Token, r : Token]]
      /\ mu' \subseteq Proc /\ grants' \in 1..MaxGrant /\ liveA' \in Token /\ liveR' \in 1..MaxGrant
      /\ lost' \in BOOLEAN
  BY <1>1 DEF RefreshInv, TypeOK, Phase, Token
<1>3. LockHeld'
  BY <1>1 DEF RefreshInv, TypeOK, LockHeld, UnderLock
<1>4. Placed'
  BY <1>1 DEF RefreshInv, TypeOK, Placed
<1>5. Carried'
  BY <1>1 DEF RefreshInv, TypeOK, Carried, InTransit, LockHeld, UnderLock
<1>6. LiveRefreshAccountedFor'
  BY <1>1 DEF RefreshInv, TypeOK, Carried, InTransit, LockHeld, UnderLock, LiveRefreshAccountedFor
<1> QED
  BY <1>2, <1>3, <1>4, <1>5, <1>6 DEF RefreshInv

LEMMA PostGrantedKeeps == ASSUME OAuthInv, NEW p \in Proc, PostGranted(p) PROVE RefreshInv'
<1> USE OAuthAssumption
<1> USE DEF PostGranted, Goto, Grant, resolverVars, cacheVars, provider, oauthVars
<1>1. TypeOK /\ RefreshInv
  BY Parts
<1>2. /\ hpc' \in [Proc -> Phase] /\ sent' \in [Proc -> Token] /\ got' \in [Proc -> [a : Token, r : Token]]
      /\ mu' \subseteq Proc /\ grants' \in 1..MaxGrant /\ liveA' \in Token /\ liveR' \in 1..MaxGrant
      /\ lost' \in BOOLEAN
  <2>1. hpc' \in [Proc -> Phase]
    BY <1>1 DEF RefreshInv, Phase
  <2>2. sent' \in [Proc -> Token]
    BY <1>1 DEF RefreshInv, TypeOK, Token
  <2>3. got' \in [Proc -> [a : Token, r : Token]]
    <3>0. PICK rotates \in BOOLEAN : Grant(rotates) /\ got' = [got EXCEPT ![p] =
                       [a |-> grants + 1, r |-> IF rotates THEN grants + 1 ELSE NoToken]]
      OBVIOUS
    <3> DEFINE g == [a |-> grants + 1, r |-> IF rotates THEN grants + 1 ELSE NoToken]
    <3>1. g \in [a : Token, r : Token]
      BY <1>1, <3>0 DEF RefreshInv, Token, NoToken
    <3>2. got' = got \/ got' = [got EXCEPT ![p] = g]
      BY <3>0
    <3> HIDE DEF g
    <3> QED
      BY <1>1, <3>1, <3>2, GotType DEF RefreshInv
  <2> QED
    BY <1>1, <2>1, <2>2, <2>3 DEF RefreshInv
<1>3. LockHeld'
  BY <1>1 DEF RefreshInv, TypeOK, LockHeld, UnderLock
<1>4. Placed'
  BY <1>1 DEF RefreshInv, TypeOK, Placed
<1>5. Carried'
  BY <1>1 DEF RefreshInv, TypeOK, Carried, InTransit, LockHeld, UnderLock
<1>6. LiveRefreshAccountedFor'
  <2>1. PICK rotates \in BOOLEAN :
          /\ liveR' = IF rotates THEN grants + 1 ELSE liveR
          /\ got' = [got EXCEPT ![p] = [a |-> grants + 1, r |-> IF rotates THEN grants + 1 ELSE NoToken]]
    OBVIOUS
  <2>2. p \in mu /\ (\A q \in mu : q = p) /\ hpc[p] = "post" /\ hpc'[p] = "storeA" /\ mu' = mu
    BY <1>1 DEF RefreshInv, LockHeld, UnderLock
  <2>3. CASE rotates
    <3>1. got'[p].r = grants + 1 /\ liveR' = grants + 1 /\ grants + 1 # NoToken
      BY <1>1, <2>1, <2>3 DEF RefreshInv, NoToken
    <3> QED
      BY <2>2, <3>1 DEF LiveRefreshAccountedFor, InTransit
  <2>4. CASE ~rotates
    <3>1. lost \/ store[Refresh] = liveR
      BY <1>1, <2>2 DEF RefreshInv, LiveRefreshAccountedFor, InTransit
    <3> QED
      BY <2>1, <2>4, <3>1 DEF LiveRefreshAccountedFor
  <2> QED
    BY <2>3, <2>4
<1> QED
  BY <1>2, <1>3, <1>4, <1>5, <1>6 DEF RefreshInv

LEMMA PostFailsKeeps == ASSUME OAuthInv, NEW p \in Proc, PostFails(p) PROVE RefreshInv'
<1> USE OAuthAssumption
<1> USE DEF PostFails, Goto, Grant, GiveUp, NoReply, NoToken, resolverVars, cacheVars, provider, oauthVars
<1>1. TypeOK /\ RefreshInv
  BY Parts
<1>2. /\ hpc' \in [Proc -> Phase] /\ sent' \in [Proc -> Token] /\ got' \in [Proc -> [a : Token, r : Token]]
      /\ mu' \subseteq Proc /\ grants' \in 1..MaxGrant /\ liveA' \in Token /\ liveR' \in 1..MaxGrant
      /\ lost' \in BOOLEAN
  BY <1>1, SMTT(30) DEF RefreshInv, TypeOK, Phase, Token
<1>3. LockHeld'
  BY <1>1 DEF RefreshInv, TypeOK, LockHeld, UnderLock
<1>4. Placed'
  BY <1>1 DEF RefreshInv, TypeOK, Placed
<1>5. Carried'
  BY <1>1 DEF RefreshInv, TypeOK, Carried, InTransit, LockHeld, UnderLock
<1>6. LiveRefreshAccountedFor'
  BY <1>1 DEF RefreshInv, TypeOK, Carried, InTransit, LockHeld, UnderLock, LiveRefreshAccountedFor
<1> QED
  BY <1>2, <1>3, <1>4, <1>5, <1>6 DEF RefreshInv

LEMMA StoreAccessKeeps == ASSUME OAuthInv, NEW p \in Proc, StoreAccess(p) PROVE RefreshInv'
<1> USE OAuthAssumption
<1> USE DEF StoreAccess, Goto, Write, WriteFails, resolverVars, cacheVars, provider, oauthVars
<1>1. TypeOK /\ RefreshInv
  BY Parts
<1>2. /\ hpc' \in [Proc -> Phase] /\ sent' \in [Proc -> Token] /\ got' \in [Proc -> [a : Token, r : Token]]
      /\ mu' \subseteq Proc /\ grants' \in 1..MaxGrant /\ liveA' \in Token /\ liveR' \in 1..MaxGrant
      /\ lost' \in BOOLEAN
  BY <1>1 DEF RefreshInv, TypeOK, Phase, Token
<1>3. LockHeld'
  BY <1>1 DEF RefreshInv, TypeOK, LockHeld, UnderLock
<1>4. Placed'
  BY <1>1 DEF RefreshInv, TypeOK, Placed
<1>5. Carried'
  <2>1. store'[Access] \in 1..grants /\ store'[Refresh] = store[Refresh]
    BY <1>1 DEF RefreshInv, TypeOK, Carried, Access, Refresh
  <2>2. ASSUME NEW q \in Proc
        PROVE  /\ hpc'[q] = "storeA" => hpc[q] = "storeA"
               /\ hpc'[q] = "storeR" => hpc[q] = "storeR"
               /\ InTransit(q)' = InTransit(q)
               /\ hpc'[q] = "failedA" /\ got[q].r # NoToken => lost'
    BY <1>1, <2>2 DEF RefreshInv, Carried, InTransit
  <2> QED
    BY <1>1, <2>1, <2>2 DEF RefreshInv, Carried
<1>6. LiveRefreshAccountedFor'
  <2>1. store'[Refresh] = store[Refresh]
    BY <1>1 DEF RefreshInv, TypeOK, Access, Refresh
  <2>2. \A q \in Proc : InTransit(q)' = InTransit(q)
    BY <1>1 DEF RefreshInv, InTransit
  <2> QED
    BY <1>1, <2>1, <2>2 DEF RefreshInv, LiveRefreshAccountedFor
<1> QED
  BY <1>2, <1>3, <1>4, <1>5, <1>6 DEF RefreshInv

LEMMA AccessForgottenKeeps == ASSUME OAuthInv, NEW p \in Proc, AccessForgotten(p) PROVE RefreshInv'
<1> USE OAuthAssumption
<1> USE DEF AccessForgotten, Goto, forget, GiveUp, NoReply, NoToken, resolverVars, cacheVars, provider, oauthVars
<1>1. TypeOK /\ RefreshInv
  BY Parts
<1>2. /\ hpc' \in [Proc -> Phase] /\ sent' \in [Proc -> Token] /\ got' \in [Proc -> [a : Token, r : Token]]
      /\ mu' \subseteq Proc /\ grants' \in 1..MaxGrant /\ liveA' \in Token /\ liveR' \in 1..MaxGrant
      /\ lost' \in BOOLEAN
  <2>1. hpc' \in [Proc -> Phase]
    BY <1>1 DEF RefreshInv, Phase
  <2>2. sent' \in [Proc -> Token]
    <3>1. sent' = sent \/ sent' = [sent EXCEPT ![p] = NoToken]
      OBVIOUS
    <3>2. NoToken \in Token
      BY DEF Token
    <3> QED
      BY <1>1, <3>1, <3>2, SentType DEF RefreshInv
  <2>3. got' \in [Proc -> [a : Token, r : Token]]
    <3> DEFINE g == NoReply
    <3>1. g \in [a : Token, r : Token]
      BY DEF Token
    <3>2. got' = got \/ got' = [got EXCEPT ![p] = g]
      OBVIOUS
    <3> HIDE DEF g
    <3> QED
      BY <1>1, <3>1, <3>2, GotType DEF RefreshInv
  <2> QED
    BY <1>1, <2>1, <2>2, <2>3 DEF RefreshInv
<1>3. LockHeld'
  BY <1>1 DEF RefreshInv, TypeOK, LockHeld, UnderLock
<1>4. Placed'
  BY <1>1 DEF RefreshInv, TypeOK, Placed
<1>5. Carried'
  BY <1>1 DEF RefreshInv, TypeOK, Carried, InTransit, LockHeld, UnderLock
<1>6. LiveRefreshAccountedFor'
  BY <1>1 DEF RefreshInv, TypeOK, Carried, InTransit, LockHeld, UnderLock, LiveRefreshAccountedFor
<1> QED
  BY <1>2, <1>3, <1>4, <1>5, <1>6 DEF RefreshInv

LEMMA StoreRefreshKeeps == ASSUME OAuthInv, NEW p \in Proc, StoreRefresh(p) PROVE RefreshInv'
<1> USE OAuthAssumption
<1> USE DEF StoreRefresh, Goto, Write, WriteFails, resolverVars, cacheVars, provider, oauthVars
<1>1. TypeOK /\ RefreshInv
  BY Parts
<1>2. /\ hpc' \in [Proc -> Phase] /\ sent' \in [Proc -> Token] /\ got' \in [Proc -> [a : Token, r : Token]]
      /\ mu' \subseteq Proc /\ grants' \in 1..MaxGrant /\ liveA' \in Token /\ liveR' \in 1..MaxGrant
      /\ lost' \in BOOLEAN
  BY <1>1 DEF RefreshInv, TypeOK, Phase, Token
<1>3. LockHeld'
  BY <1>1 DEF RefreshInv, TypeOK, LockHeld, UnderLock
<1>4. Placed'
  BY <1>1 DEF RefreshInv, TypeOK, Placed
<1>5. Carried'
  <2>1. store'[Access] = store[Access] /\ store'[Refresh] \in Secret
    BY <1>1 DEF RefreshInv, TypeOK, Carried, InTransit, Access, Refresh, Token, NoToken
  <2>2. ASSUME NEW q \in Proc
        PROVE  /\ hpc'[q] = "storeA" => hpc[q] = "storeA"
               /\ hpc'[q] = "storeR" => hpc[q] = "storeR" /\ q # p
               /\ InTransit(q)' => InTransit(q)
               /\ InTransit(q) /\ q # p => InTransit(q)'
               /\ hpc'[q] = "failedA" => hpc[q] = "failedA"
    BY <1>1, <2>2 DEF RefreshInv, InTransit
  <2> QED
    BY <1>1, <2>1, <2>2 DEF RefreshInv, Carried
<1>6. LiveRefreshAccountedFor'
  BY <1>1 DEF RefreshInv, TypeOK, Carried, InTransit, LockHeld, UnderLock, LiveRefreshAccountedFor
<1> QED
  BY <1>2, <1>3, <1>4, <1>5, <1>6 DEF RefreshInv

LEMMA RefreshForgottenKeeps == ASSUME OAuthInv, NEW p \in Proc, RefreshForgotten(p) PROVE RefreshInv'
<1> USE OAuthAssumption
<1> USE DEF RefreshForgotten, Goto, forget, resolverVars, cacheVars, provider, oauthVars
<1>1. TypeOK /\ RefreshInv
  BY Parts
<1>2. /\ hpc' \in [Proc -> Phase] /\ sent' \in [Proc -> Token] /\ got' \in [Proc -> [a : Token, r : Token]]
      /\ mu' \subseteq Proc /\ grants' \in 1..MaxGrant /\ liveA' \in Token /\ liveR' \in 1..MaxGrant
      /\ lost' \in BOOLEAN
  BY <1>1 DEF RefreshInv, TypeOK, Phase, Token
<1>3. LockHeld'
  BY <1>1 DEF RefreshInv, TypeOK, LockHeld, UnderLock
<1>4. Placed'
  BY <1>1 DEF RefreshInv, TypeOK, Placed
<1>5. Carried'
  BY <1>1 DEF RefreshInv, TypeOK, Carried, InTransit, LockHeld, UnderLock
<1>6. LiveRefreshAccountedFor'
  BY <1>1 DEF RefreshInv, TypeOK, Carried, InTransit, LockHeld, UnderLock, LiveRefreshAccountedFor
<1> QED
  BY <1>2, <1>3, <1>4, <1>5, <1>6 DEF RefreshInv

LEMMA RefreshedKeeps == ASSUME OAuthInv, NEW p \in Proc, Refreshed(p) PROVE RefreshInv'
<1> USE OAuthAssumption
<1> USE DEF Refreshed, Goto, FlushCache, NoReply, NoToken, callVars, resolverVars, cacheVars, provider, oauthVars
<1>1. TypeOK /\ RefreshInv
  BY Parts
<1>2. /\ hpc' \in [Proc -> Phase] /\ sent' \in [Proc -> Token] /\ got' \in [Proc -> [a : Token, r : Token]]
      /\ mu' \subseteq Proc /\ grants' \in 1..MaxGrant /\ liveA' \in Token /\ liveR' \in 1..MaxGrant
      /\ lost' \in BOOLEAN
  BY <1>1 DEF RefreshInv, TypeOK, Phase, Token
<1>3. LockHeld'
  BY <1>1 DEF RefreshInv, TypeOK, LockHeld, UnderLock
<1>4. Placed'
  BY <1>1 DEF RefreshInv, TypeOK, Placed
<1>5. Carried'
  BY <1>1 DEF RefreshInv, TypeOK, Carried, InTransit, LockHeld, UnderLock
<1>6. LiveRefreshAccountedFor'
  BY <1>1 DEF RefreshInv, TypeOK, Carried, InTransit, LockHeld, UnderLock, LiveRefreshAccountedFor
<1> QED
  BY <1>2, <1>3, <1>4, <1>5, <1>6 DEF RefreshInv

LEMMA ResolveAgainKeeps == ASSUME OAuthInv, NEW p \in Proc, ResolveAgain(p) PROVE RefreshInv'
<1> USE OAuthAssumption
<1> USE DEF ResolveAgain, Goto, BeginResolve, CacheHit, CacheMiss, resolverVars, cacheVars, provider, oauthVars
<1>1. TypeOK /\ RefreshInv
  BY Parts
<1>2. /\ hpc' \in [Proc -> Phase] /\ sent' \in [Proc -> Token] /\ got' \in [Proc -> [a : Token, r : Token]]
      /\ mu' \subseteq Proc /\ grants' \in 1..MaxGrant /\ liveA' \in Token /\ liveR' \in 1..MaxGrant
      /\ lost' \in BOOLEAN
  BY <1>1 DEF RefreshInv, TypeOK, Phase, Token
<1>3. LockHeld'
  BY <1>1 DEF RefreshInv, TypeOK, LockHeld, UnderLock
<1>4. Placed'
  BY <1>1 DEF RefreshInv, TypeOK, Placed
<1>5. Carried'
  BY <1>1 DEF RefreshInv, TypeOK, Carried, InTransit, LockHeld, UnderLock
<1>6. LiveRefreshAccountedFor'
  BY <1>1 DEF RefreshInv, TypeOK, Carried, InTransit, LockHeld, UnderLock, LiveRefreshAccountedFor
<1> QED
  BY <1>2, <1>3, <1>4, <1>5, <1>6 DEF RefreshInv

LEMMA AgainResolvedKeeps == ASSUME OAuthInv, NEW p \in Proc, AgainResolved(p) PROVE RefreshInv'
<1> USE OAuthAssumption
<1> USE DEF AgainResolved, Goto, Take, ResolveFailed, NoToken, resolverVars, cacheVars, provider, oauthVars
<1>1. TypeOK /\ RefreshInv
  BY Parts
<1>2. /\ hpc' \in [Proc -> Phase] /\ sent' \in [Proc -> Token] /\ got' \in [Proc -> [a : Token, r : Token]]
      /\ mu' \subseteq Proc /\ grants' \in 1..MaxGrant /\ liveA' \in Token /\ liveR' \in 1..MaxGrant
      /\ lost' \in BOOLEAN
  <2>1. hpc' \in [Proc -> Phase]
    BY <1>1 DEF RefreshInv, Phase
  <2>2. sent' \in [Proc -> Token]
    <3>1. sent' = sent \/ sent' = [sent EXCEPT ![p] = NoToken]
      OBVIOUS
    <3>2. NoToken \in Token
      BY DEF Token
    <3> QED
      BY <1>1, <3>1, <3>2, SentType DEF RefreshInv
  <2>3. got' \in [Proc -> [a : Token, r : Token]]
    <3> DEFINE g == IF pc[p] = "held" THEN [a |-> val[p], r |-> got[p].r] ELSE NoReply
    <3>1. g \in [a : Token, r : Token]
      BY <1>1 DEF RefreshInv, TypeOK, Token, NoReply, NoToken
    <3>2. got' = got \/ got' = [got EXCEPT ![p] = g]
      BY <1>1 DEF RefreshInv
    <3> HIDE DEF g
    <3> QED
      BY <1>1, <3>1, <3>2, GotType DEF RefreshInv
  <2> QED
    BY <1>1, <2>1, <2>2, <2>3 DEF RefreshInv
<1>3. LockHeld'
  BY <1>1 DEF RefreshInv, TypeOK, LockHeld, UnderLock
<1>4. Placed'
  BY <1>1 DEF RefreshInv, TypeOK, Placed
<1>5. Carried'
  BY <1>1 DEF RefreshInv, TypeOK, Carried, InTransit, LockHeld, UnderLock
<1>6. LiveRefreshAccountedFor'
  BY <1>1 DEF RefreshInv, TypeOK, Carried, InTransit, LockHeld, UnderLock, LiveRefreshAccountedFor
<1> QED
  BY <1>2, <1>3, <1>4, <1>5, <1>6 DEF RefreshInv

LEMMA ResendKeeps == ASSUME OAuthInv, NEW p \in Proc, Resend(p) PROVE RefreshInv'
<1> USE OAuthAssumption
<1> USE DEF Resend, Goto, NoReply, NoToken, resolverVars, cacheVars, provider, oauthVars
<1>1. TypeOK /\ RefreshInv
  BY Parts
<1>2. /\ hpc' \in [Proc -> Phase] /\ sent' \in [Proc -> Token] /\ got' \in [Proc -> [a : Token, r : Token]]
      /\ mu' \subseteq Proc /\ grants' \in 1..MaxGrant /\ liveA' \in Token /\ liveR' \in 1..MaxGrant
      /\ lost' \in BOOLEAN
  BY <1>1 DEF RefreshInv, TypeOK, Phase, Token
<1>3. LockHeld'
  BY <1>1 DEF RefreshInv, TypeOK, LockHeld, UnderLock
<1>4. Placed'
  BY <1>1 DEF RefreshInv, TypeOK, Placed
<1>5. Carried'
  BY <1>1 DEF RefreshInv, TypeOK, Carried, InTransit, LockHeld, UnderLock
<1>6. LiveRefreshAccountedFor'
  BY <1>1 DEF RefreshInv, TypeOK, Carried, InTransit, LockHeld, UnderLock, LiveRefreshAccountedFor
<1> QED
  BY <1>2, <1>3, <1>4, <1>5, <1>6 DEF RefreshInv

LEMMA ResolverStepKeeps == ASSUME OAuthInv, NEW p \in Proc, ResolverStep(p) PROVE RefreshInv'
<1> USE OAuthAssumption
<1> USE DEF ResolverStep, Goto, StoreRead, StoreReadFails, Insert, Taint, resolverVars, cacheVars, provider, oauthVars
<1>1. TypeOK /\ RefreshInv
  BY Parts
<1>2. /\ hpc' \in [Proc -> Phase] /\ sent' \in [Proc -> Token] /\ got' \in [Proc -> [a : Token, r : Token]]
      /\ mu' \subseteq Proc /\ grants' \in 1..MaxGrant /\ liveA' \in Token /\ liveR' \in 1..MaxGrant
      /\ lost' \in BOOLEAN
  BY <1>1 DEF RefreshInv, TypeOK, Phase, Token
<1>3. LockHeld'
  BY <1>1 DEF RefreshInv, TypeOK, LockHeld, UnderLock
<1>4. Placed'
  BY <1>1 DEF RefreshInv, TypeOK, Placed
<1>5. Carried'
  BY <1>1 DEF RefreshInv, TypeOK, Carried, InTransit, LockHeld, UnderLock
<1>6. LiveRefreshAccountedFor'
  BY <1>1 DEF RefreshInv, TypeOK, Carried, InTransit, LockHeld, UnderLock, LiveRefreshAccountedFor
<1> QED
  BY <1>2, <1>3, <1>4, <1>5, <1>6 DEF RefreshInv

-----------------------------------------------------------------------------
(* The environment's steps, and the invariant.                             *)

LEMMA ExpireKeeps == ASSUME OAuthInv, Expire PROVE RefreshInv'
<1> USE DEF Expire, resolverVars
<1>1. TypeOK /\ RefreshInv
  BY Parts
<1>2. LockHeld' /\ Placed' /\ LiveRefreshAccountedFor' /\ Carried'
  BY <1>1 DEF RefreshInv, LockHeld, Placed, LiveRefreshAccountedFor, Carried, InTransit
<1> QED
  BY <1>1, <1>2, OAuthAssumption DEF RefreshInv, NoToken, Token

LEMMA ClockKeeps == ASSUME OAuthInv, Clock \/ UNCHANGED allVars PROVE RefreshInv'
<1>1. /\ UNCHANGED <<hpc, sent, got, mu, grants, liveA, liveR, lost>>
      /\ UNCHANGED <<store, pc, key, val>>
  BY DEF Clock, Tick, callVars, allVars, resolverVars, oauthVars
<1> QED
  BY <1>1, Parts DEF RefreshInv, LockHeld, Placed, LiveRefreshAccountedFor, Carried, InTransit

LEMMA CrashKeeps == ASSUME OAuthInv, Crash PROVE OAuthInv'
<1> USE OAuthAssumption, ResolverAssumption
<1>1. TypeOK /\ RefreshInv
  BY Parts
<1>2. /\ \A p \in Proc : hpc'[p] = "idle" /\ pc'[p] = "idle" /\ val'[p] = NoSecret
      /\ mu' = {} /\ UNCHANGED <<store, exposed, grants, liveA, liveR>>
      /\ \A k \in Key : cacheVal'[k] = NoSecret
  BY DEF Crash, provider
<1>3. TypeOK'
  <2>1. /\ cacheVal' \in [Key -> Secret \cup {NoSecret}] /\ cacheAge' \in [Key -> 0..TTL]
        /\ pc' \in [Proc -> {"idle", "read", "insert", "taint", "held", "forget"}]
        /\ key' \in [Proc -> Key] /\ val' \in [Proc -> Secret \cup {NoSecret}]
    BY DEF Crash
  <2>2. tainted' = {} /\ overtaken' = {} /\ late' = {}
    BY DEF Crash
  <2> HIDE OAuthAssumption, ResolverAssumption
  <2> QED
    BY <1>1, <1>2, <2>1, <2>2 DEF TypeOK
<1>4. StaleInv'
  BY <1>2, <1>1 DEF TypeOK, StaleInv, FillCurrent, StaleOnlyByRace
<1>5. /\ hpc' \in [Proc -> Phase] /\ sent' \in [Proc -> Token] /\ got' \in [Proc -> [a : Token, r : Token]]
      /\ lost' \in BOOLEAN
  BY <1>1 DEF Crash, Phase, Token, NoReply, NoToken, RefreshInv
<1>6. LockHeld' /\ Placed' /\ Carried'
  BY <1>1, <1>2 DEF RefreshInv, LockHeld, UnderLock, Placed, Carried, InTransit
<1>7. LiveRefreshAccountedFor'
  BY <1>1, <1>2 DEF Crash, RefreshInv, LiveRefreshAccountedFor
<1>8. RefreshInv'
  BY <1>1, <1>2, <1>5, <1>6, <1>7 DEF RefreshInv
<1>9. OAuthInv' <=> (TypeOK /\ StaleInv /\ RefreshInv)'
  BY DEF OAuthInv, OAuthTypeOK, RefreshInv, StaleInv
<1> QED
  BY <1>3, <1>4, <1>8, <1>9

LEMMA InvNext == OAuthInv /\ [OAuthNext]_allVars => OAuthInv'
<1> SUFFICES ASSUME OAuthInv, [OAuthNext]_allVars PROVE OAuthInv'
  OBVIOUS
<1>1. CASE Crash
  BY <1>1, CrashKeeps
<1>2. CASE ~Crash
  <2>1. [Next]_vars
    <3>1. UNCHANGED allVars => UNCHANGED vars
      BY DEF allVars, resolverVars, vars
    <3> QED
      BY <1>2, <3>1, ResolverPart
  <2>2. TypeOK' /\ StaleInv'
    BY <2>1, Parts, TypeKept, StaleKept
  <2>3. RefreshInv'
    <3>1. ASSUME NEW p \in Proc, Arrive(p) \/ StatusCheck(p) \/ Lock(p) \/ HandlerStep(p)
          PROVE  RefreshInv'
      BY <3>1, ArriveKeeps, StatusCheckKeeps, LockKeeps, ResolverStepKeeps, StatusCheckedKeeps,
         ResolveAccessKeeps, AccessResolvedKeeps, SendKeeps, ResolveRefreshKeeps,
         RefreshResolvedKeeps, RefreshUnresolvedKeeps, PostGrantedKeeps, PostFailsKeeps,
         StoreAccessKeeps, AccessForgottenKeeps, StoreRefreshKeeps, RefreshForgottenKeeps,
         RefreshedKeeps, ResolveAgainKeeps, AgainResolvedKeeps, ResendKeeps
         DEF HandlerStep
    <3> QED
      BY <1>2, <3>1, ExpireKeeps, ClockKeeps DEF OAuthNext
  <2>4. OAuthInv' <=> (TypeOK /\ StaleInv /\ RefreshInv)'
    BY DEF OAuthInv, OAuthTypeOK, RefreshInv, StaleInv
  <2> QED
    BY <2>2, <2>3, <2>4
<1> QED
  BY <1>1, <1>2

-----------------------------------------------------------------------------

\* What makes the properties below inductive holds for every OAuth site.
THEOREM OAuthInvariant == OAuthSpec => []OAuthInv
  BY InitInv, InvNext, PTL DEF OAuthSpec

\* Every variable keeps its type, whatever fails.
THEOREM OAuthTypeCorrect == OAuthSpec => []OAuthTypeOK
<1>1. OAuthInv => OAuthTypeOK
  BY DEF OAuthInv
<1> QED
  BY <1>1, OAuthInvariant, PTL

\* The refresh token that the provider accepts is in the store or on its way
\* there in the hands of the lock's holder, unless a reply, a Set or the whole
\* gateway failed between the two.
THEOREM LiveRefreshKept == OAuthSpec => []LiveRefreshAccountedFor
<1>1. OAuthInv => LiveRefreshAccountedFor
  BY DEF OAuthInv
<1> QED
  BY <1>1, OAuthInvariant, PTL

\* The lock orders the refreshes: an access token in the store is only ever
\* replaced by one that was granted later.
THEOREM AccessTokensAdvance == OAuthSpec => AccessNeverRollsBack
<1>1. OAuthInv /\ [OAuthNext]_allVars => [store'[Access] >= store[Access]]_allVars
  <2> SUFFICES ASSUME OAuthInv, OAuthNext PROVE store'[Access] >= store[Access]
    <3>1. OAuthInv => store[Access] >= store[Access]
      BY OAuthAssumption DEF OAuthInv, Carried, OAuthTypeOK
    <3> QED
      BY <3>1 DEF allVars, resolverVars
  <2>1. TypeOK /\ RefreshInv /\ Access \in Key /\ Access # Refresh
    BY Parts, OAuthAssumption DEF Access, Refresh
  <2>2. store[Access] \in 1..grants /\ grants \in Nat
    BY <2>1, OAuthAssumption DEF RefreshInv, Carried
  <2>3. ASSUME NEW p \in Proc, StoreAccess(p) PROVE store'[Access] >= store[Access]
    <3>1. store' = store \/ (hpc[p] = "storeA" /\ store' = [store EXCEPT ![Access] = got[p].a])
      BY <2>3 DEF StoreAccess, Write, WriteFails, Goto
    <3> QED
      BY <2>1, <2>2, <3>1 DEF TypeOK, RefreshInv, Carried
  <2>4. ASSUME NEW p \in Proc, StoreRefresh(p) PROVE store'[Access] = store[Access]
    BY <2>1, <2>4 DEF StoreRefresh, Write, WriteFails, Goto, TypeOK
  <2>5. store' = store \/ \E p \in Proc : StoreAccess(p) \/ StoreRefresh(p)
    BY ZenonT(60) DEF OAuthNext, HandlerStep, Arrive, StatusCheck, Lock, ResolverStep, StatusChecked,
       ResolveAccess, AccessResolved, Send, ResolveRefresh, RefreshResolved, RefreshUnresolved,
       PostGranted, PostFails, AccessForgotten, RefreshForgotten, Refreshed, ResolveAgain,
       AgainResolved, Resend, Expire, Crash, Clock, BeginResolve, CacheHit, CacheMiss, Take,
       ResolveFailed, StoreRead, StoreReadFails, Insert, Taint, forget, FlushCache, Tick, resolverVars
  <2> QED
    BY <2>2, <2>3, <2>4, <2>5
<1> QED
  BY <1>1, OAuthInvariant, PTL DEF OAuthSpec, AccessNeverRollsBack

\* The two ways, and no other, in which a handler under the lock takes a dead
\* refresh token from the cache.
THEOREM DeadTokenCauses == OAuthSpec => DeadTokenOnlyByRace
<1>1. OAuthInv /\ [OAuthNext]_allVars =>
        [\A p \in Proc : hpc[p] = "rt" /\ hpc'[p] = "rting" /\ val'[p] \notin {NoSecret, liveR}
            => lost \/ Refresh \in late]_allVars
  <2> SUFFICES ASSUME OAuthInv, OAuthNext, NEW p \in Proc, hpc[p] = "rt", hpc'[p] = "rting",
                      val'[p] \notin {NoSecret, liveR}, ~lost
               PROVE  Refresh \in late
    OBVIOUS
  <2>1. TypeOK /\ StaleInv /\ RefreshInv /\ Refresh \in Key
    BY Parts, OAuthAssumption
  <2>2. BeginResolve(p, Refresh)
    <3>1. ASSUME NEW q \in Proc, NEW from, NEW to, Goto(q, from, to), from # "rt" \/ to # "rting"
          PROVE  FALSE
      BY <2>1, <3>1 DEF Goto, RefreshInv
    <3>2. ASSUME NEW q \in Proc, GiveUp(q) PROVE FALSE
      BY <2>1, <3>2 DEF GiveUp, RefreshInv
    <3>3. ~Crash /\ ~(UNCHANGED hpc)
      BY <2>1 DEF Crash
    <3>4. PICK q \in Proc : ResolveRefresh(q)
      <4>1. ASSUME NEW q \in Proc, HandlerStep(q), ~ResolveRefresh(q) PROVE FALSE
        BY <3>1, <3>2, <3>3, <4>1 DEF HandlerStep, ResolverStep, StatusChecked, ResolveAccess,
           AccessResolved, Send, RefreshResolved, RefreshUnresolved, PostGranted, PostFails,
           StoreAccess, AccessForgotten, StoreRefresh, RefreshForgotten, Refreshed, ResolveAgain,
           AgainResolved, Resend, oauthVars
      <4>2. ASSUME NEW q \in Proc, Arrive(q) \/ StatusCheck(q) \/ Lock(q) PROVE FALSE
        BY <3>1, <4>2 DEF Arrive, StatusCheck, Lock
      <4>3. Expire \/ Clock => UNCHANGED hpc
        BY DEF Expire, Clock, oauthVars
      <4> QED
        BY <3>3, <4>1, <4>2, <4>3 DEF OAuthNext
    <3>5. q = p
      BY <2>1, <3>4 DEF ResolveRefresh, Goto, RefreshInv
    <3> QED
      BY <3>4, <3>5 DEF ResolveRefresh
  <2>3. cacheVal[Refresh] \notin {NoSecret, liveR}
    BY <2>1, <2>2 DEF BeginResolve, CacheHit, CacheMiss, TypeOK, RefreshInv, Placed
  <2>4. p \in mu /\ \A q \in mu : q = p
    BY <2>1 DEF RefreshInv, LockHeld, UnderLock
  <2>5. store[Refresh] = liveR
    BY <2>1, <2>4 DEF RefreshInv, LiveRefreshAccountedFor, InTransit
  <2>6. \A q \in Proc : ~(pc[q] = "forget" /\ key[q] = Refresh)
    BY <2>1, <2>4 DEF RefreshInv, Placed, LockHeld, UnderLock, Access, Refresh
  <2> QED
    BY <2>1, <2>3, <2>5, <2>6 DEF StaleInv, StaleOnlyByRace
<1> QED
  BY <1>1, OAuthInvariant, PTL DEF OAuthSpec, DeadTokenOnlyByRace

-----------------------------------------------------------------------------
(* The resolver under the refresh.                                         *)

\* Whatever the handlers, the provider and the clock do, and whatever fails,
\* the resolver takes only its own steps, until a crash begins it anew: what is
\* proved of a step of the resolver alone holds of it here.
THEOREM RefreshUsesResolver == OAuthSpec => Init /\ [][Next \/ Crash]_vars
<1>1. OAuthInit => Init
  <2> USE OAuthAssumption, ResolverAssumption
  <2> SUFFICES ASSUME OAuthInit PROVE Init
    OBVIOUS
  <2>1. 1 \in Secret /\ Access \in Key
    OBVIOUS
  <2>2. store \in [Key -> StoredValue] /\ key \in [Proc -> Key]
    BY <2>1, Zenon DEF OAuthInit, StoredValue
  <2> QED
    BY <2>2, Zenon DEF OAuthInit, Init
<1>2. OAuthInv /\ [OAuthNext]_allVars => [Next \/ Crash]_vars
  <2>1. UNCHANGED allVars => UNCHANGED vars
    BY DEF allVars, resolverVars, vars
  <2> QED
    BY <2>1, ResolverPart
<1> QED
  BY <1>1, <1>2, OAuthInvariant, PTL DEF OAuthSpec

\* A token in the cache, or in the hands of a handler that resolved it, is
\* tainted or about to be, also while tokens are refreshed and after a crash,
\* which empties the taint registry and the cache together.
THEOREM RefreshTaints == OAuthSpec => []TaintCover
<1>1. Init => TaintCover
  BY ResolverAssumption DEF Init, TaintCover
<1>2. Crash => TaintCover'
  <2> SUFFICES ASSUME Crash PROVE TaintCover'
    OBVIOUS
  <2>1. \A k \in Key : cacheVal'[k] = NoSecret
    BY DEF Crash
  <2>2. \A p \in Proc : pc'[p] = "idle"
    BY DEF Crash
  <2> QED
    BY <2>1, <2>2 DEF TaintCover
<1>3. TypeOK /\ TaintCover /\ [Next \/ Crash]_vars => TaintCover'
  BY <1>2, TaintKept
<1>4. OAuthInv => TypeOK
  BY Parts
<1> QED
  BY <1>1, <1>3, <1>4, OAuthInvariant, RefreshUsesResolver, PTL
=============================================================================
