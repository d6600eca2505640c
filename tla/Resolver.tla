------------------------------ MODULE Resolver ------------------------------
(***************************************************************************)
(* The secret resolver of internal/secrets/resolver.go: a read-through     *)
(* cache with a time to live in front of the credential store, and the     *)
(* taint registry that outbound redaction relies on.                       *)
(*                                                                         *)
(* A process is one goroutine (an HTTP handler).  Resolve takes the mutex  *)
(* twice and calls the store between the two critical sections, and it     *)
(* taints the secret after the second one, so each of these pieces is an   *)
(* action of its own; Set and Delete write the store first and drop the    *)
(* cache entry afterwards, in a deferred call.                             *)
(*                                                                         *)
(* Time is the age of a cache entry in ticks, from 0 (just inserted) to    *)
(* TTL (no longer fresh); a secret is a model value, and Short, Blank and  *)
(* NoSecret stand for the lengths the code tells apart.                    *)
(***************************************************************************)
EXTENDS Naturals

CONSTANTS
    Proc,       \* goroutines that use the resolver
    Key,        \* cache keys, "workspace/name"
    Secret,     \* values that pass checkEmpty (two bytes or more)
    Short,      \* the members of Secret below Taint's floor of five bytes
    Blank,      \* a stored value that checkEmpty refuses
    NoSecret,   \* no entry
    TTL         \* Resolver.ttl, in ticks

ASSUME ResolverAssumption ==
    /\ Short \subseteq Secret
    /\ Blank \notin Secret
    /\ NoSecret \notin Secret
    /\ Blank # NoSecret
    /\ TTL \in Nat \ {0}

VARIABLES
    store,      \* the credential store: Key -> value
    cacheVal,   \* Resolver.cache: the cached value of a key, or NoSecret
    cacheAge,   \* ticks since cachedSecret.resolved
    tainted,    \* TaintRegistry.seen
    pc,         \* where each goroutine is inside the resolver
    key,        \* the key it works on
    val,        \* the secret it read or holds
    overtaken,  \* history: goroutines whose key was written after they read it
    late,       \* history: keys whose cache entry an overtaken goroutine inserted
    exposed     \* history: secrets written to a caller without being redacted

cacheVars == <<cacheVal, cacheAge>>
callVars  == <<pc, key, val>>
vars      == <<store, cacheVal, cacheAge, tainted, pc, key, val,
               overtaken, late, exposed>>

StoredValue == Secret \cup {Blank, NoSecret}

TypeOK ==
    /\ store \in [Key -> StoredValue]
    /\ cacheVal \in [Key -> Secret \cup {NoSecret}]
    /\ cacheAge \in [Key -> 0..TTL]
    /\ tainted \subseteq (Secret \ Short)
    /\ pc \in [Proc -> {"idle", "read", "insert", "taint", "held", "forget"}]
    /\ key \in [Proc -> Key]
    /\ val \in [Proc -> Secret \cup {NoSecret}]
    /\ \A p \in Proc : pc[p] \in {"insert", "taint", "held"} => val[p] \in Secret
    /\ overtaken \subseteq Proc
    /\ late \subseteq Key
    /\ exposed \subseteq Secret

Init ==
    /\ store \in [Key -> StoredValue]
    /\ cacheVal = [k \in Key |-> NoSecret]
    /\ cacheAge = [k \in Key |-> TTL]
    /\ tainted = {}
    /\ pc = [p \in Proc |-> "idle"]
    /\ key \in [Proc -> Key]
    /\ val = [p \in Proc |-> NoSecret]
    /\ overtaken = {}
    /\ late = {}
    /\ exposed = {}

-----------------------------------------------------------------------------
(* Resolve.                                                                *)

Fresh(k) == cacheVal[k] # NoSecret /\ cacheAge[k] < TTL

\* Mutant: a sliding expiry, every hit renews the entry.
CacheHitRenews(p, k) ==
    /\ pc[p] = "idle"
    /\ Fresh(k)
    /\ pc' = [pc EXCEPT ![p] = "held"]
    /\ key' = [key EXCEPT ![p] = k]
    /\ val' = [val EXCEPT ![p] = cacheVal[k]]
    /\ cacheAge' = [cacheAge EXCEPT ![k] = 0]
    /\ UNCHANGED <<store, cacheVal, tainted, overtaken, late, exposed>>

\* The entry is present and younger than the ttl: its value is returned from
\* inside the read lock.  Nothing is tainted on this path.
CacheHit(p, k) ==
    /\ pc[p] = "idle"
    /\ Fresh(k)
    /\ pc' = [pc EXCEPT ![p] = "held"]
    /\ key' = [key EXCEPT ![p] = k]
    /\ val' = [val EXCEPT ![p] = cacheVal[k]]
    /\ UNCHANGED <<store, cacheVars, tainted, overtaken, late, exposed>>

\* A missing or expired entry: the read lock is released before the store is
\* asked, and an expired entry stays in the map.
CacheMiss(p, k) ==
    /\ pc[p] = "idle"
    /\ ~ Fresh(k)
    /\ pc' = [pc EXCEPT ![p] = "read"]
    /\ key' = [key EXCEPT ![p] = k]
    /\ UNCHANGED <<val, store, cacheVars, tainted, overtaken, late, exposed>>

\* store.Resolve and checkEmpty, with no lock held.
StoreRead(p) ==
    /\ pc[p] = "read"
    /\ store[key[p]] \in Secret
    /\ pc' = [pc EXCEPT ![p] = "insert"]
    /\ val' = [val EXCEPT ![p] = store[key[p]]]
    /\ UNCHANGED <<key, store, cacheVars, tainted, overtaken, late, exposed>>

\* The store fails, has no such secret, or has one that checkEmpty refuses:
\* the error is returned and nothing is cached.
StoreReadFails(p) ==
    /\ pc[p] = "read"
    /\ pc' = [pc EXCEPT ![p] = "idle"]
    /\ UNCHANGED <<key, val, store, cacheVars, tainted, overtaken, late, exposed>>

\* Mutant: a goroutine that missed the cache returns without tainting when a
\* colleague filled the entry in the meantime.
InsertSkipsTaint(p) ==
    /\ pc[p] = "insert"
    /\ cacheVal' = [cacheVal EXCEPT ![key[p]] = val[p]]
    /\ cacheAge' = [cacheAge EXCEPT ![key[p]] = 0]
    /\ pc' = [pc EXCEPT ![p] = IF Fresh(key[p]) THEN "held" ELSE "taint"]
    /\ late' = IF p \in overtaken THEN late \cup {key[p]} ELSE late \ {key[p]}
    /\ overtaken' = overtaken \ {p}
    /\ UNCHANGED <<key, val, store, tainted, exposed>>

\* The second critical section: the value read earlier becomes the entry,
\* whatever happened to the store or to the entry since.
Insert(p) ==
    /\ pc[p] = "insert"
    /\ cacheVal' = [cacheVal EXCEPT ![key[p]] = val[p]]
    /\ cacheAge' = [cacheAge EXCEPT ![key[p]] = 0]
    /\ pc' = [pc EXCEPT ![p] = "taint"]
    /\ late' = IF p \in overtaken THEN late \cup {key[p]} ELSE late \ {key[p]}
    /\ overtaken' = overtaken \ {p}
    /\ UNCHANGED <<key, val, store, tainted, exposed>>

\* Taint, after the mutex has been released: values under five bytes are
\* skipped on purpose.
Taint(p) ==
    /\ pc[p] = "taint"
    /\ tainted' = tainted \cup ({val[p]} \ Short)
    /\ pc' = [pc EXCEPT ![p] = "held"]
    /\ UNCHANGED <<key, val, store, cacheVars, overtaken, late, exposed>>

\* The caller of Resolve used the secret upstream and answers.  The upstream
\* may echo the secret; writeRedactedJSON replaces what the registry knows at
\* that moment.
Respond(p) ==
    /\ pc[p] = "held"
    /\ \/ exposed' = exposed \cup ({val[p]} \ (tainted \cup Short))
       \/ UNCHANGED exposed
    /\ pc' = [pc EXCEPT ![p] = "idle"]
    /\ val' = [val EXCEPT ![p] = NoSecret]
    /\ UNCHANGED <<key, store, cacheVars, tainted, overtaken, late>>

-----------------------------------------------------------------------------
(* Set, Delete, forget, FlushCache.                                        *)

\* What a store write means to the goroutines between read and insert.
Overtake(k) ==
    overtaken' = overtaken \cup {p \in Proc : pc[p] = "insert" /\ key[p] = k}

\* Mutant: Set returns without dropping the entry.
WriteKeepsEntry(p, k, v) ==
    /\ pc[p] = "idle"
    /\ store' = [store EXCEPT ![k] = v]
    /\ Overtake(k)
    /\ key' = [key EXCEPT ![p] = k]
    /\ UNCHANGED <<pc, val, cacheVars, tainted, late, exposed>>

\* The store write of Set and Delete succeeds; forget is deferred.
Write(p, k, v) ==
    /\ pc[p] = "idle"
    /\ store' = [store EXCEPT ![k] = v]
    /\ Overtake(k)
    /\ pc' = [pc EXCEPT ![p] = "forget"]
    /\ key' = [key EXCEPT ![p] = k]
    /\ UNCHANGED <<val, cacheVars, tainted, late, exposed>>

\* The store write fails and the deferred forget still runs.
WriteFails(p, k) ==
    /\ pc[p] = "idle"
    /\ pc' = [pc EXCEPT ![p] = "forget"]
    /\ key' = [key EXCEPT ![p] = k]
    /\ UNCHANGED <<val, store, cacheVars, tainted, overtaken, late, exposed>>

Set(p, k) == (\E v \in Secret \cup {Blank} : Write(p, k, v)) \/ WriteFails(p, k)

Delete(p, k) == (store[k] # NoSecret /\ Write(p, k, NoSecret)) \/ WriteFails(p, k)

forget(p) ==
    /\ pc[p] = "forget"
    /\ cacheVal' = [cacheVal EXCEPT ![key[p]] = NoSecret]
    /\ late' = late \ {key[p]}
    /\ pc' = [pc EXCEPT ![p] = "idle"]
    /\ UNCHANGED <<key, val, store, cacheAge, tainted, overtaken, exposed>>

FlushCache(p) ==
    /\ pc[p] = "idle"
    /\ cacheVal' = [k \in Key |-> NoSecret]
    /\ late' = {}
    /\ UNCHANGED <<callVars, store, cacheAge, tainted, overtaken, exposed>>

\* Time passes for the entries that are still fresh.
Tick ==
    /\ \E k \in Key : Fresh(k)
    /\ cacheAge' = [k \in Key |-> IF cacheAge[k] < TTL THEN cacheAge[k] + 1 ELSE TTL]
    /\ UNCHANGED <<callVars, store, cacheVal, tainted, overtaken, late, exposed>>

-----------------------------------------------------------------------------

Progress(p) ==
    \/ StoreRead(p)
    \/ StoreReadFails(p)
    \/ Insert(p)
    \/ Taint(p)
    \/ Respond(p)
    \/ forget(p)

Next ==
    \/ \E p \in Proc : Progress(p)
    \/ \E p \in Proc, k \in Key :
          CacheHit(p, k) \/ CacheMiss(p, k) \/ Set(p, k) \/ Delete(p, k)
    \/ \E p \in Proc : FlushCache(p)
    \/ Tick

Spec == Init /\ [][Next]_vars

\* A goroutine inside the resolver is scheduled and its store call returns;
\* the clock runs.  Nobody has to call the resolver.
FairSpec == Spec /\ (\A p \in Proc : WF_vars(Progress(p))) /\ WF_vars(Tick)

-----------------------------------------------------------------------------

Covered(v) ==
    \/ v \in tainted \cup Short
    \/ \E q \in Proc : pc[q] = "taint" /\ val[q] = v

\* Redaction knows every cached secret and every secret a handler holds, but
\* for one window: the goroutine that filled the entry has yet to taint it.
\* Resolve inserts before it taints, and a cache hit taints nothing.
TaintCover ==
    /\ \A k \in Key : cacheVal[k] # NoSecret => Covered(cacheVal[k])
    /\ \A p \in Proc : pc[p] = "held" => Covered(val[p])

\* An answer can carry a secret in clear only while another goroutine stands
\* between its insert and its Taint of that same secret (Resolve, writeRedactedJSON).
ExposedOnlyWhilePending ==
    [][\A v \in exposed' \ exposed :
          \E q \in Proc : pc[q] = "taint" /\ val[q] = v]_vars

\* A cached secret differs from the stored one only while a Set or Delete of
\* the key has yet to forget it, or because a Resolve read the store before
\* such a write and inserted after it.
StaleOnlyByRace ==
    \A k \in Key :
        cacheVal[k] \notin {NoSecret, store[k]} =>
            \/ k \in late
            \/ \E p \in Proc : pc[p] = "forget" /\ key[p] = k

\* A goroutine about to insert holds what the store holds, unless a write has
\* overtaken it.  With StaleOnlyByRace this is inductive.
FillCurrent ==
    \A p \in Proc :
        pc[p] = "insert" /\ p \notin overtaken => val[p] = store[key[p]]

CacheAgrees == \A k \in Key : Fresh(k) => cacheVal[k] = store[k]

\* Once the store is no longer written, a stale entry is dropped or expires:
\* Resolve never extends the life of an entry it serves.
StaleExpires == (<>[][store' = store]_vars) => <>[]CacheAgrees
=============================================================================
