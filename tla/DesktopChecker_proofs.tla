----------------------- MODULE DesktopChecker_proofs -----------------------
(***************************************************************************)
(* Theorems about DesktopChecker, for any number of workspaces and of      *)
(* requests under way.                                                     *)
(***************************************************************************)
EXTENDS DesktopChecker, FiniteSetTheorems, TLAPS

\* TypeOK but for the bound on rechecking, which follows from what it counts.
Typed ==
    /\ world \in [Workspace -> Fact]
    /\ results \in Fetched
    /\ checking \in BOOLEAN
    /\ rechecking \in [Workspace -> Nat]
    /\ notified \subseteq Key
    /\ gr \in [Goroutine -> GoroutineType]

\* The inductive invariant.
IInv == Typed /\ Placed /\ OneCheckAtATime /\ RecheckingCounts

USE CheckerAssumption DEF CheckerAssumption

-----------------------------------------------------------------------------
(* What the operators return.                                              *)

LEMMA FetchType ==
    ASSUME NEW f \in Fact, NEW live \in BOOLEAN
    PROVE  fetchStatus(f, live) \in Result
BY DEF fetchStatus, Fact, Result

LEMMA MergeType ==
    ASSUME NEW prev \in Result \cup {Nil}, NEW res \in Result
    PROVE  Merge(prev, res) \in Result
BY DEF Merge, Result

LEMMA TodosType == ASSUME NEW rs PROVE todos(rs) \subseteq Key
BY DEF todos

LEMMA IdleType == IdleGoroutine \in GoroutineType
BY DEF IdleGoroutine, GoroutineType, Fetched

LEMMA RefreshingType ==
    ASSUME Typed, NEW g \in Goroutine, NEW kind \in {"all", "save", "status", "recheck"},
           NEW w \in Workspace \cup {Nil}, NEW live \in BOOLEAN
    PROVE  /\ Refreshing(g, kind, w, live) \in GoroutineType
           /\ Refreshing(g, kind, w, live).pc = "refresh"
           /\ Refreshing(g, kind, w, live).kind = kind
           /\ Refreshing(g, kind, w, live).ws = w
           /\ Refreshing(g, kind, w, live).live = live
BY ZenonT(60) DEF Typed, Refreshing, GoroutineType

\* A step that replaces one goroutine and leaves it in the same background
\* work, and in the same checkAll, disturbs neither count.
LEMMA OneMoves ==
    ASSUME IInv, NEW g \in Goroutine, NEW r \in GoroutineType,
           gr' = [gr EXCEPT ![g] = r],
           \A w \in Workspace : InBackground(r, w) <=> InBackground(gr[g], w)
    PROVE  \A w \in Workspace : Rechecks(w)' = Rechecks(w)
BY DEF IInv, Typed, Rechecks, Goroutine, InBackground

LEMMA CheckAllStays ==
    ASSUME IInv, NEW g \in Goroutine, NEW r \in GoroutineType,
           gr' = [gr EXCEPT ![g] = r], checking' = checking,
           InCheckAll(r) <=> InCheckAll(gr[g])
    PROVE  OneCheckAtATime'
BY DEF IInv, Typed, OneCheckAtATime, InCheckAll

LEMMA CountStays ==
    ASSUME IInv, rechecking' = rechecking, \A w \in Workspace : Rechecks(w)' = Rechecks(w)
    PROVE  RecheckingCounts'
BY DEF IInv, RecheckingCounts

\* The common case: neither counter is touched.
LEMMA QuietMove ==
    ASSUME IInv, NEW g \in Goroutine, NEW r \in GoroutineType,
           gr' = [gr EXCEPT ![g] = r], UNCHANGED <<checking, rechecking>>,
           \A w \in Workspace : InBackground(r, w) <=> InBackground(gr[g], w),
           InCheckAll(r) <=> InCheckAll(gr[g]),
           g = Loop => r.kind \in {"all", "status"},
           r.pc \in {"count", "release"} =>
               r.kind = "recheck" /\ (r.live <=> r.pc = "release"),
           r.pc = "finish" => r.kind = "all",
           r.kind = "recheck" => r.ws \in Workspace,
           world' \in [Workspace -> Fact], results' \in Fetched, notified' \subseteq Key
    PROVE  IInv'
<1>1. \A w \in Workspace : Rechecks(w)' = Rechecks(w)
    BY OneMoves
<1>2. RecheckingCounts'
    BY <1>1, CountStays
<1>3. OneCheckAtATime'
    BY CheckAllStays
<1>4. Typed'
    BY DEF IInv, Typed
<1>5. Placed'
    BY DEF IInv, Typed, Placed, Goroutine
<1> QED
    BY <1>2, <1>3, <1>4, <1>5 DEF IInv

-----------------------------------------------------------------------------
(* The actions.                                                            *)

LEMMA InitIInv == Init => IInv
<1> SUFFICES ASSUME Init PROVE IInv
    OBVIOUS
<1>1. Typed
    BY IdleType DEF Init, Typed, Fetched
<1>2. Placed
    BY DEF Init, Placed, IdleGoroutine, Goroutine
<1>3. OneCheckAtATime
    BY DEF Init, OneCheckAtATime, InCheckAll, IdleGoroutine
<1>4. \A w \in Workspace : Rechecks(w) = {}
    BY DEF Init, Rechecks, InBackground, IdleGoroutine, Goroutine
<1>5. RecheckingCounts
    BY <1>4, FS_EmptySet DEF Init, RecheckingCounts
<1> QED
    BY <1>1, <1>2, <1>3, <1>5 DEF IInv

LEMMA CheckAllKeeps ==
    ASSUME IInv, NEW g \in Goroutine, checkAll(g)
    PROVE  IInv'
<1> DEFINE r == Refreshing(g, "all", Nil, TRUE)
<1>a. /\ "all" \in {"all", "save", "status", "recheck"}
      /\ Nil \in Workspace \cup {Nil} /\ TRUE \in BOOLEAN /\ Typed
    BY DEF IInv
<1>b. r \in GoroutineType /\ r.pc = "refresh" /\ r.kind = "all"
    BY <1>a DEF Typed, Refreshing, GoroutineType
<1>c. gr' = [gr EXCEPT ![g] = r] /\ gr[g].pc = "idle"
    BY DEF checkAll, Step
<1>1. /\ r \in GoroutineType /\ r.pc = "refresh" /\ r.kind = "all"
      /\ gr' = [gr EXCEPT ![g] = r] /\ gr[g].pc = "idle"
    BY <1>b, <1>c
<1> HIDE DEF r
<1>2. \A w \in Workspace : InBackground(r, w) <=> InBackground(gr[g], w)
    BY <1>1 DEF InBackground
<1>3. RecheckingCounts'
    BY <1>1, <1>2, OneMoves, CountStays DEF checkAll
<1>4. OneCheckAtATime'
    BY <1>1 DEF IInv, Typed, checkAll, OneCheckAtATime, InCheckAll
<1>5. Typed'
    BY <1>1 DEF IInv, Typed, checkAll
<1>6. Placed'
    BY <1>1 DEF IInv, Typed, Placed, Goroutine
<1> QED
    BY <1>3, <1>4, <1>5, <1>6 DEF IInv

LEMMA RequestKeeps ==
    ASSUME IInv, NEW g \in Handler, NEW w \in Workspace,
           apiSave(g, w) \/ apiStatus(g, w) \/ recheck(g, w)
    PROVE  IInv'
<1>1. PICK kind \in {"save", "status", "recheck"}, live \in BOOLEAN :
          /\ Step(g, "idle", Refreshing(g, kind, w, live))
          /\ kind = "recheck" => ~ live
    BY DEF apiSave, apiStatus, recheck
<1> DEFINE r == Refreshing(g, kind, w, live)
<1>2. /\ r \in GoroutineType /\ r.pc = "refresh" /\ r.kind = kind
      /\ r.ws = w /\ r.live = live
      /\ gr' = [gr EXCEPT ![g] = r] /\ gr[g].pc = "idle"
    BY <1>1, RefreshingType DEF IInv, Step, Goroutine
<1> HIDE DEF r
<1>3. /\ \A x \in Workspace : InBackground(r, x) <=> InBackground(gr[g], x)
      /\ InCheckAll(r) <=> InCheckAll(gr[g])
    BY <1>1, <1>2 DEF InBackground, InCheckAll
<1>4. /\ UNCHANGED <<checking, rechecking>>
      /\ world' \in [Workspace -> Fact] /\ results' \in Fetched /\ notified' \subseteq Key
    BY DEF IInv, Typed, apiSave, apiStatus, recheck
<1> QED
    BY <1>2, <1>3, <1>4, QuietMove DEF Goroutine

LEMMA FetchKeeps ==
    ASSUME IInv, NEW g \in Goroutine, NEW w \in Workspace, Fetch(g, w)
    PROVE  IInv'
<1> DEFINE f == fetchStatus(world[w], gr[g].live)
           r == [gr[g] EXCEPT !.todo = @ \ {w}, !.res[w] = f]
<1>1. gr[g] \in GoroutineType
    BY DEF IInv, Typed
<1>2. f \in Result
    BY <1>1, FetchType DEF IInv, Typed, GoroutineType
<1> HIDE DEF f
<1>3. r \in GoroutineType
    BY <1>1, <1>2 DEF GoroutineType, Fetched
<1>4. r.pc = gr[g].pc /\ r.kind = gr[g].kind /\ r.ws = gr[g].ws /\ r.live = gr[g].live
    BY <1>1 DEF GoroutineType
<1>5. gr' = [gr EXCEPT ![g] = r] /\ gr[g].pc = "refresh"
    BY DEF Fetch, Step, f
<1> HIDE DEF r
<1>6. /\ \A x \in Workspace : InBackground(r, x) <=> InBackground(gr[g], x)
      /\ InCheckAll(r) <=> InCheckAll(gr[g])
    BY <1>4 DEF InBackground, InCheckAll
<1>7. /\ UNCHANGED <<checking, rechecking>>
      /\ world' \in [Workspace -> Fact] /\ results' \in Fetched /\ notified' \subseteq Key
    BY DEF IInv, Typed, Fetch
<1>8. /\ g = Loop => r.kind \in {"all", "status"}
      /\ r.kind = "recheck" => r.ws \in Workspace
      /\ r.pc = "refresh"
    BY <1>4, <1>5 DEF IInv, Placed
<1> QED
    BY <1>3, <1>5, <1>6, <1>7, <1>8, QuietMove

LEMMA StoreKeeps ==
    ASSUME IInv, NEW g \in Goroutine, NEW w \in Workspace, Store(g, w)
    PROVE  IInv'
<1> DEFINE n == [gr[g] EXCEPT !.res[w] = Nil]
           m == [n EXCEPT !.pc = AfterRefresh(g)]
<1>1. gr[g] \in GoroutineType
    BY DEF IInv, Typed
<1>2. /\ n \in GoroutineType
      /\ n.pc = gr[g].pc /\ n.kind = gr[g].kind /\ n.ws = gr[g].ws /\ n.live = gr[g].live
    BY <1>1 DEF GoroutineType, Fetched
<1>3. \/ gr' = [gr EXCEPT ![g] = n]
      \/ gr[g].kind = "status" /\ gr' = [gr EXCEPT ![g] = IdleGoroutine]
      \/ gr[g].kind # "status" /\ gr' = [gr EXCEPT ![g] = m]
    BY DEF Store, Step
<1>4. gr[g].pc = "refresh"
    BY DEF Store, Step
<1> HIDE DEF n
<1>5. /\ m \in GoroutineType /\ m.pc = AfterRefresh(g)
      /\ m.kind = gr[g].kind /\ m.ws = gr[g].ws /\ m.live = gr[g].live
    BY <1>1, <1>2 DEF GoroutineType, AfterRefresh
<1> HIDE DEF m
<1>6. /\ UNCHANGED <<checking, rechecking>>
      /\ world' \in [Workspace -> Fact] /\ notified' \subseteq Key
    BY DEF IInv, Typed, Store
<1>7. results' \in Fetched
    <2>1. gr[g].res[w] \in Result /\ results[w] \in Result \cup {Nil}
        BY <1>1 DEF IInv, Typed, Store, GoroutineType, Fetched
    <2>2. Merge(results[w], gr[g].res[w]) \in Result
        BY <2>1, MergeType
    <2> QED
        BY <2>2 DEF IInv, Typed, Store, Fetched
<1>8. /\ g = Loop => gr[g].kind \in {"all", "status"}
      /\ gr[g].kind = "recheck" => gr[g].ws \in Workspace
    BY DEF IInv, Placed
<1>9. CASE gr' = [gr EXCEPT ![g] = n]
    <2>1. /\ \A x \in Workspace : InBackground(n, x) <=> InBackground(gr[g], x)
          /\ InCheckAll(n) <=> InCheckAll(gr[g])
        BY <1>2 DEF InBackground, InCheckAll
    <2> QED
        BY <1>2, <1>4, <1>6, <1>7, <1>8, <1>9, <2>1, QuietMove
<1>10. CASE gr[g].kind = "status" /\ gr' = [gr EXCEPT ![g] = IdleGoroutine]
    <2>1. /\ \A x \in Workspace : InBackground(IdleGoroutine, x) <=> InBackground(gr[g], x)
          /\ InCheckAll(IdleGoroutine) <=> InCheckAll(gr[g])
          /\ IdleGoroutine.kind = "status" /\ IdleGoroutine.pc = "idle"
        BY <1>10 DEF InBackground, InCheckAll, IdleGoroutine
    <2> QED
        BY <1>6, <1>7, <1>10, <2>1, IdleType, QuietMove
<1>11. CASE gr[g].kind # "status" /\ gr' = [gr EXCEPT ![g] = m]
    <2>1. /\ \A x \in Workspace : InBackground(m, x) <=> InBackground(gr[g], x)
          /\ InCheckAll(m) <=> InCheckAll(gr[g])
        BY <1>1, <1>4, <1>5, <1>11 DEF InBackground, InCheckAll, AfterRefresh, GoroutineType
    <2>2. /\ m.pc \in {"count", "release"} =>
               m.kind = "recheck" /\ (m.live <=> m.pc = "release")
          /\ m.pc = "finish" => m.kind = "all"
        BY <1>1, <1>5, <1>11 DEF AfterRefresh, GoroutineType
    <2> QED
        BY <1>5, <1>6, <1>7, <1>8, <1>11, <2>1, <2>2, QuietMove
<1> QED
    BY <1>3, <1>9, <1>10, <1>11

\* Count and Release move one goroutine into and out of the background.
LEMMA CountKeeps ==
    ASSUME IInv, NEW g \in Goroutine, Count(g)
    PROVE  IInv'
<1>1. gr[g].kind = "recheck" /\ gr[g].ws \in Workspace /\ g \in Handler /\ gr[g].pc = "count"
    BY DEF IInv, Placed, Count, Step, Goroutine
<1> PICK v \in Workspace : v = gr[g].ws
    BY <1>1
<1> DEFINE r == Refreshing(g, "recheck", v, TRUE)
<1>2. /\ "recheck" \in {"all", "save", "status", "recheck"}
      /\ v \in Workspace \cup {Nil} /\ TRUE \in BOOLEAN /\ Typed
    BY <1>1 DEF IInv
<1>3. r \in GoroutineType /\ r.pc = "refresh" /\ r.kind = "recheck" /\ r.ws = v /\ r.live = TRUE
    BY <1>2, ZenonT(60) DEF Typed, Refreshing, GoroutineType
<1>4. gr' = [gr EXCEPT ![g] = r] /\ rechecking' = [rechecking EXCEPT ![v] = @ + 1]
    BY DEF Count, Step
<1> HIDE DEF r
<1>5. \A w \in Workspace : IsFiniteSet(Rechecks(w))
    <2>1. \A w \in Workspace : Rechecks(w) \subseteq Handler
        BY DEF Rechecks
    <2> QED
        BY <2>1, FS_Subset
<1>6. Rechecks(v)' = Rechecks(v) \cup {g} /\ g \notin Rechecks(v)
    BY <1>1, <1>2, <1>3, <1>4 DEF Typed, Rechecks, InBackground, Goroutine
<1>7. \A w \in Workspace \ {v} : Rechecks(w)' = Rechecks(w)
    BY <1>1, <1>2, <1>3, <1>4 DEF Typed, Rechecks, InBackground, Goroutine
<1>8. Cardinality(Rechecks(v)') = Cardinality(Rechecks(v)) + 1
    BY <1>1, <1>5, <1>6, FS_AddElement
<1>9. RecheckingCounts'
    <2> SUFFICES ASSUME NEW w \in Workspace
                 PROVE  rechecking'[w] = Cardinality(Rechecks(w)')
        BY DEF RecheckingCounts
    <2>1. rechecking[w] = Cardinality(Rechecks(w)) /\ rechecking[v] = Cardinality(Rechecks(v))
        BY <1>1 DEF IInv, RecheckingCounts
    <2>2. CASE w = v
        <3>1. rechecking'[v] = rechecking[v] + 1
            BY <1>1, <1>2, <1>4 DEF Typed
        <3> QED
            BY <1>8, <2>1, <2>2, <3>1
    <2>3. CASE w # v
        <3>1. rechecking'[w] = rechecking[w]
            BY <1>2, <1>4, <2>3 DEF Typed
        <3>2. Rechecks(w)' = Rechecks(w)
            BY <1>7, <2>3
        <3> QED
            BY <2>1, <3>1, <3>2
    <2> QED
        BY <2>2, <2>3
<1>10. OneCheckAtATime'
    <2>1. InCheckAll(r) <=> InCheckAll(gr[g])
        BY <1>1, <1>3 DEF InCheckAll
    <2> QED
        BY <1>3, <1>4, <2>1, CheckAllStays DEF Count
<1>11. Typed'
    BY <1>1, <1>2, <1>3, <1>4 DEF Typed, Count
<1>12. Placed'
    BY <1>1, <1>2, <1>3, <1>4 DEF IInv, Typed, Placed, Goroutine
<1> QED
    BY <1>9, <1>10, <1>11, <1>12 DEF IInv

LEMMA ReleaseKeeps ==
    ASSUME IInv, NEW g \in Goroutine, Release(g)
    PROVE  IInv'
<1>1. /\ gr[g].kind = "recheck" /\ gr[g].ws \in Workspace /\ g \in Handler
      /\ gr[g].pc = "release" /\ gr[g].live = TRUE
    BY DEF IInv, Typed, Placed, Release, Step, Goroutine, GoroutineType
<1> PICK v \in Workspace : v = gr[g].ws
    BY <1>1
<1> DEFINE r == [gr[g] EXCEPT !.pc = "todos"]
<1>2. Typed /\ gr[g] \in GoroutineType
    BY DEF IInv, Typed
<1>3. r \in GoroutineType /\ r.pc = "todos" /\ r.kind = "recheck" /\ r.ws = v
    BY <1>1, <1>2 DEF GoroutineType
<1>4. gr' = [gr EXCEPT ![g] = r] /\ rechecking' = [rechecking EXCEPT ![v] = @ - 1]
    BY DEF Release, Step
<1> HIDE DEF r
<1>5. \A w \in Workspace : IsFiniteSet(Rechecks(w))
    <2>1. \A w \in Workspace : Rechecks(w) \subseteq Handler
        BY DEF Rechecks
    <2> QED
        BY <2>1, FS_Subset
<1>6. Rechecks(v)' = Rechecks(v) \ {g} /\ g \in Rechecks(v)
    BY <1>1, <1>2, <1>3, <1>4 DEF Typed, Rechecks, InBackground, Goroutine
<1>7. \A w \in Workspace \ {v} : Rechecks(w)' = Rechecks(w)
    BY <1>1, <1>2, <1>3, <1>4 DEF Typed, Rechecks, InBackground, Goroutine
<1>8. Cardinality(Rechecks(v)') = Cardinality(Rechecks(v)) - 1
    BY <1>1, <1>5, <1>6, FS_RemoveElement, ZenonT(60)
<1>9. /\ Cardinality(Rechecks(v)) \in Nat \ {0}
      /\ Cardinality(Rechecks(v)') \in Nat
    BY <1>1, <1>5, <1>6, <1>8, FS_CardinalityType, FS_EmptySet
<1>10. RecheckingCounts'
    <2> SUFFICES ASSUME NEW w \in Workspace
                 PROVE  rechecking'[w] = Cardinality(Rechecks(w)')
        BY DEF RecheckingCounts
    <2>1. rechecking[w] = Cardinality(Rechecks(w)) /\ rechecking[v] = Cardinality(Rechecks(v))
        BY <1>1 DEF IInv, RecheckingCounts
    <2>2. CASE w = v
        <3>1. rechecking'[v] = rechecking[v] - 1
            BY <1>1, <1>2, <1>4 DEF Typed
        <3> QED
            BY <1>8, <2>1, <2>2, <3>1
    <2>3. CASE w # v
        <3>1. rechecking'[w] = rechecking[w]
            BY <1>2, <1>4, <2>3 DEF Typed
        <3>2. Rechecks(w)' = Rechecks(w)
            BY <1>7, <2>3
        <3> QED
            BY <2>1, <3>1, <3>2
    <2> QED
        BY <2>2, <2>3
<1>11. OneCheckAtATime'
    <2>1. InCheckAll(r) <=> InCheckAll(gr[g])
        BY <1>1, <1>3 DEF InCheckAll
    <2> QED
        BY <1>3, <1>4, <2>1, CheckAllStays DEF Release
<1>12. Typed'
    <2>1. rechecking[v] \in Nat \ {0}
        BY <1>1, <1>9 DEF IInv, RecheckingCounts
    <2>2. rechecking' \in [Workspace -> Nat]
        BY <1>1, <1>2, <1>4, <2>1 DEF Typed
    <2> QED
        BY <1>1, <1>2, <1>3, <1>4, <2>2 DEF Typed, Release
<1>13. Placed'
    BY <1>1, <1>2, <1>3, <1>4 DEF IInv, Typed, Placed, Goroutine
<1> QED
    BY <1>10, <1>11, <1>12, <1>13 DEF IInv

LEMMA FinishKeeps ==
    ASSUME IInv, NEW g \in Goroutine, Finish(g)
    PROVE  IInv'
<1> DEFINE r == [gr[g] EXCEPT !.pc = "todos"]
<1>1. gr[g].pc = "finish" /\ gr[g].kind = "all" /\ gr[g] \in GoroutineType
    BY DEF IInv, Typed, Placed, Finish, Step
<1>2. r \in GoroutineType /\ r.pc = "todos" /\ r.kind = "all"
    BY <1>1 DEF GoroutineType
<1>3. gr' = [gr EXCEPT ![g] = r] /\ checking' = FALSE
    BY DEF Finish, Step
<1> HIDE DEF r
<1>4. RecheckingCounts'
    <2>1. \A w \in Workspace : InBackground(r, w) <=> InBackground(gr[g], w)
        BY <1>1, <1>2 DEF InBackground
    <2> QED
        BY <1>2, <1>3, <2>1, OneMoves, CountStays DEF Finish
\* g was the only one in a checkAll.
<1>5. OneCheckAtATime'
    BY <1>1, <1>2, <1>3 DEF IInv, Typed, OneCheckAtATime, InCheckAll
<1>6. Typed'
    BY <1>2, <1>3 DEF IInv, Typed, Finish
<1>7. Placed'
    BY <1>1, <1>2, <1>3 DEF IInv, Typed, Placed, Goroutine
<1> QED
    BY <1>4, <1>5, <1>6, <1>7 DEF IInv

LEMMA NotifyKeeps ==
    ASSUME IInv, NEW g \in Goroutine, ListTodos(g) \/ notifyNew(g)
    PROVE  IInv'
<1> DEFINE r == [gr[g] EXCEPT !.pc = "notify", !.list = todos(results)]
<1>1. gr[g] \in GoroutineType
    BY DEF IInv, Typed
<1>2. todos(results) \subseteq Key
    BY TodosType
<1>3. /\ r \in GoroutineType /\ r.pc = "notify"
      /\ r.kind = gr[g].kind /\ r.ws = gr[g].ws
    BY <1>1, <1>2 DEF GoroutineType
<1>4. /\ UNCHANGED <<checking, rechecking>>
      /\ world' \in [Workspace -> Fact] /\ results' \in Fetched
    BY DEF IInv, Typed, ListTodos, notifyNew
<1>5. notified' \subseteq Key
    BY <1>1 DEF IInv, Typed, ListTodos, notifyNew, GoroutineType
<1>6. CASE ListTodos(g)
    <2>1. gr' = [gr EXCEPT ![g] = r] /\ gr[g].pc = "todos"
        BY <1>6 DEF ListTodos, Step
    <2> HIDE DEF r
    <2>2. /\ \A w \in Workspace : InBackground(r, w) <=> InBackground(gr[g], w)
          /\ InCheckAll(r) <=> InCheckAll(gr[g])
        BY <1>3, <2>1 DEF InBackground, InCheckAll
    <2>3. /\ g = Loop => r.kind \in {"all", "status"}
          /\ r.kind = "recheck" => r.ws \in Workspace
        BY <1>3 DEF IInv, Placed
    <2> QED
        BY <1>3, <1>4, <1>5, <2>1, <2>2, <2>3, QuietMove
<1>7. CASE notifyNew(g)
    <2>1. gr' = [gr EXCEPT ![g] = IdleGoroutine] /\ gr[g].pc = "notify"
        BY <1>7 DEF notifyNew, Step
    <2>2. /\ \A w \in Workspace : InBackground(IdleGoroutine, w) <=> InBackground(gr[g], w)
          /\ InCheckAll(IdleGoroutine) <=> InCheckAll(gr[g])
          /\ IdleGoroutine.kind = "status" /\ IdleGoroutine.pc = "idle"
        BY <2>1 DEF InBackground, InCheckAll, IdleGoroutine
    <2> QED
        BY <1>4, <1>5, <2>1, <2>2, IdleType, QuietMove
<1> QED
    BY <1>6, <1>7

\* The world changes, the application is restarted, or nothing happens.
LEMMA OtherKeeps ==
    ASSUME IInv, WorldChanges \/ Restart \/ UNCHANGED vars
    PROVE  IInv'
<1>1. CASE WorldChanges \/ UNCHANGED vars
    <2>1. /\ Placed' /\ OneCheckAtATime'
          /\ UNCHANGED <<results, checking, rechecking, notified, gr>>
        BY <1>1 DEF IInv, Placed, OneCheckAtATime, InCheckAll, WorldChanges, vars
    <2>2. RecheckingCounts'
        BY <1>1, <2>1 DEF IInv, RecheckingCounts, Rechecks, InBackground
    <2>3. world' \in [Workspace -> Fact]
        BY <1>1 DEF IInv, Typed, WorldChanges, vars
    <2> QED
        BY <2>1, <2>2, <2>3 DEF IInv, Typed
<1>2. CASE Restart
    <2>1. Typed'
        BY <1>2, IdleType DEF IInv, Typed, Restart, Fetched
    <2>2. Placed' /\ OneCheckAtATime'
        BY <1>2 DEF Restart, Placed, OneCheckAtATime, InCheckAll, IdleGoroutine, Goroutine
    <2>3. \A w \in Workspace : Rechecks(w)' = {}
        BY <1>2 DEF Restart, Rechecks, InBackground, IdleGoroutine, Goroutine
    <2>4. RecheckingCounts'
        BY <1>2, <2>3, FS_EmptySet DEF Restart, RecheckingCounts
    <2> QED
        BY <2>1, <2>2, <2>4 DEF IInv
<1> QED
    BY <1>1, <1>2

LEMMA NextIInv == IInv /\ [Next]_vars => IInv'
<1> SUFFICES ASSUME IInv, [Next]_vars PROVE IInv'
    OBVIOUS
<1>1. ASSUME NEW g \in Goroutine, checkAll(g) PROVE IInv'
    BY <1>1, CheckAllKeeps
<1>2. ASSUME NEW g \in Goroutine, Progress(g) PROVE IInv'
    BY <1>2, FetchKeeps, StoreKeeps, CountKeeps, ReleaseKeeps, FinishKeeps, NotifyKeeps
    DEF Progress
<1>3. ASSUME NEW g \in Handler, NEW w \in Workspace,
             apiSave(g, w) \/ apiStatus(g, w) \/ recheck(g, w)
      PROVE  IInv'
    BY <1>3, RequestKeeps
<1>4. CASE WorldChanges \/ Restart \/ UNCHANGED vars
    BY <1>4, OtherKeeps
<1> QED
    BY <1>1, <1>2, <1>3, <1>4 DEF Next

-----------------------------------------------------------------------------

\* rechecking is bounded by the goroutines that it counts.
LEMMA BoundedCount == IInv => TypeOK
<1> SUFFICES ASSUME IInv PROVE TypeOK
    OBVIOUS
<1>1. ASSUME NEW w \in Workspace
      PROVE  rechecking[w] \in 0..Cardinality(Handler)
    <2>1. Rechecks(w) \subseteq Handler
        BY DEF Rechecks
    <2>2. /\ Cardinality(Rechecks(w)) \in Nat /\ Cardinality(Handler) \in Nat
          /\ Cardinality(Rechecks(w)) <= Cardinality(Handler)
        BY <2>1, FS_Subset, FS_CardinalityType
    <2> QED
        BY <2>2 DEF IInv, RecheckingCounts
<1>2. rechecking \in [Workspace -> 0..Cardinality(Handler)]
    BY <1>1 DEF IInv, Typed
<1> QED
    BY <1>2 DEF IInv, Typed, TypeOK

LEMMA InductiveInvariant == Spec => []IInv
BY InitIInv, NextIInv, PTL DEF Spec

\* The variables of the application keep their types; no workspace is marked
\* as being rechecked more often than there are requests (recheck).
THEOREM CheckerTypeCorrect == Spec => []TypeOK
BY InductiveInvariant, BoundedCount, PTL

\* checking is set exactly while one checkAll runs: neither do two run at a
\* time nor does the mark outlive the check (checkAll).
THEOREM ChecksOneAtATime == Spec => []OneCheckAtATime
<1>1. IInv => OneCheckAtATime
    BY DEF IInv
<1> QED
    BY <1>1, InductiveInvariant, PTL

\* The mark of a workspace counts the rechecks of it that are under way, over
\* any number of overlapping publishes (recheck).
THEOREM RechecksCounted == Spec => []RecheckingCounts
<1>1. IInv => RecheckingCounts
    BY DEF IInv
<1> QED
    BY <1>1, InductiveInvariant, PTL

\* The marks of the checks under way are exact, both kinds together.
THEOREM MarksAlwaysExact == Spec => []MarksExact
<1>1. IInv => MarksExact
    BY DEF IInv, MarksExact
<1> QED
    BY <1>1, InductiveInvariant, PTL
=============================================================================
