--------------------------- MODULE DesktopChecker ---------------------------
(***************************************************************************)
(* The background checks of the desktop application (cmd/egw-desktop,      *)
(* checker.go and the handlers of server.go that start them).              *)
(*                                                                         *)
(* The periodic loop, "check now", a saved secret, a publish and a status  *)
(* page each ask the gateways for the state of their secrets, concurrently *)
(* and without a lock, and then put the answer into the one result that    *)
(* a.mu guards for a workspace.  What the user is told comes from these    *)
(* results.  A workspace has one secret here.                              *)
(***************************************************************************)
EXTENDS Naturals, FiniteSets

CONSTANTS
    Workspace,
    Handler,    \* goroutines that the UI's requests start
    Loop,       \* the goroutine of checkLoop
    Nil

ASSUME CheckerAssumption ==
    /\ IsFiniteSet(Workspace) /\ IsFiniteSet(Handler)
    /\ Loop \notin Handler
    /\ Nil \notin Workspace

Goroutine == Handler \cup {Loop}

\* A gateway that does not answer, or one whose secret is not set, is rejected
\* by its provider, or is accepted.
Fact == {"down", "missing", "rejected", "fine"}

\* wsResult: live says that the provider was asked, check what it said.
Result == [fact : {"down", "missing", "stored"},
           check : {"none", "rejected", "ok"}, live : BOOLEAN]

Problem == {"down", "missing", "rejected"}
Key     == Workspace \X Problem

VARIABLES
    world,      \* what each gateway would report
    results,    \* app.results
    checking,   \* app.checking
    rechecking, \* app.rechecking
    notified,   \* app.notified, also in state.json
    gr          \* the goroutines

vars == <<world, results, checking, rechecking, notified, gr>>

Fetched == [Workspace -> Result \cup {Nil}]

IdleGoroutine ==
    [pc |-> "idle", kind |-> "status", ws |-> Nil, live |-> FALSE, todo |-> {},
     res |-> [w \in Workspace |-> Nil], list |-> {}]

GoroutineType ==
    [pc   : {"idle", "refresh", "count", "release", "finish", "todos", "notify"},
     kind : {"all", "save", "status", "recheck"},
     ws   : Workspace \cup {Nil},  \* the workspace, of all but checkAll
     live : BOOLEAN,
     todo : SUBSET Workspace,   \* workspaces still to be asked
     res  : Fetched,            \* answers not yet stored
     list : SUBSET Key]         \* the to-do list notifyNew works on

TypeOK ==
    /\ world \in [Workspace -> Fact]
    /\ results \in Fetched
    /\ checking \in BOOLEAN
    /\ rechecking \in [Workspace -> 0..Cardinality(Handler)]
    /\ notified \subseteq Key
    /\ gr \in [Goroutine -> GoroutineType]

Init ==
    /\ world \in [Workspace -> Fact]
    /\ results = [w \in Workspace |-> Nil]
    /\ checking = FALSE
    /\ rechecking = [w \in Workspace |-> 0]
    /\ notified = {}
    /\ gr = [g \in Goroutine |-> IdleGoroutine]

-----------------------------------------------------------------------------
(* What a check finds and what the user is told of it.                     *)

\* fetchStatus: without live the gateway reports what is stored and asks no
\* provider; a secret that is not stored is never checked.
fetchStatus(fact, live) ==
    [fact  |-> IF fact \in {"down", "missing"} THEN fact ELSE "stored",
     check |-> IF live /\ fact = "rejected" THEN "rejected"
               ELSE IF live /\ fact = "fine" THEN "ok" ELSE "none",
     live  |-> live]

\* Mutant: a check of the stored state forgets what the providers said.
MergeNothing(prev, res) == res

\* refresh: a check of the stored state keeps the provider's word of the live
\* check before it, and passes for live itself, unless it failed.
Merge(prev, res) ==
    IF prev # Nil /\ ~ res.live /\ prev.live /\ res.fact # "down"
    THEN [res EXCEPT !.check = prev.check, !.live = TRUE]
    ELSE res

\* todos, as far as they are notified.
problems(res) ==
    IF res = Nil THEN {}
    ELSE IF res.fact # "stored" THEN {res.fact}
    ELSE IF res.check = "rejected" THEN {"rejected"} ELSE {}

todos(rs) == {k \in Key : k[2] \in problems(rs[k[1]])}

-----------------------------------------------------------------------------
(* The goroutines.                                                         *)

Step(g, from, to) == gr[g].pc = from /\ gr' = [gr EXCEPT ![g] = to]

Refreshing(g, kind, w, live) ==
    [gr[g] EXCEPT !.pc = "refresh", !.kind = kind, !.ws = w, !.live = live,
                  !.todo = IF w = Nil THEN Workspace ELSE {w}]

\* checkAll, by the loop, by "check now" or after a deployment: it returns at
\* once when another is under way.
checkAll(g) ==
    /\ ~ checking
    /\ Step(g, "idle", Refreshing(g, "all", Nil, TRUE))
    /\ checking' = TRUE
    /\ UNCHANGED <<world, results, rechecking, notified>>

\* apiSave, after the gateway has stored the secret.
apiSave(g, w) ==
    /\ Step(g, "idle", Refreshing(g, "save", w, TRUE))
    /\ UNCHANGED <<world, results, checking, rechecking, notified>>

\* apiStatus, and the refresh after apiService, apiAdminToken and
\* apiAdminRegenerate.  A page that takes a cached result starts no check.
apiStatus(g, w) ==
    /\ \E live \in BOOLEAN : Step(g, "idle", Refreshing(g, "status", w, live))
    /\ UNCHANGED <<world, results, checking, rechecking, notified>>

\* recheck, after a publish: the stored state first.
recheck(g, w) ==
    /\ Step(g, "idle", Refreshing(g, "recheck", w, FALSE))
    /\ UNCHANGED <<world, results, checking, rechecking, notified>>

\* The request to one gateway; checkAll asks all of them in parallel.
Fetch(g, w) ==
    /\ w \in gr[g].todo
    /\ Step(g, "refresh", [gr[g] EXCEPT !.todo = @ \ {w},
                                        !.res[w] = fetchStatus(world[w], gr[g].live)])
    /\ UNCHANGED <<world, results, checking, rechecking, notified>>

\* Where a goroutine goes when refresh, or the last one of checkAll, returns.
AfterRefresh(g) ==
    IF gr[g].kind = "all" THEN "finish"
    ELSE IF gr[g].kind = "save" THEN "todos"
    ELSE IF gr[g].live THEN "release" ELSE "count"

\* The end of refresh, under a.mu.
Store(g, w) ==
    /\ gr[g].res[w] # Nil
    /\ LET next == [gr[g] EXCEPT !.res[w] = Nil]
           last == next.todo = {} /\ \A x \in Workspace : next.res[x] = Nil
       IN  Step(g, "refresh", IF ~ last THEN next
                              ELSE IF gr[g].kind = "status" THEN IdleGoroutine
                              ELSE [next EXCEPT !.pc = AfterRefresh(g)])
    /\ results' = [results EXCEPT ![w] = Merge(results[w], gr[g].res[w])]
    /\ UNCHANGED <<world, checking, rechecking, notified>>

\* recheck counts itself and goes on with the live check in the background.
Count(g) ==
    /\ Step(g, "count", Refreshing(g, "recheck", gr[g].ws, TRUE))
    /\ rechecking' = [rechecking EXCEPT ![gr[g].ws] = @ + 1]
    /\ UNCHANGED <<world, results, checking, notified>>

\* Mutant: the mark is not taken back.
ReleaseForgets(g) ==
    /\ Step(g, "release", [gr[g] EXCEPT !.pc = "todos"])
    /\ UNCHANGED <<world, results, checking, rechecking, notified>>

Release(g) ==
    /\ Step(g, "release", [gr[g] EXCEPT !.pc = "todos"])
    /\ rechecking' = [rechecking EXCEPT ![gr[g].ws] = @ - 1]
    /\ UNCHANGED <<world, results, checking, notified>>

\* The end of checkAll.
Finish(g) ==
    /\ Step(g, "finish", [gr[g] EXCEPT !.pc = "todos"])
    /\ checking' = FALSE
    /\ UNCHANGED <<world, results, rechecking, notified>>

\* notifyNew takes the to-do list of the results ...
ListTodos(g) ==
    /\ Step(g, "todos", [gr[g] EXCEPT !.pc = "notify", !.list = todos(results)])
    /\ UNCHANGED <<world, results, checking, rechecking, notified>>

\* Mutant: solved problems stay in notified.
notifyNewKeeps(g) ==
    /\ Step(g, "notify", IdleGoroutine)
    /\ notified' = notified \cup gr[g].list
    /\ UNCHANGED <<world, results, checking, rechecking>>

\* ... and, under a.mu again, toasts what is on it and not in notified, which
\* it then replaces.
notifyNew(g) ==
    /\ Step(g, "notify", IdleGoroutine)
    /\ notified' = gr[g].list
    /\ UNCHANGED <<world, results, checking, rechecking>>

-----------------------------------------------------------------------------
(* Environment.                                                            *)

\* A secret is set, deleted, expires; a gateway stops or starts.
WorldChanges ==
    /\ \E w \in Workspace, f \in Fact : world' = [world EXCEPT ![w] = f]
    /\ UNCHANGED <<results, checking, rechecking, notified, gr>>

\* The application is closed and started: loadState brings notified back.
Restart ==
    /\ results' = [w \in Workspace |-> Nil]
    /\ checking' = FALSE
    /\ rechecking' = [w \in Workspace |-> 0]
    /\ gr' = [g \in Goroutine |-> IdleGoroutine]
    /\ UNCHANGED <<world, notified>>

-----------------------------------------------------------------------------

Progress(g) ==
    \/ \E w \in Workspace : Fetch(g, w) \/ Store(g, w)
    \/ Count(g) \/ Release(g) \/ Finish(g)
    \/ ListTodos(g) \/ notifyNew(g)

Next ==
    \/ \E g \in Goroutine : checkAll(g) \/ Progress(g)
    \/ \E g \in Handler, w \in Workspace :
          apiSave(g, w) \/ apiStatus(g, w) \/ recheck(g, w)
    \/ WorldChanges
    \/ Restart

Spec == Init /\ [][Next]_vars

\* Requests to a gateway time out, goroutines are scheduled, and the loop comes
\* back for another checkAll after its interval.
FairSpec ==
    /\ Spec
    /\ \A g \in Goroutine : WF_vars(Progress(g))
    /\ WF_vars(checkAll(Loop))

-----------------------------------------------------------------------------

InCheckAll(r) == r.kind = "all" /\ r.pc \in {"refresh", "finish"}

\* checking is set exactly while one checkAll is under way, so that the loop
\* and "check now" never ask every gateway twice at a time, nor never again.
OneCheckAtATime ==
    LET busy == {g \in Goroutine : InCheckAll(gr[g])}
    IN  /\ checking <=> busy # {}
        /\ \A g, h \in busy : g = h

InBackground(r, w) ==
    /\ r.kind = "recheck" /\ r.ws = w
    /\ r.pc = "release" \/ (r.pc = "refresh" /\ r.live)

Rechecks(w) == {g \in Handler : InBackground(gr[g], w)}

\* The mark "rechecking" of a workspace stays as long as any recheck of it is
\* under way, and goes with the last.
RecheckingCounts == \A w \in Workspace : rechecking[w] = Cardinality(Rechecks(w))

\* What says that a check is under way is exact: checking while one checkAll runs
\* and no more than one does, and the mark of a workspace for every recheck, so
\* that no check keeps all others out for ever.
MarksExact == OneCheckAtATime /\ RecheckingCounts

\* What the two need of the goroutines: where each kind of them can be.
Placed ==
    /\ gr[Loop].kind \in {"all", "status"}
    /\ \A g \in Goroutine :
         /\ gr[g].pc \in {"count", "release"} =>
               gr[g].kind = "recheck" /\ (gr[g].live <=> gr[g].pc = "release")
         /\ gr[g].pc = "finish" => gr[g].kind = "all"
         /\ gr[g].kind = "recheck" => gr[g].ws \in Workspace

\* The result of a workspace is what a live check would find now.
Agrees(w) ==
    /\ results[w] # Nil
    /\ results[w].fact = fetchStatus(world[w], TRUE).fact
    /\ results[w].check = fetchStatus(world[w], TRUE).check

\* From some moment on nothing changes at the gateways, and the application is
\* not restarted.
StandsStill == <>[][world' = world /\ ~ Restart]_vars

\* Once the world stands still, results agree with it for good: neither an
\* older check that ends late nor the checks of the stored state, which ask no
\* provider, keep a result wrong (refresh).
ResultsConverge == StandsStill => <>[](\A w \in Workspace : Agrees(w))

\* Once the world stands still, exactly the problems it has are marked as
\* notified: each has had its toast, and one that was solved will have another
\* when it comes back (notifyNew works on a list that may be out of date).
NotifiedConverges ==
    StandsStill =>
        <>[](notified = {k \in Key : k[2] \in problems(fetchStatus(world[k[1]], TRUE))})
=============================================================================
