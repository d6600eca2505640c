----------------------------- MODULE Scheduler -----------------------------
(***************************************************************************)
(* The job store and the scheduler of internal/scheduler/scheduler.go.     *)
(*                                                                         *)
(* Every Store operation is one critical section.  A loop is one goroutine *)
(* of run: it waits in select, collects the due jobs under the read lock   *)
(* and executes them one by one, each between claim and finish.  Start and *)
(* Stop change running and stopCh under the scheduler's mutex, but run     *)
(* reads stopCh without it, at every turn; a loop that is busy executing   *)
(* while the scheduler is stopped and started again goes on with the new   *)
(* channel, so loops may overlap.                                          *)
(*                                                                         *)
(* Channels are numbered in the order Start makes them.  Nothing in the    *)
(* repository calls Update, which is left out.                             *)
(***************************************************************************)
EXTENDS Naturals

CONSTANTS
    Job,        \* job ids; Add takes the id its caller gives
    Loop,       \* goroutines that Start may spawn (a bound)
    MaxStart,   \* bound: calls of Start that succeed
    MaxAdd,     \* bound: calls of Add for one id
    NoJob

ASSUME SchedulerAssumption ==
    /\ MaxStart \in Nat
    /\ MaxAdd \in Nat
    /\ NoJob \notin Job

VARIABLES
    status,     \* Store.jobs: the status of a job, "none" if there is none
    due,        \* jobs whose ScheduledAt has passed
    added,      \* history: how often an id was added, which tells its jobs apart
    running,    \* Scheduler.running
    stopCh,     \* Scheduler.stopCh
    ctxDone,    \* loops whose context is cancelled
    loop        \* the loops

vars == <<status, due, added, running, stopCh, ctxDone, loop>>
storeVars == <<status, due, added>>

Status == {"none", "pending", "running", "completed", "failed", "cancelled"}

IdleLoop == [pc |-> "off", ch |-> 0, todo |-> {}, job |-> NoJob, nth |-> 0]

LoopType == [pc   : {"off", "top", "select", "scan", "exec", "work"},
             ch   : 0..MaxStart,            \* the channel it waits on
             todo : SUBSET Job,             \* due jobs still to be executed
             job  : Job \cup {NoJob},       \* the job it claimed
             nth  : 0..MaxAdd]              \* history: which Add that job is from

TypeOK ==
    /\ status \in [Job -> Status]
    /\ due \subseteq Job
    /\ added \in [Job -> 0..MaxAdd]
    /\ running \in BOOLEAN
    /\ stopCh \in 0..MaxStart
    /\ ctxDone \subseteq Loop
    /\ loop \in [Loop -> LoopType]

Init ==
    /\ status = [j \in Job |-> "none"]
    /\ due = {}
    /\ added = [j \in Job |-> 0]
    /\ running = FALSE
    /\ stopCh = 0
    /\ ctxDone = {}
    /\ loop = [l \in Loop |-> IdleLoop]

-----------------------------------------------------------------------------
(* The store, as its callers use it.                                       *)

Calm == UNCHANGED <<running, stopCh, ctxDone, loop>>

\* Add replaces whatever job has the id; the new one may be due already.
Add(j) ==
    /\ added[j] < MaxAdd
    /\ added' = [added EXCEPT ![j] = @ + 1]
    /\ status' = [status EXCEPT ![j] = "pending"]
    /\ due' \in {due \cup {j}, due \ {j}}
    /\ Calm

\* Another agent's job and a finished one are refused.
Cancel(j) ==
    /\ status[j] \notin {"none", "completed", "failed"}
    /\ status' = [status EXCEPT ![j] = "cancelled"]
    /\ UNCHANGED <<due, added>> /\ Calm

Delete(j) ==
    /\ status[j] # "none"
    /\ status' = [status EXCEPT ![j] = "none"]
    /\ UNCHANGED <<due, added>> /\ Calm

ComesDue(j) ==
    /\ j \notin due
    /\ due' = due \cup {j}
    /\ UNCHANGED <<status, added>> /\ Calm

-----------------------------------------------------------------------------
(* Start and Stop.                                                         *)

Closed(ch) == ch < stopCh \/ (ch = stopCh /\ ~ running)

Start(l) ==
    /\ ~ running
    /\ stopCh < MaxStart
    /\ loop[l].pc = "off"
    /\ running' = TRUE
    /\ stopCh' = stopCh + 1
    /\ ctxDone' = ctxDone \ {l}
    /\ loop' = [loop EXCEPT ![l] = [IdleLoop EXCEPT !.pc = "top", !.ch = stopCh + 1]]
    /\ UNCHANGED storeVars

Stop ==
    /\ running
    /\ running' = FALSE
    /\ UNCHANGED <<storeVars, stopCh, ctxDone, loop>>

CancelContext(l) ==
    /\ loop[l].pc # "off"
    /\ l \notin ctxDone
    /\ ctxDone' = ctxDone \cup {l}
    /\ UNCHANGED <<storeVars, running, stopCh, loop>>

-----------------------------------------------------------------------------
(* run, processJobs and executeJob.                                        *)

Turn(l, from, to) ==
    /\ loop[l].pc = from
    /\ loop' = [loop EXCEPT ![l] = to]
    /\ UNCHANGED <<running, stopCh, ctxDone>>

\* select evaluates s.stopCh without the mutex: it sees the channel of the
\* last Start, or an older one it may have seen before.
Select(l) ==
    /\ \E ch \in loop[l].ch .. stopCh :
          Turn(l, "top", [loop[l] EXCEPT !.pc = "select", !.ch = ch])
    /\ UNCHANGED storeVars

\* Mutant: run no longer looks at the stop channel.
ReturnOnContext(l) ==
    /\ l \in ctxDone
    /\ Turn(l, "select", IdleLoop)
    /\ UNCHANGED storeVars

Return(l) ==
    /\ l \in ctxDone \/ Closed(loop[l].ch)
    /\ Turn(l, "select", IdleLoop)
    /\ UNCHANGED storeVars

\* The ticker fires; select may choose it although a stop is ready as well.
Tick(l) ==
    /\ Turn(l, "select", [loop[l] EXCEPT !.pc = "scan"])
    /\ UNCHANGED storeVars

Due == {j \in Job : status[j] = "pending" /\ j \in due}

Scan(l) ==
    /\ Turn(l, "scan", [loop[l] EXCEPT !.pc = "exec", !.todo = Due])
    /\ UNCHANGED storeVars

\* Mutant: claim takes a job whatever its status, as long as it exists.
ClaimUnchecked(l, j) ==
    /\ j \in loop[l].todo
    /\ \/ /\ status[j] # "none"
          /\ status' = [status EXCEPT ![j] = "running"]
          /\ Turn(l, "exec", [loop[l] EXCEPT !.pc = "work", !.todo = @ \ {j},
                                             !.job = j, !.nth = added[j]])
       \/ /\ status[j] = "none"
          /\ Turn(l, "exec", [loop[l] EXCEPT !.todo = @ \ {j}])
          /\ UNCHANGED status
    /\ UNCHANGED <<due, added>>

\* claim: a job that is no longer pending is skipped.
Claim(l, j) ==
    /\ j \in loop[l].todo
    /\ \/ /\ status[j] = "pending"
          /\ status' = [status EXCEPT ![j] = "running"]
          /\ Turn(l, "exec", [loop[l] EXCEPT !.pc = "work", !.todo = @ \ {j},
                                             !.job = j, !.nth = added[j]])
       \/ /\ status[j] # "pending"
          /\ Turn(l, "exec", [loop[l] EXCEPT !.todo = @ \ {j}])
          /\ UNCHANGED status
    /\ UNCHANGED <<due, added>>

\* executeClockifyWrapup is a stub and any other type is unknown: no job
\* succeeds.
Succeeds == FALSE

Outcome == IF Succeeds THEN "completed" ELSE "failed"

\* Mutant: finish writes its outcome whatever happened to the job meanwhile.
FinishAnyway(l) ==
    /\ Turn(l, "work", [loop[l] EXCEPT !.pc = "exec", !.job = NoJob, !.nth = 0])
    /\ status' = [status EXCEPT ![loop[l].job] =
                     IF @ = "none" THEN @ ELSE Outcome]
    /\ UNCHANGED <<due, added>>

\* finish: only a running job gets the outcome as its status.
Finish(l) ==
    /\ Turn(l, "work", [loop[l] EXCEPT !.pc = "exec", !.job = NoJob, !.nth = 0])
    /\ status' = [status EXCEPT ![loop[l].job] =
                     IF @ = "running" THEN Outcome ELSE @]
    /\ UNCHANGED <<due, added>>

\* Mutant: run returns when the jobs of one tick are done.
LoopOnce(l) ==
    /\ loop[l].todo = {}
    /\ Turn(l, "exec", IdleLoop)
    /\ UNCHANGED storeVars

LoopBack(l) ==
    /\ loop[l].todo = {}
    /\ Turn(l, "exec", [loop[l] EXCEPT !.pc = "top"])
    /\ UNCHANGED storeVars

-----------------------------------------------------------------------------

LoopStep(l) ==
    \/ Select(l) \/ Tick(l) \/ Scan(l) \/ Finish(l) \/ LoopBack(l)
    \/ \E j \in Job : Claim(l, j)

Next ==
    \/ \E j \in Job : Add(j) \/ Cancel(j) \/ Delete(j) \/ ComesDue(j)
    \/ \E l \in Loop : Start(l) \/ CancelContext(l) \/ LoopStep(l) \/ Return(l)
    \/ Stop

Spec == Init /\ [][Next]_vars

\* A loop keeps running: its ticker fires and a job ends, by its time-out at
\* the latest.  select chooses at random between ready cases, so a stop that
\* stays ready is chosen in the end.
FairSpec == Spec /\ \A l \in Loop : WF_vars(LoopStep(l)) /\ SF_vars(Return(l))

-----------------------------------------------------------------------------

\* One job is executed by one loop at most, however many loops Stop and Start
\* have left behind: claim is the only way in.
ExecutedOnce ==
    \A l, m \in Loop :
        /\ l # m /\ loop[l].pc = "work" /\ loop[m].pc = "work"
        /\ loop[l].job = loop[m].job
        => loop[l].nth # loop[m].nth

\* What makes it inductive: a claimed job is not pending, unless it has been
\* added anew.
ClaimedNotPending ==
    \A l \in Loop : loop[l].pc = "work" =>
        /\ loop[l].job \in Job
        /\ loop[l].nth <= added[loop[l].job]
        /\ loop[l].nth = added[loop[l].job] => status[loop[l].job] # "pending"

\* A cancelled job stays cancelled until it is deleted or added anew: neither
\* claim nor the finish of a run that was under way revives it.
CancelSticks ==
    [][\A j \in Job : status[j] = "cancelled" =>
          \/ status'[j] \in {"cancelled", "none"}
          \/ added'[j] = added[j] + 1]_vars

\* A due job does not stay pending for ever while a started scheduler, whose
\* context is not cancelled, runs.
NoJobStarves ==
    \A j \in Job :
        ~ <>[](status[j] = "pending" /\ j \in due /\ running /\ ctxDone = {})

\* After the last Stop every loop ends, whatever it was doing.
StopEnds == <>[](~ running) => <>[](\A l \in Loop : loop[l].pc = "off")

\* What makes OutcomeOfItsRun hold: a job that is marked as running has a run.
RunningIsRun ==
    \A j \in Job : status[j] = "running" =>
        \E l \in Loop : loop[l].pc = "work" /\ loop[l].job = j /\ loop[l].nth = added[j]

\* A job gets its outcome while the run that claimed it is under way.  finish
\* goes by the id: a run of an older job that was deleted and added anew under
\* the same id may write the outcome, but never for a job that nobody runs.
OutcomeOfItsRun ==
    [][\A j \in Job : status'[j] # status[j] /\ status'[j] \in {"completed", "failed"} =>
          \E l \in Loop : loop[l].pc = "work" /\ loop[l].job = j /\ loop[l].nth = added[j]]_vars
=============================================================================
