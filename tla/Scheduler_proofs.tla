-------------------------- MODULE Scheduler_proofs --------------------------
(***************************************************************************)
(* Theorems about module Scheduler, for any number of jobs and loops.      *)
(***************************************************************************)
EXTENDS Scheduler, TLAPS

USE SchedulerAssumption DEF SchedulerAssumption

LEMMA IdleLoopType == IdleLoop \in LoopType
<1>1. MaxStart \in Nat /\ MaxAdd \in Nat
  OBVIOUS
<1>2. 0 \in 0..MaxStart /\ 0 \in 0..MaxAdd
  BY <1>1
<1> QED
  BY <1>2 DEF IdleLoop, LoopType

\* Every variable keeps its type: in particular a status is one of those the
\* package tells apart.
THEOREM SchedulerTypeCorrect == Spec => []TypeOK
<1>1. Init => TypeOK
  <2> SUFFICES ASSUME Init PROVE TypeOK
    OBVIOUS
  <2>1. status \in [Job -> Status] /\ due \subseteq Job /\ running \in BOOLEAN
    BY DEF Init, Status
  <2>2. added \in [Job -> 0..MaxAdd] /\ stopCh \in 0..MaxStart
    <3>1. 0 \in 0..MaxAdd /\ 0 \in 0..MaxStart
      OBVIOUS
    <3> QED
      BY <3>1 DEF Init
  <2>3. ctxDone \subseteq Loop /\ loop \in [Loop -> LoopType]
    BY IdleLoopType DEF Init
  <2> QED
    BY <2>1, <2>2, <2>3 DEF TypeOK
<1>2. TypeOK /\ [Next]_vars => TypeOK'
  <2> SUFFICES ASSUME TypeOK, [Next]_vars
               PROVE  TypeOK'
    OBVIOUS
  <2> USE DEF TypeOK, Status
  <2>1. ASSUME NEW j \in Job, Add(j) PROVE TypeOK'
    <3>1. due' \subseteq Job /\ added'[j] \in 0..MaxAdd
      BY <2>1 DEF Add
    <3> QED
      BY <2>1, <3>1 DEF Add, Calm
  <2>2. ASSUME NEW j \in Job, Cancel(j) \/ Delete(j) \/ ComesDue(j) PROVE TypeOK'
    BY <2>2 DEF Cancel, Delete, ComesDue, Calm
  <2>3. ASSUME NEW l \in Loop, Start(l) PROVE TypeOK'
    <3>1. [IdleLoop EXCEPT !.pc = "top", !.ch = stopCh + 1] \in LoopType
      <4>1. stopCh + 1 \in 0..MaxStart
        BY <2>3 DEF Start
      <4> QED
        BY <4>1, IdleLoopType DEF LoopType
    <3> QED
      BY <2>3, <3>1 DEF Start, storeVars
  <2>4. ASSUME NEW l \in Loop, CancelContext(l) PROVE TypeOK'
    BY <2>4 DEF CancelContext, storeVars
  <2>5. ASSUME NEW l \in Loop, Select(l) PROVE TypeOK'
    <3>1. PICK ch \in loop[l].ch .. stopCh :
              Turn(l, "top", [loop[l] EXCEPT !.pc = "select", !.ch = ch])
      BY <2>5 DEF Select
    <3>2. loop[l] \in LoopType /\ ch \in 0..MaxStart
      BY <3>1 DEF LoopType
    <3>3. [loop[l] EXCEPT !.pc = "select", !.ch = ch] \in LoopType
      BY <3>2 DEF LoopType
    <3> QED
      BY <2>5, <3>1, <3>3 DEF Select, Turn, storeVars
  <2>6. ASSUME NEW l \in Loop, Return(l) PROVE TypeOK'
    BY <2>6, IdleLoopType DEF Return, Turn, storeVars
  <2>7. ASSUME NEW l \in Loop, Tick(l) \/ Scan(l) \/ LoopBack(l) PROVE TypeOK'
    <3>1. loop[l] \in LoopType
      OBVIOUS
    <3>2. /\ [loop[l] EXCEPT !.pc = "scan"] \in LoopType
          /\ [loop[l] EXCEPT !.pc = "top"] \in LoopType
          /\ [loop[l] EXCEPT !.pc = "exec", !.todo = Due] \in LoopType
      BY <3>1 DEF LoopType, Due
    <3> QED
      BY <2>7, <3>2 DEF Tick, Scan, LoopBack, Turn, storeVars
  <2>8. ASSUME NEW l \in Loop, Finish(l) PROVE TypeOK'
    <3>1. [loop[l] EXCEPT !.pc = "exec", !.job = NoJob, !.nth = 0] \in LoopType
      <4>1. loop[l] \in LoopType /\ 0 \in 0..MaxAdd
        OBVIOUS
      <4> QED
        BY <4>1 DEF LoopType
    <3>2. status' \in [Job -> Status]
      BY <2>8 DEF Finish, Outcome
    <3> QED
      BY <2>8, <3>1, <3>2 DEF Finish, Turn
  <2>9. ASSUME NEW l \in Loop, NEW j \in Job, Claim(l, j) PROVE TypeOK'
    <3>1. loop[l] \in LoopType /\ added[j] \in 0..MaxAdd
      OBVIOUS
    <3>2. /\ [loop[l] EXCEPT !.todo = @ \ {j}] \in LoopType
          /\ [loop[l] EXCEPT !.pc = "work", !.todo = @ \ {j}, !.job = j, !.nth = added[j]]
                \in LoopType
      BY <3>1 DEF LoopType
    <3> QED
      BY <2>9, <3>2 DEF Claim, Turn
  <2>10. CASE Stop
    BY <2>10 DEF Stop, storeVars
  <2>11. CASE UNCHANGED vars
    BY <2>11 DEF vars
  <2> QED
    BY <2>1, <2>2, <2>3, <2>4, <2>5, <2>6, <2>7, <2>8, <2>9, <2>10, <2>11 DEF Next, LoopStep
<1> QED
  BY <1>1, <1>2, PTL DEF Spec

-----------------------------------------------------------------------------

ExecInv == ClaimedNotPending /\ ExecutedOnce

LEMMA ExecInvStep == ASSUME TypeOK, ExecInv, [Next]_vars PROVE ExecInv'
<1> USE DEF ExecInv, ClaimedNotPending, ExecutedOnce, TypeOK
<1>1. ASSUME NEW j \in Job, Add(j) PROVE ExecInv'
  BY <1>1 DEF Add, Calm, LoopType
<1>2. ASSUME NEW j \in Job, Cancel(j) \/ Delete(j) \/ ComesDue(j) PROVE ExecInv'
  BY <1>2 DEF Cancel, Delete, ComesDue, Calm
<1>3. ASSUME NEW l \in Loop, Start(l) PROVE ExecInv'
  BY <1>3 DEF Start, storeVars, IdleLoop
<1>4. ASSUME NEW l \in Loop, CancelContext(l) PROVE ExecInv'
  BY <1>4 DEF CancelContext, storeVars
<1>5. ASSUME NEW l \in Loop,
             Select(l) \/ Return(l) \/ Tick(l) \/ Scan(l) \/ LoopBack(l)
      PROVE  ExecInv'
  <2>1. loop'[l].pc # "work" /\ UNCHANGED storeVars
    <3>1. CASE Select(l)
      BY <3>1 DEF Select, Turn, LoopType
    <3>2. CASE Return(l)
      BY <3>2 DEF Return, Turn, IdleLoop
    <3>3. CASE Tick(l)
      BY <3>3 DEF Tick, Turn, LoopType
    <3>4. CASE Scan(l)
      BY <3>4 DEF Scan, Turn, LoopType
    <3>5. CASE LoopBack(l)
      BY <3>5 DEF LoopBack, Turn, LoopType
    <3> QED
      BY <1>5, <3>1, <3>2, <3>3, <3>4, <3>5
  <2>2. \A m \in Loop \ {l} : loop'[m] = loop[m]
    BY <1>5 DEF Select, Return, Tick, Scan, LoopBack, Turn
  <2> QED
    BY <2>1, <2>2 DEF storeVars
<1>6. ASSUME NEW l \in Loop, Finish(l) PROVE ExecInv'
  <2>1. loop'[l].pc # "work" /\ \A m \in Loop \ {l} : loop'[m] = loop[m]
    BY <1>6 DEF Finish, Turn, LoopType
  <2>2. /\ added' = added
        /\ \A j \in Job : status'[j] = "pending" => status[j] = "pending"
    BY <1>6 DEF Finish, Outcome
  <2> QED
    BY <2>1, <2>2
<1>7. ASSUME NEW l \in Loop, NEW j \in Job, Claim(l, j) PROVE ExecInv'
  <2>1. /\ added' = added
        /\ \A m \in Loop \ {l} : loop'[m] = loop[m]
    BY <1>7 DEF Claim, Turn
  <2>2. CASE status[j] = "pending"
    <3>1. /\ status' = [status EXCEPT ![j] = "running"]
          /\ loop'[l].pc = "work" /\ loop'[l].job = j /\ loop'[l].nth = added[j]
      <4>1. /\ status' = [status EXCEPT ![j] = "running"]
            /\ loop' = [loop EXCEPT ![l] = [loop[l] EXCEPT
                  !.pc = "work", !.todo = @ \ {j}, !.job = j, !.nth = added[j]]]
        BY <1>7, <2>2 DEF Claim, Turn
      <4>2. loop[l] \in LoopType
        OBVIOUS
      <4> QED
        BY <4>1, <4>2 DEF LoopType
    <3>2. \A m \in Loop : loop[m].pc = "work" /\ loop[m].job = j => loop[m].nth # added[j]
      BY <2>2
    <3> QED
      BY <2>1, <3>1, <3>2, <2>2
  <2>3. CASE status[j] # "pending"
    <3>1. status' = status /\ loop'[l].pc # "work"
      BY <1>7, <2>3 DEF Claim, Turn, LoopType
    <3> QED
      BY <2>1, <3>1
  <2> QED
    BY <2>2, <2>3
<1>8. CASE Stop
  BY <1>8 DEF Stop, storeVars
<1>9. CASE UNCHANGED vars
  BY <1>9 DEF vars
<1> QED
  BY <1>1, <1>2, <1>3, <1>4, <1>5, <1>6, <1>7, <1>8, <1>9 DEF Next, LoopStep

\* claim lets one loop in: the loops that Stop and Start leave behind never
\* execute the same job together.
THEOREM JobsExecutedOnce == Spec => []ExecutedOnce
<1>1. Init => ExecInv
  BY DEF Init, ExecInv, ClaimedNotPending, ExecutedOnce, IdleLoop
<1>2. TypeOK /\ ExecInv /\ [Next]_vars => ExecInv'
  BY ExecInvStep
<1>3. ExecInv => ExecutedOnce
  BY DEF ExecInv
<1> QED
  BY <1>1, <1>2, <1>3, SchedulerTypeCorrect, PTL DEF Spec

-----------------------------------------------------------------------------

\* A cancelled job stays cancelled until it is deleted or added anew, whatever
\* claim and finish do meanwhile.
THEOREM CancelledStays == Spec => CancelSticks
<1> DEFINE Sticks == \A j \in Job : status[j] = "cancelled" =>
                         \/ status'[j] \in {"cancelled", "none"}
                         \/ added'[j] = added[j] + 1
<1>1. TypeOK /\ [Next]_vars => [Sticks]_vars
  <2> SUFFICES ASSUME TypeOK, Next, NEW j \in Job, status[j] = "cancelled"
               PROVE  \/ status'[j] \in {"cancelled", "none"}
                      \/ added'[j] = added[j] + 1
    OBVIOUS
  <2> USE DEF TypeOK
  <2>1. ASSUME NEW k \in Job, Add(k) \/ Cancel(k) \/ Delete(k) \/ ComesDue(k)
        PROVE  \/ status'[j] \in {"cancelled", "none"}
               \/ added'[j] = added[j] + 1
    BY <2>1 DEF Add, Cancel, Delete, ComesDue
  <2>2. ASSUME NEW l \in Loop, Finish(l) PROVE status'[j] = "cancelled"
    BY <2>2 DEF Finish
  <2>3. ASSUME NEW l \in Loop, NEW k \in Job, Claim(l, k) PROVE status'[j] = "cancelled"
    BY <2>3 DEF Claim
  <2>4. ASSUME NEW l \in Loop,
               \/ Start(l) \/ CancelContext(l) \/ Return(l)
               \/ Select(l) \/ Tick(l) \/ Scan(l) \/ LoopBack(l)
        PROVE  status'[j] = "cancelled"
    BY <2>4 DEF Start, CancelContext, Return, Select, Tick, Scan, LoopBack, storeVars
  <2>5. Stop => status'[j] = "cancelled"
    BY DEF Stop, storeVars
  <2> QED
    BY <2>1, <2>2, <2>3, <2>4, <2>5 DEF Next, LoopStep
<1> QED
  BY <1>1, SchedulerTypeCorrect, PTL DEF Spec, CancelSticks

-----------------------------------------------------------------------------

\* Loops that were not at work before a step, and the store's other jobs, do not
\* matter for the job that is marked as running.
LEMMA RunningStep == ASSUME TypeOK, RunningIsRun, [Next]_vars PROVE RunningIsRun'
<1> USE DEF TypeOK
<1> SUFFICES ASSUME NEW j \in Job, status'[j] = "running"
             PROVE  \E l \in Loop : /\ loop'[l].pc = "work" /\ loop'[l].job = j
                                    /\ loop'[l].nth = added'[j]
  BY DEF RunningIsRun
<1>1. ASSUME status[j] = "running", added'[j] = added[j],
             \A l \in Loop : loop[l].pc = "work" /\ loop[l].job = j => loop'[l] = loop[l]
      PROVE  \E l \in Loop : /\ loop'[l].pc = "work" /\ loop'[l].job = j
                             /\ loop'[l].nth = added'[j]
  BY <1>1 DEF RunningIsRun
<1>2. ASSUME NEW k \in Job, Add(k) \/ Cancel(k) \/ Delete(k) \/ ComesDue(k)
      PROVE  status[j] = "running" /\ added'[j] = added[j] /\ loop' = loop
  BY <1>2 DEF Add, Cancel, Delete, ComesDue, Calm
<1>3. ASSUME NEW l \in Loop,
             \/ Start(l) \/ CancelContext(l) \/ Return(l)
             \/ Select(l) \/ Tick(l) \/ Scan(l) \/ LoopBack(l)
      PROVE  /\ status[j] = "running" /\ added'[j] = added[j]
             /\ \A m \in Loop : loop[m].pc = "work" => loop'[m] = loop[m]
  <2>1. UNCHANGED storeVars
    BY <1>3 DEF Start, CancelContext, Return, Select, Tick, Scan, LoopBack
  <2>2. loop' = loop \/ (loop[l].pc # "work" /\ \A m \in Loop \ {l} : loop'[m] = loop[m])
    BY <1>3 DEF Start, CancelContext, Return, Select, Tick, Scan, LoopBack, Turn
  <2> QED
    BY <2>1, <2>2 DEF storeVars
<1>4. ASSUME NEW l \in Loop, Finish(l)
      PROVE  /\ status[j] = "running" /\ added'[j] = added[j]
             /\ \A m \in Loop : loop[m].pc = "work" /\ loop[m].job = j => loop'[m] = loop[m]
  <2>1. /\ status' = [status EXCEPT ![loop[l].job] = IF @ = "running" THEN Outcome ELSE @]
        /\ Outcome = "failed" /\ added' = added
        /\ \A m \in Loop \ {l} : loop'[m] = loop[m]
    BY <1>4 DEF Finish, Turn, Outcome, Succeeds
  <2>2. status[j] = "running" /\ loop[l].job # j
    BY <2>1
  <2> QED
    BY <2>1, <2>2
<1>5. ASSUME NEW l \in Loop, NEW k \in Job, Claim(l, k)
      PROVE  \E m \in Loop : /\ loop'[m].pc = "work" /\ loop'[m].job = j
                             /\ loop'[m].nth = added'[j]
  <2>1. /\ added' = added /\ loop[l].pc = "exec"
        /\ \A m \in Loop \ {l} : loop'[m] = loop[m]
    BY <1>5 DEF Claim, Turn
  <2>2. CASE status[j] = "running"
    BY <1>1, <2>1, <2>2
  <2>3. CASE status[j] # "running"
    <3>1. /\ k = j
          /\ loop' = [loop EXCEPT ![l] = [loop[l] EXCEPT
                !.pc = "work", !.todo = @ \ {k}, !.job = k, !.nth = added[k]]]
      BY <1>5, <2>3 DEF Claim, Turn
    <3>2. loop[l] \in LoopType
      OBVIOUS
    <3> QED
      BY <2>1, <3>1, <3>2 DEF LoopType
  <2> QED
    BY <2>2, <2>3
<1>6. CASE Stop \/ UNCHANGED vars
  BY <1>1, <1>6 DEF Stop, storeVars, vars
<1> QED
  BY <1>1, <1>2, <1>3, <1>4, <1>5, <1>6 DEF Next, LoopStep

\* finish goes by the id of the job, and still gives no outcome to a job that no
\* loop runs, whatever is cancelled, deleted and added anew meanwhile.
THEOREM OutcomesOfRuns == Spec => OutcomeOfItsRun
<1> DEFINE Step == \A j \in Job : status'[j] # status[j] /\ status'[j] \in {"completed", "failed"} =>
                      \E l \in Loop : loop[l].pc = "work" /\ loop[l].job = j /\ loop[l].nth = added[j]
<1>1. Init => RunningIsRun
  BY DEF Init, RunningIsRun
<1>2. TypeOK /\ RunningIsRun /\ [Next]_vars => RunningIsRun'
  BY RunningStep
<1>3. TypeOK /\ RunningIsRun /\ [Next]_vars => [Step]_vars
  <2> SUFFICES ASSUME TypeOK, RunningIsRun, Next, NEW j \in Job,
                      status'[j] # status[j], status'[j] \in {"completed", "failed"}
               PROVE  status[j] = "running"
    BY DEF RunningIsRun
  <2> USE DEF TypeOK
  <2>1. ASSUME NEW k \in Job PROVE ~ (Add(k) \/ Cancel(k) \/ Delete(k) \/ ComesDue(k))
    BY DEF Add, Cancel, Delete, ComesDue
  <2>2. ASSUME NEW l \in Loop, Finish(l) PROVE status[j] = "running"
    BY <2>2 DEF Finish
  <2>3. ASSUME NEW l \in Loop, NEW k \in Job PROVE ~ Claim(l, k)
    BY DEF Claim
  <2>4. ASSUME NEW l \in Loop
        PROVE  ~ (\/ Start(l) \/ CancelContext(l) \/ Return(l)
                  \/ Select(l) \/ Tick(l) \/ Scan(l) \/ LoopBack(l))
    BY DEF Start, CancelContext, Return, Select, Tick, Scan, LoopBack, storeVars
  <2>5. ~ Stop
    BY DEF Stop, storeVars
  <2> QED
    BY <2>1, <2>2, <2>3, <2>4, <2>5 DEF Next, LoopStep
<1> QED
  BY <1>1, <1>2, <1>3, SchedulerTypeCorrect, PTL DEF Spec, OutcomeOfItsRun
=============================================================================
