------------------------------ MODULE Worklog ------------------------------
(***************************************************************************)
(* The jira-worklog connector's writes, internal/server/jira_worklog.go:   *)
(* worklogs in Tempo, and the activity map in a file of one workspace.     *)
(*                                                                         *)
(* A call reads from Jira and Tempo, and then writes to Tempo with one     *)
(* request that may arrive after the gateway has given up on it; people    *)
(* change worklogs in Tempo meanwhile.  The map is read and replaced, by a *)
(* temporary file and a rename, under a mutex of the process.  Nothing     *)
(* happens to Jira's issues, and the calls that only read them change      *)
(* nothing: several of them are one step.  A worklog's start time and      *)
(* attributes are carried over as its description is, which stands for     *)
(* the three.                                                              *)
(***************************************************************************)
EXTENDS Naturals

CONSTANTS
    Request,    \* calls of the connector, numbered in the order they come in
    Want,       \* bound: what a call may ask for
    Id,         \* numbers of worklogs, given in ascending order by Tempo
    Key,        \* issues
    Scoped,     \* issues whose project is in the workspace's jira_projects
    Activity,   \* names of activities
    Day, Time, Text,    \* bounds: dates, seconds and descriptions of a worklog
    Me, Other,  \* accounts; the gateway's is Me
    InitTempo,  \* the worklogs at first
    InitActs,   \* the activity map that an earlier run has left
    MaxEvent,   \* bound: calls, reports, changes made in Tempo and crashes
    Nil,        \* a parameter not given; no worklog; no file
    Torn        \* a file cut short

Account == {Me, Other}

\* bill is billableSeconds.
Entry == [issue : Key, author : Account, day : Day, time : Time,
          bill : Time \cup {0}, text : Text]

WantType == [op   : {"add", "update", "delete", "activity_set", "activity_remove"},
             key  : Key \cup {Nil},
             act  : Activity \cup {Nil},
             id   : Id \cup {Nil},
             day  : Day \cup {Nil},
             time : Time \cup {Nil},
             text : Text \cup {Nil}]

ASSUME WorklogAssumption ==
    /\ Request \subseteq Nat
    /\ Id \subseteq Nat
    /\ Scoped \subseteq Key
    /\ Time \subseteq Nat \ {0}
    /\ Me # Other
    /\ Want \subseteq WantType
    \* An add that gives no date or comment is one of today without a description.
    /\ \A w \in Want : w.op = "add" => w.day # Nil /\ w.text # Nil
    /\ InitTempo \in [Id -> Entry \cup {Nil}]
    /\ InitActs \in [Activity -> Key \cup {Nil}]
    /\ MaxEvent \in Nat
    /\ Nil \notin Key /\ Nil \notin Activity /\ Nil \notin Id /\ Nil \notin Day
    /\ Nil \notin Time /\ Nil \notin Text /\ Nil \notin Entry /\ Nil \notin Request
    /\ \A m \in {Nil, Torn} : m \notin [Activity -> Key \cup {Nil}]
    /\ Torn # Nil

VARIABLES
    tempo,      \* the worklogs, Nil where there is none
    used,       \* ids that Tempo has given out
    acts,       \* the file of the activity map: the map, or Torn
    tmp,        \* its temporary file: Nil, Torn or a map
    mutex,      \* who holds worklogActivitiesMu
    call,       \* the calls
    flight,     \* each call's write on its way to Tempo
    events,     \* how many of them there were
    ledger,     \* history: the worklogs, had every change been made at once
    raced,      \* history: worklogs that changed between a call's read and write
    applied     \* history: how often a call's write took effect

worklogVars == <<tempo, used, acts, tmp, mutex, call, flight, events, ledger, raced, applied>>

ActMap == [Activity -> Key \cup {Nil}]

NoWant == [op |-> "delete", key |-> Nil, act |-> Nil, id |-> Nil,
           day |-> Nil, time |-> Nil, text |-> Nil]

IdleCall == [pc |-> "idle", want |-> NoWant, key |-> Nil, base |-> Nil, new |-> Nil, map |-> Nil]

CallType == [pc   : {"idle", "begin", "check", "ask", "ready", "sent", "lock", "load",
                     "write", "rename", "ok", "refused", "failed", "gone"},
             want : Want \cup {NoWant},
             key  : Key \cup {Nil},         \* the issue the call is about
             base : Entry \cup {Nil},       \* the worklog as it was read
             new  : Entry \cup {Nil},       \* what is written
             map  : ActMap \cup {Nil}]      \* the map to be saved

WorklogTypeOK ==
    /\ tempo \in [Id -> Entry \cup {Nil}]
    /\ used \subseteq Id
    /\ acts \in ActMap \cup {Torn}
    /\ tmp \in ActMap \cup {Torn, Nil}
    /\ mutex \in Request \cup {Nil}
    /\ call \in [Request -> CallType]
    /\ flight \in [Request -> {"none", "sent", "done", "rejected"}]
    /\ events \in 0..MaxEvent
    /\ ledger \in [Id -> Entry \cup {Nil}]
    /\ raced \subseteq Id
    /\ applied \in [Request -> 0..1]

WorklogInit ==
    /\ tempo = InitTempo
    /\ used = {i \in Id : InitTempo[i] # Nil}
    /\ acts = InitActs
    /\ tmp = Nil
    /\ mutex = Nil
    /\ call = [r \in Request |-> IdleCall]
    /\ flight = [r \in Request |-> "none"]
    /\ events = 0
    /\ ledger = InitTempo
    /\ raced = {}
    /\ applied = [r \in Request |-> 0]

outside == <<tempo, used, flight, ledger, raced, applied>>
files   == <<acts, tmp, mutex>>

\* Something begins that the bound counts.
Event == events < MaxEvent /\ events' = events + 1

At(r, pc)    == call[r].pc = pc
Goto(r, pc)  == call' = [call EXCEPT ![r].pc = pc]
Given(v)     == v # Nil
Or(v, deflt) == IF v = Nil THEN deflt ELSE v

Ended(r) == call[r].pc \in {"ok", "refused", "failed", "gone"}

-----------------------------------------------------------------------------
(* The calls.                                                              *)

\* An add names its issue, or an activity that is looked up; with both it has
\* no issue, and is refused.
Arrive(r, w) ==
    LET named == w.op = "add" /\ Given(w.act) IN
    /\ At(r, "idle")
    /\ \A q \in Request : q < r => ~At(q, "idle")
    /\ call' = [call EXCEPT ![r].pc = IF named /\ ~Given(w.key) THEN "begin" ELSE "check",
                            ![r].want = w,
                            ![r].key = IF named THEN Nil ELSE w.key]
    /\ Event
    /\ UNCHANGED <<outside, files>>

\* readWorklogActivities, under the lock writers hold, and the look-up of the
\* activity.
ReadActivity(r) ==
    /\ At(r, "begin")
    /\ mutex = Nil
    /\ LET key == IF acts = Torn THEN Nil ELSE acts[call[r].want.act]
       IN  call' = [call EXCEPT ![r].key = key,
                                ![r].pc = IF Given(key) THEN "check" ELSE "refused"]
    /\ UNCHANGED <<outside, files, events>>

\* scopedIssueKey: the issue's project is one of the workspace's.
ScopedIssueKey(r) == call[r].key \in Scoped

\* That, and the checks of the other parameters: hours, worklog_id.
Allowed(r) ==
    LET w == call[r].want IN
    /\ ScopedIssueKey(r) \/ w.op = "activity_remove"
    /\ w.op = "add" => Given(w.time)
    /\ w.op \in {"update", "delete"} => Given(w.id)

Check(r) ==
    /\ At(r, "check")
    /\ Goto(r, IF ~Allowed(r) THEN "refused"
               ELSE IF call[r].want.op = "activity_remove" THEN "lock" ELSE "ask")
    /\ UNCHANGED <<outside, files, events>>

\* A call to Jira or Tempo that reads is answered with an error, or not at all.
AskFails(r) ==
    /\ At(r, "ask")
    /\ Goto(r, "failed")
    /\ UNCHANGED <<outside, files, events>>

AskForSet(r) ==
    /\ At(r, "ask")
    /\ call[r].want.op = "activity_set"
    /\ Goto(r, "lock")
    /\ UNCHANGED <<outside, files, events>>

\* The date and the description are today and empty where they are not given.
NewEntry(r) ==
    LET w == call[r].want IN
    [issue |-> call[r].key, author |-> Me, day |-> w.day, time |-> w.time,
     bill |-> w.time, text |-> w.text]

\* addWorklog learns the issue's id and the caller's account.
AskForAdd(r) ==
    /\ At(r, "ask")
    /\ call[r].want.op = "add"
    /\ call' = [call EXCEPT ![r].pc = "ready", ![r].new = NewEntry(r)]
    /\ UNCHANGED <<outside, files, events>>

\* Mutant: the billable time stays what it was.
RewrittenBillable(old, w) ==
    [old EXCEPT !.day = Or(w.day, @), !.time = Or(w.time, @), !.text = Or(w.text, @)]

\* What an update makes of a worklog: what the call gives, and the rest as it
\* was; the billable time follows the time if it was all of it.
Rewritten(old, w) ==
    LET time == Or(w.time, old.time) IN
    [old EXCEPT !.day = Or(w.day, @), !.time = time,
                !.bill = IF @ = old.time THEN time ELSE @,
                !.text = Or(w.text, @)]

NothingToChange(w) == w.op = "update" /\ ~(Given(w.day) \/ Given(w.time) \/ Given(w.text))

\* Mutant: whose worklog it is is not looked at.
OwnOfAnyone(r, old) == old.issue = call[r].key

Own(r, old) == old.issue = call[r].key /\ old.author = Me

\* ownWorklog: the worklog is fetched, and refused unless it is the caller's
\* and on the issue the call names.
FetchOwn(r) ==
    /\ At(r, "ask")
    /\ call[r].want.op \in {"update", "delete"}
    /\ LET w == call[r].want
           old == tempo[w.id]
       IN  call' = [call EXCEPT
             ![r].pc   = IF old = Nil THEN "failed"
                         ELSE IF ~Own(r, old) \/ NothingToChange(w) THEN "refused" ELSE "ready",
             ![r].base = old,
             ![r].new  = IF old # Nil /\ w.op = "update" THEN Rewritten(old, w) ELSE Nil]
    /\ UNCHANGED <<outside, files, events>>

\* The POST, PUT or DELETE is sent, and waited for.
Send(r) ==
    /\ At(r, "ready")
    /\ Goto(r, "sent")
    /\ flight' = [flight EXCEPT ![r] = "sent"]
    /\ UNCHANGED <<tempo, used, ledger, raced, applied, files, events>>

\* Mutant: the status of the answer is not looked at.
AnswerAnyStatus(r) ==
    /\ At(r, "sent")
    /\ flight[r] \in {"done", "rejected"}
    /\ Goto(r, "ok")
    /\ UNCHANGED <<outside, files, events>>

\* The answer comes: the worklog was written, or Tempo refused.
Answer(r) ==
    /\ At(r, "sent")
    /\ flight[r] \in {"done", "rejected"}
    /\ Goto(r, IF flight[r] = "done" THEN "ok" ELSE "failed")
    /\ UNCHANGED <<outside, files, events>>

\* The answer is lost, or too late; the write may still be on its way.
GiveUp(r) ==
    /\ At(r, "sent")
    /\ Goto(r, "failed")
    /\ UNCHANGED <<outside, files, events>>

-----------------------------------------------------------------------------
(* Tempo.                                                                  *)

Landed(r, outcome, n) ==
    /\ flight' = [flight EXCEPT ![r] = outcome]
    /\ applied' = [applied EXCEPT ![r] = @ + n]
    /\ UNCHANGED <<call, files, events>>

ApplyAdd(r) ==
    /\ flight[r] = "sent"
    /\ call[r].want.op = "add"
    /\ \E i \in Id :
           /\ \A j \in used : j < i
           /\ used' = used \cup {i}
           /\ tempo' = [tempo EXCEPT ![i] = call[r].new]
           /\ ledger' = [ledger EXCEPT ![i] = call[r].new]
    /\ Landed(r, "done", 1)
    /\ UNCHANGED raced

\* What the caller of an update means, of the worklog as it is then.
Meant(e, w) ==
    [f \in DOMAIN e |->
        IF f \in {"day", "time", "text"} /\ Given(w[f]) THEN w[f]
        ELSE IF f = "bill" /\ e.bill = e.time /\ Given(w.time) THEN w.time
        ELSE e[f]]

\* A PUT replaces every field but the issue.
ApplyUpdate(r) ==
    LET i == call[r].want.id IN
    /\ flight[r] = "sent"
    /\ call[r].want.op = "update"
    /\ tempo[i] # Nil
    /\ tempo' = [tempo EXCEPT ![i] = [call[r].new EXCEPT !.issue = tempo[i].issue]]
    /\ ledger' = [ledger EXCEPT ![i] = Meant(@, call[r].want)]
    /\ raced' = IF tempo[i] = call[r].base THEN raced ELSE raced \cup {i}
    /\ Landed(r, "done", 1)
    /\ UNCHANGED used

ApplyDelete(r) ==
    LET i == call[r].want.id IN
    /\ flight[r] = "sent"
    /\ call[r].want.op = "delete"
    /\ tempo[i] # Nil
    /\ tempo' = [tempo EXCEPT ![i] = Nil]
    /\ ledger' = [ledger EXCEPT ![i] = Nil]
    /\ raced' = IF tempo[i] = call[r].base THEN raced ELSE raced \cup {i}
    /\ Landed(r, "done", 1)
    /\ UNCHANGED used

\* The request is refused, or never gets there.
Reject(r) ==
    /\ flight[r] = "sent"
    /\ Landed(r, "rejected", 0)
    /\ UNCHANGED <<tempo, used, ledger, raced>>

\* What a change of one worklog means for its line in the ledger.
Changed(line, was, e) ==
    IF e = Nil THEN Nil
    ELSE [line EXCEPT !.text = IF e.text # was.text THEN e.text ELSE @, !.issue = e.issue]

\* Someone changes a worklog in Tempo, moves it to another issue or deletes it.
Edit(i) ==
    /\ Event
    /\ tempo[i] # Nil
    /\ \E e \in {[tempo[i] EXCEPT !.text = x] : x \in Text}
                  \cup {[tempo[i] EXCEPT !.issue = k] : k \in Key} \cup {Nil} :
           /\ e # tempo[i]
           /\ tempo' = [tempo EXCEPT ![i] = e]
           /\ ledger' = [ledger EXCEPT ![i] = Changed(@, tempo[i], e)]
    /\ UNCHANGED <<used, flight, raced, applied, call, files>>

-----------------------------------------------------------------------------
(* The activity map: setActivity and removeActivity.                       *)

\* Mutant: the mutex is not waited for.
LockMapAtOnce(r) ==
    /\ At(r, "lock")
    /\ mutex' = r
    /\ Goto(r, "load")
    /\ UNCHANGED <<outside, acts, tmp, events>>

LockMap(r) ==
    /\ At(r, "lock")
    /\ mutex = Nil
    /\ mutex' = r
    /\ Goto(r, "load")
    /\ UNCHANGED <<outside, acts, tmp, events>>

Unlock == mutex' = Nil

\* loadWorklogActivities; a file that is not JSON is an error, and so is the
\* removal of what is not there.  Otherwise the writing of the temporary file
\* begins, which empties it.
LoadMap(r) ==
    LET w == call[r].want
        missing == acts = Torn \/ (w.op = "activity_remove" /\ acts[w.act] = Nil)
    IN
    /\ At(r, "load")
    /\ \/ /\ missing
          /\ Goto(r, "failed")
          /\ Unlock
          /\ UNCHANGED tmp
       \/ /\ ~missing
          /\ call' = [call EXCEPT ![r].pc = "write",
                                  ![r].map = [acts EXCEPT ![w.act] =
                                     IF w.op = "activity_set" THEN w.key ELSE Nil]]
          /\ tmp' = Torn
          /\ UNCHANGED mutex
    /\ UNCHANGED <<outside, acts, events>>

WriteMap(r) ==
    /\ At(r, "write")
    /\ tmp' = call[r].map
    /\ Goto(r, "rename")
    /\ UNCHANGED <<outside, acts, mutex, events>>

RenameMap(r) ==
    /\ At(r, "rename")
    /\ acts' = tmp
    /\ tmp' = Nil
    /\ Goto(r, "ok")
    /\ Unlock
    /\ UNCHANGED <<outside, events>>

\* Mutant: the lock is kept when the map cannot be saved.
SaveFailsKeepsLock(r) ==
    /\ call[r].pc \in {"write", "rename"}
    /\ Goto(r, "failed")
    /\ UNCHANGED <<outside, files, events>>

\* The temporary file cannot be written, or not be renamed.
SaveFails(r) ==
    /\ call[r].pc \in {"write", "rename"}
    /\ Goto(r, "failed")
    /\ Unlock
    /\ UNCHANGED <<outside, acts, tmp, events>>

\* The gateway dies, and is started again: what was sent to Tempo goes on.
Crash ==
    /\ Event
    /\ call' = [r \in Request |-> IF At(r, "idle") \/ Ended(r) THEN call[r]
                                  ELSE [call[r] EXCEPT !.pc = "gone"]]
    /\ Unlock
    /\ UNCHANGED <<outside, acts, tmp>>

-----------------------------------------------------------------------------

Step(r) ==
    \/ ReadActivity(r) \/ Check(r) \/ AskFails(r) \/ AskForSet(r) \/ AskForAdd(r) \/ FetchOwn(r)
    \/ Send(r) \/ Answer(r) \/ GiveUp(r)
    \/ LockMap(r) \/ LoadMap(r) \/ WriteMap(r) \/ RenameMap(r) \/ SaveFails(r)

Land(r) == ApplyAdd(r) \/ ApplyUpdate(r) \/ ApplyDelete(r) \/ Reject(r)

WorklogNext ==
    \/ \E r \in Request : Step(r) \/ Land(r) \/ \E w \in Want : Arrive(r, w)
    \/ \E i \in Id : Edit(i)
    \/ Crash

\* Every call goes on: what waits for Tempo has a time limit, and the mutex is
\* given to whoever waits for it.
WorklogFairness ==
    \A r \in Request :
        /\ WF_worklogVars(Step(r))
        /\ SF_worklogVars(LockMap(r) \/ ReadActivity(r))

-----------------------------------------------------------------------------

\* A worklog that no call has read before and written after another change is
\* what every change made at once would have made of it: what an update does
\* not give it leaves alone, with the billable time following, and a lost
\* change is always a worklog that changed between ownWorklog and the PUT.
LostOnlyByRace == \A i \in Id \ raced : tempo[i] = ledger[i]

\* A worklog that the gateway's write creates, changes or deletes is the
\* caller's own, and on an issue of the workspace's projects, whatever the
\* activity map says, unless it was moved after it was read.
WritesOwnScoped ==
    [][\A r \in Request : applied'[r] # applied[r] =>
          \A i \in Id : tempo'[i] # tempo[i] =>
              LET e == IF tempo[i] = Nil THEN tempo'[i] ELSE tempo[i] IN
              /\ e.author = Me
              /\ e.issue \in Scoped \/ (call[r].base # Nil /\ e.issue # call[r].base.issue)]_worklogVars

\* A call that is answered has done what the answer says: created, updated and
\* deleted after one write, refused without any, also later.
AnswerTrue ==
    \A r \in Request :
        /\ At(r, "ok") /\ call[r].want.op \in {"add", "update", "delete"} => applied[r] = 1
        /\ At(r, "refused") => flight[r] = "none"

\* A change of the map is the change of one name, made by the holder of the
\* mutex to what the map is then: two calls lose nothing, and whichever step of
\* a save fails, and whenever the gateway dies, the file holds a whole map.
MapChangesByOne ==
    [][acts' # acts => \E r \in Request :
          /\ mutex = r
          /\ acts' = [acts EXCEPT ![call[r].want.act] =
                         IF call[r].want.op = "activity_set" THEN call[r].want.key ELSE Nil]]_worklogVars

\* Every call is answered, unless the gateway dies: no step that fails keeps
\* the mutex.
AllAnswered == \A r \in Request : ~At(r, "idle") ~> Ended(r)

-----------------------------------------------------------------------------
(* What makes them inductive.                                              *)

\* What is ready to be written, or on its way to Tempo: an add is the caller's
\* and in scope, and so was the worklog that an update or a delete is about.
Prepared(r) ==
    LET c == call[r] IN
    \/ c.want.op = "add" /\ c.new = NewEntry(r) /\ c.new \in Entry /\ c.key \in Scoped
    \/ /\ c.want.op \in {"update", "delete"}
       /\ c.want.id \in used
       /\ c.base \in Entry /\ c.base.author = Me /\ c.base.issue \in Scoped
       /\ tempo[c.want.id] # Nil => tempo[c.want.id].author = Me
       /\ c.want.op = "update" => c.new = Rewritten(c.base, c.want)

CallOk(r) ==
    LET c == call[r] IN
    /\ c.pc # "idle" => c.want \in Want
    /\ c.pc = "begin" => c.want.op = "add" /\ Given(c.want.act)
    /\ c.pc = "ask" => Allowed(r) /\ c.want.op # "activity_remove"
    /\ c.pc \in {"lock", "load", "write", "rename"} => c.want.op \in {"activity_set", "activity_remove"}
    /\ c.pc = "ready" \/ flight[r] = "sent" => Prepared(r)
    /\ flight[r] # "none" => c.pc \in {"sent", "ok", "failed", "gone"}
    /\ c.pc = "ok" /\ c.want.op \in {"add", "update", "delete"} => flight[r] = "done"
    /\ applied[r] = IF flight[r] = "done" THEN 1 ELSE 0

\* Ids are not given out twice, and the ledger has the same worklogs.
IdsKnown == \A i \in Id : (tempo[i] # Nil => i \in used) /\ (tempo[i] = Nil <=> ledger[i] = Nil)

\* The map and its temporary file belong to the holder of the mutex.
MapHeld ==
    /\ acts # Torn
    /\ \A r \in Request :
          /\ call[r].pc \in {"load", "write", "rename"} => mutex = r
          /\ call[r].pc \in {"write", "rename"} =>
                call[r].map = [acts EXCEPT ![call[r].want.act] =
                                  IF call[r].want.op = "activity_set" THEN call[r].want.key ELSE Nil]
          /\ call[r].pc = "rename" => tmp = call[r].map

WorklogInv == WorklogTypeOK /\ IdsKnown /\ MapHeld /\ LostOnlyByRace /\ \A r \in Request : CallOk(r)
=============================================================================
