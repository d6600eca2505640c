--------------------------- MODULE Worklog_proofs ---------------------------
(***************************************************************************)
(* Proofs about the writes of module Worklog and the reports of module     *)
(* WorklogReport, for any number of calls, worklogs, crashes, changes made *)
(* in Tempo and sizes of a page.                                           *)
(*                                                                         *)
(* One inductive invariant, WorklogInv, carries the writes.  Most steps    *)
(* change one call and nothing else, which OneCall deals with; what Tempo  *)
(* does to a worklog and what a call does to the map is done step by step. *)
(* The reports have an invariant of their own, ReportInv, which compares   *)
(* how much was read with how many worklogs are listed up to there.        *)
(*                                                                         *)
(* SumsAgree needs no invariant but facts about what a report computes:    *)
(* the calendar, the holidays of a year, and that numbers add up to the    *)
(* same in whatever order and in whatever groups.                          *)
(***************************************************************************)
EXTENDS WorklogReport, FiniteSetTheorems, SequenceTheorems, WellFoundedInduction, TLAPS

USE WorklogAssumption

LEMMA CallTypes ==
    ASSUME NEW c \in CallType,
           NEW pc \in {"idle", "begin", "check", "ask", "ready", "sent", "lock", "load",
                       "write", "rename", "ok", "refused", "failed", "gone"}
    PROVE  [c EXCEPT !.pc = pc] \in CallType
BY DEF CallType

LEMMA WantTypes == \A w \in Want \cup {NoWant} : w \in WantType
BY DEF WantType, NoWant

-----------------------------------------------------------------------------
(* Worklogs.                                                               *)

\* An update keeps a worklog one, its author and its issue.
LEMMA RewrittenType ==
    ASSUME NEW old \in Entry, NEW w \in WantType
    PROVE  /\ Rewritten(old, w) \in Entry
           /\ Rewritten(old, w).author = old.author
           /\ Rewritten(old, w).issue = old.issue
<1> DEFINE time == Or(w.time, old.time)
           bill == IF old.bill = old.time THEN time ELSE old.bill
<1>1. Rewritten(old, w) = [old EXCEPT !.day = Or(w.day, old.day), !.time = time,
                                      !.bill = bill, !.text = Or(w.text, old.text)]
  BY DEF Rewritten, Entry
<1>2. /\ Or(w.day, old.day) \in Day /\ time \in Time /\ bill \in Time \cup {0}
      /\ Or(w.text, old.text) \in Text
  BY DEF Or, WantType, Entry
<1> HIDE DEF time, bill
<1> QED
  BY <1>1, <1>2 DEF Entry

\* What is written over a worklog is what the caller means, if the worklog is
\* still what it was when it was read.
LEMMA MeantRewritten ==
    ASSUME NEW old \in Entry, NEW w \in WantType
    PROVE  Meant(old, w) = Rewritten(old, w)
<1> DEFINE field == {"issue", "author", "day", "time", "bill", "text"}
           new   == Rewritten(old, w)
<1>1. DOMAIN old = field
  BY DEF Entry
<1>2. new \in Entry /\ DOMAIN new = field /\ new = [f \in field |-> new[f]]
  BY RewrittenType DEF Entry
<1>3. Meant(old, w) = [f \in field |-> Meant(old, w)[f]]
  BY <1>1 DEF Meant
<1>4. /\ Meant(old, w)["issue"] = old.issue /\ Meant(old, w)["author"] = old.author
      /\ Meant(old, w)["day"] = Or(w.day, old.day)
      /\ Meant(old, w)["time"] = Or(w.time, old.time)
      /\ Meant(old, w)["bill"] = IF old.bill = old.time THEN Or(w.time, old.time) ELSE old.bill
      /\ Meant(old, w)["text"] = Or(w.text, old.text)
  BY <1>1 DEF Meant, Or, Given
<1>5. /\ new["issue"] = old.issue /\ new["author"] = old.author
      /\ new["day"] = Or(w.day, old.day)
      /\ new["time"] = Or(w.time, old.time)
      /\ new["bill"] = IF old.bill = old.time THEN Or(w.time, old.time) ELSE old.bill
      /\ new["text"] = Or(w.text, old.text)
  BY DEF Rewritten, Entry
<1>6. \A f \in field : Meant(old, w)[f] = new[f]
  BY <1>4, <1>5
<1> QED
  BY <1>2, <1>3, <1>6

LEMMA MeantType ==
    ASSUME NEW e \in Entry, NEW w \in WantType PROVE Meant(e, w) \in Entry
BY MeantRewritten, RewrittenType

-----------------------------------------------------------------------------
(* Steps of one call.                                                      *)

\* A step that changes one call, and neither the worklogs nor the map.
LEMMA OneCall ==
    ASSUME WorklogInv, NEW r \in Request, NEW c \in CallType,
           call' = [call EXCEPT ![r] = c], CallOk(r)',
           c.pc \notin {"load", "write", "rename"},
           UNCHANGED <<outside, files>>, events' \in 0..MaxEvent
    PROVE  WorklogInv'
<1> USE DEF WorklogInv, outside, files
<1>1. WorklogTypeOK'
  BY DEF WorklogTypeOK
<1>2. call'[r] = c /\ \A q \in Request \ {r} : call'[q] = call[q]
  BY DEF WorklogTypeOK
<1>3. IdsKnown' /\ LostOnlyByRace'
  BY DEF IdsKnown, LostOnlyByRace
<1>4. MapHeld'
  BY <1>2 DEF MapHeld
<1>5. ASSUME NEW q \in Request \ {r} PROVE CallOk(q)'
  BY <1>2 DEF CallOk, Prepared, NewEntry, Allowed, ScopedIssueKey
<1> QED
  BY <1>1, <1>3, <1>4, <1>5

LEMMA CallFacts ==
    ASSUME WorklogInv, NEW r \in Request
    PROVE  /\ call[r] \in CallType /\ call[r].want \in WantType
           /\ CallOk(r) /\ events \in 0..MaxEvent
           /\ flight[r] \in {"none", "sent", "done", "rejected"}
           /\ acts \in ActMap
           /\ \A d : call' = [call EXCEPT ![r] = d] => call'[r] = d
BY WantTypes DEF WorklogInv, WorklogTypeOK, CallType, MapHeld

LEMMA ArriveKeeps ==
    ASSUME WorklogInv, NEW r \in Request, NEW w \in Want, Arrive(r, w) PROVE WorklogInv'
<1> DEFINE c     == call[r]
           named == w.op = "add" /\ Given(w.act)
           pc    == IF named /\ ~Given(w.key) THEN "begin" ELSE "check"
           key   == IF named THEN Nil ELSE w.key
           d     == [c EXCEPT !.pc = pc, !.want = w, !.key = key]
<1>1. c \in CallType /\ CallOk(r) /\ c.pc = "idle"
  BY CallFacts DEF Arrive, At
<1>2. call' = [call EXCEPT ![r] = d] /\ UNCHANGED <<outside, files>>
  BY DEF Arrive
<1>3. events' \in 0..MaxEvent
  BY CallFacts DEF Arrive, Event
<1>4. key \in Key \cup {Nil}
  BY WantTypes DEF WantType
<1>5. /\ d \in CallType /\ d.pc = pc /\ d.want = w /\ d.key = key
  BY <1>1, <1>4, ZenonT(60) DEF CallType
<1>6. CallOk(r)'
  BY <1>1, <1>2, <1>5, CallFacts DEF CallOk, outside, Given
<1>7. d.pc \notin {"load", "write", "rename"}
  BY <1>5
<1> HIDE DEF d
<1> QED
  BY <1>2, <1>3, <1>5, <1>6, <1>7, OneCall

LEMMA ReadActivityKeeps ==
    ASSUME WorklogInv, NEW r \in Request, ReadActivity(r) PROVE WorklogInv'
<1> DEFINE c   == call[r]
           key == IF acts = Torn THEN Nil ELSE acts[c.want.act]
           pc  == IF Given(key) THEN "check" ELSE "refused"
           d   == [c EXCEPT !.key = key, !.pc = pc]
<1>1. c \in CallType /\ CallOk(r) /\ c.pc = "begin" /\ acts \in ActMap /\ c.want \in WantType
  BY CallFacts DEF ReadActivity, At
<1>2. call' = [call EXCEPT ![r] = d] /\ UNCHANGED <<outside, files, events>>
  BY DEF ReadActivity
<1>3. key \in Key \cup {Nil}
  BY <1>1 DEF ActMap, CallOk, WantType, Given
<1>4. d \in CallType /\ d.pc = pc /\ d.want = c.want
  BY <1>1, <1>3, ZenonT(60) DEF CallType
<1>5. CallOk(r)'
  BY <1>1, <1>2, <1>4, CallFacts DEF CallOk, outside
<1>6. d.pc \notin {"load", "write", "rename"} /\ events' \in 0..MaxEvent
  BY <1>2, <1>4, CallFacts
<1> HIDE DEF d
<1> QED
  BY <1>2, <1>4, <1>5, <1>6, OneCall

\* The steps that only move a call on.
LEMMA MovesKeep ==
    ASSUME WorklogInv, NEW r \in Request,
           Check(r) \/ AskFails(r) \/ AskForSet(r) \/ Answer(r) \/ GiveUp(r)
    PROVE  WorklogInv'
<1> DEFINE c == call[r]
<1>1. c \in CallType /\ c.want \in WantType /\ CallOk(r)
  BY CallFacts
<1>2. UNCHANGED <<outside, files, events>>
  BY DEF Check, AskFails, AskForSet, Answer, GiveUp
<1>3. PICK pc \in {"refused", "lock", "ask", "failed", "ok"} :
          /\ call' = [call EXCEPT ![r] = [c EXCEPT !.pc = pc]]
          /\ c.pc \in {"check", "ask", "sent"}
          /\ pc = "ask" => Allowed(r) /\ c.want.op # "activity_remove"
          /\ pc = "lock" => c.want.op \in {"activity_set", "activity_remove"}
          /\ pc \in {"refused", "lock", "ask"} => c.pc \in {"check", "ask"}
          /\ pc = "ok" => flight[r] = "done"
  BY DEF Check, AskFails, AskForSet, Answer, GiveUp, At, Goto
<1> DEFINE d == [c EXCEPT !.pc = pc]
<1>4. d \in CallType /\ d.pc = pc /\ d.want = c.want /\ d.key = c.key /\ d.base = c.base /\ d.new = c.new
  BY <1>1 DEF CallType
<1>5. call'[r] = d
  BY <1>3, CallFacts
<1>6. Allowed(r)' = Allowed(r) /\ (Prepared(r) => Prepared(r)')
  BY <1>2, <1>4, <1>5 DEF Allowed, ScopedIssueKey, Prepared, NewEntry, outside
<1>7. CallOk(r)'
  BY <1>1, <1>2, <1>3, <1>4, <1>5, <1>6 DEF CallOk, outside
<1> QED
  BY <1>2, <1>3, <1>4, <1>7, OneCall, CallFacts

LEMMA AskForAddKeeps ==
    ASSUME WorklogInv, NEW r \in Request, AskForAdd(r) PROVE WorklogInv'
<1> DEFINE c == call[r]
           e == NewEntry(r)
           d == [c EXCEPT !.pc = "ready", !.new = e]
<1>1. /\ c \in CallType /\ c.want \in WantType /\ CallOk(r)
      /\ c.pc = "ask" /\ c.want.op = "add"
  BY CallFacts DEF AskForAdd, At
<1>2. call' = [call EXCEPT ![r] = d] /\ UNCHANGED <<outside, files, events>>
  BY DEF AskForAdd
<1>3. /\ c.key \in Scoped /\ c.want.time # Nil
      /\ c.want.day # Nil /\ c.want.text # Nil
  BY <1>1 DEF CallOk, Allowed, ScopedIssueKey, Given
<1>4. e \in Entry
  BY <1>1, <1>3 DEF NewEntry, Entry, WantType, Account
<1>5. /\ d \in CallType /\ d.pc = "ready" /\ d.want = c.want /\ d.key = c.key /\ d.new = e
  BY <1>1, <1>4 DEF CallType
<1>6. call'[r] = d
  BY <1>2, CallFacts
<1>7. NewEntry(r)' = e
  BY <1>5, <1>6 DEF NewEntry
<1>8. Prepared(r)'
  BY <1>1, <1>3, <1>4, <1>5, <1>6, <1>7 DEF Prepared
<1>9. CallOk(r)'
  BY <1>1, <1>2, <1>5, <1>6, <1>8 DEF CallOk, outside
<1>10. d.pc \notin {"load", "write", "rename"} /\ events' \in 0..MaxEvent
  BY <1>2, <1>5, CallFacts
<1> HIDE DEF d
<1> QED
  BY <1>2, <1>5, <1>9, <1>10, OneCall

LEMMA FetchOwnKeeps ==
    ASSUME WorklogInv, NEW r \in Request, FetchOwn(r) PROVE WorklogInv'
<1> DEFINE c   == call[r]
           w   == c.want
           old == tempo[w.id]
           pc  == IF old = Nil THEN "failed"
                  ELSE IF ~Own(r, old) \/ NothingToChange(w) THEN "refused" ELSE "ready"
           new == IF old # Nil /\ w.op = "update" THEN Rewritten(old, w) ELSE Nil
           d   == [c EXCEPT !.pc = pc, !.base = old, !.new = new]
<1>1. /\ c \in CallType /\ w \in WantType /\ CallOk(r)
      /\ c.pc = "ask" /\ w.op \in {"update", "delete"}
  BY CallFacts DEF FetchOwn, At
<1>2. call' = [call EXCEPT ![r] = d] /\ UNCHANGED <<outside, files, events>>
  BY DEF FetchOwn
<1>3. c.key \in Scoped /\ w.id \in Id
  BY <1>1 DEF CallOk, Allowed, ScopedIssueKey, Given, WantType
<1>4. old \in Entry \cup {Nil} /\ (old # Nil => w.id \in used)
  BY <1>3 DEF WorklogInv, WorklogTypeOK, IdsKnown
<1>5. new \in Entry \cup {Nil}
  BY <1>1, <1>4, RewrittenType
<1>6. /\ d \in CallType /\ d.pc = pc /\ d.want = w /\ d.key = c.key /\ d.base = old /\ d.new = new
  <2>1. pc \in {"failed", "refused", "ready"}
    OBVIOUS
  <2> HIDE DEF pc, new, old
  <2> QED
    BY <1>1, <1>4, <1>5, <2>1 DEF CallType
<1>7. call'[r] = d
  <2> HIDE DEF d
  <2> QED
    BY <1>2, CallFacts
<1>8. pc = "ready" => Prepared(r)'
  <2>1. ASSUME pc = "ready"
        PROVE  /\ old \in Entry /\ old.author = Me /\ old.issue \in Scoped /\ w.id \in used
               /\ w.op = "update" => new = Rewritten(old, w)
    BY <1>3, <1>4, <2>1 DEF Own
  <2>2. UNCHANGED <<tempo, used>>
    BY <1>2 DEF outside
  <2> HIDE DEF pc, new, d
  <2> QED
    BY <1>1, <1>6, <1>7, <2>1, <2>2 DEF Prepared
<1>9. CallOk(r)'
  <2>1. UNCHANGED <<flight, applied>> /\ flight[r] = "none"
    BY <1>1, <1>2, CallFacts DEF outside, CallOk
  <2>2. pc \in {"failed", "refused", "ready"}
    OBVIOUS
  <2> HIDE DEF pc, new, d
  <2> QED
    BY <1>1, <1>6, <1>7, <1>8, <2>1, <2>2 DEF CallOk
<1>10. d.pc \notin {"load", "write", "rename"} /\ events' \in 0..MaxEvent
  BY <1>2, <1>6, CallFacts, SMTT(30)
<1> HIDE DEF d
<1> QED
  BY <1>2, <1>6, <1>9, <1>10, OneCall

LEMMA SendKeeps ==
    ASSUME WorklogInv, NEW r \in Request, Send(r) PROVE WorklogInv'
<1> DEFINE c == call[r]
           d == [c EXCEPT !.pc = "sent"]
<1>1. c \in CallType /\ c.want \in WantType /\ CallOk(r) /\ c.pc = "ready"
  BY CallFacts DEF Send, At
<1>2. /\ call' = [call EXCEPT ![r] = d] /\ flight' = [flight EXCEPT ![r] = "sent"]
      /\ UNCHANGED <<tempo, used, ledger, raced, applied, files, events>>
  BY DEF Send, Goto
<1>3. d \in CallType /\ d.pc = "sent" /\ d.want = c.want /\ d.key = c.key /\ d.base = c.base /\ d.new = c.new
  BY <1>1 DEF CallType
<1>4. /\ call'[r] = d /\ flight'[r] = "sent"
      /\ \A q \in Request \ {r} : call'[q] = call[q] /\ flight'[q] = flight[q]
  BY <1>2 DEF WorklogInv, WorklogTypeOK
<1>5. Prepared(r)'
  BY <1>1, <1>2, <1>3, <1>4 DEF CallOk, Prepared, NewEntry
<1>6. CallOk(r)'
  BY <1>1, <1>2, <1>3, <1>4, <1>5 DEF CallOk
<1>7. ASSUME NEW q \in Request \ {r} PROVE CallOk(q)'
  <2>1. CallOk(q)
    BY DEF WorklogInv
  <2> QED
    BY <1>2, <1>4, <2>1 DEF CallOk, Prepared, NewEntry, Allowed, ScopedIssueKey
<1>8. WorklogTypeOK'
  BY <1>2, <1>3 DEF WorklogInv, WorklogTypeOK, files
<1>9. IdsKnown' /\ LostOnlyByRace'
  BY <1>2 DEF WorklogInv, IdsKnown, LostOnlyByRace
<1>10. MapHeld'
  BY <1>2, <1>3, <1>4 DEF WorklogInv, MapHeld, files
<1> QED
  BY <1>6, <1>7, <1>8, <1>9, <1>10 DEF WorklogInv

-----------------------------------------------------------------------------
(* What Tempo does with a write, and what people do in Tempo.              *)

\* A write that is landed or rejected leaves every call in order, as long as no
\* worklog gets into other hands.
LEMMA LandingCalls ==
    ASSUME WorklogInv, NEW r \in Request, flight[r] = "sent",
           NEW o \in {"done", "rejected"},
           flight' = [flight EXCEPT ![r] = o],
           applied' = [applied EXCEPT ![r] = @ + (IF o = "done" THEN 1 ELSE 0)],
           UNCHANGED <<call, files, events>>,
           used \subseteq used',
           \A i \in used : tempo'[i] # Nil => tempo[i] # Nil /\ tempo'[i].author = tempo[i].author
    PROVE  /\ \A q \in Request : CallOk(q)'
           /\ MapHeld'
           /\ call' \in [Request -> CallType]
           /\ flight' \in [Request -> {"none", "sent", "done", "rejected"}]
           /\ applied' \in [Request -> 0..1]
<1>1. /\ flight \in [Request -> {"none", "sent", "done", "rejected"}]
      /\ applied \in [Request -> 0..1] /\ call \in [Request -> CallType]
      /\ applied[r] = 0
  BY DEF WorklogInv, WorklogTypeOK, CallOk
<1>2. ASSUME NEW q \in Request, Prepared(q) PROVE Prepared(q)'
  BY <1>2 DEF Prepared, NewEntry
<1>3. CallOk(r)'
  <2>1. CallOk(r) /\ Prepared(r)
    BY DEF WorklogInv, CallOk
  <2>2. call[r].want.op \in {"add", "update", "delete"}
    BY <2>1 DEF Prepared
  <2> QED
    BY <1>1, <1>2, <2>1, <2>2 DEF CallOk, Allowed, ScopedIssueKey
<1>4. ASSUME NEW q \in Request \ {r} PROVE CallOk(q)'
  <2>1. CallOk(q) /\ flight'[q] = flight[q] /\ applied'[q] = applied[q] /\ Allowed(q)' = Allowed(q)
    BY <1>1 DEF WorklogInv, Allowed, ScopedIssueKey
  <2> QED
    BY <1>2, <2>1 DEF CallOk
<1>5. MapHeld'
  BY DEF WorklogInv, MapHeld, files
<1> QED
  BY <1>1, <1>3, <1>4, <1>5

LEMMA PreparedSent ==
    ASSUME WorklogInv, NEW r \in Request, flight[r] = "sent"
    PROVE  /\ Prepared(r) /\ call[r].want \in WantType /\ call[r].want \in Want
           /\ call[r].want.op \in {"add", "update", "delete"}
           /\ call[r].want.op # "add" => call[r].want.id \in Id
<1>1. CallOk(r) /\ flight[r] # "none"
  BY DEF WorklogInv
<1>2. Prepared(r) /\ call[r].want \in Want
  BY <1>1 DEF CallOk
<1> QED
  BY <1>2, CallFacts DEF Prepared, WorklogInv, WorklogTypeOK

LEMMA ApplyAddKeeps ==
    ASSUME WorklogInv, NEW r \in Request, ApplyAdd(r) PROVE WorklogInv'
<1>1. flight[r] = "sent" /\ call[r].want.op = "add"
  BY DEF ApplyAdd
<1>2. PICK i \in Id \ used :
          /\ used' = used \cup {i}
          /\ tempo' = [tempo EXCEPT ![i] = call[r].new]
          /\ ledger' = [ledger EXCEPT ![i] = call[r].new]
  <2>1. PICK i \in Id :
            /\ \A j \in used : j < i
            /\ used' = used \cup {i}
            /\ tempo' = [tempo EXCEPT ![i] = call[r].new]
            /\ ledger' = [ledger EXCEPT ![i] = call[r].new]
    BY DEF ApplyAdd
  <2>2. i \in Nat
    OBVIOUS
  <2>3. ~ (i < i)
    BY <2>2
  <2> QED
    BY <2>1, <2>3
<1>3. /\ flight' = [flight EXCEPT ![r] = "done"] /\ applied' = [applied EXCEPT ![r] = @ + 1]
      /\ UNCHANGED <<call, files, events, raced>>
  BY DEF ApplyAdd, Landed
<1>4. call[r].new \in Entry
  BY <1>1, PreparedSent DEF Prepared
<1>5. /\ tempo \in [Id -> Entry \cup {Nil}] /\ ledger \in [Id -> Entry \cup {Nil}] /\ used \subseteq Id
  BY DEF WorklogInv, WorklogTypeOK
<1>6. /\ \A q \in Request : CallOk(q)'
      /\ MapHeld'
      /\ call' \in [Request -> CallType]
      /\ flight' \in [Request -> {"none", "sent", "done", "rejected"}]
      /\ applied' \in [Request -> 0..1]
  BY <1>1, <1>2, <1>3, <1>5, LandingCalls
<1>7. WorklogTypeOK'
  BY <1>2, <1>3, <1>4, <1>5, <1>6 DEF WorklogInv, WorklogTypeOK, files
<1>8. IdsKnown' /\ LostOnlyByRace'
  BY <1>2, <1>3, <1>4, <1>5 DEF WorklogInv, IdsKnown, LostOnlyByRace
<1> QED
  BY <1>6, <1>7, <1>8 DEF WorklogInv

\* An update that nothing came before writes what was meant; one that something
\* did is counted as a race.
LEMMA ApplyUpdateKeeps ==
    ASSUME WorklogInv, NEW r \in Request, ApplyUpdate(r) PROVE WorklogInv'
<1> DEFINE c == call[r]
           w == c.want
           i == w.id
           e == [c.new EXCEPT !.issue = tempo[i].issue]
           m == Meant(ledger[i], w)
<1>1. flight[r] = "sent" /\ w.op = "update" /\ tempo[i] # Nil
  BY DEF ApplyUpdate
<1>2. /\ tempo' = [tempo EXCEPT ![i] = e] /\ ledger' = [ledger EXCEPT ![i] = m]
      /\ raced' = IF tempo[i] = c.base THEN raced ELSE raced \cup {i}
      /\ UNCHANGED used
  BY DEF ApplyUpdate
<1>3. /\ flight' = [flight EXCEPT ![r] = "done"] /\ applied' = [applied EXCEPT ![r] = @ + 1]
      /\ UNCHANGED <<call, files, events>>
  BY DEF ApplyUpdate, Landed
<1>4. /\ w \in WantType /\ i \in Id /\ c.base \in Entry /\ c.base.author = Me
      /\ c.new = Rewritten(c.base, w) /\ tempo[i].author = Me
  BY <1>1, PreparedSent DEF Prepared
<1>5. /\ tempo \in [Id -> Entry \cup {Nil}] /\ ledger \in [Id -> Entry \cup {Nil}] /\ used \subseteq Id
  BY DEF WorklogInv, WorklogTypeOK
<1>6. tempo[i] \in Entry /\ ledger[i] \in Entry
  <2> HIDE DEF i, e, m
  <2>1. IdsKnown
    BY DEF WorklogInv
  <2>2. ledger[i] # Nil
    BY <1>1, <1>4, <2>1 DEF IdsKnown
  <2> QED
    BY <1>1, <1>4, <1>5, <2>2
<1>7. c.new \in Entry /\ c.new.author = Me /\ c.new.issue = c.base.issue
  BY <1>4, RewrittenType
<1>8. e \in Entry /\ e.author = Me /\ (tempo[i] = c.base => e = c.new)
  BY <1>6, <1>7 DEF Entry
<1>9. m \in Entry
  BY <1>4, <1>6, MeantType
<1>10. tempo[i] = c.base /\ tempo[i] = ledger[i] => e = m
  BY <1>4, <1>8, MeantRewritten
<1> HIDE DEF e, m
<1>11. /\ \A q \in Request : CallOk(q)'
       /\ MapHeld'
       /\ call' \in [Request -> CallType]
       /\ flight' \in [Request -> {"none", "sent", "done", "rejected"}]
       /\ applied' \in [Request -> 0..1]
  BY <1>1, <1>2, <1>3, <1>4, <1>5, <1>8, LandingCalls
<1>12. WorklogTypeOK'
  BY <1>2, <1>3, <1>4, <1>5, <1>8, <1>9, <1>11 DEF WorklogInv, WorklogTypeOK, files
<1>13. IdsKnown'
  BY <1>1, <1>2, <1>4, <1>5, <1>8, <1>9 DEF WorklogInv, IdsKnown
<1>14. LostOnlyByRace'
  BY <1>2, <1>4, <1>5, <1>10 DEF WorklogInv, LostOnlyByRace
<1> QED
  BY <1>11, <1>12, <1>13, <1>14 DEF WorklogInv

LEMMA ApplyDeleteKeeps ==
    ASSUME WorklogInv, NEW r \in Request, ApplyDelete(r) PROVE WorklogInv'
<1> DEFINE i == call[r].want.id
<1>1. flight[r] = "sent" /\ call[r].want.op = "delete"
  BY DEF ApplyDelete
<1>2. /\ tempo' = [tempo EXCEPT ![i] = Nil] /\ ledger' = [ledger EXCEPT ![i] = Nil]
      /\ raced' \in {raced, raced \cup {i}}
      /\ UNCHANGED used
  BY DEF ApplyDelete
<1>3. /\ flight' = [flight EXCEPT ![r] = "done"] /\ applied' = [applied EXCEPT ![r] = @ + 1]
      /\ UNCHANGED <<call, files, events>>
  BY DEF ApplyDelete, Landed
<1>4. /\ i \in Id /\ tempo \in [Id -> Entry \cup {Nil}] /\ ledger \in [Id -> Entry \cup {Nil}]
      /\ used \subseteq Id
  BY <1>1, PreparedSent DEF WorklogInv, WorklogTypeOK
<1>5. /\ \A q \in Request : CallOk(q)'
      /\ MapHeld'
      /\ call' \in [Request -> CallType]
      /\ flight' \in [Request -> {"none", "sent", "done", "rejected"}]
      /\ applied' \in [Request -> 0..1]
  BY <1>1, <1>2, <1>3, <1>4, LandingCalls
<1>6. WorklogTypeOK'
  BY <1>2, <1>3, <1>4, <1>5 DEF WorklogInv, WorklogTypeOK, files
<1>7. IdsKnown' /\ LostOnlyByRace'
  BY <1>2, <1>4 DEF WorklogInv, IdsKnown, LostOnlyByRace
<1> QED
  BY <1>5, <1>6, <1>7 DEF WorklogInv

LEMMA RejectKeeps ==
    ASSUME WorklogInv, NEW r \in Request, Reject(r) PROVE WorklogInv'
<1>1. /\ flight[r] = "sent" /\ flight' = [flight EXCEPT ![r] = "rejected"]
      /\ applied' = [applied EXCEPT ![r] = @ + 0]
      /\ UNCHANGED <<call, files, events, tempo, used, ledger, raced>>
  BY DEF Reject, Landed
<1>2. /\ \A q \in Request : CallOk(q)'
      /\ MapHeld'
      /\ call' \in [Request -> CallType]
      /\ flight' \in [Request -> {"none", "sent", "done", "rejected"}]
      /\ applied' \in [Request -> 0..1]
  BY <1>1, LandingCalls
<1>3. WorklogTypeOK' /\ IdsKnown' /\ LostOnlyByRace'
  BY <1>1, <1>2 DEF WorklogInv, WorklogTypeOK, IdsKnown, LostOnlyByRace, files
<1> QED
  BY <1>2, <1>3 DEF WorklogInv

\* Someone's change in Tempo is made in the ledger too, and changes no author.
LEMMA EditKeeps ==
    ASSUME WorklogInv, NEW i \in Id, Edit(i) PROVE WorklogInv'
<1> DEFINE was == tempo[i]
           led == ledger[i]
<1>1. /\ tempo \in [Id -> Entry \cup {Nil}] /\ ledger \in [Id -> Entry \cup {Nil}]
      /\ was \in Entry /\ led \in Entry
  BY DEF WorklogInv, WorklogTypeOK, IdsKnown, Edit
<1>2. PICK e \in {[was EXCEPT !.text = x] : x \in Text}
                   \cup {[was EXCEPT !.issue = k] : k \in Key} \cup {Nil} :
          /\ e # was
          /\ tempo' = [tempo EXCEPT ![i] = e]
          /\ ledger' = [ledger EXCEPT ![i] = Changed(led, was, e)]
  BY DEF Edit
<1> DEFINE n == Changed(led, was, e)
<1>3. /\ UNCHANGED <<used, flight, raced, applied, call, files>>
      /\ events' \in 0..MaxEvent
  BY CallFacts DEF Edit, Event, WorklogInv, WorklogTypeOK
<1>4. e # Nil => e \in Entry /\ e.author = was.author
  BY <1>1, <1>2 DEF Entry
<1>5. /\ n \in Entry \cup {Nil} /\ (n = Nil <=> e = Nil)
      /\ led = was => n = e
  <2>1. CASE e = Nil
    BY <1>1, <2>1 DEF Changed
  <2>2. CASE e # Nil
    <3>1. n \in Entry
      BY <1>1, <1>4, <2>2 DEF Entry, Changed
    <3>2. ASSUME led = was PROVE n = e
      <4>1. /\ n.issue = e.issue /\ n.text = e.text
            /\ n.author = was.author /\ n.day = was.day /\ n.time = was.time /\ n.bill = was.bill
        BY <1>1, <1>4, <2>2, <3>2 DEF Entry, Changed
      <4>2. e.author = was.author /\ e.day = was.day /\ e.time = was.time /\ e.bill = was.bill
        BY <1>1, <1>2, <2>2 DEF Entry
      <4> HIDE DEF n
      <4> QED
        BY <1>4, <2>2, <3>1, <4>1, <4>2 DEF Entry
    <3> QED
      BY <2>2, <3>1, <3>2
  <2> QED
    BY <2>1, <2>2
<1>6. ledger' = [ledger EXCEPT ![i] = n]
  BY <1>2
<1> HIDE DEF n
<1>7. ASSUME NEW q \in Request PROVE CallOk(q)'
  <2>1. CallOk(q)
    BY DEF WorklogInv
  <2>2. Prepared(q) => Prepared(q)'
    BY <1>1, <1>2, <1>3, <1>4 DEF Prepared, NewEntry, WorklogInv, WorklogTypeOK
  <2> QED
    BY <1>3, <2>1, <2>2 DEF CallOk, Allowed, ScopedIssueKey
<1>8. WorklogTypeOK'
  BY <1>1, <1>2, <1>3, <1>4, <1>5, <1>6 DEF WorklogInv, WorklogTypeOK, files
<1>9. IdsKnown'
  BY <1>1, <1>2, <1>3, <1>4, <1>5, <1>6 DEF WorklogInv, IdsKnown
<1>10. LostOnlyByRace'
  BY <1>1, <1>2, <1>3, <1>5, <1>6 DEF WorklogInv, LostOnlyByRace
<1>11. MapHeld'
  BY <1>3 DEF WorklogInv, MapHeld, files
<1> QED
  BY <1>7, <1>8, <1>9, <1>10, <1>11 DEF WorklogInv

-----------------------------------------------------------------------------
(* The activity map.                                                       *)

\* A step of a call on the map leaves all that has to do with Tempo alone.
LEMMA MapCalls ==
    ASSUME WorklogInv, NEW r \in Request, NEW c \in CallType,
           call' = [call EXCEPT ![r] = c], UNCHANGED <<outside, events>>,
           call[r].pc \in {"lock", "load", "write", "rename"},
           c.pc \in {"load", "write", "rename", "ok", "failed"},
           c.want = call[r].want,
           acts' \in ActMap, tmp' \in ActMap \cup {Torn, Nil}, mutex' \in Request \cup {Nil},
           MapHeld'
    PROVE  WorklogInv'
<1>1. call'[r] = c /\ \A q \in Request \ {r} : call'[q] = call[q]
  BY DEF WorklogInv, WorklogTypeOK
<1>2. WorklogTypeOK' /\ IdsKnown' /\ LostOnlyByRace'
  BY DEF WorklogInv, WorklogTypeOK, IdsKnown, LostOnlyByRace, outside
<1>3. CallOk(r)'
  <2>1. CallOk(r)
    BY DEF WorklogInv
  <2> QED
    BY <1>1, <2>1 DEF CallOk, outside
<1>4. ASSUME NEW q \in Request \ {r} PROVE CallOk(q)'
  <2>1. CallOk(q)
    BY DEF WorklogInv
  <2> QED
    BY <1>1, <2>1 DEF CallOk, Prepared, NewEntry, Allowed, ScopedIssueKey, outside
<1> QED
  BY <1>2, <1>3, <1>4 DEF WorklogInv

\* Who has the mutex is alone with the map.
LEMMA MapAlone ==
    ASSUME WorklogInv, NEW r \in Request, mutex \in {r, Nil}
    PROVE  \A q \in Request \ {r} : call[q].pc \notin {"load", "write", "rename"}
BY DEF WorklogInv, MapHeld

LEMMA LockMapKeeps ==
    ASSUME WorklogInv, NEW r \in Request, LockMap(r) PROVE WorklogInv'
<1> DEFINE c == [call[r] EXCEPT !.pc = "load"]
<1>1. /\ call[r] \in CallType /\ call[r].pc = "lock" /\ mutex = Nil /\ mutex' = r
      /\ call' = [call EXCEPT ![r] = c] /\ UNCHANGED <<outside, acts, tmp, events>>
  BY CallFacts DEF LockMap, At, Goto
<1>2. c \in CallType /\ c.pc = "load" /\ c.want = call[r].want
  BY <1>1 DEF CallType
<1>3. call'[r] = c /\ \A q \in Request \ {r} : call'[q] = call[q]
  BY <1>1 DEF WorklogInv, WorklogTypeOK
<1>4. MapHeld'
  BY <1>1, <1>2, <1>3, MapAlone DEF WorklogInv, MapHeld
<1>5. acts \in ActMap /\ tmp \in ActMap \cup {Torn, Nil}
  BY CallFacts DEF WorklogInv, WorklogTypeOK
<1> HIDE DEF c
<1> QED
  BY <1>1, <1>2, <1>4, <1>5, MapCalls

LEMMA LoadMapKeeps ==
    ASSUME WorklogInv, NEW r \in Request, LoadMap(r) PROVE WorklogInv'
<1> DEFINE w == call[r].want
           m == [acts EXCEPT ![w.act] = IF w.op = "activity_set" THEN w.key ELSE Nil]
           c == [call[r] EXCEPT !.pc = "write", !.map = m]
           d == [call[r] EXCEPT !.pc = "failed"]
<1>1. /\ call[r] \in CallType /\ call[r].pc = "load" /\ w \in WantType
      /\ acts \in ActMap /\ UNCHANGED <<outside, acts, events>>
      /\ tmp \in ActMap \cup {Torn, Nil} /\ mutex \in Request \cup {Nil}
  BY CallFacts DEF LoadMap, At, WorklogInv, WorklogTypeOK
<1>2. mutex = r /\ \A q \in Request \ {r} : call[q].pc \notin {"load", "write", "rename"}
  BY <1>1, MapAlone DEF WorklogInv, MapHeld
<1>3. CASE call' = [call EXCEPT ![r] = d] /\ mutex' = Nil /\ tmp' = tmp
  <2>1. d \in CallType /\ d.pc = "failed" /\ d.want = w
    BY <1>1 DEF CallType
  <2>2. call'[r] = d /\ \A q \in Request \ {r} : call'[q] = call[q]
    BY <1>3 DEF WorklogInv, WorklogTypeOK
  <2>3. MapHeld'
    BY <1>1, <1>2, <2>1, <2>2 DEF WorklogInv, MapHeld
  <2> HIDE DEF d
  <2> QED
    BY <1>1, <1>3, <2>1, <2>3, MapCalls
<1>4. CASE call' = [call EXCEPT ![r] = c] /\ mutex' = mutex /\ tmp' = Torn
  <2>1. m \in ActMap
    BY <1>1 DEF ActMap, WantType
  <2>2. c \in CallType /\ c.pc = "write" /\ c.want = w /\ c.map = m
    BY <1>1, <2>1 DEF CallType
  <2>3. call'[r] = c /\ \A q \in Request \ {r} : call'[q] = call[q]
    <3> HIDE DEF c
    <3> QED
      BY <1>4 DEF WorklogInv, WorklogTypeOK
  <2>4. MapHeld'
    <3>1. acts # Torn
      BY DEF WorklogInv, MapHeld
    <3> HIDE DEF c
    <3> QED
      BY <1>1, <1>2, <1>4, <2>2, <2>3, <3>1 DEF MapHeld
  <2> HIDE DEF c
  <2> QED
    BY <1>1, <1>4, <2>2, <2>4, MapCalls
<1> QED
  BY <1>3, <1>4, ZenonT(60) DEF LoadMap, Goto, Unlock

LEMMA WriteMapKeeps ==
    ASSUME WorklogInv, NEW r \in Request, WriteMap(r) PROVE WorklogInv'
<1> DEFINE c == [call[r] EXCEPT !.pc = "rename"]
<1>1. /\ call[r] \in CallType /\ call[r].pc = "write" /\ tmp' = call[r].map
      /\ call' = [call EXCEPT ![r] = c] /\ UNCHANGED <<outside, acts, mutex, events>>
      /\ acts \in ActMap /\ mutex \in Request \cup {Nil}
  BY CallFacts DEF WriteMap, At, Goto, WorklogInv, WorklogTypeOK
<1>2. c \in CallType /\ c.pc = "rename" /\ c.want = call[r].want /\ c.map = call[r].map
      /\ call[r].map \in ActMap \cup {Nil}
  BY <1>1 DEF CallType
<1>3. call'[r] = c /\ \A q \in Request \ {r} : call'[q] = call[q]
  BY <1>1 DEF WorklogInv, WorklogTypeOK
<1>4. MapHeld'
  <2>1. mutex = r /\ \A q \in Request \ {r} : call[q].pc \notin {"load", "write", "rename"}
    BY <1>1, MapAlone DEF WorklogInv, MapHeld
  <2> HIDE DEF c
  <2> QED
    BY <1>1, <1>2, <1>3, <2>1 DEF WorklogInv, MapHeld
<1> HIDE DEF c
<1> QED
  BY <1>1, <1>2, <1>4, MapCalls

LEMMA RenameMapKeeps ==
    ASSUME WorklogInv, NEW r \in Request, RenameMap(r) PROVE WorklogInv'
<1> DEFINE c == [call[r] EXCEPT !.pc = "ok"]
           w == call[r].want
           m == [acts EXCEPT ![w.act] = IF w.op = "activity_set" THEN w.key ELSE Nil]
<1>1. /\ call[r] \in CallType /\ call[r].pc = "rename" /\ acts' = tmp /\ tmp' = Nil /\ mutex' = Nil
      /\ call' = [call EXCEPT ![r] = c] /\ UNCHANGED <<outside, events>>
      /\ acts \in ActMap /\ w \in WantType
  BY CallFacts DEF RenameMap, At, Goto, Unlock
<1>2. c \in CallType /\ c.pc = "ok" /\ c.want = call[r].want
  BY <1>1 DEF CallType
<1>3. call'[r] = c /\ \A q \in Request \ {r} : call'[q] = call[q]
  BY <1>1 DEF WorklogInv, WorklogTypeOK
<1>4. mutex = r /\ acts' = m
  BY <1>1 DEF WorklogInv, MapHeld
<1>5. m \in ActMap /\ m # Torn
  BY <1>1 DEF ActMap, WantType
<1>6. MapHeld'
  <2>1. \A q \in Request \ {r} : call[q].pc \notin {"load", "write", "rename"}
    BY <1>4, MapAlone
  <2> HIDE DEF c
  <2> QED
    BY <1>2, <1>3, <1>4, <1>5, <2>1 DEF MapHeld
<1> HIDE DEF c
<1> QED
  BY <1>1, <1>2, <1>4, <1>5, <1>6, MapCalls

LEMMA SaveFailsKeeps ==
    ASSUME WorklogInv, NEW r \in Request, SaveFails(r) PROVE WorklogInv'
<1> DEFINE c == [call[r] EXCEPT !.pc = "failed"]
<1>1. /\ call[r] \in CallType /\ call[r].pc \in {"write", "rename"} /\ mutex' = Nil
      /\ call' = [call EXCEPT ![r] = c] /\ UNCHANGED <<outside, acts, tmp, events>>
      /\ acts \in ActMap /\ tmp \in ActMap \cup {Torn, Nil}
  BY CallFacts DEF SaveFails, Goto, Unlock, WorklogInv, WorklogTypeOK
<1>2. c \in CallType /\ c.pc = "failed" /\ c.want = call[r].want
  BY <1>1 DEF CallType
<1>3. call'[r] = c /\ \A q \in Request \ {r} : call'[q] = call[q]
  BY <1>1 DEF WorklogInv, WorklogTypeOK
<1>4. MapHeld'
  <2>1. mutex = r
    BY <1>1 DEF WorklogInv, MapHeld
  <2>2. \A q \in Request \ {r} : call[q].pc \notin {"load", "write", "rename"}
    BY <2>1, MapAlone
  <2> HIDE DEF c
  <2> QED
    BY <1>1, <1>2, <1>3, <2>2 DEF WorklogInv, MapHeld
<1> HIDE DEF c
<1> QED
  BY <1>1, <1>2, <1>4, MapCalls

\* A restarted gateway has no calls, and a mutex that nobody holds.
LEMMA CrashKeeps == ASSUME WorklogInv, Crash PROVE WorklogInv'
<1>1. /\ call' = [r \in Request |-> IF At(r, "idle") \/ Ended(r) THEN call[r]
                                   ELSE [call[r] EXCEPT !.pc = "gone"]]
      /\ mutex' = Nil /\ UNCHANGED <<outside, acts, tmp>>
  BY DEF Crash, Unlock
<1>2. events' \in 0..MaxEvent
  BY DEF Crash, Event, WorklogInv, WorklogTypeOK
<1>3. ASSUME NEW r \in Request
      PROVE  /\ call'[r] \in CallType
             /\ \/ call'[r] = call[r] /\ call[r].pc \in {"idle", "ok", "refused", "failed", "gone"}
                \/ /\ call'[r].pc = "gone" /\ call[r].pc # "idle"
                   /\ call'[r].want = call[r].want /\ call'[r].key = call[r].key
                   /\ call'[r].base = call[r].base /\ call'[r].new = call[r].new
  <2>1. call[r] \in CallType
    BY CallFacts
  <2> QED
    BY <1>1, <2>1 DEF CallType, At, Ended
<1>4. ASSUME NEW r \in Request PROVE CallOk(r)'
  <2>1. CallOk(r) /\ (Prepared(r) => Prepared(r)')
    BY <1>1, <1>3 DEF WorklogInv, Prepared, NewEntry, outside
  <2> QED
    BY <1>1, <1>3, <2>1 DEF CallOk, outside
<1>5. call' \in [Request -> CallType]
  BY <1>1, <1>3
<1>6. WorklogTypeOK' /\ IdsKnown' /\ LostOnlyByRace'
  BY <1>1, <1>2, <1>5 DEF WorklogInv, WorklogTypeOK, IdsKnown, LostOnlyByRace, outside
<1>7. MapHeld'
  BY <1>1, <1>3 DEF WorklogInv, MapHeld
<1> QED
  BY <1>4, <1>6, <1>7 DEF WorklogInv

-----------------------------------------------------------------------------

LEMMA InvInit == Init => WorklogInv
<1> SUFFICES ASSUME Init PROVE WorklogInv
  OBVIOUS
<1> USE DEF Init, WorklogInit
<1>1. IdleCall \in CallType
  BY DEF IdleCall, CallType
<1>2. WorklogTypeOK
  BY <1>1 DEF WorklogTypeOK, ActMap
<1>3. IdsKnown /\ LostOnlyByRace
  BY DEF IdsKnown, LostOnlyByRace
<1>4. MapHeld
  BY DEF MapHeld, IdleCall
<1>5. \A r \in Request : CallOk(r)
  BY DEF CallOk, IdleCall
<1> QED
  BY <1>2, <1>3, <1>4, <1>5 DEF WorklogInv

\* A report changes nothing that the calls know of, but the count of events.
LEMMA ReportsOnlyRead ==
    ASSUME WorklogInv, [Next]_vars
    PROVE  \/ WorklogNext
           \/ UNCHANGED <<outside, call, files>> /\ events' \in 0..MaxEvent
<1>1. events \in 0..MaxEvent
  BY DEF WorklogInv, WorklogTypeOK
<1>2. ASSUME NEW q, Begin(q) PROVE UNCHANGED <<outside, call, files>> /\ events' \in 0..MaxEvent
  <2>1. UNCHANGED <<outside, call, files>> /\ Event
    BY <1>2, Zenon DEF Begin
  <2> QED
    BY <1>1, <2>1 DEF Event
<1>3. UNCHANGED worklogVars => UNCHANGED <<outside, call, files>> /\ events' \in 0..MaxEvent
  BY <1>1 DEF worklogVars, outside, files
<1>4. Page \/ Search \/ ReportFails => UNCHANGED worklogVars
  BY Zenon DEF Page, Search, ReportFails
<1>5. Meanwhile => WorklogNext
  BY Zenon DEF Meanwhile
<1>6. UNCHANGED vars => UNCHANGED worklogVars
  BY DEF vars
<1> QED
  BY <1>2, <1>3, <1>4, <1>5, <1>6 DEF Next, ReportNext

LEMMA InvNext == WorklogInv /\ [Next]_vars => WorklogInv'
<1> SUFFICES ASSUME WorklogInv, [Next]_vars PROVE WorklogInv'
  OBVIOUS
<1>1. WorklogNext \/ (UNCHANGED <<outside, call, files>> /\ events' \in 0..MaxEvent)
  BY ReportsOnlyRead
<1>2. CASE UNCHANGED <<outside, call, files>> /\ events' \in 0..MaxEvent
  <2>1. \A r \in Request : CallOk(r)'
    <3> SUFFICES ASSUME NEW r \in Request PROVE CallOk(r)'
      OBVIOUS
    <3>1. CallOk(r) /\ Allowed(r)' = Allowed(r) /\ Prepared(r)' = Prepared(r)
      BY <1>2 DEF WorklogInv, Allowed, ScopedIssueKey, Prepared, NewEntry, outside
    <3> QED
      BY <1>2, <3>1 DEF CallOk, outside
  <2>2. WorklogTypeOK'
    BY <1>2 DEF outside, files, WorklogInv, WorklogTypeOK
  <2> QED
    BY <1>2, <2>1, <2>2 DEF outside, files, WorklogInv, IdsKnown, LostOnlyByRace, MapHeld
<1>3. ASSUME NEW r \in Request, Step(r) PROVE WorklogInv'
  BY <1>3, ReadActivityKeeps, MovesKeep, AskForAddKeeps, FetchOwnKeeps, SendKeeps,
     LockMapKeeps, LoadMapKeeps, WriteMapKeeps, RenameMapKeeps, SaveFailsKeeps DEF Step
<1>4. ASSUME NEW r \in Request, Land(r) PROVE WorklogInv'
  BY <1>4, ApplyAddKeeps, ApplyUpdateKeeps, ApplyDeleteKeeps, RejectKeeps DEF Land
<1>5. ASSUME NEW r \in Request, NEW w \in Want, Arrive(r, w) PROVE WorklogInv'
  BY <1>5, ArriveKeeps
<1>6. ASSUME NEW i \in Id, Edit(i) PROVE WorklogInv'
  BY <1>6, EditKeeps
<1>7. CASE Crash
  BY <1>7, CrashKeeps
<1> QED
  BY <1>1, <1>2, <1>3, <1>4, <1>5, <1>6, <1>7 DEF WorklogNext

LEMMA Invariance == Spec => []WorklogInv
BY InvInit, InvNext, PTL DEF Spec

\* The worklogs, the calls, their writes and the map keep their types: nothing
\* but whole worklogs gets to Tempo, and no write takes effect twice.
THEOREM WorklogTypeCorrect == Spec => []WorklogTypeOK
<1>1. WorklogInv => WorklogTypeOK
  BY DEF WorklogInv
<1> QED
  BY <1>1, Invariance, PTL

\* A change is lost only on a worklog that changed between the read and the
\* write of an update (updateWorklog), for any number of calls and editors.
THEOREM ChangesLostOnlyByRace == Spec => []LostOnlyByRace
<1>1. WorklogInv => LostOnlyByRace
  BY DEF WorklogInv
<1> QED
  BY <1>1, Invariance, PTL

\* What a call answers of its write is so, and stays so.
THEOREM AnswersTrue == Spec => []AnswerTrue
<1>1. WorklogInv => AnswerTrue
  BY DEF WorklogInv, CallOk, AnswerTrue, At
<1> QED
  BY <1>1, Invariance, PTL

\* Two calls that change the activity map lose nothing, and it is never torn,
\* whatever fails and whenever the gateway dies (saveWorklogActivities).
THEOREM MapChangedByOne == Spec => MapChangesByOne
<1> DEFINE Change == acts' # acts => \E r \in Request :
                        /\ mutex = r
                        /\ acts' = [acts EXCEPT ![call[r].want.act] =
                              IF call[r].want.op = "activity_set" THEN call[r].want.key ELSE Nil]
<1>1. WorklogInv /\ [Next]_vars => [Change]_worklogVars
  <2> SUFFICES ASSUME WorklogInv, Next, acts' # acts
               PROVE  \E r \in Request :
                        /\ mutex = r
                        /\ acts' = [acts EXCEPT ![call[r].want.act] =
                              IF call[r].want.op = "activity_set" THEN call[r].want.key ELSE Nil]
    BY DEF vars, worklogVars
  <2>1. WorklogNext
    BY ReportsOnlyRead DEF outside, files
  <2>2. PICK r \in Request : RenameMap(r)
    BY <2>1, ZenonT(60) DEF WorklogNext, Step, Land, ReadActivity, Check, AskFails, AskForSet, AskForAdd,
                FetchOwn, Send, Answer, GiveUp, LockMap, LoadMap, WriteMap, SaveFails, Arrive,
                ApplyAdd, ApplyUpdate, ApplyDelete, Reject, Landed, Edit, Crash, files
  <2>3. call[r].pc = "rename" /\ acts' = tmp
    BY <2>2 DEF RenameMap, At
  <2> QED
    BY <2>3 DEF WorklogInv, MapHeld
<1> QED
  BY <1>1, Invariance, PTL DEF Spec, MapChangesByOne

\* The connector writes nobody else's worklogs and none out of scope, unless one
\* was moved after ownWorklog had read it.
THEOREM WritesAreOwnScoped == Spec => WritesOwnScoped
<1> DEFINE Own1 == \A r \in Request : applied'[r] # applied[r] =>
                      \A i \in Id : tempo'[i] # tempo[i] =>
                          LET e == IF tempo[i] = Nil THEN tempo'[i] ELSE tempo[i] IN
                          /\ e.author = Me
                          /\ e.issue \in Scoped \/ (call[r].base # Nil /\ e.issue # call[r].base.issue)
<1>1. WorklogInv /\ [Next]_vars => [Own1]_worklogVars
  <2> SUFFICES ASSUME WorklogInv, Next, NEW r \in Request, applied'[r] # applied[r],
                      NEW i \in Id, tempo'[i] # tempo[i]
               PROVE  LET e == IF tempo[i] = Nil THEN tempo'[i] ELSE tempo[i] IN
                      /\ e.author = Me
                      /\ e.issue \in Scoped \/ (call[r].base # Nil /\ e.issue # call[r].base.issue)
    BY DEF vars, worklogVars
  <2>1. /\ applied \in [Request -> 0..1] /\ tempo \in [Id -> Entry \cup {Nil}]
    BY DEF WorklogInv, WorklogTypeOK
  <2>2. WorklogNext
    BY ReportsOnlyRead DEF outside, files
  <2>3. PICK q \in Request : ApplyAdd(q) \/ ApplyUpdate(q) \/ ApplyDelete(q)
    BY <2>1, <2>2, ZenonT(60) DEF WorklogNext, Step, Land, ReadActivity, Check, AskFails, AskForSet, AskForAdd,
                FetchOwn, Send, Answer, GiveUp, LockMap, LoadMap, WriteMap, RenameMap, SaveFails,
                Arrive, Reject, Edit, Crash, files, outside
  <2>4. q = r /\ flight[r] = "sent"
    BY <2>1, <2>3 DEF ApplyAdd, ApplyUpdate, ApplyDelete, Landed
  <2>5. Prepared(r)
    BY <2>4, PreparedSent
  <2>6. CASE ApplyAdd(r)
    <3>1. call[r].new.author = Me /\ call[r].new.issue \in Scoped
      BY <2>5, <2>6 DEF Prepared, NewEntry, ApplyAdd
    <3>2. tempo[i] = Nil /\ tempo'[i] = call[r].new
      BY <2>1, <2>6 DEF ApplyAdd, WorklogInv, IdsKnown
    <3> QED
      BY <3>1, <3>2
  <2>7. CASE ApplyUpdate(r) \/ ApplyDelete(r)
    <3>1. i = call[r].want.id /\ tempo[i] # Nil /\ call[r].want.op # "add"
      BY <2>1, <2>7 DEF ApplyUpdate, ApplyDelete
    <3>2. /\ tempo[i].author = Me /\ call[r].base \in Entry
          /\ call[r].base.issue \in Scoped
      BY <2>5, <3>1 DEF Prepared
    <3> QED
      BY <3>1, <3>2
  <2> QED
    BY <2>3, <2>4, <2>6, <2>7
<1> QED
  BY <1>1, Invariance, PTL DEF Spec, WritesOwnScoped

HIDE WorklogAssumption

-----------------------------------------------------------------------------
(* The n-th smallest of a finite set of numbers.                           *)

LEMMA CountedUpTo ==
    ASSUME NEW S \in SUBSET Nat, IsFiniteSet(S), NEW i \in S
    PROVE  /\ IsFiniteSet({j \in S : j <= i})
           /\ Cardinality({j \in S : j <= i}) \in 1..Cardinality(S)
<1> DEFINE below == {j \in S : j <= i}
<1>1. below \in SUBSET S /\ i \in below
  OBVIOUS
<1> HIDE DEF below
<1>2. IsFiniteSet(below) /\ Cardinality(below) <= Cardinality(S)
  BY <1>1, FS_Subset
<1>3. Cardinality(below) \in Nat /\ Cardinality(below) # 0 /\ Cardinality(S) \in Nat
  BY <1>1, <1>2, FS_CardinalityType, FS_EmptySet
<1>4. Cardinality(below) \in 1..Cardinality(S)
  BY <1>2, <1>3
<1> QED
  BY <1>2, <1>4 DEF below

LEMMA CountsGrow ==
    ASSUME NEW S \in SUBSET Nat, IsFiniteSet(S), NEW i \in S, NEW k \in S, i < k
    PROVE  Cardinality({j \in S : j <= i}) < Cardinality({j \in S : j <= k})
<1> DEFINE low == {j \in S : j <= i}
           high == {j \in S : j <= k}
<1>1. low \in SUBSET high /\ low # high
  <2>1. k \in high /\ k \notin low
    OBVIOUS
  <2>2. \A j \in low : j \in high
    OBVIOUS
  <2> QED
    BY <2>1, <2>2
<1>2. IsFiniteSet(low) /\ IsFiniteSet(high)
  BY CountedUpTo
<1> HIDE DEF low, high
<1>3. Cardinality(low) <= Cardinality(high) /\ Cardinality(low) # Cardinality(high)
  BY <1>1, <1>2, FS_Subset
<1>4. Cardinality(low) \in Nat /\ Cardinality(high) \in Nat
  BY <1>2, FS_CardinalityType
<1>5. Cardinality(low) < Cardinality(high)
  BY <1>3, <1>4
<1> QED
  BY <1>5 DEF low, high

\* Every place up to the size of the set is taken, by one number each.
LEMMA NthCounts ==
    ASSUME NEW S \in SUBSET Nat, IsFiniteSet(S)
    PROVE  /\ Cardinality(S) \in Nat
           /\ \A n \in 1..Cardinality(S) :
                 Nth(S, n) \in S /\ Cardinality({j \in S : j <= Nth(S, n)}) = n
           /\ \A i \in S :
                 /\ Cardinality({j \in S : j <= i}) \in 1..Cardinality(S)
                 /\ Nth(S, Cardinality({j \in S : j <= i})) = i
           /\ \A m, n \in 1..Cardinality(S) : m < n <=> Nth(S, m) < Nth(S, n)
<1> DEFINE size == Cardinality(S)
           count == [i \in S |-> Cardinality({j \in S : j <= i})]
<1>1. size \in Nat
  BY FS_CardinalityType
<1>2. \A i \in S : count[i] \in 1..size /\ count[i] = Cardinality({j \in S : j <= i})
  BY CountedUpTo
<1>3. \A i, k \in S : i < k => count[i] < count[k]
  BY CountsGrow
<1>4. count \in [S -> 1..size]
  <2>1. count = [i \in S |-> count[i]]
    OBVIOUS
  <2> HIDE DEF count
  <2> QED
    BY <1>2, <2>1
<1>5. \A i \in S : i \in Nat
  OBVIOUS
<1>6. \A n \in 1..size : Nth(S, n) = CHOOSE i \in S : count[i] = n
  BY DEF Nth
<1> HIDE DEF count, size
<1>13. \A i \in S : count[i] \in Nat
  <2> SUFFICES ASSUME NEW i \in S
               PROVE  count[i] \in Nat
    OBVIOUS
  <2>1. count[i] \in 1..size
    BY <1>2
  <2> QED
    BY <1>1, <2>1
<1>7. \A i, k \in S : count[i] = count[k] => i = k
  <2> SUFFICES ASSUME NEW i \in S, NEW k \in S, i # k
               PROVE  count[i] # count[k]
    OBVIOUS
  <2>1. i < k \/ k < i
    BY <1>5
  <2>2. count[i] \in Nat /\ count[k] \in Nat
    BY <1>13
  <2>3. count[i] < count[k] \/ count[k] < count[i]
    BY <1>3, <2>1
  <2> QED
    BY <2>2, <2>3
<1>8. count \in Surjection(S, 1..size)
  <2>1. count \in Injection(S, 1..size)
    BY <1>4, <1>7 DEF Injection, IsInjective
  <2>2. IsFiniteSet(1..size) /\ Cardinality(1..size) = size
    <3>1. 1 \in Int /\ size \in Int
      BY <1>1
    <3>2. /\ IsFiniteSet(1..size)
          /\ Cardinality(1..size) = IF 1 > size THEN 0 ELSE size - 1 + 1
      BY <3>1, FS_Interval
    <3> QED
      BY <1>1, <3>2
  <2>3. Cardinality(S) = Cardinality(1..size)
    BY <2>2 DEF size
  <2> QED
    BY <2>1, <2>2, <2>3, FS_Injection
<1>9. \A n \in 1..size : Nth(S, n) \in S /\ count[Nth(S, n)] = n
  <2> SUFFICES ASSUME NEW n \in 1..size
               PROVE  Nth(S, n) \in S /\ count[Nth(S, n)] = n
    OBVIOUS
  <2>1. \E i \in S : count[i] = n
    BY <1>8 DEF Surjection
  <2> QED
    BY <1>6, <2>1
<1>10. \A i \in S : count[i] \in 1..size /\ Nth(S, count[i]) = i
  BY <1>2, <1>7, <1>9
<1>11. \A m, n \in 1..size : m < n <=> Nth(S, m) < Nth(S, n)
  <2> SUFFICES ASSUME NEW m \in 1..size, NEW n \in 1..size
               PROVE  m < n <=> Nth(S, m) < Nth(S, n)
    OBVIOUS
  <2> DEFINE a == Nth(S, m)
             b == Nth(S, n)
  <2>1. a \in S /\ count[a] = m /\ b \in S /\ count[b] = n
    BY <1>9
  <2> HIDE DEF a, b
  <2>2. a \in Nat /\ b \in Nat /\ m \in Nat /\ n \in Nat
    BY <1>1, <1>5, <2>1
  <2>3. a < b => m < n
    BY <1>3, <2>1
  <2>4. b < a => n < m
    BY <1>3, <2>1
  <2>5. a < b \/ b < a \/ a = b
    BY <2>2
  <2>6. m < n <=> a < b
    BY <2>1, <2>2, <2>3, <2>4, <2>5
  <2> QED
    BY <2>6 DEF a, b
<1>12. /\ \A n \in 1..size : Nth(S, n) \in S /\ Cardinality({j \in S : j <= Nth(S, n)}) = n
       /\ \A i \in S : /\ Cardinality({j \in S : j <= i}) \in 1..size
                       /\ Nth(S, Cardinality({j \in S : j <= i})) = i
  BY <1>2, <1>9, <1>10 DEF size
<1> QED
  BY <1>1, <1>11, <1>12 DEF size

LEMMA MinOfTwo ==
    ASSUME NEW a \in Nat, NEW b \in Nat
    PROVE  Min({a, b}) = IF a <= b THEN a ELSE b
<1>1. \E x \in {a, b} : \A y \in {a, b} : x <= y
  <2>1. CASE a <= b
    BY <2>1
  <2>2. CASE b <= a
    BY <2>2
  <2> QED
    BY <2>1, <2>2
<1>2. Min({a, b}) \in {a, b} /\ \A y \in {a, b} : Min({a, b}) <= y
  BY <1>1 DEF Min
<1> QED
  BY <1>2

-----------------------------------------------------------------------------
(* Tempo's listing and its pages.                                          *)

LEMMA IdsFinite == \A S \in SUBSET Id : S \in SUBSET Nat /\ IsFiniteSet(S) /\ Cardinality(S) \in Nat
<1> SUFFICES ASSUME NEW S \in SUBSET Id
             PROVE  S \in SUBSET Nat /\ IsFiniteSet(S) /\ Cardinality(S) \in Nat
  OBVIOUS
<1>1. S \in SUBSET Nat
  BY WorklogAssumption
<1>2. IsFiniteSet(S)
  BY ReportAssumption, FS_Subset
<1> QED
  BY <1>1, <1>2, FS_CardinalityType

LEMMA ListingShows ==
    ASSUME tempo \in [Id -> Entry \cup {Nil}]
    PROVE  /\ Listing \in Seq(Listed)
           /\ Len(Listing) = Cardinality(ListedIds)
           /\ \A n \in 1..Len(Listing) :
                 /\ Listing[n].id \in ListedIds /\ Lists(Listing[n].entry)
                 /\ Cardinality(Upto(Listing[n].id)) = n
           /\ \A m, n \in 1..Len(Listing) : m < n <=> Listing[m].id < Listing[n].id
           /\ \A i \in ListedIds :
                 /\ Cardinality(Upto(i)) \in 1..Len(Listing)
                 /\ Listing[Cardinality(Upto(i))] = [id |-> i, entry |-> tempo[i]]
<1> DEFINE S == ListedIds
           size == Cardinality(S)
           line(n) == [id |-> Nth(S, n), entry |-> tempo[Nth(S, n)]]
<1>1. S \in SUBSET Id /\ \A i \in S : Lists(tempo[i])
  BY DEF ListedIds
<1>2. S \in SUBSET Nat /\ IsFiniteSet(S)
  BY <1>1, IdsFinite
<1>3. Listing = [n \in 1..size |-> line(n)]
  BY DEF Listing
<1>4. \A i \in S : Upto(i) = {j \in S : j <= i}
  BY DEF Upto
<1> HIDE DEF S
<1>5. size \in Nat
  BY <1>2, NthCounts
<1>6. \A n \in 1..size : Nth(S, n) \in S /\ Cardinality({j \in S : j <= Nth(S, n)}) = n
  BY <1>2, NthCounts
<1>7. \A i \in S : /\ Cardinality({j \in S : j <= i}) \in 1..size
                   /\ Nth(S, Cardinality({j \in S : j <= i})) = i
  BY <1>2, NthCounts
<1>8. \A m, n \in 1..size : m < n <=> Nth(S, m) < Nth(S, n)
  BY <1>2, NthCounts
<1>9. \A i \in S : tempo[i] \in Entry
  <2>1. \A e : Lists(e) => e # Nil
    BY DEF Lists
  <2> QED
    BY <1>1, <2>1
<1>10. \A n \in 1..size : line(n) \in Listed
  BY <1>1, <1>6, <1>9 DEF Listed
<1>11. \A n \in 1..size : Listing[n] = line(n)
  BY <1>3
<1>16. \A n \in 1..size : Listing[n].id = Nth(S, n) /\ Listing[n].entry = tempo[Nth(S, n)]
  <2>1. \A n \in 1..size : line(n).id = Nth(S, n) /\ line(n).entry = tempo[Nth(S, n)]
    OBVIOUS
  <2> HIDE DEF line, size
  <2> QED
    BY <1>11, <2>1
<1> HIDE DEF size, line
<1>12. Listing \in Seq(Listed) /\ Len(Listing) = size
  <2> DEFINE all == Listing
  <2>1. all = [n \in 1..size |-> all[n]]
    BY <1>3
  <2>2. \A n \in 1..size : all[n] \in Listed
    BY <1>10, <1>11
  <2> HIDE DEF all, line
  <2>3. all \in [1..size -> Listed]
    BY <2>1, <2>2
  <2>4. all \in Seq(Listed)
    BY <1>5, <2>3, SeqDef
  <2>5. Len(all) \in Nat /\ DOMAIN all = 1..Len(all)
    BY <2>4, LenProperties
  <2>6. Len(all) = size
    BY <1>5, <2>3, <2>5
  <2> QED
    BY <2>4, <2>6 DEF all
<1>13. \A n \in 1..size : /\ Listing[n].id \in S /\ Lists(Listing[n].entry)
                          /\ Cardinality(Upto(Listing[n].id)) = n
  BY <1>1, <1>4, <1>6, <1>16
<1>14. \A m, n \in 1..size : m < n <=> Listing[m].id < Listing[n].id
  BY <1>8, <1>16
<1>15. \A i \in S : /\ Cardinality(Upto(i)) \in 1..size
                    /\ Listing[Cardinality(Upto(i))] = [id |-> i, entry |-> tempo[i]]
  BY <1>4, <1>7, <1>11 DEF line
<1> QED
  BY <1>12, <1>13, <1>14, <1>15 DEF S, size

\* What has been read is kept, and the page is what the listing has at its places.
LEMMA PageShows ==
    ASSUME tempo \in [Id -> Entry \cup {Nil}], report.read \in Seq(Listed),
           DOMAIN report = DOMAIN IdleReport, Page
    PROVE  LET off == Len(report.read)
               size == Len(Listing)
           IN  /\ off \in Nat /\ size \in Nat
               /\ report'.read \in Seq(Listed)
               /\ Len(report'.read) = IF off + PageSize < size THEN off + PageSize
                                      ELSE IF size < off THEN off ELSE size
               /\ \A n \in 1..off : report'.read[n] = report.read[n]
               /\ \A n \in (off + 1)..Len(report'.read) :
                     n \in 1..size /\ report'.read[n] = Listing[n]
               /\ report'.pc = IF off + PageSize < size THEN "list" ELSE "search"
               /\ report' = [report EXCEPT !.read = report'.read, !.pc = report'.pc]
<1> DEFINE read == report.read
           off == Len(read)
           all == Listing
           size == Len(all)
           last == Min({off + PageSize, size})
           page == SubSeq(all, off + 1, last)
           pc == IF off + PageSize < size THEN "list" ELSE "search"
<1>1. all \in Seq(Listed)
  BY ListingShows
<1>2. report' = [report EXCEPT !.read = read \o page, !.pc = pc]
  BY DEF Page
<1>3. report'.read = read \o page /\ report'.pc = pc
  BY <1>2 DEF IdleReport
<1>4. report' = [report EXCEPT !.read = report'.read, !.pc = report'.pc]
  BY <1>2, <1>3
<1>5. PageSize \in Nat \ {0}
  BY ReportAssumption
<1> HIDE DEF all, read
<1>6. off \in Nat /\ size \in Nat
  BY <1>1, LenProperties DEF read
<1> HIDE DEF off, size
<1>7. last = IF off + PageSize < size THEN off + PageSize ELSE size
  <2>1. off + PageSize \in Nat
    BY <1>5, <1>6
  <2>2. last = IF off + PageSize <= size THEN off + PageSize ELSE size
    BY <1>6, <2>1, MinOfTwo
  <2> QED
    BY <1>5, <1>6, <2>2
<1> HIDE DEF last
<1>8. last \in Nat /\ last <= size
  BY <1>5, <1>6, <1>7
<1>9. /\ page \in Seq(Listed)
      /\ Len(page) = IF off + 1 <= last THEN last - off ELSE 0
      /\ \A n \in 1..(last - off) : page[n] = all[off + n]
  <2>1. off + 1 \in Int /\ last \in Int
    BY <1>6, <1>8
  <2>2. \A n \in (off + 1)..last : n \in 1..Len(all)
    BY <1>6, <1>8 DEF size
  <2>3. \A n \in (off + 1)..last : all[n] \in Listed
    BY <1>1, <2>2, ElementOfSeq
  <2>4. /\ SubSeq(all, off + 1, last) \in Seq(Listed)
        /\ Len(SubSeq(all, off + 1, last)) = IF off + 1 <= last THEN last - (off + 1) + 1 ELSE 0
        /\ \A n \in 1..(last - (off + 1) + 1) : SubSeq(all, off + 1, last)[n] = all[off + 1 + n - 1]
    BY <2>1, <2>3, SubSeqProperties
  <2> HIDE DEF page
  <2>5. /\ page \in Seq(Listed)
        /\ Len(page) = IF off + 1 <= last THEN last - (off + 1) + 1 ELSE 0
        /\ \A n \in 1..(last - (off + 1) + 1) : page[n] = all[off + 1 + n - 1]
    BY <2>4 DEF page
  <2>6. /\ last - (off + 1) + 1 = last - off
        /\ \A n \in 1..(last - off) : off + 1 + n - 1 = off + n
    BY <1>6, <1>8
  <2> QED
    BY <2>5, <2>6
<1> HIDE DEF page
<1>10. read \in Seq(Listed)
  BY DEF read
<1>11. /\ read \o page \in Seq(Listed)
       /\ Len(read \o page) = off + Len(page)
       /\ \A n \in 1..(off + Len(page)) :
              (read \o page)[n] = IF n <= off THEN read[n] ELSE page[n - off]
  BY <1>9, <1>10, ConcatProperties DEF off
<1> DEFINE new == read \o page
<1>12. Len(new) = IF off < last THEN last ELSE off
  BY <1>6, <1>8, <1>9, <1>11
<1> HIDE DEF new
<1>13. Len(new) = IF off + PageSize < size THEN off + PageSize ELSE IF size < off THEN off ELSE size
  BY <1>5, <1>6, <1>7, <1>12
<1>14. \A n \in 1..off : new[n] = read[n]
  BY <1>6, <1>8, <1>9, <1>11 DEF new
<1>15. \A n \in (off + 1)..Len(new) : n \in 1..size /\ new[n] = all[n]
  <2> SUFFICES ASSUME NEW n \in (off + 1)..Len(new)
               PROVE  n \in 1..size /\ new[n] = all[n]
    OBVIOUS
  <2>1. off < last /\ Len(new) = last
    BY <1>6, <1>8, <1>12
  <2>2. n \in Nat /\ n - off \in 1..(last - off) /\ ~ (n <= off) /\ off + (n - off) = n /\ n \in 1..size
    BY <1>6, <1>8, <2>1
  <2>3. Len(page) = last - off
    BY <1>6, <1>8, <1>9, <2>1
  <2>4. n \in 1..(off + Len(page))
    BY <1>6, <1>8, <2>1, <2>2, <2>3
  <2>5. new[n] = page[n - off]
    BY <1>11, <2>2, <2>4 DEF new
  <2> QED
    BY <1>9, <2>2, <2>5
<1>16. report'.read = new /\ new \in Seq(Listed)
  BY <1>3, <1>11 DEF new
<1>17. \A n \in 1..off : report'.read[n] = read[n]
  BY <1>14, <1>16
<1>18. \A n \in (off + 1)..Len(report'.read) : n \in 1..size /\ report'.read[n] = all[n]
  BY <1>15, <1>16
<1>19. Len(report'.read) = IF off + PageSize < size THEN off + PageSize ELSE IF size < off THEN off ELSE size
  BY <1>13, <1>16
<1> QED
  BY <1>3, <1>4, <1>6, <1>16, <1>17, <1>18, <1>19 DEF off, size, all, read

-----------------------------------------------------------------------------
(* The steps of a report.                                                  *)

LEMMA SameQuestion ==
    ASSUME report'.query = report.query, report'.span = report.span
    PROVE  /\ \A i \in Id : Lists(first[i])' <=> Lists(first'[i])
           /\ \A n : Lists(report.read[n].entry)' <=> Lists(report'.read[n].entry)
           /\ ListedIds' = {i \in Id : Lists(tempo'[i])}
BY DEF Lists, InRange, ListedIds

\* The numbers of a listing up to one of its own, or of what has been read.
LEMMA ListedSets ==
    /\ ListedIds \in SUBSET Id
    /\ \A i : Upto(i) \in SUBSET Id /\ IsFiniteSet(Upto(i)) /\ Cardinality(Upto(i)) \in Nat
    /\ PassedIds \in SUBSET Id /\ IsFiniteSet(PassedIds) /\ Cardinality(PassedIds) \in Nat
<1>1. ListedIds \in SUBSET Id
  BY DEF ListedIds
<1>2. \A i : Upto(i) \in SUBSET Id
  BY <1>1 DEF Upto
<1>3. PassedIds \in SUBSET Id
  BY <1>1 DEF PassedIds
<1> QED
  BY <1>1, <1>2, <1>3, IdsFinite

\* The page goes on where the reading has come to.
LEMMA PageContinues ==
    ASSUME WorklogInv, ReportInv, Page
    PROVE  LET off == Len(report.read)
               len == Len(report'.read)
               Found(i) == \E n \in DOMAIN report'.read :
                              report'.read[n] = [id |-> i, entry |-> first'[i]]
           IN  /\ \A n \in 1..len : report'.read[n].id \in used /\ Lists(report'.read[n].entry)
               /\ \A i \in Id \ touched : tempo[i] = first'[i]
               /\ "joined" \notin moved =>
                     \A m, n \in 1..len : m < n => report'.read[m].id < report'.read[n].id
               /\ "left" \notin moved =>
                     \A i \in Id \ touched : Lists(first'[i]) =>
                        Found(i) \/ (report'.pc = "list" /\ len < Cardinality(Upto(i)))
<1> DEFINE read == report.read
           off == Len(read)
           all == Listing
           size == Len(all)
           read1 == report'.read
           len == Len(read1)
           Found(i) == \E n \in DOMAIN read1 : read1[n] = [id |-> i, entry |-> first'[i]]
<1>1. /\ tempo \in [Id -> Entry \cup {Nil}] /\ read \in Seq(Listed) /\ DOMAIN report = DOMAIN IdleReport
      /\ report.pc = "list"
  BY DEF WorklogInv, WorklogTypeOK, ReportInv, ReportTypeOK, Page
<1>2. /\ off \in Nat /\ size \in Nat
      /\ read1 \in Seq(Listed)
      /\ len = IF off + PageSize < size THEN off + PageSize ELSE IF size < off THEN off ELSE size
      /\ \A n \in 1..off : read1[n] = read[n]
      /\ \A n \in (off + 1)..len : n \in 1..size /\ read1[n] = all[n]
      /\ report'.pc = IF off + PageSize < size THEN "list" ELSE "search"
  BY <1>1, PageShows
<1>3. /\ \A n \in 1..size : /\ all[n].id \in ListedIds /\ Lists(all[n].entry)
                            /\ Cardinality(Upto(all[n].id)) = n
      /\ \A m, n \in 1..size : m < n <=> all[m].id < all[n].id
      /\ \A i \in ListedIds : /\ Cardinality(Upto(i)) \in 1..size
                              /\ all[Cardinality(Upto(i))] = [id |-> i, entry |-> tempo[i]]
  BY <1>1, ListingShows
<1>4. DOMAIN read = 1..off /\ DOMAIN read1 = 1..len /\ len \in Nat /\ PageSize \in Nat \ {0}
  BY <1>1, <1>2, LenProperties, ReportAssumption
<1>5. /\ \A n \in 1..off : read[n].id \in used /\ Lists(read[n].entry)
      /\ "joined" \notin moved => Cardinality(PassedIds) <= off
      /\ "joined" \notin moved => \A m, n \in 1..off : m < n => read[m].id < read[n].id
  BY <1>1, <1>4 DEF ReportInv, PlaceKept, PagesRight
<1>6. first' = IF read = << >> THEN tempo ELSE first
  BY DEF Page
<1>7. read = << >> => off = 0
  BY EmptySeq
<1>8. /\ read = << >> => touched = {} /\ moved = {}
      /\ read # << >> => \A i \in Id \ touched : tempo[i] = first[i]
      /\ read # << >> /\ "left" \notin moved =>
            \A i \in Id \ touched : Lists(first[i]) => Has(i) \/ off < Cardinality(Upto(i))
  BY <1>1 DEF ReportInv, PlaceKept, Reading
<1>9. \A i : Has(i) <=> \E n \in DOMAIN read : read[n] = [id |-> i, entry |-> first[i]]
  BY DEF Has
<1>10. \A n \in 1..off : read[n] \in Listed
  BY <1>1, <1>4, ElementOfSeq
<1>11. \A e \in Listed : e.id \in Nat
  BY WorklogAssumption DEF Listed
<1>12. \A n \in 1..size : all[n].id \in Nat
  BY <1>3, ListedSets, WorklogAssumption
<1> HIDE DEF read, all, size, read1, off, len
<1>13. ASSUME NEW n \in 1..len
       PROVE  read1[n].id \in used /\ Lists(read1[n].entry)
  <2>1. CASE n <= off
    BY <1>2, <1>4, <1>5, <2>1
  <2>2. CASE ~ (n <= off)
    <3>1. n \in (off + 1)..len
      BY <1>2, <1>4, <2>2
    <3>2. n \in 1..size /\ read1[n] = all[n]
      BY <1>2, <3>1
    <3>3. all[n].id \in ListedIds /\ Lists(all[n].entry)
      BY <1>3, <3>2
    <3>4. ListedIds \subseteq used
      BY DEF ListedIds, Lists, WorklogInv, IdsKnown
    <3> QED
      BY <3>2, <3>3, <3>4
  <2> QED
    BY <2>1, <2>2
<1>14. ASSUME NEW i \in Id \ touched
       PROVE  tempo[i] = first'[i]
  BY <1>6, <1>8
<1>15. ASSUME "joined" \notin moved, NEW m \in 1..len, NEW n \in 1..len, m < n
       PROVE  read1[m].id < read1[n].id
  <2>1. CASE n <= off
    <3>1. m \in 1..off /\ n \in 1..off
      BY <1>2, <1>4, <1>15, <2>1
    <3> QED
      BY <1>2, <1>5, <1>15, <3>1
  <2>2. CASE ~ (m <= off)
    <3>1. m \in (off + 1)..len /\ n \in (off + 1)..len
      BY <1>2, <1>4, <1>15, <2>2
    <3>2. m \in 1..size /\ n \in 1..size /\ read1[m] = all[m] /\ read1[n] = all[n]
      BY <1>2, <3>1
    <3> QED
      BY <1>3, <1>15, <3>2
  <2>3. CASE m <= off /\ ~ (n <= off)
    <3>1. m \in 1..off /\ n \in (off + 1)..len
      BY <1>2, <1>4, <2>3
    <3>2. n \in 1..size /\ read1[n] = all[n] /\ read1[m] = read[m]
      BY <1>2, <3>1
    <3>3. ASSUME all[n].id <= read[m].id
          PROVE  FALSE
      <4>1. Upto(all[n].id) \subseteq PassedIds
        <5> SUFFICES ASSUME NEW j \in Upto(all[n].id)
                     PROVE  j \in PassedIds
          OBVIOUS
        <5>1. j \in ListedIds /\ j <= all[n].id /\ j \in Nat
          BY ListedSets, WorklogAssumption DEF Upto
        <5>2. all[n].id \in Nat /\ read[m].id \in Nat
          BY <1>10, <1>11, <1>12, <3>1, <3>2
        <5>3. j <= read[m].id /\ m \in DOMAIN report.read
          BY <1>4, <3>1, <3>3, <5>1, <5>2 DEF read
        <5> QED
          BY <5>1, <5>3 DEF PassedIds, Passed, read
      <4>2. Cardinality(Upto(all[n].id)) <= Cardinality(PassedIds)
        BY <4>1, ListedSets, FS_Subset
      <4>3. n <= Cardinality(PassedIds) /\ Cardinality(PassedIds) <= off
        BY <1>3, <1>5, <1>15, <3>2, <4>2
      <4>4. Cardinality(PassedIds) \in Nat
        BY ListedSets
      <4> QED
        BY <1>2, <3>1, <4>3, <4>4
    <3>4. read[m].id < all[n].id
      BY <1>10, <1>11, <1>12, <3>1, <3>2, <3>3
    <3> QED
      BY <3>2, <3>4
  <2> QED
    BY <2>1, <2>2, <2>3
<1>16. ASSUME "left" \notin moved, NEW i \in Id \ touched, Lists(first'[i])
       PROVE  Found(i) \/ (report'.pc = "list" /\ len < Cardinality(Upto(i)))
  <2>1. tempo[i] = first'[i] /\ i \in ListedIds
    BY <1>14, <1>16 DEF ListedIds
  <2> DEFINE n == Cardinality(Upto(i))
  <2>2. n \in 1..size /\ all[n] = [id |-> i, entry |-> first'[i]]
    BY <1>3, <2>1
  <2> HIDE DEF n
  <2>3. ASSUME n <= off PROVE Found(i)
    <3>1. read # << >>
      BY <1>2, <1>7, <2>2, <2>3
    <3>2. first' = first
      BY <1>6, <3>1
    <3>3. Has(i)
      BY <1>2, <1>8, <1>16, <2>2, <2>3, <3>1, <3>2 DEF n
    <3>4. PICK m \in DOMAIN read : read[m] = [id |-> i, entry |-> first'[i]]
      BY <1>9, <3>2, <3>3
    <3>5. m \in 1..off /\ m \in 1..len
      BY <1>2, <1>4, <3>4
    <3>6. read1[m] = [id |-> i, entry |-> first'[i]]
      BY <1>2, <3>4, <3>5
    <3> QED
      BY <1>4, <3>5, <3>6
  <2>4. ASSUME ~ (n <= off), n <= len PROVE Found(i)
    <3>1. n \in (off + 1)..len /\ n \in 1..len
      BY <1>2, <1>4, <2>2, <2>4
    <3>2. read1[n] = [id |-> i, entry |-> first'[i]]
      BY <1>2, <2>2, <3>1
    <3> QED
      BY <1>4, <3>1, <3>2
  <2>5. ASSUME ~ (n <= off), ~ (n <= len)
        PROVE  report'.pc = "list" /\ len < n
    BY <1>2, <1>4, <2>2, <2>5
  <2> QED
    BY <2>3, <2>4, <2>5 DEF n
<1> QED
  BY <1>13, <1>14, <1>15, <1>16 DEF read, off, read1, len

LEMMA PageKeeps ==
    ASSUME WorklogInv, WorklogInv', ReportInv, Page
    PROVE  ReportInv'
<1> DEFINE read1 == report'.read
           len == Len(read1)
           Found(i) == \E n \in DOMAIN read1 : read1[n] = [id |-> i, entry |-> first'[i]]
<1>1. /\ tempo \in [Id -> Entry \cup {Nil}] /\ report.read \in Seq(Listed)
      /\ DOMAIN report = DOMAIN IdleReport /\ report.pc = "list"
      /\ report.query \in Query /\ first \in [Id -> Entry \cup {Nil}]
      /\ touched \subseteq Id /\ moved \subseteq {"left", "joined"}
  BY DEF WorklogInv, WorklogTypeOK, ReportInv, ReportTypeOK, Page
<1>2. /\ UNCHANGED <<tempo, used, touched, moved>>
      /\ first' = IF report.read = << >> THEN tempo ELSE first
  BY DEF Page, worklogVars
<1>3. /\ Len(report.read) \in Nat /\ Len(Listing) \in Nat
      /\ read1 \in Seq(Listed)
      /\ len = IF Len(report.read) + PageSize < Len(Listing) THEN Len(report.read) + PageSize
               ELSE IF Len(Listing) < Len(report.read) THEN Len(report.read) ELSE Len(Listing)
      /\ report'.pc = IF Len(report.read) + PageSize < Len(Listing) THEN "list" ELSE "search"
      /\ report' = [report EXCEPT !.read = read1, !.pc = report'.pc]
      /\ \A n \in (Len(report.read) + 1)..len : n \in 1..Len(Listing) /\ read1[n] = Listing[n]
  BY <1>1, PageShows
<1>4. /\ DOMAIN report' = DOMAIN IdleReport
      /\ report'.query = report.query /\ report'.span = report.span
  BY <1>1, <1>3 DEF IdleReport
<1>5. report'.pc \in {"list", "search"} /\ PageSize \in Nat \ {0}
  BY <1>3, ReportAssumption
<1>6. /\ \A n \in 1..len : read1[n].id \in used /\ Lists(read1[n].entry)
      /\ \A i \in Id \ touched : tempo[i] = first'[i]
      /\ "joined" \notin moved => \A m, n \in 1..len : m < n => read1[m].id < read1[n].id
      /\ "left" \notin moved =>
            \A i \in Id \ touched : Lists(first'[i]) =>
               Found(i) \/ (report'.pc = "list" /\ len < Cardinality(Upto(i)))
  BY PageContinues
<1>7. /\ \A i \in Id : Lists(first[i])' <=> Lists(first'[i])
      /\ \A n : Lists(report.read[n].entry)' <=> Lists(read1[n].entry)
      /\ ListedIds' = ListedIds
  <2>1. ListedIds' = {i \in Id : Lists(tempo'[i])}
    BY <1>4, SameQuestion
  <2> QED
    BY <1>2, <1>4, <2>1, SameQuestion DEF ListedIds
<1>8. DOMAIN read1 = 1..len /\ len \in Nat
  BY <1>3, LenProperties
<1> HIDE DEF read1, len
<1>9. PassedIds' = {j \in ListedIds : \E n \in 1..len : j <= read1[n].id}
  BY <1>7, <1>8 DEF PassedIds, Passed, read1
<1>10. \A i \in Id : Upto(i)' = Upto(i)
  BY <1>7 DEF Upto
<1>11. ASSUME report'.pc = "list"
       PROVE  /\ len \in 1..Len(Listing) /\ read1[len].id \in ListedIds
              /\ Cardinality(Upto(read1[len].id)) = len
  <2>1. len \in (Len(report.read) + 1)..len
    BY <1>3, <1>5, <1>8, <1>11
  <2>2. len \in 1..Len(Listing) /\ read1[len] = Listing[len]
    BY <1>3, <2>1
  <2> QED
    BY <1>1, <2>2, ListingShows
<1>12. \A n \in 1..len : read1[n].id \in Nat
  <2>1. \A n \in 1..len : read1[n] \in Listed
    BY <1>3, ElementOfSeq DEF len
  <2> QED
    BY <2>1, WorklogAssumption DEF Listed
<1>13. \A j \in ListedIds : j \in Nat
  BY ListedSets, WorklogAssumption
<1>14. IsFiniteSet(PassedIds') /\ Cardinality(PassedIds') \in Nat
  <2>1. PassedIds' \in SUBSET Id
    BY <1>9, ListedSets
  <2> QED
    BY <2>1, IdsFinite
<1>15. ASSUME report'.pc = "list", "joined" \notin moved
       PROVE  Cardinality(PassedIds') <= len
  <2> DEFINE top == read1[len].id
  <2>1. PassedIds' \subseteq Upto(top)
    <3> SUFFICES ASSUME NEW j \in PassedIds'
                 PROVE  j \in Upto(top)
      OBVIOUS
    <3>1. PICK n \in 1..len : j \in ListedIds /\ j <= read1[n].id
      BY <1>9
    <3>2. n = len \/ (n < len /\ len \in 1..len)
      BY <1>8
    <3>3. read1[n].id <= top
      <4>1. n = len \/ read1[n].id < top
        BY <1>6, <1>15, <3>2 DEF read1, len
      <4>2. read1[n].id \in Nat /\ top \in Nat
        BY <1>8, <1>12, <3>1
      <4> QED
        BY <4>1, <4>2
    <3>4. j \in Nat /\ read1[n].id \in Nat /\ top \in Nat
      BY <1>8, <1>12, <1>13, <3>1
    <3>5. j <= top
      BY <3>1, <3>3, <3>4
    <3> QED
      BY <3>1, <3>5 DEF Upto
  <2>2. Cardinality(PassedIds') <= Cardinality(Upto(top))
    BY <2>1, ListedSets, FS_Subset
  <2> QED
    BY <1>11, <1>15, <2>2
<1>16. ASSUME report'.pc = "list", "left" \notin moved
       PROVE  len <= Cardinality(PassedIds')
  <2> DEFINE top == read1[len].id
  <2>1. len \in 1..len
    BY <1>8, <1>11, <1>16
  <2>2. Upto(top) \subseteq PassedIds'
    BY <1>9, <2>1 DEF Upto
  <2>3. Cardinality(Upto(top)) <= Cardinality(PassedIds')
    BY <1>14, <2>2, FS_Subset
  <2> QED
    BY <1>11, <1>16, <2>3
<1>17. ReportTypeOK'
  <2>1. WorklogTypeOK'
    BY DEF WorklogInv
  <2>2. first' \in [Id -> Entry \cup {Nil}]
    BY <1>1, <1>2
  <2>3. (report.pc \in {"idle", "list", "search", "ok", "failed"})'
    BY <1>5
  <2>4. (report.query \in Query)'
    BY <1>1, <1>4
  <2>5. report'.read \in Seq(Listed)
    BY <1>3 DEF read1
  <2>6. touched' \subseteq Id /\ moved' \subseteq {"left", "joined"}
    BY <1>1, <1>2
  <2> QED
    BY <1>4, <2>1, <2>2, <2>3, <2>4, <2>5, <2>6 DEF ReportTypeOK
<1>18. \A i \in Id : Has(i)' <=> Found(i)
  BY DEF Has, read1
<1>19. PlaceKept'
  <2> SUFFICES ASSUME report'.pc = "list"
               PROVE  /\ \A n \in DOMAIN read1 : read1[n].id \in used'
                      /\ read1 = << >> => touched' = {} /\ moved' = {}
                      /\ \A i \in Id \ touched' : tempo'[i] = first'[i]
                      /\ "joined" \notin moved' => Cardinality(PassedIds') <= len
                      /\ "left" \notin moved' =>
                            /\ len <= Cardinality(PassedIds')
                            /\ \A i \in Id \ touched' : Lists(first'[i]) =>
                                  Found(i) \/ len < Cardinality(Upto(i))
    BY <1>7, <1>10, <1>18 DEF PlaceKept, Reading, read1, len
  <2>1. len # 0
    BY <1>3, <1>5
  <2>2. read1 # << >>
    BY <2>1, EmptySeq DEF len
  <2> QED
    BY <1>2, <1>6, <1>8, <1>15, <1>16, <2>2 DEF read1, len
<1>20. PagesRight'
  <2>1. report.query.kind = "issue" => report.query.key \in Scoped
    BY <1>1 DEF ReportInv, PagesRight
  <2> SUFFICES /\ \A n \in DOMAIN read1 : Lists(read1[n].entry)
               /\ "joined" \notin moved =>
                     \A m, n \in DOMAIN read1 : m < n => read1[m].id < read1[n].id
    BY <1>2, <1>4, <1>7, <2>1 DEF PagesRight, read1
  <2> QED
    BY <1>6, <1>8 DEF read1, len
<1>21. AllRead'
  <2>1. report'.pc = "search" /\ "left" \notin moved =>
           \A i \in Id \ touched : Lists(first'[i]) => Found(i)
    BY <1>6
  <2> QED
    BY <1>2, <1>5, <1>7, <1>18, <2>1 DEF AllRead
<1> QED
  BY <1>17, <1>19, <1>20, <1>21 DEF ReportInv

\* What Tempo does: a worklog that is added gets a number above all others.
LEMMA TempoSteps ==
    ASSUME WorklogTypeOK, IdsKnown, WorklogNext
    PROVE  /\ used \subseteq used'
           /\ \A i \in Id : tempo[i] = Nil /\ tempo'[i] # Nil => \A j \in used : j < i
<1>1. tempo \in [Id -> Entry \cup {Nil}]
  BY DEF WorklogTypeOK
<1>2. ASSUME NEW r \in Request, Step(r) \/ (\E w \in Want : Arrive(r, w)) \/ Reject(r)
      PROVE  UNCHANGED <<tempo, used>>
  BY <1>2 DEF Step, ReadActivity, Check, AskFails, AskForSet, AskForAdd, FetchOwn, Send, Answer,
              GiveUp, LockMap, LoadMap, WriteMap, RenameMap, SaveFails, Arrive, Reject, outside
<1>3. ASSUME NEW r \in Request, ApplyAdd(r)
      PROVE  /\ used \subseteq used'
             /\ \A i \in Id : tempo[i] = Nil /\ tempo'[i] # Nil => \A j \in used : j < i
  BY <1>1, <1>3 DEF ApplyAdd
<1>4. ASSUME NEW r \in Request, ApplyUpdate(r) \/ ApplyDelete(r)
      PROVE  UNCHANGED used /\ \A i \in Id : tempo[i] = Nil => tempo'[i] = Nil
  BY <1>1, <1>4 DEF ApplyUpdate, ApplyDelete
<1>5. ASSUME NEW i \in Id, Edit(i)
      PROVE  UNCHANGED used /\ \A j \in Id : tempo[j] = Nil => tempo'[j] = Nil
  BY <1>1, <1>5 DEF Edit
<1>6. Crash => UNCHANGED <<tempo, used>>
  BY DEF Crash, outside
<1> QED
  BY <1>2, <1>3, <1>4, <1>5, <1>6 DEF WorklogNext, Land

LEMMA MeanwhileKeeps ==
    ASSUME WorklogInv, WorklogInv', ReportInv, Meanwhile
    PROVE  ReportInv'
<1> DEFINE read == report.read
           len == Len(read)
<1>1. /\ tempo \in [Id -> Entry \cup {Nil}] /\ tempo' \in [Id -> Entry \cup {Nil}] /\ used \subseteq Id
      /\ read \in Seq(Listed) /\ touched \subseteq Id /\ moved \subseteq {"left", "joined"}
  BY DEF WorklogInv, WorklogTypeOK, ReportInv, ReportTypeOK
<1>2. UNCHANGED <<report, first>>
  BY DEF Meanwhile
<1>3. /\ used \subseteq used'
      /\ \A i \in Id : tempo[i] = Nil /\ tempo'[i] # Nil => \A j \in used : j < i
  BY TempoSteps DEF WorklogInv, Meanwhile
<1>4. DOMAIN read = 1..len /\ len \in Nat
  BY <1>1, LenProperties
<1>5. touched \subseteq touched' /\ touched' \subseteq Id /\ moved \subseteq moved'
      /\ moved' \subseteq {"left", "joined"}
  BY <1>1 DEF Meanwhile
<1>6. ~ Reading => UNCHANGED <<touched, moved>>
  BY DEF Meanwhile
<1>7. /\ \A e : Lists(e)' <=> Lists(e)
      /\ \A i \in Id : Lists(first[i])' <=> Lists(first[i])
      /\ \A n : Lists(report.read[n].entry)' <=> Lists(report.read[n].entry)
      /\ ListedIds' = {i \in Id : Lists(tempo'[i])}
      /\ \A i : Has(i)' <=> Has(i)
      /\ \A i : Passed(i)' <=> Passed(i)
  BY <1>2, SameQuestion DEF Lists, InRange, Has, Passed
<1>8. ReportTypeOK'
  BY <1>2, <1>5 DEF ReportInv, ReportTypeOK, WorklogInv
<1>9. PagesRight'
  BY <1>2, <1>5, <1>7 DEF ReportInv, PagesRight
<1>10. AllRead'
  <2>1. report.pc \in {"search", "ok"} => UNCHANGED <<touched, moved>>
    BY <1>6 DEF Reading
  <2>2. InScope(report.read)' = InScope(report.read)
    BY <1>2 DEF InScope, Select
  <2> QED
    BY <1>2, <1>7, <2>1, <2>2 DEF ReportInv, AllRead
<1>11. PassedIds' = {i \in Id : Lists(tempo'[i]) /\ Passed(i)}
  BY <1>7 DEF PassedIds
<1>12. ASSUME report.pc = "list", read = << >>
       PROVE  PlaceKept'
  <2>1. len = 0 /\ touched' = {} /\ moved' = {} /\ ~ Reading'
    BY <1>2, <1>6, <1>12, EmptySeq DEF Reading, ReportInv, PlaceKept
  <2>2. \A n \in DOMAIN read : FALSE
    BY <1>4, <2>1
  <2>3. PassedIds' = {}
    BY <1>11, <2>2 DEF Passed
  <2>4. Cardinality(PassedIds') = 0
    BY <2>3, FS_EmptySet
  <2> QED
    BY <1>2, <2>1, <2>2, <2>4 DEF PlaceKept
<1>13. ASSUME Reading
       PROVE  PlaceKept'
  <2>1. /\ \A n \in DOMAIN read : read[n].id \in used
        /\ \A i \in Id \ touched : tempo[i] = first[i]
        /\ "joined" \notin moved => Cardinality(PassedIds) <= len
        /\ "left" \notin moved =>
              /\ len <= Cardinality(PassedIds)
              /\ \A i \in Id \ touched :
                    Lists(first[i]) => Has(i) \/ len < Cardinality(Upto(i))
    BY <1>13 DEF ReportInv, PlaceKept, Reading
  <2>2. PassedIds = {i \in Id : Lists(tempo[i]) /\ Passed(i)}
    BY DEF PassedIds, ListedIds
  <2>3. /\ IsFiniteSet(PassedIds) /\ Cardinality(PassedIds) \in Nat
        /\ IsFiniteSet(PassedIds') /\ Cardinality(PassedIds') \in Nat
    BY <1>11, IdsFinite, ListedSets
  <2>4. \A i \in Id : i \notin touched' => tempo'[i] = tempo[i] /\ i \notin touched
    BY <1>13 DEF Meanwhile
  <2>5. ASSUME "joined" \notin moved' PROVE Cardinality(PassedIds') <= len
    <3>1. PassedIds' \subseteq PassedIds
      <4> SUFFICES ASSUME NEW i \in Id, Lists(tempo'[i]), Passed(i), ~ Lists(tempo[i])
                   PROVE  FALSE
        BY <1>11, <2>2
      <4>1. tempo[i] = Nil
        BY <1>13, <2>5 DEF Meanwhile
      <4>2. \A j \in used : j < i
        BY <1>3, <4>1 DEF Lists
      <4>3. PICK n \in DOMAIN read : i <= read[n].id
        BY DEF Passed
      <4>4. read[n].id \in used /\ read[n].id \in Nat /\ i \in Nat
        BY <1>1, <2>1, WorklogAssumption
      <4> QED
        BY <4>2, <4>3, <4>4
    <3>2. Cardinality(PassedIds') <= Cardinality(PassedIds)
      BY <2>3, <3>1, FS_Subset
    <3> QED
      BY <1>4, <1>5, <2>1, <2>3, <2>5, <3>2
  <2>6. ASSUME "left" \notin moved' PROVE len <= Cardinality(PassedIds')
    <3>1. PassedIds \subseteq PassedIds'
      BY <1>11, <1>13, <2>2, <2>6 DEF Meanwhile
    <3>2. Cardinality(PassedIds) <= Cardinality(PassedIds')
      BY <2>3, <3>1, FS_Subset
    <3> QED
      BY <1>4, <1>5, <2>1, <2>3, <2>6, <3>2
  <2>7. ASSUME "left" \notin moved', NEW i \in Id \ touched', Lists(first[i]), ~ Has(i)
        PROVE  len < Cardinality(Upto(i)')
    <3>1. tempo'[i] = first[i] /\ tempo[i] = first[i] /\ i \in Id \ touched
      BY <2>1, <2>4
    <3>2. Upto(i)' = {j \in Id : Lists(tempo'[j]) /\ j <= i} /\ Upto(i) = {j \in Id : Lists(tempo[j]) /\ j <= i}
      BY <1>7 DEF Upto, ListedIds
    <3>3. IsFiniteSet(Upto(i)') /\ Cardinality(Upto(i)') \in Nat
          /\ IsFiniteSet(Upto(i)) /\ Cardinality(Upto(i)) \in Nat
      BY <3>2, IdsFinite, ListedSets
    <3>4. CASE Passed(i)
      <4>1. PICK n \in DOMAIN read : i <= read[n].id
        BY <3>4 DEF Passed
      <4>2. \A j \in Id : j <= i => Passed(j)
        <5>1. \A j \in Id : j \in Nat
          BY WorklogAssumption
        <5>2. i \in Nat /\ read[n].id \in Nat
          BY <1>1, <2>1, <5>1
        <5> QED
          BY <4>1, <5>1, <5>2 DEF Passed
      <4>3. Upto(i) \subseteq Upto(i)'
        BY <1>13, <2>7, <3>2, <4>2 DEF Meanwhile
      <4>4. Cardinality(Upto(i)) <= Cardinality(Upto(i)')
        BY <3>3, <4>3, FS_Subset
      <4>5. len < Cardinality(Upto(i))
        BY <1>5, <2>1, <2>7, <3>1
      <4> QED
        BY <1>4, <3>3, <4>4, <4>5
    <3>5. CASE ~ Passed(i)
      <4>1. PassedIds' \subseteq Upto(i)'
        <5> SUFFICES ASSUME NEW j \in Id, Lists(tempo'[j]), Passed(j)
                     PROVE  j <= i
          BY <1>11, <3>2
        <5>1. PICK n \in DOMAIN read : j <= read[n].id
          BY DEF Passed
        <5>2. ~ (i <= read[n].id)
          BY <3>5, <5>1 DEF Passed
        <5>3. i \in Nat /\ j \in Nat /\ read[n].id \in Nat
          BY <1>1, <2>1, WorklogAssumption
        <5> QED
          BY <5>1, <5>2, <5>3
      <4>2. i \in Upto(i)' /\ i \notin PassedIds'
        <5>1. i <= i
          <6>1. i \in Nat
            BY WorklogAssumption
          <6> QED
            BY <6>1
        <5> QED
          BY <1>11, <2>7, <3>1, <3>2, <3>5, <5>1
      <4>3. Cardinality(PassedIds') <= Cardinality(Upto(i)') /\ Cardinality(PassedIds') # Cardinality(Upto(i)')
        BY <3>3, <4>1, <4>2, FS_Subset
      <4> QED
        BY <1>4, <2>3, <2>6, <2>7, <3>3, <4>3
    <3> QED
      BY <3>4, <3>5
  <2> QED
    BY <1>2, <1>3, <1>7, <2>1, <2>4, <2>5, <2>6, <2>7, <1>13 DEF PlaceKept, Reading
<1>14. PlaceKept'
  <2>1. report.pc # "list" => PlaceKept'
    BY <1>2 DEF PlaceKept
  <2> QED
    BY <1>12, <1>13, <2>1 DEF Reading
<1> QED
  BY <1>8, <1>9, <1>10, <1>14 DEF ReportInv

LEMMA BeginKeeps ==
    ASSUME WorklogInv, WorklogInv', NEW q \in Query, Begin(q)
    PROVE  ReportInv'
<1>1. /\ DOMAIN report' = DOMAIN IdleReport /\ report'.pc = "list" /\ report'.query = q
      /\ report'.read = << >> /\ first' = tempo /\ touched' = {} /\ moved' = {}
      /\ q.kind = "issue" => q.key \in Scoped
  BY DEF Begin, IdleReport
<1>2. << >> \in Seq(Listed) /\ Len(<< >>) = 0
  BY EmptySeq
<1>3. DOMAIN report'.read = {}
  BY <1>1
<1>4. ReportTypeOK'
  BY <1>1, <1>2 DEF ReportTypeOK, WorklogInv, WorklogTypeOK
<1>5. PassedIds' = {}
  BY <1>3 DEF PassedIds, Passed
<1>6. Cardinality(PassedIds') = 0
  BY <1>5, FS_EmptySet
<1>7. PlaceKept'
  BY <1>1, <1>2, <1>3, <1>6 DEF PlaceKept, Reading
<1>8. PagesRight'
  BY <1>1, <1>3 DEF PagesRight
<1>9. AllRead'
  BY <1>1 DEF AllRead
<1> QED
  BY <1>4, <1>7, <1>8, <1>9 DEF ReportInv

LEMMA AnswerEntries ==
    /\ \A es : IssueSums(es).entries = es
    /\ \A q, es : Sums(q, es).entries = es
<1>1. \A es : IssueSums(es).entries = es
  BY DEF IssueSums
<1>2. \A q, es : Sums(q, es).entries = es
  BY DEF Sums
<1> QED
  BY <1>1, <1>2

LEMMA SearchKeeps ==
    ASSUME WorklogInv', ReportInv, Search
    PROVE  ReportInv'
<1>1. /\ DOMAIN report = DOMAIN IdleReport /\ report.pc = "search"
      /\ UNCHANGED <<tempo, used, first, touched, moved>>
  BY DEF ReportInv, ReportTypeOK, Search, worklogVars
<1> DEFINE answer == IF report.query.kind = "issue" THEN IssueSums(report.read)
                     ELSE Sums(report.query, InScope(report.read))
<1>2. \/ report' = [report EXCEPT !.pc = "ok", !.answer = answer]
      \/ report' = [report EXCEPT !.pc = "failed"]
  BY DEF Search
<1>3. answer.entries = IF report.query.kind = "issue" THEN report.read ELSE InScope(report.read)
  BY AnswerEntries
<1> HIDE DEF answer
<1>4. /\ DOMAIN report' = DOMAIN IdleReport
      /\ report'.pc \in {"ok", "failed"} /\ UNCHANGED <<report.query, report.span, report.read>>
      /\ report'.pc = "ok" => report'.answer = answer
  BY <1>1, <1>2 DEF IdleReport
<1>5. /\ \A i \in Id : Lists(first[i])' <=> Lists(first[i])
      /\ \A n : Lists(report.read[n].entry)' <=> Lists(report.read[n].entry)
      /\ \A i : Has(i)' <=> Has(i)
  BY <1>1, <1>4 DEF Lists, InRange, Has
<1>6. InScope(report.read)' = InScope(report.read)
  BY <1>4 DEF InScope, Select
<1>7. ReportTypeOK'
  BY <1>1, <1>4 DEF ReportInv, ReportTypeOK, WorklogInv
<1>8. PlaceKept'
  BY <1>4 DEF PlaceKept
<1>9. PagesRight'
  BY <1>1, <1>4, <1>5 DEF ReportInv, PagesRight
<1>10. AllRead'
  BY <1>1, <1>3, <1>4, <1>5, <1>6 DEF ReportInv, AllRead
<1> QED
  BY <1>7, <1>8, <1>9, <1>10 DEF ReportInv

LEMMA ReportFailsKeeps ==
    ASSUME WorklogInv', ReportInv, ReportFails
    PROVE  ReportInv'
<1>1. /\ DOMAIN report = DOMAIN IdleReport /\ report' = [report EXCEPT !.pc = "failed"]
      /\ UNCHANGED <<first, touched, moved>> /\ report.pc # "idle"
  BY DEF ReportInv, ReportTypeOK, ReportFails
<1>2. /\ DOMAIN report' = DOMAIN IdleReport /\ report'.pc = "failed"
      /\ UNCHANGED <<report.query, report.read>>
  BY <1>1 DEF IdleReport
<1>3. ReportTypeOK'
  BY <1>1, <1>2 DEF ReportInv, ReportTypeOK, WorklogInv
<1> QED
  BY <1>2, <1>3 DEF ReportInv, PlaceKept, PagesRight, AllRead

LEMMA ReportInvInit == Init /\ WorklogInv => ReportInv
<1> SUFFICES ASSUME Init, WorklogInv
             PROVE  ReportInv
  OBVIOUS
<1>1. /\ report = IdleReport /\ report.pc = "idle" /\ report.read = << >>
      /\ first = tempo /\ touched = {} /\ moved = {}
  BY DEF Init, IdleReport
<1>2. ReportTypeOK
  BY <1>1, EmptySeq DEF ReportTypeOK, WorklogInv, WorklogTypeOK
<1> QED
  BY <1>1, <1>2 DEF ReportInv, PlaceKept, PagesRight, AllRead

LEMMA ReportInvNext == WorklogInv /\ WorklogInv' /\ ReportInv /\ [Next]_vars => ReportInv'
<1> SUFFICES ASSUME WorklogInv, WorklogInv', ReportInv, [Next]_vars
             PROVE  ReportInv'
  OBVIOUS
<1>1. CASE UNCHANGED vars
  <2>1. UNCHANGED <<tempo, used, report, first, touched, moved>>
    BY <1>1 DEF vars, worklogVars
  <2>2. ReportTypeOK' /\ PagesRight' /\ AllRead'
    BY <2>1 DEF ReportInv, ReportTypeOK, WorklogInv, PagesRight, AllRead, Lists, InRange, Has, InScope, Select
  <2>3. PlaceKept'
    BY <2>1 DEF ReportInv, PlaceKept, Reading, PassedIds, Passed, ListedIds, Upto, Has, Lists, InRange
  <2> QED
    BY <2>2, <2>3 DEF ReportInv
<1> QED
  BY <1>1, BeginKeeps, PageKeeps, SearchKeeps, ReportFailsKeeps, MeanwhileKeeps DEF Next, ReportNext

-----------------------------------------------------------------------------

\* What is left of a listing is what is in scope, in its order.
LEMMA InScopeShows ==
    ASSUME NEW es \in Seq(Listed)
    PROVE  /\ \A n \in DOMAIN InScope(es) : \E m \in DOMAIN es :
                 InScope(es)[n] = es[m] /\ es[m].entry.issue \in Scoped
           /\ \A m \in DOMAIN es : es[m].entry.issue \in Scoped =>
                 \E n \in DOMAIN InScope(es) : InScope(es)[n] = es[m]
           /\ \A k, n \in DOMAIN InScope(es) : k < n =>
                 \E l, m \in DOMAIN es : l < m /\ InScope(es)[k] = es[l] /\ InScope(es)[n] = es[m]
<1> DEFINE at == {n \in DOMAIN es : es[n].entry.issue \in Scoped}
           size == Cardinality(at)
<1>1. InScope(es) = [n \in 1..size |-> es[Nth(at, n)]]
  BY DEF InScope, Select
<1>2. \A n \in at : n \in DOMAIN es /\ es[n].entry.issue \in Scoped
  OBVIOUS
<1>3. \A m \in DOMAIN es : es[m].entry.issue \in Scoped => m \in at
  OBVIOUS
<1>4. at \in SUBSET Nat /\ IsFiniteSet(at)
  <2>1. DOMAIN es = 1..Len(es) /\ Len(es) \in Nat
    BY LenProperties
  <2>2. 1 \in Int /\ Len(es) \in Int
    BY <2>1
  <2>3. IsFiniteSet(1..Len(es))
    BY <2>2, FS_Interval
  <2>4. at \in SUBSET (1..Len(es))
    BY <2>1
  <2> HIDE DEF at
  <2>5. IsFiniteSet(at)
    BY <2>3, <2>4, FS_Subset
  <2>6. at \in SUBSET Nat
    BY <2>1, <2>4
  <2> QED
    BY <2>5, <2>6
<1> HIDE DEF at
<1>5. /\ size \in Nat
      /\ \A n \in 1..size : Nth(at, n) \in at
      /\ \A i \in at : \E n \in 1..size : Nth(at, n) = i
      /\ \A m, n \in 1..size : m < n <=> Nth(at, m) < Nth(at, n)
  BY <1>4, NthCounts
<1> HIDE DEF size
<1>6. DOMAIN InScope(es) = 1..size /\ \A n \in 1..size : InScope(es)[n] = es[Nth(at, n)]
  BY <1>1
<1>7. \A n \in 1..size : InScope(es)[n] = es[Nth(at, n)] /\ Nth(at, n) \in DOMAIN es
                          /\ es[Nth(at, n)].entry.issue \in Scoped
  BY <1>2, <1>5, <1>6
<1>8. ASSUME NEW m \in DOMAIN es, es[m].entry.issue \in Scoped
      PROVE  \E n \in DOMAIN InScope(es) : InScope(es)[n] = es[m]
  <2>1. PICK n \in 1..size : Nth(at, n) = m
    BY <1>3, <1>5, <1>8
  <2> QED
    BY <1>6, <2>1
<1>9. ASSUME NEW k \in 1..size, NEW n \in 1..size, k < n
      PROVE  \E l, m \in DOMAIN es : l < m /\ InScope(es)[k] = es[l] /\ InScope(es)[n] = es[m]
  <2>1. Nth(at, k) < Nth(at, n)
    BY <1>5, <1>9
  <2> QED
    BY <1>7, <2>1
<1> QED
  BY <1>6, <1>7, <1>8, <1>9

LEMMA ReportCorrect == ReportInv => ReportComplete
<1> SUFFICES ASSUME ReportInv, report.pc = "ok"
             PROVE  LET es == report.answer.entries IN
                    /\ \A n \in DOMAIN es : Lists(es[n].entry) /\ es[n].entry.issue \in Scoped
                    /\ "left" \notin moved => \A i \in Id \ touched :
                          Lists(first[i]) /\ first[i].issue \in Scoped
                             => \E n \in DOMAIN es : es[n] = [id |-> i, entry |-> first[i]]
                    /\ "joined" \notin moved => \A m, n \in DOMAIN es : es[m].id = es[n].id => m = n
  BY DEF ReportComplete
<1> DEFINE read == report.read
           es == report.answer.entries
<1>1. read \in Seq(Listed) /\ DOMAIN read = 1..Len(read) /\ Len(read) \in Nat
  BY LenProperties DEF ReportInv, ReportTypeOK
<1>2. /\ \A n \in DOMAIN read : Lists(read[n].entry)
      /\ "joined" \notin moved => \A m, n \in DOMAIN read : m < n => read[m].id < read[n].id
      /\ report.query.kind = "issue" => report.query.key \in Scoped
  BY DEF ReportInv, PagesRight
<1>3. /\ "left" \notin moved => \A i \in Id \ touched : Lists(first[i]) =>
            \E n \in DOMAIN read : read[n] = [id |-> i, entry |-> first[i]]
      /\ es = IF report.query.kind = "issue" THEN read ELSE InScope(read)
  BY DEF ReportInv, AllRead, Has
<1>4. report.query.kind = "issue" => \A e : Lists(e) => e.issue \in Scoped
  BY <1>2 DEF Lists
<1>5. \A n \in DOMAIN read : read[n] \in Listed
  BY <1>1, ElementOfSeq
<1>6. \A n \in DOMAIN read : read[n].id \in Nat
  BY <1>5, WorklogAssumption DEF Listed
<1> HIDE DEF read, es
\* Whether all is answered or what is in scope, it comes from what was read.
<1>7. /\ \A n \in DOMAIN es : \E m \in DOMAIN read : es[n] = read[m] /\ read[m].entry.issue \in Scoped
      /\ \A m \in DOMAIN read : read[m].entry.issue \in Scoped =>
            \E n \in DOMAIN es : es[n] = read[m]
      /\ \A k, n \in DOMAIN es : k < n =>
            \E l, m \in DOMAIN read : l < m /\ es[k] = read[l] /\ es[n] = read[m]
      /\ \A n \in DOMAIN es : n \in Nat
  <2>1. CASE report.query.kind = "issue"
    <3>1. es = read
      BY <1>3, <2>1
    <3> QED
      BY <1>1, <1>2, <1>4, <2>1, <3>1 DEF read
  <2>2. CASE report.query.kind # "issue"
    <3>1. es = InScope(read)
      BY <1>3, <2>2
    <3>2. \A n \in DOMAIN InScope(read) : n \in Nat
      BY DEF InScope, Select
    <3>3. /\ \A n \in DOMAIN InScope(read) : \E m \in DOMAIN read :
                InScope(read)[n] = read[m] /\ read[m].entry.issue \in Scoped
          /\ \A m \in DOMAIN read : read[m].entry.issue \in Scoped =>
                \E n \in DOMAIN InScope(read) : InScope(read)[n] = read[m]
          /\ \A k, n \in DOMAIN InScope(read) : k < n =>
                \E l, m \in DOMAIN read : l < m /\ InScope(read)[k] = read[l] /\ InScope(read)[n] = read[m]
      BY <1>1, InScopeShows
    <3> QED
      BY <3>1, <3>2, <3>3
  <2> QED
    BY <2>1, <2>2
<1>8. \A n \in DOMAIN es : Lists(es[n].entry) /\ es[n].entry.issue \in Scoped
  BY <1>2, <1>7 DEF read
<1>9. ASSUME "left" \notin moved, NEW i \in Id \ touched, Lists(first[i]), first[i].issue \in Scoped
      PROVE  \E n \in DOMAIN es : es[n] = [id |-> i, entry |-> first[i]]
  <2>1. PICK m \in DOMAIN read : read[m] = [id |-> i, entry |-> first[i]]
    BY <1>3, <1>9 DEF read
  <2>2. read[m].entry.issue \in Scoped
    BY <1>9, <2>1
  <2> QED
    BY <1>7, <2>1, <2>2
<1>10. ASSUME "joined" \notin moved, NEW m \in DOMAIN es, NEW n \in DOMAIN es, m < n
       PROVE  es[m].id # es[n].id
  <2>1. PICK k, l \in DOMAIN read : k < l /\ es[m] = read[k] /\ es[n] = read[l]
    BY <1>7, <1>10
  <2>2. read[k].id < read[l].id /\ read[k].id \in Nat /\ read[l].id \in Nat
    BY <1>2, <1>6, <1>10, <2>1 DEF read
  <2> QED
    BY <2>1, <2>2
<1>11. ASSUME "joined" \notin moved, NEW m \in DOMAIN es, NEW n \in DOMAIN es, es[m].id = es[n].id
       PROVE  m = n
  <2>1. m \in Nat /\ n \in Nat
    BY <1>7
  <2>2. m < n \/ n < m \/ m = n
    BY <2>1
  <2> QED
    BY <1>10, <1>11, <2>2
<1> QED
  BY <1>8, <1>9, <1>11 DEF es

LEMMA ReportInvariance == Spec => []ReportInv
<1>1. Init => WorklogInv /\ ReportInv
  BY InvInit, ReportInvInit
<1>2. WorklogInv /\ ReportInv /\ [Next]_vars => WorklogInv' /\ ReportInv'
  BY InvNext, ReportInvNext
<1> QED
  BY <1>1, <1>2, PTL DEF Spec

\* Every variable of a report keeps its type.
THEOREM ReportTypeCorrect == Spec => []ReportTypeOK
<1>1. ReportInv => ReportTypeOK
  BY DEF ReportInv
<1> QED
  BY <1>1, ReportInvariance, PTL

\* However many pages a report takes and whatever goes on in Tempo meanwhile
\* (tempoWorklogs reads page after page at an offset), it shows no worklog that
\* it was not asked for, misses one that nobody touched only when another one
\* has left what was read, and shows one twice only when another one has joined it.
THEOREM ReportsAreComplete == Spec => []ReportComplete
BY ReportInvariance, ReportCorrect, PTL

-----------------------------------------------------------------------------
(* The calendar, for every year and date.                                  *)

\* 1 March of a year.
Begins(y) == 365 * y + (y \div 4) - (y \div 100) + (y \div 400)

LEMMA DatesAre ==
    ASSUME NEW y \in Int, NEW d \in Int
    PROVE  /\ Begins(y) \in Int /\ Begins(y - 1) \in Int
           /\ Date(y, 1, d) = Begins(y - 1) + 305 + d
           /\ Date(y, 2, d) = Begins(y - 1) + 336 + d
           /\ Date(y, 3, d) = Begins(y) - 1 + d
           /\ Date(y, 4, d) = Begins(y) + 30 + d
           /\ Date(y, 5, d) = Begins(y) + 60 + d
           /\ Date(y, 6, d) = Begins(y) + 91 + d
           /\ Date(y, 7, d) = Begins(y) + 121 + d
           /\ Date(y, 8, d) = Begins(y) + 152 + d
           /\ Date(y, 9, d) = Begins(y) + 183 + d
           /\ Date(y, 10, d) = Begins(y) + 213 + d
           /\ Date(y, 11, d) = Begins(y) + 244 + d
           /\ Date(y, 12, d) = Begins(y) + 274 + d
<1>1. Date(y, 1, d) = Begins(y - 1) + 305 + d
  BY DEF Begins, Date, MarchYear
<1>2. Date(y, 2, d) = Begins(y - 1) + 336 + d
  BY DEF Begins, Date, MarchYear
<1>3. Date(y, 3, d) = Begins(y) - 1 + d
  BY DEF Begins, Date, MarchYear
<1>4. Date(y, 4, d) = Begins(y) + 30 + d
  BY DEF Begins, Date, MarchYear
<1>5. Date(y, 5, d) = Begins(y) + 60 + d
  BY DEF Begins, Date, MarchYear
<1>6. Date(y, 6, d) = Begins(y) + 91 + d
  BY DEF Begins, Date, MarchYear
<1>7. Date(y, 7, d) = Begins(y) + 121 + d
  BY DEF Begins, Date, MarchYear
<1>8. Date(y, 8, d) = Begins(y) + 152 + d
  BY DEF Begins, Date, MarchYear
<1>9. Date(y, 9, d) = Begins(y) + 183 + d
  BY DEF Begins, Date, MarchYear
<1>10. Date(y, 10, d) = Begins(y) + 213 + d
  BY DEF Begins, Date, MarchYear
<1>11. Date(y, 11, d) = Begins(y) + 244 + d
  BY DEF Begins, Date, MarchYear
<1>12. Date(y, 12, d) = Begins(y) + 274 + d
  BY DEF Begins, Date, MarchYear
<1> QED
  BY <1>1, <1>2, <1>3, <1>4, <1>5, <1>6, <1>7, <1>8, <1>9, <1>10, <1>11, <1>12 DEF Begins

LEMMA DateIsInt == \A y, m, d \in Int : Date(y, m, d) \in Int
  BY DEF Date, MarchYear

\* A year has 365 or 366 days.
LEMMA YearGrows ==
    ASSUME NEW y \in Int
    PROVE  Begins(y) - Begins(y - 1) \in {365, 366}
  BY DEF Begins


\* Years begin one after the other.
LEMMA YearsGrow ==
    ASSUME NEW y \in Int, NEW z \in Int, y < z
    PROVE  Begins(y) + 365 <= Begins(z)
  BY DEF Begins

\* A year is the 400th part of 146097 days, but for a few days.
LEMMA Century ==
    ASSUME NEW y \in Int
    PROVE  /\ 400 * Begins(y) <= 146097 * y + 400
           /\ 400 * Begins(y) >= 146097 * y - 700
  BY DEF Begins

\* The year of a date is the only one in which the date is.
LEMMA YearShows ==
    ASSUME NEW n \in Int
    PROVE  /\ Year(n) \in Int
           /\ Date(Year(n), 1, 1) <= n /\ n < Date(Year(n) + 1, 1, 1)
           /\ \A y \in Int : Date(y, 1, 1) <= n /\ n < Date(y + 1, 1, 1) => y = Year(n)
<1> DEFINE guess == (n * 400) \div 146097
           In(y) == Date(y, 1, 1) <= n /\ n < Date(y + 1, 1, 1)
<1>1. guess \in Int /\ 146097 * guess <= 400 * n /\ 400 * n < 146097 * guess + 146097
  OBVIOUS
<1>2. Year(n) = CHOOSE y \in (guess - 1)..(guess + 2) : In(y)
  BY DEF Year
<1>3. \A y \in Int : /\ Date(y, 1, 1) = Begins(y - 1) + 306
                     /\ Date(y + 1, 1, 1) = Begins(y) + 306
                     /\ Begins(y) \in Int /\ Begins(y - 1) \in Int
  <2> SUFFICES ASSUME NEW y \in Int
               PROVE  /\ Date(y, 1, 1) = Begins(y - 1) + 306
                      /\ Date(y + 1, 1, 1) = Begins(y) + 306
                      /\ Begins(y) \in Int /\ Begins(y - 1) \in Int
    OBVIOUS
  <2>1. y + 1 \in Int /\ 1 \in 1..12 /\ 1 \in Int /\ y + 1 - 1 = y
    OBVIOUS
  <2>2. Date(y, 1, 1) = Begins(y - 1) + 305 + 1 /\ Begins(y) \in Int /\ Begins(y - 1) \in Int
    BY <2>1, DatesAre
  <2>3. Date(y + 1, 1, 1) = Begins(y + 1 - 1) + 305 + 1
    BY <2>1, DatesAre
  <2> QED
    BY <2>1, <2>2, <2>3
<1> HIDE DEF guess, In
<1>4. \A y, z \in Int : In(y) /\ In(z) => y = z
  <2> SUFFICES ASSUME NEW y \in Int, NEW z \in Int, In(y), In(z), y < z
               PROVE  FALSE
    OBVIOUS
  <2>1. y < z - 1 \/ y = z - 1
    OBVIOUS
  <2>2. Begins(y) <= Begins(z - 1)
    <3>1. z - 1 \in Int /\ Begins(y) \in Int /\ Begins(z - 1) \in Int
      BY <1>3
    <3>2. y < z - 1 => Begins(y) + 365 <= Begins(z - 1)
      BY <3>1, YearsGrow
    <3> QED
      BY <2>1, <3>1, <3>2
  <2>3. Begins(y) \in Int /\ Begins(z - 1) \in Int
    BY <1>3
  <2> QED
    BY <1>3, <2>2, <2>3 DEF In
<1>5. \E y \in (guess - 1)..(guess + 2) : In(y)
  <2>1. guess - 2 \in Int /\ guess - 1 \in Int /\ guess \in Int /\ guess + 1 \in Int /\ guess + 2 \in Int
    BY <1>1
  <2>2. Begins(guess - 2) + 306 <= n
    BY <1>1, <1>3, <2>1, Century
  <2>3. n < Begins(guess + 2) + 306
    BY <1>1, <1>3, <2>1, Century
  <2>4. CASE n < Begins(guess - 1) + 306
    <3>1. In(guess - 1)
      BY <1>1, <1>3, <2>1, <2>2, <2>4 DEF In
    <3> QED
      BY <1>1, <3>1
  <2>5. CASE Begins(guess - 1) + 306 <= n /\ n < Begins(guess) + 306
    <3>1. In(guess)
      BY <1>1, <1>3, <2>1, <2>5 DEF In
    <3> QED
      BY <1>1, <3>1
  <2>6. CASE Begins(guess) + 306 <= n /\ n < Begins(guess + 1) + 306
    <3>1. In(guess + 1)
      BY <1>1, <1>3, <2>1, <2>6 DEF In
    <3> QED
      BY <1>1, <3>1
  <2>7. CASE Begins(guess + 1) + 306 <= n
    <3>1. In(guess + 2)
      BY <1>1, <1>3, <2>1, <2>3, <2>7 DEF In
    <3> QED
      BY <1>1, <3>1
  <2>8. Begins(guess - 1) \in Int /\ Begins(guess) \in Int /\ Begins(guess + 1) \in Int
    BY <1>3, <2>1
  <2> QED
    BY <2>4, <2>5, <2>6, <2>7, <2>8
<1>6. Year(n) \in (guess - 1)..(guess + 2) /\ In(Year(n))
  BY <1>2, <1>5
<1>7. Year(n) \in Int
  BY <1>1, <1>6
<1>8. \A y \in Int : In(y) => y = Year(n)
  BY <1>4, <1>6, <1>7
<1> QED
  BY <1>6, <1>7, <1>8 DEF In

LEMMA MonthShows ==
    ASSUME NEW n \in Int
    PROVE  /\ Month(n) \in 1..12
           /\ Date(Year(n), Month(n), 1) <= n
           /\ n < Date(Year(n) + (Month(n) \div 12), (Month(n) % 12) + 1, 1)
<1> DEFINE y == Year(n)
           Is(m) == Date(y, m, 1) <= n /\ (m < 12 => n < Date(y, m + 1, 1))
<1>1. y \in Int /\ y + 1 \in Int /\ y + 1 - 1 = y
  BY YearShows
<1>2. Month(n) = CHOOSE m \in 1..12 : Is(m)
  BY DEF Month
<1>3. Date(y, 1, 1) <= n /\ n < Date(y + 1, 1, 1)
  BY YearShows
<1> HIDE DEF y, Is
<1>4. \A m \in 1..12 : Date(y, m, 1) \in Int
  BY <1>1, DateIsInt
<1>5. \E m \in 1..12 : Is(m)
  <2>1. Is(1) \/ Is(2) \/ Is(3) \/ Is(4) \/ Is(5) \/ Is(6) \/ Is(7) \/ Is(8) \/ Is(9)
          \/ Is(10) \/ Is(11) \/ Is(12)
    BY <1>3, <1>4 DEF Is
  <2> QED
    BY <2>1
<1>6. Month(n) \in 1..12 /\ Is(Month(n))
  BY <1>2, <1>5
<1>7. n < Date(y + (Month(n) \div 12), (Month(n) % 12) + 1, 1)
  <2>1. CASE Month(n) = 12
    <3>1. y + (Month(n) \div 12) = y + 1 /\ (Month(n) % 12) + 1 = 1
      BY <1>1, <2>1
    <3> QED
      BY <1>3, <3>1
  <2>2. CASE Month(n) \in 1..11
    <3>1. y + (Month(n) \div 12) = y /\ (Month(n) % 12) + 1 = Month(n) + 1
      BY <1>1, <2>2
    <3> QED
      BY <1>6, <2>2, <3>1 DEF Is
  <2> QED
    BY <1>6, <2>1, <2>2
<1> QED
  BY <1>6, <1>7 DEF y, Is

\* The periods of a date.
LEMMA PeriodShows ==
    ASSUME NEW n \in Int, NEW p \in {"day", "week", "month"}
    PROVE  LET r == PeriodRange(p, n)
           IN  /\ r = [from |-> r.from, to |-> r.to]
               /\ r.from \in Int /\ r.to \in Int
               /\ r.from <= n /\ n <= r.to
<1>1. CASE p = "day"
  BY <1>1 DEF PeriodRange
<1>2. CASE p = "week"
  BY <1>2 DEF PeriodRange, Weekday
<1>3. CASE p = "month"
  <2> DEFINE a == Date(Year(n), Month(n), 1)
             b == Date(Year(n) + (Month(n) \div 12), (Month(n) % 12) + 1, 1)
  <2>1. a <= n /\ n < b
    BY MonthShows
  <2>2. a \in Int /\ b \in Int
    <3>1. Year(n) \in Int /\ Month(n) \in 1..12 /\ 1 \in Int
      BY YearShows, MonthShows
    <3>2. Year(n) + (Month(n) \div 12) \in Int /\ (Month(n) % 12) + 1 \in Int
      BY <3>1
    <3>3. Month(n) \in Int /\ Year(n) \in Int /\ 1 \in Int
      BY <3>1
    <3> QED
      BY <3>2, <3>3, DateIsInt, Zenon
  <2>3. PeriodRange(p, n) = [from |-> a, to |-> b - 1]
    BY <1>3 DEF PeriodRange
  <2> HIDE DEF a, b
  <2> QED
    BY <2>1, <2>2, <2>3
<1> QED
  BY <1>1, <1>2, <1>3

\* A week goes from Monday to Sunday.
LEMMA WeekShows ==
    ASSUME NEW n \in Int
    PROVE  LET r == PeriodRange("week", n)
           IN  r.to = r.from + 6 /\ Weekday(r.from) = 1 /\ Weekday(r.to) = Sunday
  BY DEF PeriodRange, Weekday, Sunday

-----------------------------------------------------------------------------

\* What the algorithm for Easter counts: the days from 21 March to the full
\* moon, the days from there to a Sunday, and whether the moon is moved.
MoonOf(y) ==
    LET b == y \div 100
    IN  (19 * (y % 19) + b - (b \div 4) - ((b - ((b + 8) \div 25) + 1) \div 3) + 15) % 30

SundayOf(y) ==
    (32 + 2 * ((y \div 100) % 4) + 2 * ((y % 100) \div 4) - MoonOf(y) - ((y % 100) % 4)) % 7

MovedOf(y) == ((y % 19) + 11 * MoonOf(y) + 22 * SundayOf(y)) \div 451

LEMMA EasterCounts ==
    ASSUME NEW y \in Nat
    PROVE  /\ MoonOf(y) \in 0..29 /\ SundayOf(y) \in 0..6
           /\ MovedOf(y) = IF /\ SundayOf(y) = 6
                              /\ MoonOf(y) = 29 \/ (MoonOf(y) = 28 /\ y % 19 >= 11)
                           THEN 1 ELSE 0
<1> DEFINE a == y % 19
           h == MoonOf(y)
           l == SundayOf(y)
<1>1. a \in 0..18
  OBVIOUS
<1>2. h \in 0..29
  BY DEF MoonOf
<1>3. l \in 0..6
  <2> HIDE DEF h
  <2>1. l = (32 + 2 * ((y \div 100) % 4) + 2 * ((y % 100) \div 4) - h - ((y % 100) % 4)) % 7
    BY DEF SundayOf, h
  <2> HIDE DEF l
  <2> QED
    BY <1>2, <2>1
<1>4. MovedOf(y) = (a + 11 * h + 22 * l) \div 451
  BY DEF MovedOf
<1> HIDE DEF a, h, l
<1>5. MovedOf(y) = IF l = 6 /\ (h = 29 \/ (h = 28 /\ a >= 11)) THEN 1 ELSE 0
  BY <1>1, <1>2, <1>3, <1>4
<1> QED
  BY <1>2, <1>3, <1>5 DEF a, h, l

LEMMA EasterIs ==
    ASSUME NEW y \in Nat
    PROVE  Easter(y) = Begins(y) + 21 + MoonOf(y) + SundayOf(y) - 7 * MovedOf(y)
<1> DEFINE n == MoonOf(y) + SundayOf(y) - 7 * MovedOf(y) + 114
<1>1. Easter(y) = Date(y, n \div 31, (n % 31) + 1)
  BY DEF Easter, MoonOf, SundayOf, MovedOf
<1>2. n \in 114..148
  BY EasterCounts
<1>5. n - 93 = 21 + MoonOf(y) + SundayOf(y) - 7 * MovedOf(y) /\ MovedOf(y) \in Int
  BY EasterCounts
<1> HIDE DEF n
<1>3. CASE n \in 114..123
  <2>1. n \div 31 = 3 /\ n % 31 = n - 93
    BY <1>3
  <2>2. n - 92 \in Int /\ y \in Int /\ (n % 31) + 1 = n - 92
    BY <1>2, <2>1
  <2>3. Easter(y) = Date(y, 3, n - 92)
    BY <1>1, <2>1, <2>2
  <2>4. Easter(y) = Begins(y) - 1 + (n - 92) /\ Begins(y) \in Int
    BY <2>2, <2>3, DatesAre
  <2> QED
    BY <1>2, <1>5, <2>4, EasterCounts
<1>4. CASE n \in 124..148
  <2>1. n \div 31 = 4 /\ n % 31 = n - 124
    BY <1>4
  <2>2. n - 123 \in Int /\ y \in Int /\ (n % 31) + 1 = n - 123
    BY <1>2, <2>1
  <2>3. Easter(y) = Date(y, 4, n - 123)
    BY <1>1, <2>1, <2>2
  <2>4. Easter(y) = Begins(y) + 30 + (n - 123) /\ Begins(y) \in Int
    BY <2>2, <2>3, DatesAre
  <2> QED
    BY <1>2, <1>5, <2>4, EasterCounts
<1> QED
  BY <1>2, <1>3, <1>4

\* Easter is a Sunday in every year.
LEMMA EasterIsSunday ==
    ASSUME NEW y \in Nat
    PROVE  Weekday(Easter(y)) = Sunday
<1> DEFINE b == y \div 100
           c == y % 100
           h == MoonOf(y)
           q == b \div 4
           r == b % 4
           s == c \div 4
           t == c % 4
           l == SundayOf(y)
<1>1. y = 100 * b + c /\ b \in Nat /\ c \in 0..99
  OBVIOUS
<1>2. h \in 0..29 /\ l \in 0..6 /\ MovedOf(y) \in Int
  BY EasterCounts
<1>3. l = (32 + 2 * r + 2 * s - h - t) % 7
  BY DEF SundayOf
<1> HIDE DEF h, l, b, c
<1>4. /\ b = 4 * q + r /\ q \in Nat /\ r \in 0..3
      /\ c = 4 * s + t /\ s \in Nat /\ t \in 0..3
  BY <1>1
<1>5. y \div 4 = 25 * b + s /\ y \div 100 = b /\ y \div 400 = q
  BY <1>1, <1>4
<1> HIDE DEF q, r, s, t
<1>6. Begins(y) = 365 * (100 * b + c) + 24 * b + s + q
  BY <1>1, <1>4, <1>5 DEF Begins
<1>7. PICK k \in Int : 32 + 2 * r + 2 * s - h - t = 7 * k + l
  <2> DEFINE x == 32 + 2 * r + 2 * s - h - t
  <2>1. x \in Int
    BY <1>2, <1>4
  <2> HIDE DEF x
  <2>2. x \div 7 \in Int /\ x = 7 * (x \div 7) + (x % 7)
    BY <2>1
  <2> QED
    BY <1>3, <2>2 DEF x
<1>8. Easter(y) + 3 = 7 * (20871 * q + 5218 * r + 209 * s + 52 * t + 8 - k - MovedOf(y))
  <2> DEFINE m == MovedOf(y)
             e == Easter(y)
             n == Begins(y)
  <2>1. e = n + 21 + h + l - 7 * m
    BY EasterIs DEF h, l
  <2>2. m \in Int /\ h \in Int /\ l \in Int /\ n = 365 * (100 * b + c) + 24 * b + s + q
    BY <1>2, <1>6
  <2> HIDE DEF m, e, n
  <2>3. n = 146097 * q + 36524 * r + 1461 * s + 365 * t
    BY <1>4, <2>2
  <2>4. h = 32 + 2 * r + 2 * s - t - 7 * k - l
    BY <1>4, <1>7, <2>2
  <2>5. e + 3 = 7 * (20871 * q + 5218 * r + 209 * s + 52 * t + 8 - k - m)
    BY <1>4, <1>7, <2>1, <2>2, <2>3, <2>4
  <2> QED
    BY <2>5 DEF m, e
<1> QED
  BY <1>2, <1>4, <1>7, <1>8 DEF Weekday, Sunday

\* The full moon of the computus: its epact counts back from where the
\* algorithm's moon counts on.
LEMMA MoonIs ==
    ASSUME NEW y \in Nat
    PROVE  PaschalFullMoon(y) =
              Begins(y) + 20 + MoonOf(y)
                - (IF MoonOf(y) = 29 \/ (MoonOf(y) = 28 /\ y % 19 >= 11) THEN 1 ELSE 0)
<1> DEFINE a == y % 19
           b == y \div 100
           solar == (3 * (b + 1)) \div 4 - 12
           lunar == (8 * (b + 1) + 5) \div 25 - 5
           epact0 == (11 * (a + 1) + 20 + lunar - solar) % 30
           epact == IF epact0 = 24 \/ (epact0 = 25 /\ a + 1 > 11) THEN epact0 + 1 ELSE epact0
           march == IF 44 - epact < 21 THEN 74 - epact ELSE 44 - epact
           h == MoonOf(y)
<1>1. a \in 0..18 /\ b \in Nat
  OBVIOUS
<1>2. b - (b \div 4) = solar + 12 /\ solar \in Int
  BY <1>1
<1>3. (b - ((b + 8) \div 25) + 1) \div 3 = lunar + 5 /\ lunar \in Int
  BY <1>1
<1>4. h = (19 * a + solar - lunar + 22) % 30
  <2>1. h = (19 * a + b - (b \div 4) - ((b - ((b + 8) \div 25) + 1) \div 3) + 15) % 30
    BY DEF MoonOf
  <2> HIDE DEF h, solar, lunar
  <2>2. 19 * a + b - (b \div 4) - ((b - ((b + 8) \div 25) + 1) \div 3) + 15
          = 19 * a + solar - lunar + 22
    BY <1>1, <1>2, <1>3
  <2> QED
    BY <2>1, <2>2
<1>5. PaschalFullMoon(y) = Date(y, 3, 1) + march - 1
  BY DEF PaschalFullMoon
<1> HIDE DEF a, b, solar, lunar, h
<1>6. epact0 \in 0..29
  BY <1>1, <1>2, <1>3
<1>7. h = IF epact0 <= 23 THEN 23 - epact0 ELSE 53 - epact0
  BY <1>1, <1>2, <1>3, <1>4
<1> HIDE DEF epact0
<1>8. march = 21 + h - (IF h = 29 \/ (h = 28 /\ a >= 11) THEN 1 ELSE 0)
  BY <1>1, <1>6, <1>7
<1>9. Date(y, 3, 1) = Begins(y) /\ Begins(y) \in Int
  <2>1. y \in Int /\ 1 \in Int
    OBVIOUS
  <2>2. Date(y, 3, 1) = Begins(y) - 1 + 1 /\ Begins(y) \in Int
    BY <2>1, DatesAre
  <2> QED
    BY <2>2
<1>10. h \in Int
  BY <1>6, <1>7
<1> HIDE DEF march
<1> QED
  BY <1>5, <1>8, <1>9, <1>10 DEF a, h

\* In every year the algorithm gives the first Sunday after the paschal full moon.
LEMMA EasterFollowsMoon ==
    ASSUME NEW y \in Nat
    PROVE  EasterSunday(y) = Easter(y) /\ Easter(y) \in Int
<1> DEFINE moon == PaschalFullMoon(y)
           e == Easter(y)
<1>1. /\ Begins(y) \in Int /\ MoonOf(y) \in 0..29 /\ SundayOf(y) \in 0..6
      /\ MovedOf(y) = IF /\ SundayOf(y) = 6
                         /\ MoonOf(y) = 29 \/ (MoonOf(y) = 28 /\ y % 19 >= 11)
                      THEN 1 ELSE 0
  BY EasterCounts DEF Begins
<1>2. e = Begins(y) + 21 + MoonOf(y) + SundayOf(y) - 7 * MovedOf(y)
  BY EasterIs
<1>3. moon = Begins(y) + 20 + MoonOf(y)
               - (IF MoonOf(y) = 29 \/ (MoonOf(y) = 28 /\ y % 19 >= 11) THEN 1 ELSE 0)
  BY MoonIs
<1>4. Weekday(e) = Sunday
  BY EasterIsSunday
<1>5. EasterSunday(y) = CHOOSE n \in (moon + 1)..(moon + 7) : Weekday(n) = Sunday
  BY DEF EasterSunday
<1> HIDE DEF moon, e
<1>6. moon \in Int /\ e \in Int /\ e \in (moon + 1)..(moon + 7)
  BY <1>1, <1>2, <1>3
<1>7. \A n \in (moon + 1)..(moon + 7) : Weekday(n) = Sunday => n = e
  BY <1>4, <1>6 DEF Weekday, Sunday
<1>8. EasterSunday(y) = e
  BY <1>4, <1>5, <1>6, <1>7
<1> QED
  BY <1>6, <1>8 DEF e

Ascending(s) == \A i \in 1..(Len(s) - 1) : s[i] < s[i + 1]

LEMMA JoinShows ==
    ASSUME NEW s \in Seq(Int), NEW t \in Seq(Int)
    PROVE  /\ s \o t \in Seq(Int) /\ Len(s \o t) = Len(s) + Len(t)
           /\ \A i \in 1..Len(s) : (s \o t)[i] = s[i]
           /\ \A i \in 1..Len(t) : (s \o t)[Len(s) + i] = t[i]
           /\ ToSet(s \o t) = ToSet(s) \cup ToSet(t)
<1>1. s \o t \in Seq(Int) /\ Len(s \o t) = Len(s) + Len(t)
  OBVIOUS
<1>2. \A i \in 1..(Len(s) + Len(t)) : (s \o t)[i] = IF i <= Len(s) THEN s[i] ELSE t[i - Len(s)]
  OBVIOUS
<1>3. Len(s) \in Nat /\ Len(t) \in Nat
  OBVIOUS
<1>4. \A i \in 1..Len(s) : (s \o t)[i] = s[i]
  BY <1>2, <1>3
<1>5. \A i \in 1..Len(t) : (s \o t)[Len(s) + i] = t[i]
  <2> SUFFICES ASSUME NEW i \in 1..Len(t) PROVE (s \o t)[Len(s) + i] = t[i]
    OBVIOUS
  <2>1. Len(s) + i \in 1..(Len(s) + Len(t)) /\ ~(Len(s) + i <= Len(s)) /\ Len(s) + i - Len(s) = i
    BY <1>3
  <2> QED
    BY <1>2, <2>1
<1>6. ToSet(s \o t) = ToSet(s) \cup ToSet(t)
  <2>1. /\ ToSet(s) = {s[i] : i \in 1..Len(s)} /\ ToSet(t) = {t[i] : i \in 1..Len(t)}
        /\ ToSet(s \o t) = {(s \o t)[i] : i \in 1..(Len(s) + Len(t))}
    <3>1. DOMAIN s = 1..Len(s) /\ DOMAIN t = 1..Len(t)
      OBVIOUS
    <3>2. DOMAIN (s \o t) = 1..(Len(s) + Len(t))
      BY <1>1
    <3> QED
      BY <3>1, <3>2, Zenon DEF ToSet
  <2>2. \A i \in 1..(Len(s) + Len(t)) : (s \o t)[i] \in ToSet(s) \cup ToSet(t)
    <3> SUFFICES ASSUME NEW i \in 1..(Len(s) + Len(t))
                 PROVE  (s \o t)[i] \in ToSet(s) \cup ToSet(t)
      OBVIOUS
    <3>1. CASE i <= Len(s)
      BY <1>2, <1>3, <2>1, <3>1
    <3>2. CASE ~(i <= Len(s))
      <4>1. i - Len(s) \in 1..Len(t)
        BY <1>3, <3>2
      <4> QED
        BY <1>2, <2>1, <3>2, <4>1
    <3> QED
      BY <3>1, <3>2
  <2>3. \A i \in 1..Len(s) : s[i] \in ToSet(s \o t)
    <3> SUFFICES ASSUME NEW i \in 1..Len(s) PROVE s[i] \in ToSet(s \o t)
      OBVIOUS
    <3>1. i \in 1..(Len(s) + Len(t))
      BY <1>3
    <3> QED
      BY <1>4, <2>1, <3>1
  <2>4. \A i \in 1..Len(t) : t[i] \in ToSet(s \o t)
    <3> SUFFICES ASSUME NEW i \in 1..Len(t) PROVE t[i] \in ToSet(s \o t)
      OBVIOUS
    <3>1. Len(s) + i \in 1..(Len(s) + Len(t))
      BY <1>3
    <3> QED
      BY <1>5, <2>1, <3>1
  <2> QED
    BY <2>1, <2>2, <2>3, <2>4
<1> QED
  BY <1>1, <1>4, <1>5, <1>6

LEMMA JoinAscends ==
    ASSUME NEW s \in Seq(Int), NEW t \in Seq(Int), Ascending(s), Ascending(t),
           Len(s) > 0, Len(t) > 0, s[Len(s)] < t[1]
    PROVE  Ascending(s \o t)
<1> SUFFICES ASSUME NEW i \in 1..(Len(s \o t) - 1) PROVE (s \o t)[i] < (s \o t)[i + 1]
  BY DEF Ascending
<1>1. Len(s) \in Nat /\ Len(t) \in Nat /\ Len(s \o t) = Len(s) + Len(t) /\ i \in Nat
  OBVIOUS
<1>2. CASE i < Len(s)
  <2>1. i \in 1..Len(s) /\ i + 1 \in 1..Len(s) /\ i \in 1..(Len(s) - 1)
    BY <1>1, <1>2
  <2>2. s[i] < s[i + 1]
    BY <2>1 DEF Ascending
  <2>3. (s \o t)[i] = s[i] /\ (s \o t)[i + 1] = s[i + 1]
    BY <2>1, JoinShows
  <2> QED
    BY <2>2, <2>3
<1>3. CASE i = Len(s)
  <2>1. i \in 1..Len(s) /\ 1 \in 1..Len(t)
    BY <1>1, <1>3
  <2>2. (s \o t)[i] = s[Len(s)] /\ (s \o t)[Len(s) + 1] = t[1]
    BY <1>3, <2>1, JoinShows
  <2> QED
    BY <1>3, <2>2
<1>4. CASE i > Len(s)
  <2> DEFINE j == i - Len(s)
  <2>1. j \in 1..(Len(t) - 1) /\ j \in 1..Len(t) /\ j + 1 \in 1..Len(t)
        /\ Len(s) + j = i /\ Len(s) + (j + 1) = i + 1
    BY <1>1, <1>4
  <2> HIDE DEF j
  <2>2. t[j] < t[j + 1]
    BY <2>1 DEF Ascending
  <2>3. (s \o t)[Len(s) + j] = t[j] /\ (s \o t)[Len(s) + (j + 1)] = t[j + 1]
    BY <2>1, JoinShows
  <2> QED
    BY <2>1, <2>2, <2>3
<1> QED
  BY <1>1, <1>2, <1>3, <1>4

LEMMA ElevenShow ==
    ASSUME NEW s \in Seq(Int), Len(s) = 11,
           s[1] < s[2], s[2] < s[3], s[3] < s[4], s[4] < s[5], s[5] < s[6],
           s[6] < s[7], s[7] < s[8], s[8] < s[9], s[9] < s[10], s[10] < s[11]
    PROVE  /\ Ascending(s)
           /\ ToSet(s) = {s[1], s[2], s[3], s[4], s[5], s[6], s[7], s[8], s[9], s[10], s[11]}
<1>1. Ascending(s)
  <2> SUFFICES ASSUME NEW n \in 1..10 PROVE s[n] < s[n + 1]
    BY DEF Ascending
  <2>1. n = 1 \/ n = 2 \/ n = 3 \/ n = 4 \/ n = 5 \/ n = 6 \/ n = 7 \/ n = 8 \/ n = 9 \/ n = 10
    OBVIOUS
  <2> QED
    BY <2>1
<1>2. ToSet(s) = {s[1], s[2], s[3], s[4], s[5], s[6], s[7], s[8], s[9], s[10], s[11]}
  <2>1. ToSet(s) = {s[n] : n \in 1..11}
    BY DEF ToSet
  <2>2. 1..11 = {1, 2, 3, 4, 5, 6, 7, 8, 9, 10, 11}
    OBVIOUS
  <2> QED
    BY <2>1, <2>2
<1> QED
  BY <1>1, <1>2

LEMMA OneShows ==
    ASSUME NEW a \in Int
    PROVE  /\ <<a>> \in Seq(Int) /\ Len(<<a>>) = 1 /\ <<a>>[1] = a /\ Ascending(<<a>>)
           /\ ToSet(<<a>>) = {a}
  BY DEF Ascending, ToSet

LEMMA TwoShow ==
    ASSUME NEW a \in Int, NEW b \in Int, a < b
    PROVE  /\ <<a, b>> \in Seq(Int) /\ Len(<<a, b>>) = 2 /\ <<a, b>>[1] = a /\ Ascending(<<a, b>>)
           /\ ToSet(<<a, b>>) = {a, b}
<1>1. Ascending(<<a, b>>)
  BY DEF Ascending
<1>2. ToSet(<<a, b>>) = {a, b}
  BY DEF ToSet
<1> QED
  BY <1>1, <1>2

\* Two lists in order, the one before the other.
LEMMA JoinedShows ==
    ASSUME NEW s \in Seq(Int), NEW t \in Seq(Int), Ascending(s), Ascending(t),
           Len(s) > 0, Len(t) > 0, s[Len(s)] < t[1]
    PROVE  /\ s \o t \in Seq(Int) /\ Len(s \o t) > 0 /\ Ascending(s \o t)
           /\ (s \o t)[Len(s \o t)] = t[Len(t)]
           /\ ToSet(s \o t) = ToSet(s) \cup ToSet(t)
<1>1. Len(s) \in Nat /\ Len(t) \in Nat /\ Len(t) \in 1..Len(t)
  OBVIOUS
<1>2. /\ s \o t \in Seq(Int) /\ Len(s \o t) = Len(s) + Len(t)
      /\ (s \o t)[Len(s) + Len(t)] = t[Len(t)]
      /\ ToSet(s \o t) = ToSet(s) \cup ToSet(t)
  BY <1>1, JoinShows
<1>3. Ascending(s \o t)
  BY JoinAscends
<1> QED
  BY <1>1, <1>2, <1>3

\* The holidays are listed in order, of the year, with those that hang on Easter.
LEMMA HolidaysShow ==
    ASSUME NEW y \in Nat
    PROVE  /\ PolishHolidays(y) \in Seq(Int) /\ Ascending(PolishHolidays(y))
           /\ \A n \in ToSet(PolishHolidays(y)) : n \in Int /\ Year(n) = y
           /\ {Easter(y), Easter(y) + 1, Easter(y) + 49, Easter(y) + 60} \subseteq ToSet(PolishHolidays(y))
<1> DEFINE newyear == Date(y, 1, 1)      kings == Date(y, 1, 6)
           easter == Easter(y)           monday == easter + 1
           labour == Date(y, 5, 1)       charter == Date(y, 5, 3)
           pentecost == easter + 49      corpus == easter + 60
           assumption == Date(y, 8, 15)  saints == Date(y, 11, 1)
           independence == Date(y, 11, 11)
           eve == Date(y, 12, 24)
           christmas == Date(y, 12, 25)      stephen == Date(y, 12, 26)
           s == << newyear, kings, easter, monday, labour, charter, pentecost, corpus,
                   assumption, saints, independence >>
           u == << christmas, stephen >>
<1>1. PolishHolidays(y) = s \o (IF y >= 2025 THEN << eve >> ELSE << >>) \o u
  BY DEF PolishHolidays
<1>2. /\ Begins(y) \in Int /\ Begins(y - 1) \in Int /\ Begins(y) - Begins(y - 1) \in {365, 366}
      /\ Begins(y + 1 - 1) = Begins(y)
  BY DatesAre, YearGrows
<1>3. easter \in Int /\ Begins(y) + 21 <= easter /\ easter <= Begins(y) + 55
  BY <1>2, EasterIs, EasterCounts
<1>4. /\ y \in Int /\ y + 1 \in Int /\ 1 \in Int /\ 6 \in Int /\ 3 \in Int /\ 15 \in Int
      /\ 11 \in Int /\ 24 \in Int /\ 25 \in Int /\ 26 \in Int
  OBVIOUS
<1>5. /\ newyear = Begins(y - 1) + 305 + 1 /\ labour = Begins(y) + 60 + 1
      /\ saints = Begins(y) + 244 + 1 /\ Date(y + 1, 1, 1) = Begins(y + 1 - 1) + 305 + 1
  BY <1>4, DatesAre
<1>6. kings = Begins(y - 1) + 305 + 6 /\ charter = Begins(y) + 60 + 3
      /\ assumption = Begins(y) + 152 + 15 /\ independence = Begins(y) + 244 + 11
  BY <1>4, DatesAre
<1>7. eve = Begins(y) + 274 + 24 /\ christmas = Begins(y) + 274 + 25 /\ stephen = Begins(y) + 274 + 26
  BY <1>4, DatesAre
<1>8. /\ monday = easter + 1 /\ pentecost = easter + 49 /\ corpus = easter + 60
  OBVIOUS
<1> HIDE DEF newyear, kings, monday, labour, charter, pentecost, corpus, assumption,
             saints, independence, eve, christmas, stephen, easter
<1>9. /\ newyear \in Int /\ kings \in Int /\ monday \in Int /\ labour \in Int /\ charter \in Int
      /\ pentecost \in Int /\ corpus \in Int /\ assumption \in Int /\ saints \in Int
      /\ independence \in Int /\ eve \in Int /\ christmas \in Int /\ stephen \in Int
  BY <1>2, <1>3, <1>5, <1>6, <1>7, <1>8
<1>10. /\ newyear < kings /\ kings < easter /\ easter < monday /\ monday < labour
       /\ labour < charter /\ charter < pentecost /\ pentecost < corpus /\ corpus < assumption
       /\ assumption < saints /\ saints < independence /\ independence < eve /\ eve < christmas
       /\ independence < christmas /\ christmas < stephen /\ stephen < Date(y + 1, 1, 1)
       /\ Date(y + 1, 1, 1) \in Int
  BY <1>2, <1>3, <1>5, <1>6, <1>7, <1>8
<1>18. /\ newyear <= newyear /\ newyear <= independence
       /\ newyear <= kings /\ kings <= independence
       /\ newyear <= easter /\ easter <= independence
       /\ newyear <= monday /\ monday <= independence
       /\ newyear <= labour /\ labour <= independence
       /\ newyear <= charter /\ charter <= independence
       /\ newyear <= pentecost /\ pentecost <= independence
       /\ newyear <= corpus /\ corpus <= independence
       /\ newyear <= assumption /\ assumption <= independence
       /\ newyear <= saints /\ saints <= independence
       /\ newyear <= independence /\ independence <= independence
  BY <1>2, <1>3, <1>5, <1>6, <1>8
<1>11. /\ s \in Seq(Int) /\ Len(s) = 11 /\ s[11] = independence /\ Ascending(s)
       /\ ToSet(s) = {newyear, kings, easter, monday, labour, charter, pentecost, corpus,
                      assumption, saints, independence}
  <2>1. /\ s \in Seq(Int) /\ Len(s) = 11
        /\ s[1] = newyear /\ s[2] = kings /\ s[3] = easter /\ s[4] = monday /\ s[5] = labour
        /\ s[6] = charter /\ s[7] = pentecost /\ s[8] = corpus /\ s[9] = assumption
        /\ s[10] = saints /\ s[11] = independence
    BY <1>3, <1>9
  <2> HIDE DEF s
  <2>2. /\ s[1] < s[2] /\ s[2] < s[3] /\ s[3] < s[4] /\ s[4] < s[5] /\ s[5] < s[6]
        /\ s[6] < s[7] /\ s[7] < s[8] /\ s[8] < s[9] /\ s[9] < s[10] /\ s[10] < s[11]
    BY <1>10, <2>1
  <2>3. /\ Ascending(s)
        /\ ToSet(s) = {s[1], s[2], s[3], s[4], s[5], s[6], s[7], s[8], s[9], s[10], s[11]}
    BY <2>1, <2>2, ElevenShow
  <2> QED
    BY <2>1, <2>3
<1>12. u \in Seq(Int) /\ Len(u) = 2 /\ u[1] = christmas /\ Ascending(u) /\ ToSet(u) = {christmas, stephen}
  BY <1>9, <1>10, TwoShow
<1> HIDE DEF s, u
<1> DEFINE Before(v) == /\ PolishHolidays(y) = v \o u
                        /\ Len(v) > 0 /\ Ascending(v) /\ v[Len(v)] < christmas
                        /\ ToSet(s) \subseteq ToSet(v) /\ ToSet(v) \subseteq ToSet(s) \cup {eve}
<1>13. PICK v \in Seq(Int) : Before(v)
  <2>1. CASE y >= 2025
    <3> DEFINE x == << eve >>
    <3>1. PolishHolidays(y) = s \o x \o u
      BY <1>1, <2>1
    <3>2. x \in Seq(Int) /\ Len(x) = 1 /\ x[1] = eve /\ Ascending(x) /\ ToSet(x) = {eve}
      BY <1>9, OneShows
    <3> HIDE DEF x
    <3>3. s[Len(s)] < x[1] /\ Len(s) > 0 /\ Len(x) > 0
      BY <1>10, <1>11, <3>2
    <3>4. /\ s \o x \in Seq(Int) /\ Len(s \o x) > 0 /\ Ascending(s \o x)
          /\ (s \o x)[Len(s \o x)] = x[Len(x)]
          /\ ToSet(s \o x) = ToSet(s) \cup ToSet(x)
      BY <1>11, <3>2, <3>3, JoinedShows, Zenon
    <3>5. (s \o x)[Len(s \o x)] < christmas
      BY <1>10, <3>2, <3>4
    <3>6. ToSet(s) \subseteq ToSet(s \o x) /\ ToSet(s \o x) \subseteq ToSet(s) \cup {eve}
      BY <3>2, <3>4, Zenon
    <3> QED
      BY <3>1, <3>4, <3>5, <3>6, Zenon
  <2>2. CASE ~(y >= 2025)
    <3>1. s \o << >> = s
      BY <1>11
    <3>2. PolishHolidays(y) = s \o u
      BY <1>1, <2>2, <3>1
    <3>3. Len(s) > 0 /\ s[Len(s)] < christmas
      BY <1>10, <1>11
    <3>4. ToSet(s) \subseteq ToSet(s) /\ ToSet(s) \subseteq ToSet(s) \cup {eve}
      OBVIOUS
    <3> QED
      BY <1>11, <3>2, <3>3, <3>4, Zenon
  <2> HIDE DEF Before
  <2> QED
    BY <2>1, <2>2
<1>14. v[Len(v)] < u[1] /\ Len(u) > 0
  BY <1>12, <1>13
<1>15. /\ PolishHolidays(y) \in Seq(Int) /\ Ascending(PolishHolidays(y))
       /\ ToSet(PolishHolidays(y)) = ToSet(v) \cup {christmas, stephen}
  <2>1. v \o u \in Seq(Int) /\ Ascending(v \o u) /\ ToSet(v \o u) = ToSet(v) \cup ToSet(u)
    BY <1>12, <1>13, <1>14, JoinedShows, Zenon
  <2> QED
    BY <1>12, <1>13, <2>1, Zenon
<1>16. ASSUME NEW n \in ToSet(PolishHolidays(y)) PROVE n \in Int /\ Year(n) = y
  <2>1. n \in ToSet(s) \/ n = eve \/ n = christmas \/ n = stephen
    BY <1>13, <1>15
  <2>2. n \in Int /\ newyear <= n /\ n < Date(y + 1, 1, 1)
    <3>1. \A d \in ToSet(s) : d \in Int /\ newyear <= d /\ d <= independence
      <4>1. \A d \in ToSet(s) : d = newyear \/ d = kings \/ d = easter \/ d = monday \/ d = labour
              \/ d = charter \/ d = pentecost \/ d = corpus \/ d = assumption \/ d = saints
              \/ d = independence
        BY <1>11
      <4> QED
        BY <1>3, <1>9, <1>18, <4>1
    <3>2. independence < christmas /\ christmas < stephen /\ independence < eve /\ eve < christmas
      BY <1>10
    <3>4. CASE n \in ToSet(s)
      <4>1. n \in Int /\ newyear <= n /\ n <= independence
        BY <3>1, <3>4
      <4> QED
        BY <1>9, <1>10, <3>2, <4>1
    <3> QED
      BY <1>9, <1>10, <1>18, <2>1, <3>2, <3>4
  <2> QED
    BY <2>2, YearShows DEF newyear
<1>17. {easter, monday, pentecost, corpus} \subseteq ToSet(PolishHolidays(y))
  BY <1>11, <1>13, <1>15
<1> QED
  BY <1>8, <1>15, <1>16, <1>17 DEF easter

\* The list of holidays is right in every year.
THEOREM HolidaysListedRight == \A y \in Nat : ListedRight(y)
<1> SUFFICES ASSUME NEW y \in Nat PROVE ListedRight(y)
  OBVIOUS
<1>1. EasterSunday(y) = Easter(y)
  BY EasterFollowsMoon
<1>2. Ascending(PolishHolidays(y)) /\ \A n \in ToSet(PolishHolidays(y)) : Year(n) = y
  BY HolidaysShow
<1>3. {Easter(y), Easter(y) + 1, Easter(y) + 49, Easter(y) + 60} \subseteq ToSet(PolishHolidays(y))
  BY HolidaysShow
<1>4. \A i \in 1..(Len(PolishHolidays(y)) - 1) : PolishHolidays(y)[i] < PolishHolidays(y)[i + 1]
  BY <1>2, Zenon DEF Ascending
<1> QED
  BY <1>1, <1>2, <1>3, <1>4, Zenon DEF ListedRight

-----------------------------------------------------------------------------
(* Sums of numbers.  FoldFunction takes the places of a function in an     *)
(* order that CHOOSE fixes; what it adds up does not depend on it.         *)

\* Induction along 0..N, for a set of numbers.
LEMMA Induction ==
    ASSUME NEW N \in Nat, NEW S, 0 \in S,
           \A n \in 0..N : n < N /\ n \in S => n + 1 \in S
    PROVE  \A n \in 0..N : n \in S
<1> DEFINE T == (0..N) \ S
           R == OpToRel(<, Nat)
<1> SUFFICES ASSUME T # {} PROVE FALSE
  OBVIOUS
<1>0. \A k, m \in Nat : k < m => <<k, m>> \in R
  BY DEF OpToRel
<1>1. IsWellFoundedOn(R, Nat)
  BY NatLessThanWellFounded
<1>2. T \subseteq Nat
  OBVIOUS
<1>3. PICK m \in T : \A k \in T : ~(<<k, m>> \in R)
  <2> HIDE DEF R, T
  <2> QED
    BY <1>1, <1>2, WFMin, Zenon
<1>4. m \in 0..N /\ m # 0 /\ m - 1 \in 0..N /\ m - 1 < m
  OBVIOUS
<1>5. m - 1 \notin T
  <2> HIDE DEF R, T
  <2> QED
    BY <1>0, <1>3, <1>4, <1>2
<1> QED
  BY <1>4, <1>5

Some(s) == CHOOSE x \in s : TRUE

\* The sums over the sets of places.
SumsOf(f) ==
    CHOOSE iter : iter = [s \in SUBSET DOMAIN f |->
                             IF s = {} THEN 0 ELSE f[Some(s)] + iter[s \ {Some(s)}]]

LEMMA FoldIsSum == \A f : FoldFunction(+, 0, f) = SumsOf(f)[DOMAIN f]
<1> SUFFICES ASSUME NEW f PROVE FoldFunction(+, 0, f) = SumsOf(f)[DOMAIN f]
  OBVIOUS
<1> QED
  BY Zenon DEF FoldFunction, FoldFunctionOnSet, MapThenFoldSet, Some, SumsOf

\* One place fewer.
LEMMA WithoutOne ==
    ASSUME NEW s, IsFiniteSet(s), NEW x \in s
    PROVE  /\ IsFiniteSet(s \ {x}) /\ Cardinality(s) \in Nat /\ Cardinality(s \ {x}) \in Nat
           /\ Cardinality(s) = Cardinality(s \ {x}) + 1
<1>1. IsFiniteSet(s \ {x}) /\ Cardinality(s \ {x}) = Cardinality(s) - 1
  BY FS_RemoveElement
<1>2. Cardinality(s) \in Nat /\ Cardinality(s \ {x}) \in Nat
  BY <1>1, FS_CardinalityType
<1> QED
  BY <1>1, <1>2

LEMMA SumsOfDef ==
    ASSUME NEW f, IsFiniteSet(DOMAIN f)
    PROVE  SumsOf(f) = [s \in SUBSET DOMAIN f |->
                           IF s = {} THEN 0 ELSE f[Some(s)] + SumsOf(f)[s \ {Some(s)}]]
<1> DEFINE S == DOMAIN f
           N == Cardinality(S)
           Small(n) == {s \in SUBSET S : Cardinality(s) <= n}
           Fits(g, n) == g = [s \in Small(n) |->
                                 IF s = {} THEN 0 ELSE f[Some(s)] + g[s \ {Some(s)}]]
           T == {n \in 0..N : \E g : Fits(g, n)}
<1>1. \A s \in SUBSET S : IsFiniteSet(s) /\ Cardinality(s) \in 0..N
  <2> SUFFICES ASSUME NEW s \in SUBSET S PROVE IsFiniteSet(s) /\ Cardinality(s) \in 0..N
    OBVIOUS
  <2>1. IsFiniteSet(s) /\ Cardinality(s) <= Cardinality(S)
    BY FS_Subset
  <2> QED
    BY <2>1, FS_CardinalityType
<1>2. N \in Nat
  BY FS_CardinalityType
<1>3. \A s \in SUBSET S : s # {} => /\ Some(s) \in s /\ s \ {Some(s)} \in SUBSET S
                                     /\ Cardinality(s) = Cardinality(s \ {Some(s)}) + 1
  <2> SUFFICES ASSUME NEW s \in SUBSET S, s # {}
               PROVE  /\ Some(s) \in s /\ s \ {Some(s)} \in SUBSET S
                      /\ Cardinality(s) = Cardinality(s \ {Some(s)}) + 1
    OBVIOUS
  <2>1. Some(s) \in s
    BY DEF Some
  <2> QED
    BY <1>1, <2>1, WithoutOne
<1> HIDE DEF S, N
<1>4. 0 \in T
  <2>1. \A s \in Small(0) : s = {}
    BY <1>1, FS_EmptySet
  <2> DEFINE g == [s \in Small(0) |-> 0]
  <2>2. Fits(g, 0)
    BY <2>1
  <2>3. 0 \in 0..N
    BY <1>2
  <2> HIDE DEF g, Fits
  <2> QED
    BY <2>2, <2>3
<1>5. ASSUME NEW n \in 0..N, n < N, n \in T PROVE n + 1 \in T
  <2>1. PICK g : Fits(g, n)
    BY <1>5
  <2> DEFINE h == [s \in Small(n + 1) |->
                      IF s \in Small(n) THEN g[s] ELSE f[Some(s)] + g[s \ {Some(s)}]]
  <2>2. \A s \in Small(n) : g[s] = IF s = {} THEN 0 ELSE f[Some(s)] + g[s \ {Some(s)}]
    <3> HIDE DEF Small, T
    <3> QED
      BY <2>1
  <2>3. /\ {} \in Small(n)
        /\ \A s \in Small(n) : s \in Small(n + 1)
        /\ \A s \in Small(n + 1) : s # {} => s \ {Some(s)} \in Small(n)
    <3>1. {} \in Small(n)
      BY <1>2, FS_EmptySet
    <3>2. \A s \in Small(n) : s \in Small(n + 1)
      BY <1>1, <1>2
    <3>3. ASSUME NEW s \in Small(n + 1), s # {} PROVE s \ {Some(s)} \in Small(n)
      <4>1. s \in SUBSET S /\ Cardinality(s) <= n + 1
        OBVIOUS
      <4>2. s \ {Some(s)} \in SUBSET S /\ Cardinality(s) = Cardinality(s \ {Some(s)}) + 1
        BY <1>3, <3>3, <4>1
      <4>3. Cardinality(s \ {Some(s)}) \in 0..N
        BY <1>1, <4>2
      <4>4. Cardinality(s \ {Some(s)}) <= n
        BY <1>2, <4>1, <4>2, <4>3
      <4> QED
        BY <4>2, <4>4
    <3> QED
      BY <3>1, <3>2, <3>3
  <2>4. \A s \in Small(n + 1) : h[s] = IF s = {} THEN 0 ELSE f[Some(s)] + h[s \ {Some(s)}]
    <3> HIDE DEF Small, T, Fits
    <3> QED
      BY <2>2, <2>3
  <2>5. h = [s \in Small(n + 1) |-> h[s]]
    <3> HIDE DEF Small, T, Fits
    <3> QED
      OBVIOUS
  <2>6. Fits(h, n + 1)
    <3> HIDE DEF h, Small, T
    <3> QED
      BY <2>4, <2>5
  <2>7. n + 1 \in 0..N
    BY <1>2, <1>5
  <2> HIDE DEF h, Fits
  <2> QED
    BY <2>6, <2>7
<1>6. \A n \in 0..N : n < N /\ n \in T => n + 1 \in T
  <2> HIDE DEF T
  <2> QED
    BY <1>5
<1>7. N \in T
  <2> HIDE DEF T
  <2>1. \A n \in 0..N : n \in T
    BY <1>2, <1>4, <1>6, Induction
  <2> QED
    BY <1>2, <2>1
<1>8. Small(N) = SUBSET S
  BY <1>1
<1>9. \E g : g = [s \in SUBSET S |-> IF s = {} THEN 0 ELSE f[Some(s)] + g[s \ {Some(s)}]]
  <2> HIDE DEF Small
  <2>1. \E g : Fits(g, N)
    BY <1>7
  <2> QED
    BY <1>8, <2>1
<1> QED
  BY <1>9, Zenon DEF SumsOf, S

\* A sum is that of any place and of the others.
LEMMA SumsAdd ==
    ASSUME NEW S, IsFiniteSet(S), NEW f \in [S -> Nat]
    PROVE  /\ SumsOf(f)[{}] = 0
           /\ \A s \in SUBSET S : SumsOf(f)[s] \in Nat
           /\ \A s \in SUBSET S : \A x \in s : SumsOf(f)[s] = f[x] + SumsOf(f)[s \ {x}]
<1> DEFINE sum == SumsOf(f)
           N == Cardinality(S)
           Right(s) == sum[s] \in Nat /\ \A x \in s : sum[s] = f[x] + sum[s \ {x}]
           T == {n \in 0..N : \A s \in SUBSET S : Cardinality(s) <= n => Right(s)}
<1>1. N \in Nat /\ \A s \in SUBSET S : IsFiniteSet(s) /\ Cardinality(s) \in 0..N
  <2> SUFFICES ASSUME NEW s \in SUBSET S
               PROVE  N \in Nat /\ IsFiniteSet(s) /\ Cardinality(s) \in 0..N
    BY FS_CardinalityType
  <2>1. IsFiniteSet(s) /\ Cardinality(s) <= Cardinality(S)
    BY FS_Subset
  <2> QED
    BY <2>1, FS_CardinalityType
<1>2. DOMAIN f = S /\ \A x \in S : f[x] \in Nat
  OBVIOUS
<1>3. sum = [s \in SUBSET S |-> IF s = {} THEN 0 ELSE f[Some(s)] + sum[s \ {Some(s)}]]
  BY <1>2, SumsOfDef
<1> HIDE DEF sum, N
<1>4. \A s \in SUBSET S : sum[s] = IF s = {} THEN 0 ELSE f[Some(s)] + sum[s \ {Some(s)}]
  BY <1>3
<1>5. 0 \in T
  <2>1. \A s \in SUBSET S : Cardinality(s) <= 0 => s = {}
    BY <1>1, FS_EmptySet
  <2>2. \A s \in SUBSET S : Cardinality(s) <= 0 => Right(s)
    <3>1. Right({})
      BY <1>4
    <3> HIDE DEF Right
    <3> QED
      BY <2>1, <3>1
  <2>3. 0 \in 0..N
    BY <1>1
  <2> HIDE DEF Right
  <2> QED
    BY <2>2, <2>3
<1>6. ASSUME NEW n \in 0..N, n < N, n \in T PROVE n + 1 \in T
  <2>1. ASSUME NEW s \in SUBSET S, Cardinality(s) = n + 1 PROVE Right(s)
    <3> DEFINE c == Some(s)
    <3>1. IsFiniteSet(s) /\ s # {}
      BY <1>1, <1>6, <2>1, FS_EmptySet
    <3>2. c \in s
      BY <3>1 DEF Some
    <3>3. sum[s] = f[c] + sum[s \ {c}]
      BY <1>4, <3>1
    <3> HIDE DEF c
    <3>4. ASSUME NEW x \in s 
          PROVE  /\ s \ {x} \in SUBSET S /\ Right(s \ {x})
                 /\ \A y \in s \ {x} : sum[(s \ {x}) \ {y}] \in Nat
      <4>1. Cardinality(s) = Cardinality(s \ {x}) + 1 /\ Cardinality(s \ {x}) \in Nat
        BY <3>1, WithoutOne
      <4>2. Cardinality(s \ {x}) = n
        BY <1>1, <2>1, <4>1
      <4>3. s \ {x} \in SUBSET S /\ n <= n
        BY <1>1
      <4>4. \A r \in SUBSET S : Cardinality(r) <= n => Right(r)
        BY <1>6
      <4>5. Right(s \ {x})
        <5> HIDE DEF Right, T
        <5> QED
          BY <4>2, <4>3, <4>4
      <4>6. ASSUME NEW y \in s \ {x} PROVE sum[(s \ {x}) \ {y}] \in Nat
        <5> DEFINE r == (s \ {x}) \ {y}
        <5>1. r \in SUBSET S
          OBVIOUS
        <5>2. Cardinality(s \ {x}) = Cardinality(r) + 1 /\ Cardinality(r) \in Nat
          BY <1>1, <4>3, WithoutOne
        <5> HIDE DEF r
        <5>3. Cardinality(r) <= n
          BY <1>1, <4>2, <5>2
        <5>4. Right(r)
          <6> HIDE DEF Right
          <6> QED
            BY <4>4, <5>1, <5>3
        <5> QED
          BY <5>4 DEF r
      <4> HIDE DEF Right
      <4> QED
        BY <4>3, <4>5, <4>6
    <3>5. sum[s] \in Nat
      <4>1. sum[s \ {c}] \in Nat
        BY <3>2, <3>4
      <4>2. f[c] \in Nat
        BY <1>2, <3>2
      <4> QED
        BY <3>3, <4>1, <4>2
    <3>6. ASSUME NEW x \in s PROVE sum[s] = f[x] + sum[s \ {x}]
      <4>1. CASE x = c
        BY <3>3, <4>1
      <4>2. CASE x # c
        <5>1. c \in s \ {x} /\ x \in s \ {c} /\ (s \ {x}) \ {c} = (s \ {c}) \ {x}
          BY <3>2, <4>2
        <5>2. sum[s \ {x}] = f[c] + sum[(s \ {x}) \ {c}] /\ sum[s \ {x}] \in Nat
          BY <3>4, <5>1
        <5>3. sum[s \ {c}] = f[x] + sum[(s \ {c}) \ {x}] /\ sum[s \ {c}] \in Nat
          BY <3>2, <3>4, <5>1
        <5>4. sum[(s \ {c}) \ {x}] \in Nat
          BY <3>2, <3>4, <5>1
        <5> QED
          BY <1>2, <3>2, <3>3, <5>1, <5>2, <5>3, <5>4
      <4> QED
        BY <4>1, <4>2
    <3> QED
      BY <3>5, <3>6
  <2>2. n + 1 \in 0..N
    BY <1>1, <1>6
  <2>3. ASSUME NEW s \in SUBSET S, Cardinality(s) <= n + 1 PROVE Right(s)
    <3>1. Cardinality(s) <= n \/ Cardinality(s) = n + 1
      BY <1>1, <2>3
    <3> HIDE DEF Right
    <3> QED
      BY <1>6, <2>1, <3>1
  <2> HIDE DEF Right
  <2> QED
    BY <2>2, <2>3
<1>7. \A n \in 0..N : n < N /\ n \in T => n + 1 \in T
  <2> HIDE DEF T
  <2> QED
    BY <1>6
<1>8. \A n \in 0..N : n \in T
  <2> HIDE DEF T
  <2> QED
    BY <1>1, <1>5, <1>7, Induction
<1>9. \A s \in SUBSET S : Right(s)
  <2> SUFFICES ASSUME NEW s \in SUBSET S PROVE Right(s)
    OBVIOUS
  <2>1. Cardinality(s) \in T /\ Cardinality(s) <= Cardinality(s)
    <3> HIDE DEF T
    <3> QED
      BY <1>1, <1>8
  <2> HIDE DEF Right
  <2> QED
    BY <2>1
<1>10. sum[{}] = 0
  BY <1>4
<1> QED
  BY <1>9, <1>10 DEF sum

AddsUp(f, S) ==
    /\ SumsOf(f)[{}] = 0
    /\ \A s \in SUBSET S : \A x \in s : SumsOf(f)[s] = f[x] + SumsOf(f)[s \ {x}]

LEMMA SumsAddUp == ASSUME NEW S, IsFiniteSet(S), NEW f \in [S -> Nat] PROVE AddsUp(f, S)
  BY SumsAdd DEF AddsUp

\* Induction over the subsets of a finite set, for a set of them.
LEMMA SubsetInduction ==
    ASSUME NEW S, IsFiniteSet(S), NEW P, {} \in P,
           \A s \in SUBSET S : \A x \in s : s \ {x} \in P => s \in P
    PROVE  \A s \in SUBSET S : s \in P
<1> DEFINE N == Cardinality(S)
           T == {n \in 0..N : \A s \in SUBSET S : Cardinality(s) = n => s \in P}
<1>1. N \in Nat /\ \A s \in SUBSET S : IsFiniteSet(s) /\ Cardinality(s) \in 0..N
  <2> SUFFICES ASSUME NEW s \in SUBSET S
               PROVE  N \in Nat /\ IsFiniteSet(s) /\ Cardinality(s) \in 0..N
    BY FS_CardinalityType
  <2>1. IsFiniteSet(s) /\ Cardinality(s) <= Cardinality(S)
    BY FS_Subset
  <2> QED
    BY <2>1, FS_CardinalityType
<1> HIDE DEF N
<1>2. 0 \in T
  <2>1. \A s \in SUBSET S : Cardinality(s) = 0 => s = {}
    BY <1>1, FS_EmptySet
  <2> QED
    BY <1>1, <2>1
<1>3. ASSUME NEW n \in 0..N, n < N, n \in T PROVE n + 1 \in T
  <2>1. ASSUME NEW s \in SUBSET S, Cardinality(s) = n + 1 PROVE s \in P
    <3>1. IsFiniteSet(s) /\ s # {}
      BY <1>1, <1>3, <2>1, FS_EmptySet
    <3>2. PICK x \in s : TRUE
      BY <3>1
    <3>3. Cardinality(s) = Cardinality(s \ {x}) + 1 /\ Cardinality(s \ {x}) \in Nat
      BY <3>1, WithoutOne
    <3>4. Cardinality(s \ {x}) = n /\ s \ {x} \in SUBSET S
      BY <1>1, <2>1, <3>3
    <3> QED
      BY <1>3, <3>4
  <2>2. n + 1 \in 0..N
    BY <1>1, <1>3
  <2> QED
    BY <2>1, <2>2
<1>4. \A n \in 0..N : n < N /\ n \in T => n + 1 \in T
  <2> HIDE DEF T
  <2> QED
    BY <1>3
<1>5. \A n \in 0..N : n \in T
  <2> HIDE DEF T
  <2> QED
    BY <1>1, <1>2, <1>4, Induction
<1> QED
  BY <1>1, <1>5

\* The sum over two sets that have no place in common.
LEMMA SumsJoin ==
    ASSUME NEW S, IsFiniteSet(S), NEW f \in [S -> Nat], NEW b \in SUBSET S
    PROVE  \A a \in SUBSET S : a \cap b = {} => SumsOf(f)[a \cup b] = SumsOf(f)[a] + SumsOf(f)[b]
<1> DEFINE sum == SumsOf(f)
           P == {a \in SUBSET S : a \cap b = {} => sum[a \cup b] = sum[a] + sum[b]}
<1>1. /\ sum[{}] = 0 /\ \A s \in SUBSET S : sum[s] \in Nat
      /\ \A s \in SUBSET S : \A x \in s : sum[s] = f[x] + sum[s \ {x}]
  BY SumsAdd
<1> HIDE DEF sum
<1>2. {} \in P
  <2>1. {} \cup b = b
    OBVIOUS
  <2> QED
    BY <1>1, <2>1
<1>3. ASSUME NEW a \in SUBSET S, NEW x \in a, a \ {x} \in P PROVE a \in P
  <2> SUFFICES ASSUME a \cap b = {} PROVE sum[a \cup b] = sum[a] + sum[b]
    OBVIOUS
  <2>1. (a \ {x}) \cap b = {} /\ (a \cup b) \ {x} = (a \ {x}) \cup b
    OBVIOUS
  <2>2. sum[(a \ {x}) \cup b] = sum[a \ {x}] + sum[b]
    BY <1>3, <2>1
  <2>3. sum[a] = f[x] + sum[a \ {x}]
    BY <1>1
  <2>4. sum[a \cup b] = f[x] + sum[(a \cup b) \ {x}]
    <3>1. a \cup b \in SUBSET S /\ x \in a \cup b
      OBVIOUS
    <3> QED
      BY <1>1, <3>1, Zenon
  <2>5. f[x] \in Nat /\ sum[a \ {x}] \in Nat /\ sum[b] \in Nat
    <3>1. a \ {x} \in SUBSET S /\ x \in S
      OBVIOUS
    <3> QED
      BY <1>1, <3>1
  <2>6. sum[a \cup b] = f[x] + sum[(a \ {x}) \cup b]
    BY <2>1, <2>4
  <2> QED
    BY <2>2, <2>3, <2>5, <2>6
<1>4. \A a \in SUBSET S : \A x \in a : a \ {x} \in P => a \in P
  <2> HIDE DEF P
  <2> QED
    BY <1>3
<1>5. \A a \in SUBSET S : a \in P
  <2> HIDE DEF P
  <2> QED
    BY <1>2, <1>4, SubsetInduction
<1> QED
  BY <1>5 DEF sum

\* The places of S are grouped by g, and v has the sum of each group.
Grouped(S, f, D, g, v) ==
    /\ IsFiniteSet(S) /\ f \in [S -> Nat]
    /\ IsFiniteSet(D) /\ g \in [S -> D] /\ v \in [D -> Nat]
    /\ \A d \in D : v[d] = SumsOf(f)[{n \in S : g[n] = d}]

\* The numbers of u are some of f's, under other names.
Renamed(S, f, R, u, h) ==
    /\ IsFiniteSet(S) /\ f \in [S -> Nat]
    /\ IsFiniteSet(R) /\ u \in [R -> Nat] /\ h \in [R -> S]
    /\ \A q, r \in R : h[q] = h[r] => q = r
    /\ \A r \in R : u[r] = f[h[r]]

Places(h, R) == {h[r] : r \in R}

\* The sum of the sums of groups is the sum of all.
LEMMA SumsGroup ==
    ASSUME NEW S, NEW f, NEW D, NEW g, NEW v, Grouped(S, f, D, g, v)
    PROVE  SumsOf(v)[D] = SumsOf(f)[S]
<1> DEFINE sum == SumsOf(f)
           of(t) == {n \in S : g[n] \in t}
           P == {t \in SUBSET D : SumsOf(v)[t] = sum[of(t)]}
<1>0. /\ IsFiniteSet(S) /\ f \in [S -> Nat]
      /\ IsFiniteSet(D) /\ g \in [S -> D] /\ v \in [D -> Nat]
  BY DEF Grouped
<1>1. /\ SumsOf(v)[{}] = 0
      /\ \A s \in SUBSET D : \A x \in s : SumsOf(v)[s] = v[x] + SumsOf(v)[s \ {x}]
  BY <1>0, SumsAddUp DEF AddsUp
<1>2. sum[{}] = 0
  BY <1>0, SumsAddUp DEF AddsUp
<1>3. ASSUME NEW b \in SUBSET S, NEW a \in SUBSET S, a \cap b = {}
      PROVE  sum[a \cup b] = sum[a] + sum[b]
  <2>1. \A c \in SUBSET S : c \cap b = {} => SumsOf(f)[c \cup b] = SumsOf(f)[c] + SumsOf(f)[b]
    BY <1>0, SumsJoin
  <2> QED
    BY <1>3, <2>1
<1>4. \A d \in D : v[d] = sum[{n \in S : g[n] = d}]
  BY DEF Grouped
<1> HIDE DEF sum
<1>5. {} \in P
  <2>1. of({}) = {}
    OBVIOUS
  <2> QED
    BY <1>1, <1>2, <2>1
<1>6. ASSUME NEW t \in SUBSET D, NEW x \in t, t \ {x} \in P PROVE t \in P
  <2> DEFINE a == {n \in S : g[n] = x}
             b == of(t \ {x})
  <2>1. a \in SUBSET S /\ b \in SUBSET S /\ a \cap b = {} /\ a \cup b = of(t)
    BY <1>0
  <2>2. SumsOf(v)[t \ {x}] = sum[b]
    BY <1>6
  <2>3. v[x] = sum[a]
    BY <1>4
  <2> HIDE DEF a, b, of
  <2>4. sum[of(t)] = sum[a] + sum[b]
    <3>1. sum[a \cup b] = sum[a] + sum[b]
      BY <1>3, <2>1
    <3> QED
      BY <2>1, <3>1
  <2>5. SumsOf(v)[t] = v[x] + SumsOf(v)[t \ {x}]
    BY <1>1
  <2> QED
    BY <2>2, <2>3, <2>4, <2>5
<1>7. \A t \in SUBSET D : \A x \in t : t \ {x} \in P => t \in P
  <2> HIDE DEF P
  <2> QED
    BY <1>6
<1>8. D \in P
  <2> HIDE DEF P
  <2>1. \A t \in SUBSET D : t \in P
    BY <1>0, <1>5, <1>7, SubsetInduction
  <2> QED
    BY <2>1
<1>9. of(D) = S
  BY <1>0
<1> QED
  BY <1>8, <1>9 DEF sum

\* Numbers that are counted under other names have the same sum.
LEMMA SumsMove ==
    ASSUME NEW S, NEW f, NEW R, NEW u, NEW h, Renamed(S, f, R, u, h)
    PROVE  SumsOf(u)[R] = SumsOf(f)[Places(h, R)]
<1> DEFINE at(t) == {h[r] : r \in t}
           P == {t \in SUBSET R : SumsOf(u)[t] = SumsOf(f)[at(t)]}
<1>0. /\ IsFiniteSet(S) /\ f \in [S -> Nat]
      /\ IsFiniteSet(R) /\ u \in [R -> Nat] /\ h \in [R -> S]
      /\ \A q, r \in R : h[q] = h[r] => q = r
      /\ \A r \in R : u[r] = f[h[r]]
  BY DEF Renamed
<1>1. AddsUp(u, R) /\ AddsUp(f, S)
  BY <1>0, SumsAddUp
<1>2. /\ SumsOf(u)[{}] = 0 /\ SumsOf(f)[{}] = 0
      /\ \A s \in SUBSET R : \A x \in s : SumsOf(u)[s] = u[x] + SumsOf(u)[s \ {x}]
      /\ \A s \in SUBSET S : \A x \in s : SumsOf(f)[s] = f[x] + SumsOf(f)[s \ {x}]
  BY <1>1 DEF AddsUp
<1>3. {} \in P
  <2>1. at({}) = {}
    OBVIOUS
  <2> QED
    BY <1>2, <2>1
<1>4. ASSUME NEW t \in SUBSET R, NEW x \in t, t \ {x} \in P PROVE t \in P
  <2>1. SumsOf(u)[t \ {x}] = SumsOf(f)[at(t \ {x})]
    BY <1>4
  <2>2. at(t) \in SUBSET S /\ h[x] \in at(t)
    BY <1>0
  <2>3. at(t) \ {h[x]} = at(t \ {x})
    BY <1>0
  <2> HIDE DEF at
  <2>4. SumsOf(f)[at(t)] = f[h[x]] + SumsOf(f)[at(t) \ {h[x]}]
    BY <1>2, <2>2
  <2>5. SumsOf(u)[t] = u[x] + SumsOf(u)[t \ {x}]
    BY <1>2
  <2>6. u[x] = f[h[x]]
    BY <1>0
  <2>7. SumsOf(u)[t] = SumsOf(f)[at(t)]
    BY <2>1, <2>3, <2>4, <2>5, <2>6
  <2> QED
    BY <2>7
<1>5. \A t \in SUBSET R : \A x \in t : t \ {x} \in P => t \in P
  <2> HIDE DEF P
  <2> QED
    BY <1>4
<1>6. R \in P
  <2> HIDE DEF P
  <2>1. \A t \in SUBSET R : t \in P
    BY <1>0, <1>3, <1>5, SubsetInduction
  <2> QED
    BY <2>1
<1> QED
  BY <1>6 DEF Places

-----------------------------------------------------------------------------
(* What a report sums.                                                     *)

TimesOf(es) == [n \in DOMAIN es |-> es[n].entry.time]

LEMMA SecondsAre == \A es : Seconds(es) = SumsOf(TimesOf(es))[DOMAIN TimesOf(es)]
  BY Zenon DEF Seconds, TimesOf, FoldFunction, FoldFunctionOnSet, MapThenFoldSet, Some, SumsOf

LEMMA TimesShow ==
    ASSUME NEW es \in Seq(Listed)
    PROVE  /\ IsFiniteSet(DOMAIN es) /\ DOMAIN es \subseteq Nat
           /\ DOMAIN TimesOf(es) = DOMAIN es /\ TimesOf(es) \in [DOMAIN es -> Nat]
           /\ Seconds(es) = SumsOf(TimesOf(es))[DOMAIN es] /\ Seconds(es) \in Nat
<1>1. DOMAIN es = 1..Len(es) /\ Len(es) \in Nat
  BY LenProperties
<1>2. IsFiniteSet(DOMAIN es) /\ DOMAIN es \subseteq Nat
  <2>1. 1 \in Int /\ Len(es) \in Int
    BY <1>1
  <2> QED
    BY <1>1, <2>1, FS_Interval
<1>3. \A n \in DOMAIN es : es[n].entry.time \in Nat
  <2> SUFFICES ASSUME NEW n \in DOMAIN es PROVE es[n].entry.time \in Nat
    OBVIOUS
  <2>1. es[n] \in Listed
    BY ElementOfSeq
  <2>2. es[n].entry.time \in Time
    BY <2>1 DEF Listed, Entry
  <2> QED
    BY <2>2, WorklogAssumption
<1>4. DOMAIN TimesOf(es) = DOMAIN es /\ TimesOf(es) \in [DOMAIN es -> Nat]
  BY <1>3 DEF TimesOf
<1>5. Seconds(es) = SumsOf(TimesOf(es))[DOMAIN es]
  BY <1>4, SecondsAre
<1>6. \A s \in SUBSET DOMAIN es : SumsOf(TimesOf(es))[s] \in Nat
  BY <1>2, <1>4, SumsAdd
<1> QED
  BY <1>2, <1>4, <1>5, <1>6

\* What is selected from a listing has the sum of its places.
LEMMA SelectShows ==
    ASSUME NEW es \in Seq(Listed), NEW at \in SUBSET DOMAIN es
    PROVE  /\ Select(es, at) \in Seq(Listed)
           /\ \A n \in DOMAIN Select(es, at) : \E m \in at : Select(es, at)[n] = es[m]
           /\ Seconds(Select(es, at)) = SumsOf(TimesOf(es))[at]
<1> DEFINE size == Cardinality(at)
           sel == Select(es, at)
           place == [n \in 1..size |-> Nth(at, n)]
<1>1. /\ IsFiniteSet(DOMAIN es) /\ DOMAIN es \subseteq Nat
      /\ DOMAIN TimesOf(es) = DOMAIN es /\ TimesOf(es) \in [DOMAIN es -> Nat]
  BY TimesShow
<1>2. IsFiniteSet(at) /\ at \in SUBSET Nat
  BY <1>1, FS_Subset
<1>3. /\ size \in Nat
      /\ \A n \in 1..size : Nth(at, n) \in at
      /\ \A i \in at : /\ Cardinality({j \in at : j <= i}) \in 1..size
                       /\ Nth(at, Cardinality({j \in at : j <= i})) = i
      /\ \A m, n \in 1..size : m < n <=> Nth(at, m) < Nth(at, n)
  BY <1>2, NthCounts
<1> HIDE DEF size
<1>4. sel = [n \in 1..size |-> es[Nth(at, n)]]
  BY DEF Select, size
<1>5. place \in [1..size -> DOMAIN es] /\ \A n \in 1..size : place[n] = Nth(at, n)
  BY <1>3
<1> HIDE DEF place
<1>6. Places(place, 1..size) = at
  <2>1. \A n \in 1..size : place[n] \in at
    BY <1>3, <1>5
  <2>2. \A i \in at : \E n \in 1..size : place[n] = i
    BY <1>3, <1>5
  <2> QED
    BY <2>1, <2>2 DEF Places
<1>7. \A m, n \in 1..size : place[m] = place[n] => m = n
  <2> SUFFICES ASSUME NEW m \in 1..size, NEW n \in 1..size, place[m] = place[n] PROVE m = n
    OBVIOUS
  <2>1. m \in Nat /\ n \in Nat /\ place[m] \in Nat
    BY <1>1, <1>3, <1>5
  <2>2. ~(m < n) /\ ~(n < m)
    BY <1>3, <1>5, <2>1
  <2> QED
    BY <2>1, <2>2
<1>8. sel \in Seq(Listed) /\ DOMAIN sel = 1..size /\ \A n \in 1..size : sel[n] = es[place[n]]
  <2>1. \A n \in DOMAIN es : es[n] \in Listed
    BY ElementOfSeq
  <2>2. \A n \in 1..size : es[Nth(at, n)] \in Listed
    BY <1>3, <2>1
  <2>3. sel \in [1..size -> Listed]
    BY <1>4, <2>2
  <2>4. sel \in Seq(Listed)
    BY <1>3, <2>3, SeqDef
  <2>5. DOMAIN sel = 1..size /\ \A n \in 1..size : sel[n] = es[place[n]]
    BY <1>4, <1>5
  <2> QED
    BY <2>4, <2>5
<1> HIDE DEF sel
<1>9. /\ IsFiniteSet(1..size) /\ TimesOf(sel) \in [1..size -> Nat]
      /\ Seconds(sel) = SumsOf(TimesOf(sel))[1..size]
  BY <1>8, TimesShow
<1>10. \A n \in 1..size : TimesOf(sel)[n] = TimesOf(es)[place[n]]
  <2> SUFFICES ASSUME NEW n \in 1..size PROVE TimesOf(sel)[n] = TimesOf(es)[place[n]]
    OBVIOUS
  <2>1. place[n] \in DOMAIN es
    BY <1>5
  <2> QED
    BY <1>8, <2>1 DEF TimesOf
<1>11. Seconds(sel) = SumsOf(TimesOf(es))[at]
  <2>1. SumsOf(TimesOf(sel))[1..size] = SumsOf(TimesOf(es))[Places(place, 1..size)]
    <3> DEFINE f == TimesOf(es)
               u == TimesOf(sel)
               R == 1..size
    <3>1. Renamed(DOMAIN es, f, R, u, place)
      <4>1. /\ IsFiniteSet(DOMAIN es) /\ f \in [DOMAIN es -> Nat]
            /\ IsFiniteSet(R) /\ u \in [R -> Nat] /\ place \in [R -> DOMAIN es]
        BY <1>1, <1>5, <1>9
      <4>2. /\ \A m, n \in R : place[m] = place[n] => m = n
            /\ \A n \in R : u[n] = f[place[n]]
        BY <1>7, <1>10
      <4> HIDE DEF f, u, R
      <4> QED
        BY <4>1, <4>2, Zenon DEF Renamed
    <3> HIDE DEF f, u, R
    <3>2. SumsOf(u)[R] = SumsOf(f)[Places(place, R)]
      BY <3>1, SumsMove
    <3> QED
      BY <3>2 DEF f, u, R
  <2> QED
    BY <1>6, <1>9, <2>1
<1>12. \A n \in DOMAIN sel : \E m \in at : sel[n] = es[m]
  BY <1>3, <1>5, <1>8
<1> QED
  BY <1>8, <1>11, <1>12 DEF sel

\* A listing that is split by days, or by issues, has the sum of its parts.
Parts(es, D, g, v) ==
    /\ es \in Seq(Listed)
    /\ IsFiniteSet(D) /\ g \in [DOMAIN es -> D]
    /\ v = [d \in D |-> Seconds(Select(es, {n \in DOMAIN es : g[n] = d}))]

LEMMA PartsAddUp ==
    ASSUME NEW es, NEW D, NEW g, NEW v, Parts(es, D, g, v)
    PROVE  SumsOf(v)[DOMAIN v] = Seconds(es)
<1> USE DEF Parts
<1> DEFINE f == TimesOf(es)
           S == DOMAIN es
<1>1. /\ IsFiniteSet(S) /\ f \in [S -> Nat] /\ Seconds(es) = SumsOf(f)[S]
      /\ \A s \in SUBSET S : SumsOf(f)[s] \in Nat
  BY TimesShow, SumsAdd
<1>2. \A d \in D : v[d] = SumsOf(f)[{n \in S : g[n] = d}] /\ v[d] \in Nat
  <2> SUFFICES ASSUME NEW d \in D
               PROVE  v[d] = SumsOf(f)[{n \in S : g[n] = d}] /\ v[d] \in Nat
    OBVIOUS
  <2> DEFINE at == {n \in S : g[n] = d}
  <2>1. at \in SUBSET S
    OBVIOUS
  <2>2. v[d] = Seconds(Select(es, at))
    OBVIOUS
  <2> HIDE DEF at
  <2>3. Seconds(Select(es, at)) = SumsOf(f)[at]
    BY <2>1, SelectShows
  <2>4. SumsOf(f)[at] \in Nat
    BY <1>1, <2>1
  <2> QED
    BY <2>2, <2>3, <2>4 DEF at
<1>3. v \in [D -> Nat] /\ DOMAIN v = D
  BY <1>2
<1> HIDE DEF f, S, Parts
<1>5. SumsOf(v)[D] = SumsOf(f)[S]
  <2>1. Grouped(S, f, D, g, v)
    BY <1>1, <1>2, <1>3, Zenon DEF S, Grouped, Parts
  <2> QED
    BY <2>1, SumsGroup
<1> QED
  BY <1>1, <1>3, <1>5

-----------------------------------------------------------------------------
(* The norm of a period.                                                   *)

\* A date after the first year is in periods whose days are counted from 0.
LEMMA PeriodLate ==
    ASSUME NEW n \in Int, NEW p \in {"day", "week", "month"}, Year(n) >= 1
    PROVE  PeriodRange(p, n).from >= 0
<1> DEFINE y == Year(n)
<1>1. y \in Int /\ y >= 1 /\ Date(y, 1, 1) <= n
  BY YearShows
<1>2. 1 \in Int /\ Begins(y) \in Int /\ Begins(y - 1) \in Int /\ Begins(y - 1) >= 0 /\ Begins(y) >= 0
  BY <1>1 DEF Begins
<1>3. \A m \in 1..12 : Date(y, m, 1) \in Int /\ Date(y, m, 1) >= 30
  <2> HIDE DEF y
  <2>1. /\ Date(y, 1, 1) = Begins(y - 1) + 305 + 1 /\ Date(y, 2, 1) = Begins(y - 1) + 336 + 1
        /\ Date(y, 3, 1) = Begins(y) - 1 + 1 /\ Date(y, 4, 1) = Begins(y) + 30 + 1
        /\ Date(y, 5, 1) = Begins(y) + 60 + 1 /\ Date(y, 6, 1) = Begins(y) + 91 + 1
    BY <1>1, <1>2, DatesAre
  <2>2. /\ Date(y, 7, 1) = Begins(y) + 121 + 1 /\ Date(y, 8, 1) = Begins(y) + 152 + 1
        /\ Date(y, 9, 1) = Begins(y) + 183 + 1 /\ Date(y, 10, 1) = Begins(y) + 213 + 1
        /\ Date(y, 11, 1) = Begins(y) + 244 + 1 /\ Date(y, 12, 1) = Begins(y) + 274 + 1
    BY <1>1, <1>2, DatesAre
  <2>3. Begins(y) >= 365
    BY <1>1 DEF Begins
  <2>4. /\ Date(y, 1, 1) >= 30 /\ Date(y, 2, 1) >= 30 /\ Date(y, 3, 1) >= 30
        /\ Date(y, 4, 1) >= 30 /\ Date(y, 5, 1) >= 30 /\ Date(y, 6, 1) >= 30
    BY <1>2, <2>1, <2>3
  <2>5. /\ Date(y, 7, 1) >= 30 /\ Date(y, 8, 1) >= 30 /\ Date(y, 9, 1) >= 30
        /\ Date(y, 10, 1) >= 30 /\ Date(y, 11, 1) >= 30 /\ Date(y, 12, 1) >= 30
    BY <1>2, <2>2, <2>3
  <2>7. \A m \in 1..12 : Date(y, m, 1) \in Int
    BY <1>1, DateIsInt
  <2>8. \A m \in 1..12 : \/ m = 1 \/ m = 2 \/ m = 3 \/ m = 4 \/ m = 5 \/ m = 6
                         \/ m = 7 \/ m = 8 \/ m = 9 \/ m = 10 \/ m = 11 \/ m = 12
    OBVIOUS
  <2> QED
    BY <2>4, <2>5, <2>7, <2>8
<1>4. CASE p = "day"
  BY <1>1, <1>3, <1>4 DEF PeriodRange
<1>5. CASE p = "week"
  <2>1. n >= 30
    BY <1>1, <1>3
  <2>2. PeriodRange(p, n).from = n - ((Weekday(n) + 6) % 7)
    BY <1>5 DEF PeriodRange
  <2>3. (Weekday(n) + 6) % 7 \in 0..6
    BY DEF Weekday
  <2> QED
    BY <2>1, <2>2, <2>3
<1>6. CASE p = "month"
  <2>1. PeriodRange(p, n).from = Date(y, Month(n), 1)
    BY <1>6 DEF PeriodRange
  <2> HIDE DEF y
  <2> QED
    BY <1>3, <2>1, MonthShows
<1> QED
  BY <1>4, <1>5, <1>6

LEMMA YearLate ==
    ASSUME NEW n \in Int, n >= 0
    PROVE  Year(n) \in Nat
<1> DEFINE y == Year(n)
<1>1. y \in Int /\ y + 1 \in Int /\ 1 \in Int /\ n < Date(y + 1, 1, 1)
  BY YearShows
<1> HIDE DEF y
<1>2. Date(y + 1, 1, 1) = Begins(y + 1 - 1) + 305 + 1 /\ y + 1 - 1 = y /\ Begins(y) \in Int
  BY <1>1, DatesAre
<1>3. y <= -1 => Begins(y) <= -306
  BY <1>1 DEF Begins
<1>4. y >= 0
  BY <1>1, <1>2, <1>3
<1> QED
  BY <1>1, <1>4 DEF y

\* A working day is one from Monday to Friday that is no holiday.
LEMMA WorkingDayIs ==
    ASSUME NEW n \in Int, n >= 0
    PROVE  IsWorkingDay(n) <=> Weekday(n) \in 1..5 /\ n \notin Feasts(Year(n))
<1>1. Weekday(n) \in 0..6
  BY DEF Weekday
<1>2. Weekday(n) \notin {Saturday, Sunday} <=> Weekday(n) \in 1..5
  BY <1>1 DEF Saturday, Sunday
<1>3. Year(n) \in Nat
  BY YearLate
<1>4. /\ EasterSunday(Year(n)) = Easter(Year(n))
      /\ {Easter(Year(n)), Easter(Year(n)) + 1} \subseteq ToSet(PolishHolidays(Year(n)))
  BY <1>3, EasterFollowsMoon, HolidaysShow
<1>5. Feasts(Year(n)) = ToSet(PolishHolidays(Year(n)))
  BY <1>4, Zenon DEF Feasts
<1> QED
  BY <1>2, <1>5, Zenon DEF IsWorkingDay, IsHoliday

LEMMA WeekdaysAre ==
    ASSUME NEW a \in Int, NEW b \in Int, a >= 0
    PROVE  /\ Weekdays([from |-> a, to |-> b]) \in SUBSET (a..b)
           /\ {n \in a..b : IsWorkingDay(n)} = Weekdays([from |-> a, to |-> b])
           /\ WorkingDays(a, b) = Cardinality(Weekdays([from |-> a, to |-> b]))
           /\ WorkingDays(a, b) \in Nat
<1>1. \A n \in a..b : IsWorkingDay(n) <=> Weekday(n) \in 1..5 /\ n \notin Feasts(Year(n))
  BY WorkingDayIs
<1>2. Weekdays([from |-> a, to |-> b])
         = {n \in a..b : Weekday(n) \in 1..5 /\ n \notin Feasts(Year(n))}
  BY DEF Weekdays
<1>3. {n \in a..b : IsWorkingDay(n)} = Weekdays([from |-> a, to |-> b])
  BY <1>1, <1>2
<1>4. Weekdays([from |-> a, to |-> b]) \in SUBSET (a..b)
  BY <1>2
<1>5. IsFiniteSet(Weekdays([from |-> a, to |-> b]))
  BY <1>4, FS_Interval, FS_Subset
<1> QED
  BY <1>3, <1>4, <1>5, FS_CardinalityType DEF WorkingDays

\* The hours of a norm agree with each other and with the calendar.
LEMMA NormShows ==
    ASSUME NEW n \in Int, Year(n) >= 1, NEW p \in {"day", "week", "month"}, NEW seconds \in Nat
    PROVE  /\ NormRight(Norm(PeriodRange(p, n), n, seconds), n)
           /\ Norm(PeriodRange(p, n), n, seconds).range = PeriodRange(p, n)
           /\ Norm(PeriodRange(p, n), n, seconds).logged = HoursOf(seconds)
<1> DEFINE r == PeriodRange(p, n)
           a == r.from
           b == r.to
           full == WorkingDays(a, b) * HoursPerDay
           end == IF n < b THEN n ELSE b
           done == IF n >= a THEN WorkingDays(a, end) * HoursPerDay ELSE 0
           logged == HoursOf(seconds)
           norm == Norm(r, n, seconds)
<1>1. r = [from |-> a, to |-> b] /\ a \in Int /\ b \in Int /\ a <= n /\ n <= b
  BY PeriodShows
<1>2. a >= 0
  BY PeriodLate
<1> HIDE DEF r
<1>3. /\ norm.range = r /\ norm.norm = full /\ norm.toDate = done /\ norm.logged = logged
      /\ norm.left = AtLeastZero(full - logged) /\ norm.overtime = AtLeastZero(logged - full)
  BY DEF Norm
<1>4. logged \in Nat
  BY DEF HoursOf
<1> HIDE DEF norm, logged, a, b
<1>5. /\ WorkingDays(a, b) = Cardinality(Weekdays(r)) /\ WorkingDays(a, b) \in Nat
  BY <1>1, <1>2, WeekdaysAre
<1>6. end = n
  BY <1>1
<1>7. /\ WorkingDays(a, n) = Cardinality(Weekdays([from |-> a, to |-> n]))
      /\ WorkingDays(a, n) \in Nat
  BY <1>1, <1>2, WeekdaysAre
<1>8. Weekdays([from |-> a, to |-> n]) = {d \in Weekdays(r) : d <= n}
  <2>1. Weekdays(r) = {d \in a..b : Weekday(d) \in 1..5 /\ d \notin Feasts(Year(d))}
    BY <1>1 DEF Weekdays
  <2>2. Weekdays([from |-> a, to |-> n])
          = {d \in a..n : Weekday(d) \in 1..5 /\ d \notin Feasts(Year(d))}
    BY DEF Weekdays
  <2>3. \A d : d \in a..n <=> d \in a..b /\ d <= n
    BY <1>1
  <2> QED
    BY <2>1, <2>2, <2>3, Zenon
<1>9. norm.norm = 800 * Cardinality(Weekdays(norm.range))
  BY <1>3, <1>5 DEF HoursPerDay
<1>10. norm.toDate = 800 * Cardinality({d \in Weekdays(norm.range) : d <= n})
  <2>1. done = WorkingDays(a, n) * 800
    BY <1>1, <1>6 DEF HoursPerDay
  <2>2. norm.toDate = WorkingDays(a, n) * 800 /\ norm.range = r
    BY <1>3, <2>1
  <2>3. WorkingDays(a, n) * 800 = 800 * WorkingDays(a, n)
    BY <1>7
  <2>4. WorkingDays(a, n) = Cardinality({d \in Weekdays(r) : d <= n})
    BY <1>7, <1>8
  <2>5. {d \in Weekdays(norm.range) : d <= n} = {d \in Weekdays(r) : d <= n}
    BY <2>2
  <2> QED
    BY <2>2, <2>3, <2>4, <2>5
<1>11. full \in Nat
  BY <1>5 DEF HoursPerDay
<1> HIDE DEF full, done
<1>12. /\ norm.norm + norm.overtime = norm.logged + norm.left
       /\ norm.left = 0 \/ norm.overtime = 0
  BY <1>3, <1>4, <1>11 DEF AtLeastZero
<1>13. InRange(n, norm.range)
  BY <1>1, <1>3 DEF InRange
<1>14. NormRight(norm, n)
  BY <1>9, <1>10, <1>12, <1>13, Zenon DEF NormRight
<1> QED
  BY <1>3, <1>14 DEF norm, r, logged

LEMMA CalendarIsRight == CalendarRight
<1>1. \A y \in HolidayYears : y \in Nat
  BY ReportAssumption
<1> QED
  BY <1>1, HolidaysListedRight DEF CalendarRight

LEMMA DaysLate == \A d \in Day : d \in Int /\ Year(d) >= 1
<1>1. Day \subseteq Nat
  BY ReportAssumption
<1>2. HolidayYears \subseteq 1583..2999
  BY ReportAssumption
<1>3. \A d \in Day : Year(d) \in HolidayYears
  BY ReportAssumption
<1> SUFFICES ASSUME NEW d \in Day PROVE d \in Int /\ Year(d) >= 1
  OBVIOUS
<1>4. d \in Int
  BY <1>1
<1>5. \A y \in HolidayYears : y >= 1
  BY <1>2
<1> QED
  BY <1>3, <1>4, <1>5, Zenon

\* A report of a day, a week or a month, from what has been read.
LEMMA SumsShow ==
    ASSUME NEW q \in Query, q.kind = "report", NEW es \in Seq(Listed)
    PROVE  LET a == Sums(q, es)
           IN  /\ FoldFunction(+, 0, a.byDay) = FoldFunction(+, 0, a.byIssue)
               /\ HoursOf(FoldFunction(+, 0, a.byDay)) = a.period.logged
               /\ \A n \in {a.period, a.week, a.month} : NormRight(n, q.asOf)
               /\ a.week.range = PeriodRange("week", q.asOf)
<1> DEFINE n == q.asOf
           of(range) == Select(es, {i \in DOMAIN es : InRange(es[i].entry.day, range)})
           norm(p) == Norm(PeriodRange(p, n), n, Seconds(of(PeriodRange(p, n))))
           in == of(PeriodRange(q.period, n))
           byDay == [d \in Day |-> Seconds(Select(in, {i \in DOMAIN in : in[i].entry.day = d}))]
           byIssue == [k \in Key |-> Seconds(Select(in, {i \in DOMAIN in : in[i].entry.issue = k}))]
           a == Sums(q, es)
<1>1. /\ a.byDay = byDay /\ a.byIssue = byIssue
      /\ a.period = norm(q.period) /\ a.week = norm("week") /\ a.month = norm("month")
  BY Zenon DEF Sums
<1>2. q.period \in {"day", "week", "month"} /\ n \in Day
  <2>1. q \in QueryType
    BY ReportAssumption
  <2> QED
    BY <2>1 DEF QueryType
<1>3. n \in Int /\ Year(n) >= 1
  BY <1>2, DaysLate, Zenon
<1>4. \A range : of(range) \in Seq(Listed) /\ Seconds(of(range)) \in Nat
  <2> SUFFICES ASSUME NEW range PROVE of(range) \in Seq(Listed) /\ Seconds(of(range)) \in Nat
    OBVIOUS
  <2> DEFINE at == {i \in DOMAIN es : InRange(es[i].entry.day, range)}
  <2>1. at \in SUBSET DOMAIN es /\ of(range) = Select(es, at)
    OBVIOUS
  <2> HIDE DEF at, of
  <2>2. of(range) \in Seq(Listed)
    BY <2>1, SelectShows
  <2> QED
    BY <2>2, TimesShow
<1>5. in \in Seq(Listed)
  BY <1>4
<1> HIDE DEF n, a, of
<1>6. \A p \in {"day", "week", "month"} :
         /\ NormRight(norm(p), n)
         /\ norm(p).range = PeriodRange(p, n)
         /\ norm(p).logged = HoursOf(Seconds(of(PeriodRange(p, n))))
  BY <1>3, <1>4, NormShows
<1> HIDE DEF norm
<1>7. a.period.logged = HoursOf(Seconds(in))
  BY <1>1, <1>2, <1>6
<1> HIDE DEF in
<1>8. \A i \in DOMAIN in : in[i].entry.day \in Day /\ in[i].entry.issue \in Key
  <2>1. \A i \in DOMAIN in : in[i] \in Listed
    BY <1>5, ElementOfSeq
  <2> QED
    BY <2>1 DEF Listed, Entry
<1>9. FoldFunction(+, 0, byDay) = Seconds(in)
  <2> DEFINE g == [i \in DOMAIN in |-> in[i].entry.day]
  <2>1. g \in [DOMAIN in -> Day] /\ IsFiniteSet(Day)
    BY <1>8, ReportAssumption
  <2>2. byDay = [d \in Day |-> Seconds(Select(in, {i \in DOMAIN in : g[i] = d}))]
    <3>1. \A d : {i \in DOMAIN in : in[i].entry.day = d} = {i \in DOMAIN in : g[i] = d}
      OBVIOUS
    <3> HIDE DEF g
    <3> QED
      BY <3>1
  <2> HIDE DEF g, byDay
  <2>3. Parts(in, Day, g, byDay)
    BY <1>5, <2>1, <2>2, Zenon DEF Parts
  <2>4. SumsOf(byDay)[DOMAIN byDay] = Seconds(in)
    BY <2>3, PartsAddUp
  <2> QED
    BY <2>4, Zenon DEF FoldFunction, FoldFunctionOnSet, MapThenFoldSet, Some, SumsOf
<1>10. FoldFunction(+, 0, byIssue) = Seconds(in)
  <2> DEFINE g == [i \in DOMAIN in |-> in[i].entry.issue]
  <2>1. g \in [DOMAIN in -> Key] /\ IsFiniteSet(Key)
    BY <1>8, ReportAssumption
  <2>2. byIssue = [k \in Key |-> Seconds(Select(in, {i \in DOMAIN in : g[i] = k}))]
    <3>1. \A k : {i \in DOMAIN in : in[i].entry.issue = k} = {i \in DOMAIN in : g[i] = k}
      OBVIOUS
    <3> HIDE DEF g
    <3> QED
      BY <3>1
  <2> HIDE DEF g, byIssue
  <2>3. Parts(in, Key, g, byIssue)
    BY <1>5, <2>1, <2>2, Zenon DEF Parts
  <2>4. SumsOf(byIssue)[DOMAIN byIssue] = Seconds(in)
    BY <2>3, PartsAddUp
  <2> QED
    BY <2>4, Zenon DEF FoldFunction, FoldFunctionOnSet, MapThenFoldSet, Some, SumsOf
<1> HIDE DEF byDay, byIssue
<1>11. /\ FoldFunction(+, 0, a.byDay) = Seconds(in)
       /\ FoldFunction(+, 0, a.byIssue) = Seconds(in)
  <2>1. FoldFunction(+, 0, a.byDay) = FoldFunction(+, 0, byDay)
    BY <1>1
  <2>2. FoldFunction(+, 0, a.byIssue) = FoldFunction(+, 0, byIssue)
    BY <1>1
  <2> QED
    BY <1>9, <1>10, <2>1, <2>2, Zenon
<1>12. /\ \A m \in {a.period, a.week, a.month} : NormRight(m, n)
       /\ a.week.range = PeriodRange("week", n)
  <2>1. /\ NormRight(norm(q.period), n) /\ NormRight(norm("week"), n) /\ NormRight(norm("month"), n)
        /\ norm("week").range = PeriodRange("week", n)
    BY <1>2, <1>6, Zenon
  <2> QED
    BY <1>1, <2>1, Zenon
<1> QED
  BY <1>7, <1>11, <1>12, Zenon DEF a, n

\* When report answers, the days and the issues of the period have the same sum,
\* the norm, what is left and the overtime fit to it, the norm is that of the days
\* from Monday to Friday that are no holidays, and these are the ones that the
\* computus gives, whatever the worklogs, the date and the years are.
THEOREM SumsAreRight == Spec => SumsAgree
<1> DEFINE Answered == /\ report.pc = "search" /\ report.query.kind = "report" /\ report'.pc = "ok"
           Right == LET a == report'.answer
                    IN  /\ FoldFunction(+, 0, a.byDay) = FoldFunction(+, 0, a.byIssue)
                        /\ HoursOf(FoldFunction(+, 0, a.byDay)) = a.period.logged
                        /\ \A n \in {a.period, a.week, a.month} : NormRight(n, report.query.asOf)
                        /\ a.week.range.to = a.week.range.from + 6 /\ Weekday(a.week.range.from) = 1
                        /\ CalendarRight
<1>1. ReportInv /\ [Next]_vars => [Answered => Right]_vars
  <2> SUFFICES ASSUME ReportInv, Next, Answered PROVE Right
    OBVIOUS
  <2> DEFINE q == report.query
             es == InScope(report.read)
             a == Sums(q, es)
  <2>1. report.pc = "search" /\ q.kind = "report" /\ report'.pc = "ok"
    OBVIOUS
  <2>2. /\ q \in Query /\ report.read \in Seq(Listed)
        /\ DOMAIN report = DOMAIN IdleReport
    BY <2>1 DEF ReportInv, ReportTypeOK
  <2>3. Search
    <3>1. \A p \in Query : ~Begin(p) \/ report'.pc = "list"
      BY DEF Begin, IdleReport
    <3>2. Page => report.pc = "list"
      BY DEF Page
    <3>3. ReportFails => report'.pc = "failed"
      BY <2>2 DEF ReportFails, IdleReport
    <3>4. Meanwhile => report' = report
      BY DEF Meanwhile
    <3> QED
      BY <2>1, <3>1, <3>2, <3>3, <3>4 DEF Next, ReportNext
  <2>4. report'.answer = a
    BY <2>1, <2>2, <2>3 DEF Search, IdleReport
  <2>5. es \in Seq(Listed)
    BY <2>2, SelectShows DEF InScope
  <2> HIDE DEF q, es, Answered
  <2>6. /\ FoldFunction(+, 0, a.byDay) = FoldFunction(+, 0, a.byIssue)
        /\ HoursOf(FoldFunction(+, 0, a.byDay)) = a.period.logged
        /\ \A n \in {a.period, a.week, a.month} : NormRight(n, q.asOf)
        /\ a.week.range = PeriodRange("week", q.asOf)
    BY <2>1, <2>2, <2>5, SumsShow
  <2>7. q.asOf \in Int
    <3>1. q \in QueryType
      BY <2>2, ReportAssumption DEF q
    <3>2. q.asOf \in Day
      BY <2>1, <3>1 DEF QueryType
    <3> QED
      BY <3>2, DaysLate, Zenon
  <2> HIDE DEF a
  <2>8. a.week.range.to = a.week.range.from + 6 /\ Weekday(a.week.range.from) = 1
    BY <2>6, <2>7, WeekShows
  <2> QED
    BY <2>4, <2>6, <2>8, CalendarIsRight, Zenon DEF q
<1> QED
  BY <1>1, ReportInvariance, PTL DEF Spec, SumsAgree
=============================================================================
