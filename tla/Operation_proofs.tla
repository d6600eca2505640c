-------------------------- MODULE Operation_proofs --------------------------
(***************************************************************************)
(* Theorems about the server that modules AuditLog, Operation and Feedback *)
(* make up, for any registry, configs, requests and answers, and any       *)
(* number of handlers of /feedback.                                        *)
(***************************************************************************)
EXTENDS Feedback, Policy_proofs

-----------------------------------------------------------------------------
(* The audit log, for any cap and any number of records, days, restarts.   *)

USE AuditAssumption DEF AuditAssumption

AuditInv == TypeOK /\ WrittenByLog /\ CurrentNotAhead

\* Where Log goes: to the file in use, to the first one of the day, or to the
\* one after a full one.
LEMMA ActiveFile ==
    ASSUME AuditInv, logged < MaxLog
    PROVE  /\ Active \in FileName /\ Active.day = day
           /\ Active.seq < logged \/ Active.seq = 0
           /\ Active # First(day) => Active = current
<1> USE DEF AuditInv, TypeOK, FileName, First
<1>1. CASE current = Nil \/ current.day # day
  <2>1. Active = [day |-> day, seq |-> 0]
    BY <1>1 DEF Active
  <2>2. day \in 0..LastDay /\ 0 \in 0..MaxLog
    OBVIOUS
  <2> QED
    BY <2>1, <2>2
<1>2. CASE current # Nil /\ current.day = day
  BY <1>2 DEF Active
<1> QED
  BY <1>1, <1>2

LEMMA RotatedFile ==
    ASSUME AuditInv, logged < MaxLog
    PROVE  LET g == Rotated(Active) IN
           /\ g \in FileName /\ g.day = day /\ g.seq <= logged
           /\ g # Active => file[Active] >= Cap /\ g = NextSeq(Active)
           /\ g = Active => file[Active] < Cap
<1> DEFINE a == Active
<1>1. /\ a \in FileName /\ a.day = day
      /\ a.seq < logged \/ a.seq = 0
      /\ a.day \in Nat /\ a.seq \in Nat
  BY ActiveFile DEF FileName
<1> HIDE DEF a
<1>2. file[a] \in Nat /\ (logged = 0 => file[a] = 0)
  BY <1>1 DEF AuditInv, TypeOK, WrittenByLog
<1>3. NextSeq(a) = [day |-> a.day, seq |-> a.seq + 1]
  BY <1>1 DEF NextSeq, FileName
<1>4. NextSeq(a) # a
  BY <1>1, <1>3 DEF FileName
<1> SUFFICES /\ Rotated(a) \in FileName /\ Rotated(a).day = day /\ Rotated(a).seq <= logged
             /\ Rotated(a) # a => file[a] >= Cap /\ Rotated(a) = NextSeq(a)
             /\ Rotated(a) = a => file[a] < Cap
  BY DEF a
<1>5. CASE file[a] >= Cap
  <2>1. a.seq + 1 <= logged
    BY <1>1, <1>2, <1>5 DEF FileName, AuditInv, TypeOK
  <2>2. NextSeq(a) \in FileName
    BY <1>1, <1>3, <2>1 DEF FileName, AuditInv, TypeOK
  <2> QED
    BY <1>1, <1>3, <1>4, <1>5, <2>1, <2>2 DEF Rotated
<1>6. CASE file[a] < Cap
  BY <1>1, <1>2, <1>6 DEF Rotated, FileName, AuditInv, TypeOK
<1> QED
  BY <1>2, <1>5, <1>6

\* What Log does to the files: the one it chose grows by a record at most.
LEMMA LogEffect ==
    ASSUME AuditInv, Log
    PROVE  /\ logged < MaxLog /\ logged' = logged + 1 /\ UNCHANGED <<day, restarts>>
           /\ current' = Rotated(Active) /\ current' \in FileName
           /\ current'.day = day /\ current'.seq <= logged
           /\ file' \in [FileName -> Nat]
           /\ \A f \in FileName : f # current' => file'[f] = file[f]
           /\ \A f \in FileName : file[f] \in Nat /\ file'[f] \in Nat
           /\ \A f \in FileName : file[f] <= file'[f] /\ file'[f] <= file[f] + MaxRecord
<1>1. /\ current' = Rotated(Active) /\ current' \in FileName
      /\ current'.day = day /\ current'.seq <= logged
  BY RotatedFile DEF Log
<1>2. file \in [FileName -> Nat]
  BY DEF AuditInv, TypeOK
<1>3. PICK n \in 0..MaxRecord : file' = [file EXCEPT ![current'] = @ + n]
  BY DEF Log
<1>4. /\ file'[current'] = file[current'] + n
      /\ \A f \in FileName : f # current' => file'[f] = file[f]
  BY <1>1, <1>2, <1>3
<1>5. file' \in [FileName -> Nat]
  BY <1>1, <1>2, <1>3
<1>6. logged < MaxLog /\ logged' = logged + 1 /\ UNCHANGED <<day, restarts>>
  BY DEF Log
<1> QED
  BY <1>1, <1>2, <1>4, <1>5, <1>6

LEMMA AuditStep == ASSUME AuditInv, [Next]_vars PROVE AuditInv'
<1>1. CASE Log
  <2>1. current'.seq < logged' /\ logged' \in 0..MaxLog
    BY <1>1, LogEffect DEF AuditInv, TypeOK, FileName
  <2>2. TypeOK'
    BY <1>1, <2>1, LogEffect DEF AuditInv, TypeOK
  <2>3. WrittenByLog'
    BY <1>1, LogEffect DEF AuditInv, TypeOK, WrittenByLog
  <2>4. CurrentNotAhead'
    BY <1>1, LogEffect DEF AuditInv, TypeOK, CurrentNotAhead
  <2> QED
    BY <2>2, <2>3, <2>4 DEF AuditInv
<1>2. CASE Midnight
  BY <1>2 DEF Midnight, AuditInv, TypeOK, WrittenByLog, CurrentNotAhead, FileName
<1>3. CASE Restart
  BY <1>3 DEF Restart, AuditInv, TypeOK, WrittenByLog, CurrentNotAhead
<1>4. CASE UNCHANGED vars
  BY <1>4 DEF vars, AuditInv, TypeOK, WrittenByLog, CurrentNotAhead
<1> QED
  BY <1>1, <1>2, <1>3, <1>4 DEF Next

LEMMA AuditInitially == ASSUME Init PROVE AuditInv
<1>1. 0 \in 0..LastDay /\ 0 \in 0..MaxLog /\ 0 \in 0..MaxRestart
  OBVIOUS
<1> QED
  BY <1>1 DEF Init, AuditInv, TypeOK, WrittenByLog, CurrentNotAhead

\* The types, and the numbering of the files: the file in use has a sequence
\* number below the number of records, so a process numbers its files from 0.
THEOREM AuditTypeCorrect == Spec => []TypeOK
<1>1. AuditInv => TypeOK
  BY DEF AuditInv
<1> QED
  BY <1>1, AuditInitially, AuditStep, PTL DEF Spec

-----------------------------------------------------------------------------

BoundInv == SizeBounded /\ RoomAhead

LEMMA ExcessGrows ==
    ASSUME NEW n \in Nat
    PROVE  /\ Excess(n) \in Nat /\ Excess(n + 1) \in Nat
           /\ Excess(n + 1) = Excess(n) + MaxRecord
BY DEF Excess

LEMMA BoundStep == ASSUME AuditInv, BoundInv, [Next]_vars PROVE BoundInv'
<1> USE DEF BoundInv
<1>1. CASE Log
  <2> DEFINE g == current'
  <2>1. /\ g = Rotated(Active) /\ g \in FileName /\ g.day = day
        /\ UNCHANGED <<day, restarts>> /\ restarts \in Nat
    BY <1>1, LogEffect DEF AuditInv, TypeOK
  <2>2. file[g] < Cap + Excess(restarts)
    <3>1. CASE g = Active
      BY <1>1, <2>1, <3>1, ExcessGrows, RotatedFile, LogEffect
    <3>2. CASE g # Active
      <4>1. g = NextSeq(Active) /\ Active \in FileName /\ Active.day = day
        BY <1>1, <2>1, <3>2, RotatedFile, ActiveFile DEF Log
      <4>2. g.seq = Active.seq + 1
        BY <4>1 DEF NextSeq, FileName
      <4>3. Ahead(g)
        <5>1. CASE current = Nil \/ current.day # day
          BY <2>1, <5>1 DEF Ahead
        <5>2. CASE current # Nil /\ current.day = day
          BY <2>1, <4>1, <4>2, <5>2 DEF Ahead, Active, FileName
        <5> QED
          BY <5>1, <5>2
      <4>4. file[g] < Cap + Excess(restarts)
        BY <2>1, <4>3 DEF RoomAhead
      <4> QED
        BY <2>1, <4>4
    <3> QED
      BY <3>1, <3>2
  <2>3. SizeBounded'
    <3>1. Excess(restarts + 1) = Excess(restarts) + MaxRecord /\ Excess(restarts) \in Nat
      BY <2>1, ExcessGrows
    <3> QED
      BY <1>1, <2>1, <2>2, <3>1, LogEffect DEF SizeBounded
  <2>4. ASSUME NEW f \in FileName, Ahead(f)' PROVE Ahead(f) /\ f # g
    <3>1. f.day = day /\ g.seq < f.seq
      <4>1. g # Nil
        BY <2>1 DEF FileName
      <4> QED
        BY <2>1, <2>4, <4>1 DEF Ahead
    <3>2. ASSUME current # Nil, current.day = day PROVE current.seq <= g.seq
      <4>1. Active = current
        BY <3>2 DEF Active
      <4>2. g = current \/ g = NextSeq(current)
        BY <1>1, <2>1, <4>1, RotatedFile DEF Log
      <4>3. current \in FileName
        BY <3>2 DEF AuditInv, TypeOK
      <4> QED
        BY <4>2, <4>3 DEF NextSeq, FileName
    <3>3. current # Nil => current.seq \in Nat
      BY DEF AuditInv, TypeOK, FileName
    <3> QED
      BY <2>1, <3>1, <3>2, <3>3 DEF Ahead, FileName
  <2>5. RoomAhead'
    <3>1. ASSUME NEW f \in FileName, Ahead(f)'
          PROVE  file'[f] < Cap + Excess(restarts')
      BY <1>1, <2>1, <2>4, <3>1, LogEffect DEF RoomAhead
    <3>2. ASSUME NEW f \in FileName, f.day > day' PROVE file'[f] = 0
      BY <1>1, <2>1, <3>2, LogEffect DEF RoomAhead, FileName
    <3> QED
      BY <3>1, <3>2 DEF RoomAhead
  <2> QED
    BY <2>3, <2>5
<1>2. CASE Midnight
  <2>1. \A f \in FileName : f.day \in Nat
    BY DEF FileName
  <2> QED
    BY <1>2, <2>1, ExcessGrows DEF Midnight, SizeBounded, RoomAhead, Ahead, AuditInv, TypeOK
<1>3. CASE Restart
  <2>1. /\ Excess(restarts + 1 + 1) = Excess(restarts + 1) + MaxRecord
        /\ Excess(restarts + 1) \in Nat
    BY ExcessGrows DEF AuditInv, TypeOK
  <2>2. restarts' = restarts + 1 /\ restarts \in Nat /\ UNCHANGED <<file, day>>
    BY <1>3 DEF Restart, AuditInv, TypeOK
  <2>3. \A f \in FileName : file[f] \in Nat
    BY DEF AuditInv, TypeOK
  <2>4. SizeBounded'
    BY <2>1, <2>2, <2>3 DEF SizeBounded
  <2>5. RoomAhead'
    BY <2>2 DEF SizeBounded, RoomAhead
  <2> QED
    BY <2>4, <2>5
<1>4. CASE UNCHANGED vars
  BY <1>4 DEF vars, SizeBounded, RoomAhead, Ahead
<1> QED
  BY <1>1, <1>2, <1>3, <1>4 DEF Next

\* No file outgrows the cap by a record or more for each run of the gateway:
\* rotation looks at the current file, and turns to a file once in a run.
THEOREM FilesBounded == Spec => []SizeBounded
<1>1. Init => BoundInv
  <2>1. Excess(0) \in Nat /\ Excess(0 + 1) \in Nat
    BY ExcessGrows
  <2> QED
    BY <2>1 DEF Init, BoundInv, SizeBounded, RoomAhead
<1>2. BoundInv => SizeBounded
  BY DEF BoundInv
<1> QED
  BY <1>1, <1>2, AuditInitially, AuditStep, BoundStep, PTL DEF Spec

-----------------------------------------------------------------------------

FullInv == RotatedOnlyWhenFull /\ CurrentFollowsFull

LEMMA FullStep == ASSUME AuditInv, FullInv, [Next]_vars PROVE FullInv'
<1> USE DEF FullInv
<1>1. CASE Log
  <2>1. \A f \in FileName : /\ f.seq \in Nat
                            /\ NextSeq(f) = [day |-> f.day, seq |-> f.seq + 1]
    BY DEF NextSeq, FileName
  <2>2. CurrentFollowsFull'
    <3> SUFFICES ASSUME NEW f \in FileName, current' = NextSeq(f)
                 PROVE  file[f] >= Cap
      BY <1>1, LogEffect DEF CurrentFollowsFull
    <3>1. CASE current' = Active
      <4>1. Active # First(day)
        <5>1. f.seq + 1 # 0
          BY <2>1
        <5>2. NextSeq(f).seq = f.seq + 1
          BY <2>1
        <5> QED
          BY <3>1, <5>1, <5>2 DEF First
      <4>2. Active = current
        BY <1>1, <4>1, ActiveFile DEF Log
      <4> QED
        BY <3>1, <4>2 DEF CurrentFollowsFull
    <3>2. CASE current' # Active
      <4>1. current' = NextSeq(Active) /\ Active \in FileName /\ file[Active] >= Cap
        BY <1>1, <3>2, LogEffect, RotatedFile, ActiveFile DEF Log
      <4>2. NextSeq(f) = NextSeq(Active)
        BY <4>1
      <4>3. f.day = Active.day /\ f.seq + 1 = Active.seq + 1
        BY <2>1, <4>1, <4>2
      <4>4. f = Active
        BY <2>1, <4>1, <4>3 DEF FileName
      <4> QED
        BY <4>1, <4>4
    <3> QED
      BY <3>1, <3>2
  <2>3. RotatedOnlyWhenFull'
    <3> SUFFICES ASSUME NEW f \in FileName, f.seq < MaxLog, file'[NextSeq(f)] > 0
                 PROVE  file'[f] >= Cap
      BY DEF RotatedOnlyWhenFull
    <3>1. NextSeq(f) \in FileName
      BY <2>1 DEF FileName
    <3>2. CASE NextSeq(f) = current'
      BY <2>2, <3>2 DEF CurrentFollowsFull
    <3>3. CASE NextSeq(f) # current'
      BY <1>1, <3>1, <3>3, LogEffect DEF RotatedOnlyWhenFull
    <3> QED
      BY <3>2, <3>3
  <2> QED
    BY <2>2, <2>3
<1>2. CASE Midnight
  BY <1>2 DEF Midnight, RotatedOnlyWhenFull, CurrentFollowsFull
<1>3. CASE Restart
  <2>1. \A f \in FileName : NextSeq(f) # Nil
    BY DEF NextSeq, FileName
  <2> QED
    BY <1>3, <2>1 DEF Restart, RotatedOnlyWhenFull, CurrentFollowsFull
<1>4. CASE UNCHANGED vars
  BY <1>4 DEF vars, RotatedOnlyWhenFull, CurrentFollowsFull
<1> QED
  BY <1>1, <1>2, <1>3, <1>4 DEF Next

\* A numbered file is begun only when the one before it is full.
THEOREM RotationNotEarly == Spec => []RotatedOnlyWhenFull
<1>1. Init => FullInv
  <2>1. \A f \in FileName : NextSeq(f) # Nil
    BY DEF NextSeq, FileName
  <2>2. \A f \in FileName : f.seq < MaxLog => NextSeq(f) \in FileName
    BY DEF NextSeq, FileName
  <2>3. Init => RotatedOnlyWhenFull
    BY <2>2 DEF Init, RotatedOnlyWhenFull
  <2>4. Init => CurrentFollowsFull
    BY <2>1 DEF Init, CurrentFollowsFull
  <2> QED
    BY <2>3, <2>4 DEF FullInv
<1>2. FullInv => RotatedOnlyWhenFull
  BY DEF FullInv
<1> QED
  BY <1>1, <1>2, AuditInitially, AuditStep, FullStep, PTL DEF Spec

\* Rotation comes neither late nor early, for any cap, size of a record, number
\* of days and of restarts.
THEOREM FilesAlwaysFilled == Spec => []FilesFilled
<1>1. SizeBounded /\ RotatedOnlyWhenFull => FilesFilled
  BY DEF FilesFilled
<1> QED
  BY <1>1, FilesBounded, RotationNotEarly, PTL

HIDE AuditAssumption DEF AuditAssumption

-----------------------------------------------------------------------------
(* What makes the properties of Operation inductive.                       *)

\* Where a request is at while a connector works on it.
HttpSteps == {"build", "crumb", "lists", "send", "refresh", "retry"}
McpSteps  == {"initialize", "notify", "call"}
FileSteps == {"info", "download"}
Working   == HttpSteps \cup McpSteps \cup FileSteps \cup {"query", "service", "mail", "worklog"}

\* The decision a connector works under.
Accepted ==
    /\ Acceptable
    /\ params = CheckedParams
    /\ checked = {NeededTunnel(Op, Sites, CheckedParams)} \ {Nil}

\* Every call is made for a request that was accepted, by the connector of its
\* operation, and once the site was found.
DecisionInv ==
    /\ pc \in Pc /\ conf \in DOMAIN Config /\ st \in DOMAIN Config /\ req \in Request
    /\ pc \in Working \/ calls # {} \/ params # << >> => Accepted

ConnectorInv ==
    /\ pc \in HttpSteps => ViaHttp
    /\ pc \in McpSteps => Op.connector = "mcp"
    /\ pc \in FileSteps => Op.connector = "http-rest" /\ Op.fileContent
    /\ pc = "query" => Op.connector = "postgres"
    /\ pc = "service" => Op.connector = "local-service"
    /\ pc = "mail" => Op.connector = "email"
    /\ pc = "worklog" => Op.connector = "jira-worklog"
    /\ pc \in {"crumb", "lists", "send", "refresh", "retry", "notify", "call", "download"}
          => Op.site \in DOMAIN Sites

\* What was looked at before a request is sent has held since.
CallInv ==
    /\ pc \in HttpSteps \ {"build"} \/ (Main /\ ViaHttp) => PathOk(Op, params)
    /\ pc \in {"send", "refresh", "retry"} \/ (Main /\ ViaHttp) => ~ListDenied
    /\ Main /\ Op.connector = "email" /\ Op.action = "send"
          => WithinMailLists(TextOf(params, "to"), "email_denied_senders", "email_allowed_senders")

Status == {Nil, "ok", "redirect", "refused", "unauthorized"}

\* What a connector has come to.
Outcome ==
    /\ out.kind \in {"denied", "error", "result"}
    /\ out.kind = "result" => effects = IF out.status = "ok" THEN 1 ELSE 0
    /\ out.kind = "denied" => effects = 0 /\ calls = {}

\* Nothing has been performed or recorded while a connector works, up to the
\* call that it ends with; a 401 is held on to while the token is refreshed.
OutcomeInv ==
    /\ effects \in 0..1 /\ out.status \in Status
    /\ out.kind \in {"none", "denied", "error", "result"}
    /\ pc # "idle" => answer = Nil
    /\ pc \in Working \cup {"decide"} => out.kind = "none" /\ effects = 0 /\ records = 0
    /\ pc = "decide" => calls = {}
    /\ pc = "refresh" => out.status = "unauthorized"
    /\ pc \in {"log", "reply"} => Outcome /\ records = IF pc = "log" THEN 0 ELSE 1
    /\ pc = "idle" => \/ answer \in {Nil, "unreadable"} /\ calls = {} /\ effects = 0 /\ records = 0
                      \/ /\ Outcome /\ records = 1
                         /\ answer = IF out.kind = "result" /\ out.body = Null THEN Nil ELSE out.kind

\* What a result shows is within the lists.
SeenInv ==
    /\ pc = "download" => \A f \in out.seen : FileAllowed(f)
    /\ out.kind = "result" => SeenAllowed

OpInv == DecisionInv /\ ConnectorInv /\ CallInv /\ OutcomeInv /\ SeenInv

-----------------------------------------------------------------------------
(* What steps have in common.                                              *)

\* What is decided about a request stays so while it is the same.
LEMMA Framed ==
    ASSUME UNCHANGED <<st, req, params, checked>>
    PROVE  /\ Op' = Op /\ Sites' = Sites /\ Policy' = Policy /\ Site' = Site /\ EnvName' = EnvName
           /\ Accepted' <=> Accepted
           /\ ViaHttp' <=> ViaHttp
           /\ PathOk(Op, params)' <=> PathOk(Op, params)
           /\ ListDenied' <=> ListDenied
           /\ ListGiven' = ListGiven
<1>1. Op' = Op /\ Sites' = Sites /\ Policy' = Policy
  BY DEF Op, Sites, Policy
<1>2. Site' = Site /\ (ViaHttp' <=> ViaHttp)
  BY <1>1 DEF Site, ViaHttp
<1>3. EnvName' = EnvName
  BY <1>2 DEF EnvName
<1>4. CheckedParams' = CheckedParams
  BY <1>1 DEF CheckedParams
<1>5. Accepted' <=> Accepted
  BY <1>1, <1>4 DEF Accepted, Acceptable
<1>6. PathOk(Op, params)' <=> PathOk(Op, params)
  BY <1>1
<1>7. ListGiven' = ListGiven
  BY DEF ListGiven
<1>8. ListDenied' <=> ListDenied
  BY <1>1, <1>7 DEF ListDenied
<1> QED
  BY <1>1, <1>2, <1>3, <1>5, <1>6, <1>7, <1>8

\* A step that touches the request in no way.
Aside ==
    /\ UNCHANGED <<st, req, pc, params, checked, calls, effects, out, records, answer>>
    /\ conf' \in DOMAIN Config

LEMMA ServerSteps ==
    ASSUME [ServerNext]_serverVars, conf \in DOMAIN Config
    PROVE  Handle \/ Crash \/ Aside
<1>1. CASE OpNext
  BY <1>1 DEF OpNext, Publish, Aside, opVars
<1>2. CASE FeedbackStep
  BY <1>2 DEF FeedbackStep, Receive, CheckText, File, LockTodo, ScanTodo, AppendTodo, At, opVars, Aside
<1>3. CASE UNCHANGED serverVars
  BY <1>3 DEF serverVars, theVars, opVars, Aside
<1> QED
  BY <1>1, <1>2, <1>3 DEF ServerNext

LEMMA FailEnds ==
    \A status : Fail(status) => pc' = "log" /\ out'.kind = "error" /\ out'.status = status
BY DEF Fail, NoOut

LEMMA ReturnEnds ==
    \A status, body, seen : Return(status, body, seen) =>
        /\ pc' = "log" /\ out'.kind = "result" /\ out'.status = status
        /\ out'.body = body /\ out'.seen = seen
BY DEF Return

LEMMA DenyEnds ==
    Deny => /\ pc' = "log" /\ out'.kind = "denied" /\ out'.status = Nil
            /\ UNCHANGED <<params, checked>>
BY DEF Deny, NoOut


\* Where a request is at and what it has been answered, one step of a handler
\* further.  Only Arrive begins a request, only Decide lets one through to a
\* connector, and a connector goes on within its own steps.
HandleFrame ==
    /\ UNCHANGED <<conf, st, req, params, checked>>
    /\ pc \in Working /\ UNCHANGED <<records, answer>>

LEMMA WorkingSteps ==
    ASSUME Handle
    PROVE  Arrive \/ Unreadable \/ Decide \/ Record \/ Reply \/ HandleFrame
BY DEF Handle, HandleFrame, Within, Working, HttpSteps, McpSteps, FileSteps,
       Build, FetchCrumb, CheckLists, Send, RefreshToken, Retry, Initialize, Notify, CallTool,
       FileInfo, Download, Query, Service, MailCall, WorklogCall

\* Each step of a connector is taken where it stands.
LEMMA StepAt ==
    ASSUME Handle
    PROVE  /\ pc = "build" => Build
           /\ pc = "crumb" => FetchCrumb
           /\ pc = "lists" => CheckLists
           /\ pc = "send" => Send
           /\ pc = "refresh" => RefreshToken
           /\ pc = "retry" => Retry
           /\ pc = "initialize" => Initialize
           /\ pc = "notify" => Notify
           /\ pc = "call" => CallTool
           /\ pc = "info" => FileInfo
           /\ pc = "download" => Download
           /\ pc = "query" => Query
           /\ pc = "service" => Service
           /\ pc = "mail" => MailCall
           /\ pc = "worklog" => WorklogCall
BY DEF Handle, Within, Arrive, Unreadable, Decide, Record, Reply,
       Build, FetchCrumb, CheckLists, Send, RefreshToken, Retry, Initialize, Notify, CallTool,
       FileInfo, Download, Query, Service, MailCall, WorklogCall

-----------------------------------------------------------------------------
(* DecisionInv                                                             *)

LEMMA WorkingGoesOn ==
    ASSUME Handle, HandleFrame
    PROVE  pc' \in Working \cup {"log"}
<1> USE DEF Working, HttpSteps, McpSteps, FileSteps
<1>1. CASE Build
  BY <1>1, FailEnds DEF Build
<1>2. CASE FetchCrumb \/ CheckLists
  BY <1>2, FailEnds DEF FetchCrumb, CheckLists
<1>3. CASE Send \/ Retry
  BY <1>3, FailEnds, ReturnEnds DEF Send, Retry, Lost
<1>4. CASE RefreshToken
  BY <1>4, ReturnEnds DEF RefreshToken
<1>5. CASE Initialize \/ Notify
  BY <1>5, FailEnds DEF Initialize, Notify
<1>6. CASE CallTool
  BY <1>6, FailEnds, ReturnEnds DEF CallTool, Lost
<1>7. CASE FileInfo \/ Download
  BY <1>7, FailEnds, ReturnEnds DEF FileInfo, Download
<1>8. CASE Query
  BY <1>8, FailEnds, ReturnEnds DEF Query, RunQuery, ListTables, DescribeTable
<1>9. CASE Service
  BY <1>9, FailEnds, ReturnEnds DEF Service
<1>10. CASE MailCall
  BY <1>10, FailEnds, ReturnEnds DEF MailCall, ListMailboxes, SearchMail, ReadMail, SendMail, Mailed, Lost
<1>11. CASE WorklogCall
  BY <1>11, FailEnds, ReturnEnds DEF WorklogCall, Lost
<1>12. CASE Arrive \/ Unreadable \/ Decide \/ Record \/ Reply
  BY <1>12 DEF HandleFrame, Arrive, Unreadable, Decide, Record, Reply
<1> QED
  BY <1>1, <1>2, <1>3, <1>4, <1>5, <1>6, <1>7, <1>8, <1>9, <1>10, <1>11, <1>12 DEF Handle

LEMMA FirstIsWorking ==
    ASSUME req \in Request
    PROVE  FirstStep \in {"build", "info", "query", "service", "initialize", "mail", "worklog"}
<1>1. Op.connector \in {"http-rest", "postgres", "local-service", "mcp", "email", "jira-worklog"}
  BY RequestAssumption DEF Op
<1> QED
  BY <1>1 DEF FirstStep

LEMMA DecideStep ==
    ASSUME Decide, req \in Request
    PROVE  /\ UNCHANGED <<conf, st, req, calls, effects, records, answer>>
           /\ \/ /\ pc' = "log" /\ out'.kind = "denied" /\ out'.status = Nil
                 /\ UNCHANGED <<params, checked>>
              \/ pc' = FirstStep /\ UNCHANGED out /\ Accepted'
<1> DEFINE tunnel == NeededTunnel(Op, Sites, CheckedParams)
<1>1. UNCHANGED <<conf, st, req, calls, effects, records, answer>>
  BY DEF Decide
<1>2. CASE Deny
  BY <1>1, <1>2, DenyEnds
<1>3. CASE /\ Acceptable /\ params' = CheckedParams
           /\ checked' = {tunnel} \ {Nil} /\ pc' = FirstStep /\ UNCHANGED out
  <2>1. Op' = Op /\ Sites' = Sites /\ Policy' = Policy
    BY <1>1 DEF Op, Sites, Policy
  <2>2. CheckedParams' = CheckedParams
    BY <1>1, <2>1 DEF CheckedParams
  <2>3. Acceptable'
    BY <1>1, <1>3, <2>1, <2>2 DEF Acceptable
  <2>4. Accepted'
    BY <1>3, <2>1, <2>2, <2>3 DEF Accepted
  <2> QED
    BY <1>1, <1>3, <2>4
<1> QED
  BY <1>2, <1>3 DEF Decide, CheckedParams

LEMMA DecisionStep == ASSUME DecisionInv, [ServerNext]_serverVars PROVE DecisionInv'
<1>1. Handle \/ Crash \/ Aside
  BY ServerSteps DEF DecisionInv
<1>2. CASE Aside
  BY <1>2, Framed DEF Aside, DecisionInv
<1>3. CASE Crash
  BY <1>3 DEF Crash, DecisionInv, Pc, Working, HttpSteps, McpSteps, FileSteps
<1>4. CASE Arrive
  BY <1>4, RequestAssumption DEF Arrive, DecisionInv, Pc, Working, HttpSteps, McpSteps, FileSteps
<1>5. CASE Unreadable
  BY <1>5, Framed DEF Unreadable, DecisionInv, Pc, Working, HttpSteps, McpSteps, FileSteps
<1>6. CASE Decide
  <2>1. pc = "decide"
    BY <1>6 DEF Decide
  <2>2. CASE pc' = "log" /\ UNCHANGED <<params, checked>>
    BY <1>6, <2>2, DecideStep, Framed DEF DecisionInv, Pc, Working, HttpSteps, McpSteps, FileSteps
  <2>3. CASE pc' = FirstStep /\ Accepted'
    BY <1>6, <2>3, DecideStep, FirstIsWorking DEF DecisionInv, Pc
  <2> QED
    BY <1>6, <2>2, <2>3, DecideStep DEF DecisionInv
<1>7. CASE Record \/ Reply
  BY <1>7, Framed DEF Record, Reply, DecisionInv, Pc, Working, HttpSteps, McpSteps, FileSteps
<1>8. CASE Handle /\ HandleFrame
  <2>1. Accepted' /\ pc' \in Working \cup {"log"}
    BY <1>8, WorkingGoesOn, Framed DEF HandleFrame, DecisionInv
  <2> QED
    BY <1>8, <2>1 DEF HandleFrame, DecisionInv, Pc, Working, HttpSteps, McpSteps, FileSteps
<1> QED
  BY <1>1, <1>2, <1>3, <1>4, <1>5, <1>6, <1>7, <1>8, WorkingSteps

-----------------------------------------------------------------------------
(* ConnectorInv                                                            *)

\* A connector goes on within its own steps, and past the first one only with
\* its site.
LEMMA StaysInConnector ==
    ASSUME Handle, HandleFrame
    PROVE  \/ pc' = "log"
           \/ pc \in HttpSteps /\ pc' \in HttpSteps
           \/ pc \in McpSteps /\ pc' \in McpSteps
           \/ pc \in FileSteps /\ pc' \in FileSteps
<1> USE DEF HttpSteps, McpSteps, FileSteps
<1>1. CASE Build \/ FetchCrumb \/ CheckLists
  BY <1>1, FailEnds DEF Build, FetchCrumb, CheckLists, Within
<1>2. CASE Send \/ Retry
  BY <1>2, FailEnds, ReturnEnds DEF Send, Retry, Lost, Within
<1>3. CASE RefreshToken
  BY <1>3, ReturnEnds DEF RefreshToken, Within
<1>4. CASE Initialize \/ Notify
  BY <1>4, FailEnds DEF Initialize, Notify, Within
<1>5. CASE CallTool
  BY <1>5, FailEnds, ReturnEnds DEF CallTool, Lost
<1>6. CASE FileInfo \/ Download
  BY <1>6, FailEnds, ReturnEnds DEF FileInfo, Download, Within
<1>7. CASE Query \/ Service \/ MailCall \/ WorklogCall
  BY <1>7, FailEnds, ReturnEnds
  DEF Query, RunQuery, ListTables, DescribeTable, Service, MailCall,
      ListMailboxes, SearchMail, ReadMail, SendMail, Mailed, Lost, WorklogCall
<1>8. CASE Arrive \/ Unreadable \/ Decide \/ Record \/ Reply
  BY <1>8 DEF HandleFrame, Working, Arrive, Unreadable, Decide, Record, Reply
<1> QED
  BY <1>1, <1>2, <1>3, <1>4, <1>5, <1>6, <1>7, <1>8 DEF Handle

Sited == {"crumb", "lists", "send", "refresh", "retry", "notify", "call", "download"}

LEMMA SiteFound ==
    ASSUME Handle, HandleFrame, pc \in Sited => Op.site \in DOMAIN Sites
    PROVE  pc' \in Sited => Op.site \in DOMAIN Sites
<1> USE DEF Sited
<1>1. CASE Build \/ FetchCrumb \/ CheckLists
  BY <1>1, FailEnds DEF Build, FetchCrumb, CheckLists, Within
<1>2. CASE Send \/ Retry \/ RefreshToken
  BY <1>2 DEF Send, Retry, RefreshToken, Within
<1>3. CASE Initialize \/ Notify \/ CallTool
  BY <1>3, FailEnds DEF Initialize, Notify, CallTool, Within
<1>4. CASE FileInfo \/ Download
  BY <1>4, FailEnds DEF FileInfo, Download, Within
<1>5. CASE Query \/ Service \/ MailCall \/ WorklogCall
  <2>1. pc \in {"query", "service", "mail", "worklog"}
    BY <1>5 DEF Query, Service, MailCall, WorklogCall, Within
  <2> QED
    BY <2>1, StaysInConnector DEF HttpSteps, McpSteps, FileSteps
<1>6. CASE Arrive \/ Unreadable \/ Decide \/ Record \/ Reply
  BY <1>6 DEF HandleFrame, Working, HttpSteps, McpSteps, FileSteps, Arrive, Unreadable, Decide, Record, Reply
<1> QED
  BY <1>1, <1>2, <1>3, <1>4, <1>5, <1>6 DEF Handle

LEMMA ConnectorStep ==
    ASSUME DecisionInv, ConnectorInv, [ServerNext]_serverVars
    PROVE  ConnectorInv'
<1> USE DEF HttpSteps, McpSteps, FileSteps
<1>1. Handle \/ Crash \/ Aside
  BY ServerSteps DEF DecisionInv
<1>2. CASE Aside
  BY <1>2, Framed DEF Aside, ConnectorInv
<1>3. CASE pc' \in {"idle", "decide", "log", "reply"}
  BY <1>3 DEF ConnectorInv
<1>4. CASE Decide /\ pc' = FirstStep
  <2>1. Op' = Op /\ Op.connector \in {"http-rest", "postgres", "local-service", "mcp", "email", "jira-worklog"}
    BY <1>4, RequestAssumption DEF Decide, Op, DecisionInv
  <2> QED
    BY <1>4, <2>1 DEF FirstStep, ConnectorInv, ViaHttp
<1>5. CASE Handle /\ HandleFrame
  <2>1. Op' = Op /\ Sites' = Sites /\ (ViaHttp' <=> ViaHttp)
    BY <1>5, Framed DEF HandleFrame
  <2>2. pc' \in Sited => Op.site \in DOMAIN Sites
    BY <1>5, SiteFound DEF ConnectorInv, Sited
  <2> QED
    BY <1>5, <2>1, <2>2, StaysInConnector DEF ConnectorInv, Sited
<1>6. CASE Handle /\ ~HandleFrame
  <2>1. CASE Decide
    BY <1>3, <1>4, <2>1, DecideStep DEF DecisionInv
  <2>2. CASE Arrive \/ Unreadable \/ Record \/ Reply
    BY <1>3, <2>2 DEF Arrive, Unreadable, Record, Reply
  <2> QED
    BY <1>6, <2>1, <2>2, WorkingSteps
<1>7. CASE Crash
  BY <1>3, <1>7 DEF Crash
<1> QED
  BY <1>1, <1>2, <1>5, <1>6, <1>7

-----------------------------------------------------------------------------
(* OutcomeInv                                                              *)

LEMMA NoOutHolds ==
    /\ \A status, body : /\ [NoOut EXCEPT !.status = status, !.body = body].kind = "none"
                         /\ [NoOut EXCEPT !.status = status, !.body = body].status = status
    /\ \A seen : /\ [NoOut EXCEPT !.seen = seen].kind = "none"
                 /\ [NoOut EXCEPT !.seen = seen].seen = seen
                 /\ [NoOut EXCEPT !.seen = seen].status = Nil
BY DEF NoOut

\* What a connector does with a request until it ends.
Outcomes ==
    /\ pc' \in Working => out'.kind = "none" /\ effects' = 0
    /\ pc' = "refresh" => out'.status = "unauthorized"
    /\ pc' = "log" => Outcome'
    /\ effects' \in 0..1 /\ out'.status \in Status
    /\ out'.kind \in {"none", "error", "result"}

LEMMA FailedIsOutcome ==
    ASSUME NEW status \in Status, Fail(status), effects' \in 0..1
    PROVE  Outcomes
BY FailEnds DEF Outcomes, Outcome, Working, HttpSteps, McpSteps, FileSteps

LEMMA ReturnedIsOutcome ==
    ASSUME NEW status \in Status, NEW body, NEW seen, Return(status, body, seen),
           effects' = IF status = "ok" THEN 1 ELSE 0
    PROVE  Outcomes
BY ReturnEnds DEF Outcomes, Outcome, Working, HttpSteps, McpSteps, FileSteps

LEMMA AsPerformed ==
    ASSUME effects = 0,
           NEW x \in {<<"ok", TRUE>>, <<"redirect", FALSE>>, <<"refused", FALSE>>, <<"unauthorized", FALSE>>},
           Performed(x[2])
    PROVE  effects' = IF x[1] = "ok" THEN 1 ELSE 0
<1>1. CASE x = <<"ok", TRUE>>
  <2>1. x[2] = TRUE /\ x[1] = "ok"
    BY <1>1
  <2>2. effects' = effects + 1
    BY <2>1 DEF Performed
  <2> QED
    BY <2>1, <2>2
<1>2. ASSUME NEW status \in {"redirect", "refused", "unauthorized"}, x = <<status, FALSE>>
      PROVE  effects' = IF x[1] = "ok" THEN 1 ELSE 0
  <2>1. x[2] = FALSE /\ x[1] = status /\ status # "ok"
    BY <1>2
  <2>2. effects' = effects
    BY <2>1 DEF Performed
  <2> QED
    BY <2>1, <2>2
<1> QED
  BY <1>1, <1>2

LEMMA ConnectorOutcome ==
    ASSUME Handle, HandleFrame, OutcomeInv
    PROVE  Outcomes
<1>1. /\ effects = 0 /\ out.kind = "none" /\ out.status \in Status
      /\ pc = "refresh" => out.status = "unauthorized"
  BY DEF HandleFrame, OutcomeInv
<1>2. Nil \in Status /\ "ok" \in Status /\ "refused" \in Status /\ "unauthorized" \in Status
  BY DEF Status
<1>3. UNCHANGED effects \/ Performed(TRUE) \/ Performed(FALSE) => effects' \in 0..1
  BY <1>1 DEF Performed
<1>4. \A x \in Exchanges : x[1] \in Status
  <2>1. \A x \in Exchanges : \/ x = <<"ok", TRUE>> \/ x = <<"redirect", FALSE>>
                              \/ x = <<"refused", FALSE>> \/ x = <<"unauthorized", FALSE>>
    BY DEF Exchanges
  <2>2. /\ <<"ok", TRUE>>[1] = "ok" /\ <<"redirect", FALSE>>[1] = "redirect"
        /\ <<"refused", FALSE>>[1] = "refused" /\ <<"unauthorized", FALSE>>[1] = "unauthorized"
    OBVIOUS
  <2> QED
    BY <2>1, <2>2 DEF Status
\* The ways in which a step may end.
<1>5. ASSUME NEW status \in {Nil, "ok", "refused"}, Fail(status),
             UNCHANGED effects \/ Performed(TRUE) \/ Performed(FALSE)
      PROVE  Outcomes
  <2>1. effects' \in 0..1
    BY <1>3, <1>5
  <2>2. status \in Status
    BY <1>2, <1>5
  <2> QED
    BY <1>5, <2>1, <2>2, FailedIsOutcome
<1>6. Lost => Outcomes
  BY <1>5 DEF Lost
<1>7. ASSUME NEW x \in Exchanges, Performed(x[2]), NEW body, NEW seen, Return(x[1], body, seen)
      PROVE  Outcomes
  <2>1. effects' = IF x[1] = "ok" THEN 1 ELSE 0
    BY <1>1, <1>7, AsPerformed DEF Exchanges
  <2> QED
    BY <1>4, <1>7, <2>1, ReturnedIsOutcome
<1>8. ASSUME NEW seen, Return("ok", EmptyObject, seen), Performed(TRUE) PROVE Outcomes
  <2>1. effects' = 1
    BY <1>1, <1>8 DEF Performed
  <2> QED
    BY <1>2, <1>8, <2>1, ReturnedIsOutcome
<1>9. ASSUME UNCHANGED <<out, effects>>, pc' \notin {"log", "refresh"} PROVE Outcomes
  BY <1>1, <1>9 DEF Outcomes
\* What each step does.
<1>10. CASE Build \/ FetchCrumb \/ CheckLists
  BY <1>5, <1>9, <1>10 DEF Build, FetchCrumb, CheckLists
<1>11. CASE Send
  <2>1. ASSUME NEW x \in Exchanges, NEW body \in Body, Performed(x[2]), Refreshes(x[1]),
               pc' = "refresh", out' = [NoOut EXCEPT !.status = x[1], !.body = body]
        PROVE  Outcomes
    <3>1. x[1] = "unauthorized"
      BY <2>1 DEF Refreshes
    <3>2. effects' = 0
      BY <1>1, <2>1, <3>1, AsPerformed DEF Exchanges
    <3>3. out'.kind = "none" /\ out'.status = "unauthorized"
      BY <2>1, <3>1, NoOutHolds
    <3> QED
      BY <1>2, <2>1, <3>2, <3>3 DEF Outcomes
  <2> QED
    BY <1>6, <1>7, <1>11, <2>1 DEF Send
<1>12. CASE Retry
  BY <1>6, <1>7, <1>12 DEF Retry
<1>13. CASE RefreshToken
  <2>1. pc = "refresh" /\ UNCHANGED effects
    BY <1>13 DEF RefreshToken, Within
  <2>2. Return(out.status, out.body, {}) => Outcomes
    BY <1>1, <2>1, ReturnEnds DEF Outcomes, Outcome, Working, HttpSteps, McpSteps, FileSteps
  <2> QED
    BY <1>9, <1>13, <2>1, <2>2 DEF RefreshToken
<1>14. CASE Initialize \/ Notify
  BY <1>5, <1>9, <1>14 DEF Initialize, Notify
<1>15. CASE CallTool
  <2>1. \A x \in {<<"ok", TRUE>>, <<"refused", FALSE>>} : x \in Exchanges
    BY DEF Exchanges
  <2> QED
    BY <1>5, <1>6, <1>7, <1>15, <2>1 DEF CallTool
<1>16. CASE FileInfo
  <2>1. ASSUME NEW f \in SlackFile, pc' = "download", out' = [NoOut EXCEPT !.seen = {f}], UNCHANGED effects
        PROVE  Outcomes
    BY <1>1, <1>2, <2>1, NoOutHolds DEF Outcomes
  <2> QED
    BY <1>5, <1>16, <2>1 DEF FileInfo
<1>17. CASE Download
  BY <1>5, <1>8, <1>17 DEF Download
<1>18. CASE Query
  <2>1. ASSUME NEW statement, RunQuery(statement) PROVE Outcomes
    BY <1>5, <1>8, <2>1 DEF RunQuery
  <2>2. ASSUME ListTables PROVE Outcomes
    BY <1>5, <1>8, <2>2 DEF ListTables
  <2>3. ASSUME NEW t, DescribeTable(t) PROVE Outcomes
    BY <1>5, <1>8, <2>3 DEF DescribeTable
  <2> QED
    BY <1>5, <1>18, <2>1, <2>2, <2>3 DEF Query
<1>19. CASE Service
  BY <1>5, <1>8, <1>19 DEF Service
<1>20. CASE MailCall
  <2>1. ASSUME NEW seen, Mailed(seen) PROVE Outcomes
    BY <1>8, <2>1 DEF Mailed
  <2> QED
    BY <1>5, <1>6, <1>20, <2>1 DEF MailCall, ListMailboxes, SearchMail, ReadMail, SendMail
<1>21. CASE WorklogCall
  BY <1>5, <1>6, <1>8, <1>21 DEF WorklogCall
<1>22. CASE Arrive \/ Unreadable \/ Decide \/ Record \/ Reply
  BY <1>22 DEF HandleFrame, Working, HttpSteps, McpSteps, FileSteps, Arrive, Unreadable, Decide, Record, Reply
<1> QED
  BY <1>10, <1>11, <1>12, <1>13, <1>14, <1>15, <1>16, <1>17, <1>18, <1>19, <1>20, <1>21, <1>22 DEF Handle

LEMMA OutcomeStep ==
    ASSUME DecisionInv, OutcomeInv, [ServerNext]_serverVars
    PROVE  OutcomeInv'
<1> USE DEF Working, HttpSteps, McpSteps, FileSteps
<1>1. Handle \/ Crash \/ Aside
  BY ServerSteps DEF DecisionInv
<1>2. CASE Aside
  BY <1>2 DEF Aside, OutcomeInv, Outcome
<1>3. CASE Crash
  BY <1>3 DEF Crash, OutcomeInv, NoOut, Status
<1>4. CASE Arrive
  BY <1>4 DEF Arrive, OutcomeInv, NoOut, Status
<1>5. CASE Unreadable
  BY <1>5 DEF Unreadable, OutcomeInv
<1>6. CASE Decide
  <2>1. pc = "decide" /\ UNCHANGED <<calls, effects, records, answer>>
    BY <1>6, DecideStep DEF Decide
  <2>2. CASE pc' = "log" /\ out'.kind = "denied" /\ out'.status = Nil
    BY <2>1, <2>2 DEF OutcomeInv, Outcome, Status
  <2>3. CASE pc' = FirstStep /\ UNCHANGED out
    BY <2>1, <2>3, FirstIsWorking DEF OutcomeInv, DecisionInv
  <2> QED
    BY <1>6, <2>2, <2>3, DecideStep DEF DecisionInv
<1>7. CASE Record
  BY <1>7 DEF Record, OutcomeInv, Outcome
<1>8. CASE Reply
  BY <1>8 DEF Reply, OutcomeInv, Outcome
<1>9. CASE Handle /\ HandleFrame
  <2>1. /\ pc' \in Working \cup {"log"}
        /\ pc' \in Working => out'.kind = "none" /\ effects' = 0
        /\ pc' = "refresh" => out'.status = "unauthorized"
        /\ pc' = "log" => Outcome'
        /\ UNCHANGED <<records, answer>> /\ records = 0 /\ answer = Nil
    BY <1>9, WorkingGoesOn, ConnectorOutcome DEF Outcomes, HandleFrame, OutcomeInv
  <2> QED
    BY <1>9, <2>1, ConnectorOutcome DEF OutcomeInv, Outcomes
<1> QED
  BY <1>1, <1>2, <1>3, <1>4, <1>5, <1>6, <1>7, <1>8, <1>9, WorkingSteps

-----------------------------------------------------------------------------
(* What is sent, and where.                                                *)

\* The environment that a connector chooses is the one that was checked.
LEMMA EnvIsChecked ==
    ASSUME Accepted, Op.site \in DOMAIN Sites, EnvName # Nil
    PROVE  Site.envs[EnvName].tunnel \in checked \cup {Nil}
<1>1. checked = {NeededTunnel(Op, Sites, params)} \ {Nil}
  BY DEF Accepted
<1>2. NeededTunnel(Op, Sites, params) = Site.envs[EnvName].tunnel
  BY DEF NeededTunnel, EnvName, Site
<1> QED
  BY <1>1, <1>2

\* Also the one that the Postgres connector takes by its name.
LEMMA PgEnvIsChecked ==
    ASSUME st \in DOMAIN Config, Op.site \in DOMAIN Sites, PgEnv \in DOMAIN Site.envs
    PROVE  EnvName = PgEnv
<1>1. PgEnv # "" /\ PgEnv # Nil
  BY ConfigAssumption DEF Site, Sites
<1> QED
  BY <1>1 DEF EnvName, ResolvedEnv, PgEnv

CheckedCall(c) == c.env # Nil => Site.envs[c.env].tunnel \in checked \cup {Nil}

LEMMA CalledChecked ==
    ASSUME NEW kind, NEW env, Call(kind, env),
           env # Nil => Site.envs[env].tunnel \in checked \cup {Nil}
    PROVE  \A c \in calls' \ calls : CheckedCall(c)
BY DEF Call, CheckedCall

LEMMA CallsChecked ==
    ASSUME DecisionInv, ConnectorInv, Handle
    PROVE  \A c \in calls' \ calls : CheckedCall(c)
<1>1. CASE Arrive \/ Unreadable \/ Decide \/ Record \/ Reply
  BY <1>1 DEF Arrive, Unreadable, Decide, Record, Reply
<1>2. CASE HandleFrame
  <2>1. Accepted /\ st \in DOMAIN Config
    BY <1>2 DEF HandleFrame, DecisionInv
  <2>2. ASSUME Op.site \in DOMAIN Sites, NEW kind, Call(kind, EnvName)
        PROVE  \A c \in calls' \ calls : CheckedCall(c)
    BY <2>1, <2>2, EnvIsChecked, CalledChecked
  <2>3. ASSUME UNCHANGED calls PROVE \A c \in calls' \ calls : CheckedCall(c)
    BY <2>3
  <2>4. CASE Build \/ CheckLists \/ RefreshToken
    BY <2>3, <2>4 DEF Build, CheckLists, RefreshToken
  <2>5. CASE FetchCrumb \/ Send \/ Retry
    BY <2>2, <2>5 DEF FetchCrumb, Send, Retry, Within, ConnectorInv
  <2>6. CASE Initialize \/ Notify \/ CallTool
    BY <2>2, <2>3, <2>6 DEF Initialize, Notify, CallTool, Within, ConnectorInv
  <2>7. CASE FileInfo \/ Download
    BY <2>2, <2>3, <2>7 DEF FileInfo, Download, Within, ConnectorInv
  <2>8. CASE Query
    <3>1. ASSUME Op.site \in DOMAIN Sites, PgEnv \in DOMAIN Site.envs, Call("main", PgEnv)
          PROVE  \A c \in calls' \ calls : CheckedCall(c)
      BY <2>1, <2>2, <3>1, PgEnvIsChecked
    <3> QED
      BY <2>3, <2>8, <3>1 DEF Query, RunQuery, ListTables, DescribeTable
  <2>9. CASE Service
    BY <2>3, <2>9, CalledChecked DEF Service
  <2>10. CASE MailCall \/ WorklogCall
    BY <2>2, <2>3, <2>10 DEF MailCall, WorklogCall
  <2>11. CASE Arrive \/ Unreadable \/ Decide \/ Record \/ Reply
    BY <1>1, <2>11
  <2> QED
    BY <2>4, <2>5, <2>6, <2>7, <2>8, <2>9, <2>10, <2>11 DEF Handle
<1> QED
  BY <1>1, <1>2, WorkingSteps

\* The local-service connector looks into a tunnel of the published config.
LEMMA ServiceSees ==
    ASSUME Handle, pc = "service", out'.kind = "result"
    PROVE  conf # st \/ \A s \in out'.seen : s.tunnel \in Config[st].tunnels
<1>1. Service
  BY StepAt
<1>2. Return("ok", EmptyObject, {[tunnel |-> TunnelNamed]}) /\ TunnelNamed \in Config[conf].tunnels
  BY <1>1, FailEnds DEF Service
<1> QED
  BY <1>2, ReturnEnds

-----------------------------------------------------------------------------
(* CallInv                                                                 *)

\* Where the request itself goes upstream.
LEMMA MainFrom ==
    ASSUME Handle, HandleFrame, Main'
    PROVE  Main \/ pc \in {"send", "retry", "call", "download", "query", "service", "mail", "worklog"}
<1>1. CASE Build \/ CheckLists \/ RefreshToken
  BY <1>1 DEF Build, CheckLists, RefreshToken, Main
<1>2. CASE FetchCrumb \/ Initialize \/ Notify \/ FileInfo
  BY <1>2 DEF FetchCrumb, Initialize, Notify, FileInfo, Call, Main
<1>3. CASE Send \/ Retry \/ CallTool \/ Download \/ Query \/ Service \/ MailCall \/ WorklogCall
  BY <1>3 DEF Send, Retry, CallTool, Download, Query, Service, MailCall, WorklogCall, Within
<1>4. CASE Arrive \/ Unreadable \/ Decide \/ Record \/ Reply
  BY <1>4 DEF HandleFrame, Working, HttpSteps, McpSteps, FileSteps, Arrive, Unreadable, Decide, Record, Reply
<1> QED
  BY <1>1, <1>2, <1>3, <1>4 DEF Handle

LEMMA BuiltPath ==
    ASSUME Handle, pc = "build", pc' # "log"
    PROVE  PathOk(Op, params)
<1>1. Build
  BY StepAt
<1> QED
  BY <1>1, FailEnds DEF Build

LEMMA ListsLooked ==
    ASSUME Handle, HandleFrame, pc' \in {"send", "refresh", "retry"}, pc \in HttpSteps
    PROVE  pc \in {"send", "refresh", "retry"} \/ ~ListDenied
<1>1. CASE pc \in {"build", "crumb"}
  BY <1>1, FailEnds, StepAt DEF Build, FetchCrumb
<1>2. CASE pc = "lists"
  BY <1>2, FailEnds, StepAt DEF CheckLists
<1> QED
  BY <1>1, <1>2 DEF HttpSteps

LEMMA MailSent ==
    ASSUME Handle, pc = "mail", Op.action = "send", ~UNCHANGED calls
    PROVE  WithinMailLists(TextOf(params, "to"), "email_denied_senders", "email_allowed_senders")
<1>1. MailCall
  BY StepAt
<1>2. ~SenderDenied(TextOf(params, "to"))
  BY <1>1 DEF MailCall, SendMail
<1> QED
  BY <1>2 DEF SenderDenied, denyResource, WithinMailLists

LEMMA CallStep ==
    ASSUME DecisionInv, ConnectorInv, OutcomeInv, CallInv, [ServerNext]_serverVars
    PROVE  CallInv'
<1>1. Handle \/ Crash \/ Aside
  BY ServerSteps DEF DecisionInv
<1>2. CASE Aside
  BY <1>2, Framed DEF Aside, CallInv, Main, WithinMailLists
<1>3. CASE Crash \/ Arrive
  BY <1>3 DEF Crash, Arrive, CallInv, Main, HttpSteps
<1>4. CASE Unreadable \/ Record \/ Reply
  BY <1>4, Framed DEF Unreadable, Record, Reply, CallInv, Main, WithinMailLists, HttpSteps
<1>5. CASE Decide
  <2>1. calls' = {} /\ pc' \in {"log", "build", "info", "query", "service", "initialize", "mail", "worklog"}
    BY <1>5, DecideStep, FirstIsWorking DEF Decide, OutcomeInv, DecisionInv
  <2> QED
    BY <2>1 DEF CallInv, Main, HttpSteps
<1>6. CASE Handle /\ HandleFrame
  <2>1. UNCHANGED <<st, req, params, checked>>
    BY <1>6 DEF HandleFrame
  <2>2. /\ Op' = Op /\ (ViaHttp' <=> ViaHttp) /\ Policy' = Policy
        /\ (PathOk(Op, params)' <=> PathOk(Op, params)) /\ (ListDenied' <=> ListDenied)
    BY <2>1, Framed
  <2>3. Main' => \/ Main
                 \/ ViaHttp => pc \in {"send", "retry"}
    BY <1>6, MainFrom DEF ConnectorInv, ViaHttp, FileSteps, McpSteps
  <2>4. pc' \in HttpSteps \ {"build"} => PathOk(Op, params)
    <3>1. pc' \in HttpSteps => pc \in HttpSteps /\ pc' # "log"
      BY <1>6, StaysInConnector DEF HttpSteps, McpSteps, FileSteps
    <3> QED
      BY <1>6, <3>1, BuiltPath DEF CallInv
  <2>5. pc' \in {"send", "refresh", "retry"} => ~ListDenied
    <3>1. pc' \in HttpSteps => pc \in HttpSteps
      BY <1>6, StaysInConnector DEF HttpSteps, McpSteps, FileSteps
    <3> QED
      BY <1>6, <3>1, ListsLooked DEF CallInv, HttpSteps
  <2>6. Main' /\ ViaHttp => PathOk(Op, params) /\ ~ListDenied
    BY <2>3 DEF CallInv, HttpSteps
  <2>7. Main' /\ Op.connector = "email" /\ Op.action = "send"
          => WithinMailLists(TextOf(params, "to"), "email_denied_senders", "email_allowed_senders")
    <3> SUFFICES ASSUME Main', Op.connector = "email", Op.action = "send"
                 PROVE  WithinMailLists(TextOf(params, "to"), "email_denied_senders", "email_allowed_senders")
      OBVIOUS
    <3>1. CASE Main
      BY <3>1 DEF CallInv
    <3>2. CASE ~Main
      <4>1. pc = "mail"
        BY <1>6, <3>2, MainFrom DEF ConnectorInv, HttpSteps, McpSteps, FileSteps, ViaHttp
      <4>2. ~UNCHANGED calls
        BY <3>2 DEF Main
      <4> QED
        BY <1>6, <4>1, <4>2, MailSent
    <3> QED
      BY <3>1, <3>2
  <2>8. WithinMailLists(TextOf(params, "to"), "email_denied_senders", "email_allowed_senders")'
          <=> WithinMailLists(TextOf(params, "to"), "email_denied_senders", "email_allowed_senders")
    BY <2>1, <2>2 DEF WithinMailLists
  <2> QED
    BY <2>2, <2>4, <2>5, <2>6, <2>7, <2>8 DEF CallInv
<1> QED
  BY <1>1, <1>2, <1>3, <1>4, <1>5, <1>6, WorkingSteps

-----------------------------------------------------------------------------
(* SeenInv                                                                 *)

LEMMA SeenFrame ==
    ASSUME UNCHANGED <<st, req, params, checked, out>>
    PROVE  /\ SeenAllowed' <=> SeenAllowed
           /\ (\A f \in out.seen : FileAllowed(f))' <=> \A f \in out.seen : FileAllowed(f)
<1>1. Op' = Op /\ Policy' = Policy
  BY Framed
<1>2. \A m : MailAllowed(m)' <=> MailAllowed(m)
  BY <1>1 DEF MailAllowed, WithinMailLists
<1>3. \A s : RowsAllowed(s)' <=> RowsAllowed(s)
  BY <1>1 DEF RowsAllowed
<1>4. \A f : FileAllowed(f)' <=> FileAllowed(f)
  BY <1>1 DEF FileAllowed, FileInScope
<1> QED
  BY <1>1, <1>2, <1>3, <1>4 DEF SeenAllowed

\* What the mail connector shows.
LEMMA MailSees ==
    ASSUME MailCall, out'.kind = "result"
    PROVE  \A m \in out'.seen : MailAllowed(m)
<1> DEFINE Boxes == {[box |-> b, from |-> Nil] : b \in {m.box : m \in {n \in Mail : ~BoxDenied(n.box)}}}
           Found == {m \in Mail : m.box = Mailbox /\ ~SenderDenied(m.from)}
<1>1. \A box : ~BoxDenied(box) => WithinMailLists(box, "email_denied_mailboxes", "email_allowed_mailboxes")
  BY DEF BoxDenied, denyResource, WithinMailLists
<1>2. \A from : ~SenderDenied(from) => WithinMailLists(from, "email_denied_senders", "email_allowed_senders")
  BY DEF SenderDenied, denyResource, WithinMailLists
<1>3. ASSUME NEW seen, Mailed(seen) PROVE out'.seen = seen
  BY <1>3, ReturnEnds DEF Mailed
<1>4. CASE ListMailboxes
  <2>1. out'.seen = Boxes
    BY <1>3, <1>4 DEF ListMailboxes
  <2>2. ASSUME NEW m \in Boxes PROVE MailAllowed(m)
    <3>1. m.from = Nil /\ ~BoxDenied(m.box)
      OBVIOUS
    <3> QED
      BY <1>1, <3>1 DEF MailAllowed
  <2> QED
    BY <2>1, <2>2
<1>5. CASE SearchMail
  <2>1. out'.seen = Found /\ ~BoxDenied(Mailbox)
    BY <1>3, <1>5 DEF SearchMail
  <2> QED
    BY <1>1, <1>2, <2>1 DEF MailAllowed
<1>6. CASE ReadMail
  <2>1. PICK m \in Mail : /\ m.box = Mailbox /\ ~BoxDenied(Mailbox)
                          /\ IF SenderDenied(m.from) THEN Fail(Nil) /\ Performed(TRUE) ELSE Mailed({m})
    BY <1>6 DEF ReadMail
  <2>2. ~SenderDenied(m.from) /\ out'.seen = {m}
    BY <1>3, <2>1, FailEnds
  <2> QED
    BY <1>1, <1>2, <2>1, <2>2 DEF MailAllowed
<1>7. CASE SendMail
  BY <1>3, <1>7, FailEnds DEF SendMail, Lost
<1> QED
  BY <1>4, <1>5, <1>6, <1>7, FailEnds DEF MailCall

\* The tables that are allowed are on the list.
LEMMA AllowedIsCovered ==
    ASSUME st \in DOMAIN Config, NEW ref,
           Listed(Policy, "pg_allowed_tables") => tableAllowed(ref, Policy["pg_allowed_tables"])
    PROVE  Listed(Policy, "pg_allowed_tables")
             => \E e \in Policy["pg_allowed_tables"] : Covers(e, Real(ref))
<1> SUFFICES ASSUME Listed(Policy, "pg_allowed_tables")
             PROVE  \E e \in Policy["pg_allowed_tables"] : Covers(e, Real(ref))
  OBVIOUS
<1>1. Policy["pg_allowed_tables"] \subseteq Entry
  BY ConfigAssumption DEF Listed, Policy
<1> QED
  BY <1>1, EntryCovers DEF tableAllowed

LEMMA QuerySees ==
    ASSUME st \in DOMAIN Config, Query, out'.kind = "result"
    PROVE  \A s \in out'.seen : RowsAllowed(s)
<1> DEFINE list == Policy["pg_allowed_tables"]
<1>1. MaxRows \in Nat
  BY AnswerAssumption
<1>2. ASSUME NEW statement, RunQuery(statement) PROVE \A s \in out'.seen : RowsAllowed(s)
  <2>1. /\ InTableScope(statement, list)
        /\ \E n \in 0..(MaxRows + 1) :
              out'.seen = [table : TablesRead(statement), rows : {IF n > MaxRows THEN MaxRows ELSE n}]
    BY <1>2, FailEnds, ReturnEnds DEF RunQuery
  <2>2. PICK n \in 0..(MaxRows + 1) :
              out'.seen = [table : TablesRead(statement), rows : {IF n > MaxRows THEN MaxRows ELSE n}]
    BY <2>1
  <2> SUFFICES ASSUME NEW s \in out'.seen PROVE RowsAllowed(s)
    OBVIOUS
  <2>3. s.table \in TablesRead(statement) /\ s.rows = IF n > MaxRows THEN MaxRows ELSE n
    BY <2>2
  <2>4. s.rows <= MaxRows
    BY <1>1, <2>2, <2>3
  <2>5. ASSUME Listed(Policy, "pg_allowed_tables") PROVE \E e \in list : Covers(e, s.table)
    <3>1. ~Walk(statement).err /\ \A ref \in Walk(statement).refs : tableAllowed(ref, list)
      BY <2>1, <2>5 DEF InTableScope, Listed
    <3>2. {Real(r) : r \in Walk(statement).refs} = TablesRead(statement)
      BY <3>1, WalkFindsWhatIsRead
    <3>3. PICK ref \in Walk(statement).refs : s.table = Real(ref)
      BY <2>3, <3>2
    <3> QED
      BY <2>5, <3>1, <3>3, AllowedIsCovered
  <2> QED
    BY <2>4, <2>5 DEF RowsAllowed
<1>3. ASSUME NEW t, PgSchema # "", TableAllowed(list, PgSchema, t)
      PROVE  Listed(Policy, "pg_allowed_tables")
               => \E e \in list : Covers(e, [schema |-> PgSchema, name |-> t])
  <2> DEFINE ref == [schema |-> PgSchema, name |-> t]
  <2>1. ref.schema = PgSchema /\ ref.name = t
    OBVIOUS
  <2>2. Listed(Policy, "pg_allowed_tables") => tableAllowed(ref, list)
    BY <1>3 DEF TableAllowed, Listed
  <2> HIDE DEF ref
  <2>3. Real(ref) = [schema |-> PgSchema, name |-> t]
    BY <1>3, <2>1 DEF Real
  <2> QED
    BY <2>2, <2>3, AllowedIsCovered
<1>4. CASE ListTables
  <2> DEFINE names == {t \in PgTables : TableAllowed(list, PgSchema, t)}
  <2>1. out'.seen = [table : Qualified(names), rows : {0}]
    BY <1>4, FailEnds, ReturnEnds DEF ListTables
  <2> SUFFICES ASSUME NEW s \in out'.seen PROVE RowsAllowed(s)
    OBVIOUS
  <2>2. s.table \in Qualified(names) /\ s.rows = 0
    BY <2>1
  <2>3. PICK t \in names : s.table = [schema |-> PgSchema, name |-> t] /\ PgSchema # ""
    BY <2>2 DEF Qualified
  <2>4. TableAllowed(list, PgSchema, t)
    OBVIOUS
  <2>5. s.rows <= MaxRows
    BY <1>1, <2>2
  <2>6. Listed(Policy, "pg_allowed_tables") => \E e \in list : Covers(e, s.table)
    BY <1>3, <2>3, <2>4
  <2> QED
    BY <2>5, <2>6 DEF RowsAllowed
<1>5. ASSUME NEW t, DescribeTable(t) PROVE \A s \in out'.seen : RowsAllowed(s)
  <2>1. out'.seen = [table : Qualified({t}), rows : {0}] /\ TableAllowed(list, PgSchema, t)
    BY <1>5, FailEnds, ReturnEnds DEF DescribeTable
  <2> SUFFICES ASSUME NEW s \in out'.seen PROVE RowsAllowed(s)
    OBVIOUS
  <2>2. s.table \in Qualified({t}) /\ s.rows = 0
    BY <2>1
  <2>3. s.table = [schema |-> PgSchema, name |-> t] /\ PgSchema # ""
    BY <2>2 DEF Qualified
  <2>4. s.rows <= MaxRows
    BY <1>1, <2>2
  <2>5. Listed(Policy, "pg_allowed_tables") => \E e \in list : Covers(e, s.table)
    BY <1>3, <2>1, <2>3
  <2> QED
    BY <2>4, <2>5 DEF RowsAllowed
<1> QED
  BY <1>2, <1>4, <1>5, FailEnds DEF Query

LEMMA SeenStep ==
    ASSUME DecisionInv, ConnectorInv, OutcomeInv, SeenInv, [ServerNext]_serverVars
    PROVE  SeenInv'
<1>1. Handle \/ Crash \/ Aside
  BY ServerSteps DEF DecisionInv
<1>2. CASE Aside
  BY <1>2, SeenFrame DEF Aside, SeenInv
<1>3. CASE Crash \/ Arrive
  BY <1>3 DEF Crash, Arrive, SeenInv, NoOut
<1>4. CASE Unreadable \/ Record \/ Reply
  BY <1>4, SeenFrame DEF Unreadable, Record, Reply, SeenInv
<1>5. CASE Decide
  <2>1. out'.kind # "result" /\ pc' # "download"
    BY <1>5, DecideStep, FirstIsWorking DEF Decide, OutcomeInv, DecisionInv
  <2> QED
    BY <2>1 DEF SeenInv
<1>6. CASE Handle /\ HandleFrame
  <2>1. UNCHANGED <<st, req, params, checked>> /\ pc \in Working /\ st \in DOMAIN Config
    BY <1>6 DEF HandleFrame, DecisionInv
  <2>2. Op' = Op /\ Policy' = Policy
    BY <2>1, Framed
  <2>3. \A f : FileAllowed(f)' <=> FileAllowed(f)
    BY <2>1, <2>2 DEF FileAllowed, FileInScope
  <2>4. ASSUME pc' = "download" PROVE \A f \in out'.seen : FileAllowed(f)
    <3>1. pc = "info" \/ pc = "download"
      BY <1>6, <2>4, StaysInConnector DEF FileSteps, HttpSteps, McpSteps
    <3>2. pc # "download"
      BY <1>6, <2>4, StepAt, FailEnds, ReturnEnds DEF Download
    <3>3. FileInfo
      BY <1>6, <3>1, <3>2, StepAt
    <3>4. PICK f \in SlackFile : FileAllowed(f) /\ out' = [NoOut EXCEPT !.seen = {f}]
      BY <2>4, <3>3, FailEnds DEF FileInfo, FileAllowed
    <3> QED
      BY <3>4, NoOutHolds
  <2>5. ASSUME out'.kind = "result" PROVE SeenAllowed'
    <3>1. pc' \notin Working /\ pc' = "log"
      BY <1>6, <2>5, ConnectorOutcome, WorkingGoesOn DEF Outcomes
    <3>2. ASSUME Op.connector = "email" PROVE \A m \in out'.seen : MailAllowed(m)'
      <4>1. pc = "mail"
        BY <2>1, <3>2 DEF ConnectorInv, Working, HttpSteps, McpSteps, FileSteps, ViaHttp
      <4>2. \A m \in out'.seen : MailAllowed(m)
        BY <1>6, <2>5, <4>1, StepAt, MailSees
      <4> QED
        BY <2>2, <4>2 DEF MailAllowed, WithinMailLists
    <3>3. ASSUME Op.connector = "postgres" PROVE \A s \in out'.seen : RowsAllowed(s)'
      <4>1. pc = "query"
        BY <2>1, <3>3 DEF ConnectorInv, Working, HttpSteps, McpSteps, FileSteps, ViaHttp
      <4>2. \A s \in out'.seen : RowsAllowed(s)
        BY <1>6, <2>1, <2>5, <4>1, StepAt, QuerySees
      <4> QED
        BY <2>2, <4>2 DEF RowsAllowed
    <3>4. ASSUME Op.connector = "http-rest", Op.fileContent PROVE \A f \in out'.seen : FileAllowed(f)'
      <4>1. pc \in {"info", "download"}
        BY <2>1, <3>4 DEF ConnectorInv, Working, HttpSteps, McpSteps, FileSteps, ViaHttp
      <4>2. pc = "download"
        BY <1>6, <2>5, <3>1, <4>1, StepAt, FailEnds DEF FileInfo
      <4>3. out'.seen = out.seen
        <5>1. Download
          BY <1>6, <4>2, StepAt
        <5>2. Return("ok", EmptyObject, out.seen)
          BY <2>5, <5>1, FailEnds DEF Download
        <5> QED
          BY <5>2 DEF Return
      <4> QED
        BY <2>3, <4>2, <4>3 DEF SeenInv
    <3> QED
      BY <2>2, <3>2, <3>3, <3>4 DEF SeenAllowed
  <2> QED
    BY <2>3, <2>4, <2>5 DEF SeenInv
<1> QED
  BY <1>1, <1>2, <1>3, <1>4, <1>5, <1>6, WorkingSteps

-----------------------------------------------------------------------------
(* The TODO file.                                                          *)

Texts == {s.normal : s \in Sent} \cup {""}
Item  == [text : Texts \cup {Cut}, checked : BOOLEAN]

Handler == [at : {"idle", "check", "file", "lock", "scan", "append"},
            sent : Sent \cup {Nil}, text : Texts, checked : BOOLEAN]

\* At most one handler is in appendTodo, the text it is about to add is not in
\* the file, and a text that was checked is not empty.
TodoInv ==
    /\ writer \in [Writer -> Handler]
    /\ todo \in Seq(Item)
    /\ \A w \in Writer : writer[w].at = "check" => writer[w].sent \in Sent
    /\ \A w \in Writer : writer[w].at \in {"scan", "append"} => holder = w
    /\ \A w \in Writer : writer[w].at = "append" => ~HasTodoItem(writer[w].text)
    /\ \A w \in Writer : writer[w].checked => writer[w].text # ""
    /\ TodoKept

LEMMA Appended ==
    ASSUME NEW S, NEW s \in Seq(S), NEW e \in S
    PROVE  LET t == Append(s, e) IN
           /\ t \in Seq(S)
           /\ \A i \in DOMAIN t : i \in DOMAIN s \/ i = Len(s) + 1
           /\ \A i \in DOMAIN s : t[i] = s[i]
           /\ t[Len(s) + 1] = e
<1> DEFINE t == Append(s, e)
<1>1. /\ Len(s) \in Nat /\ DOMAIN s = 1..Len(s)
      /\ t \in Seq(S) /\ DOMAIN t = 1..(Len(s) + 1)
  OBVIOUS
<1>2. \A n \in Nat : \A i \in 1..(n + 1) : i \in 1..n \/ i = n + 1
  OBVIOUS
<1>3. (\A i \in 1..Len(s) : t[i] = s[i]) /\ t[Len(s) + 1] = e
  OBVIOUS
<1> QED
  BY <1>1, <1>2, <1>3

\* What is added to the file: an item that is not in it, or the beginning of one.
LEMMA TodoAdded ==
    ASSUME TodoKept, todo \in Seq(Item), NEW item \in Item, todo' = Append(todo, item),
           item.text = Cut \/ ~HasTodoItem(item.text),
           item.text = "" => ~item.checked
    PROVE  TodoKept' /\ todo' \in Seq(Item)
<1> DEFINE n == Len(todo)
<1>4. /\ todo' \in Seq(Item)
      /\ \A i \in DOMAIN todo' : i \in DOMAIN todo \/ i = n + 1
      /\ \A i \in DOMAIN todo : todo'[i] = todo[i]
      /\ todo'[n + 1] = item
  <2> HIDE DEF Item
  <2> DEFINE t == Append(todo, item)
  <2>1. /\ t \in Seq(Item)
        /\ \A i \in DOMAIN t : i \in DOMAIN todo \/ i = Len(todo) + 1
        /\ \A i \in DOMAIN todo : t[i] = todo[i]
        /\ t[Len(todo) + 1] = item
    BY Appended, ZenonT(60)
  <2>2. todo' = t
    OBVIOUS
  <2> HIDE DEF t
  <2> QED
    BY <2>1, <2>2
<1> HIDE DEF n
<1>5. EmptyTodoOnlyByReload'
  BY <1>4 DEF TodoKept, EmptyTodoOnlyByReload
<1>6. TodoOnce'
  <2> SUFFICES ASSUME NEW i \in DOMAIN todo', NEW j \in DOMAIN todo', todo'[i].text = todo'[j].text, i # j
               PROVE  todo'[i].text \in {"", Cut}
    BY DEF TodoOnce
  <2>1. CASE i \in DOMAIN todo /\ j \in DOMAIN todo
    BY <1>4, <2>1 DEF TodoKept, TodoOnce
  <2>2. \A k \in DOMAIN todo : item.text = todo[k].text => item.text \in {"", Cut}
    BY DEF HasTodoItem
  <2>3. CASE i = n + 1 /\ j \in DOMAIN todo
    BY <1>4, <2>2, <2>3
  <2>4. CASE j = n + 1 /\ i \in DOMAIN todo
    BY <1>4, <2>2, <2>4
  <2> QED
    BY <1>4, <2>1, <2>3, <2>4
<1> QED
  BY <1>4, <1>5, <1>6 DEF TodoKept

\* A handler's step, as far as the invariant depends on it.
LEMMA OneWrites ==
    ASSUME TodoInv, NEW w \in Writer, NEW s \in Handler, Becomes(w, s),
           s.at = "check" => s.sent \in Sent,
           s.at \in {"scan", "append"} => holder' = w,
           \A v \in Writer \ {w} : writer[v].at \in {"scan", "append"} => holder' = v,
           \/ UNCHANGED todo /\ (s.at = "append" => ~HasTodoItem(s.text))
           \/ s.at # "append" /\ \A v \in Writer \ {w} : writer[v].at # "append",
           s.checked => s.text # "",
           TodoKept', todo' \in Seq(Item)
    PROVE  TodoInv'
<1> HIDE DEF Handler, Item
<1>1. writer \in [Writer -> Handler]
  BY DEF TodoInv
<1>2. /\ writer' \in [Writer -> Handler] /\ writer'[w] = s
      /\ \A v \in Writer \ {w} : writer'[v] = writer[v]
  BY <1>1 DEF Becomes
<1>3. (\A v \in Writer : writer[v].at = "append" => ~HasTodoItem(writer[v].text))'
  BY <1>2 DEF HasTodoItem, TodoInv
<1>4. \A v \in Writer : v = w \/ v \in Writer \ {w}
  OBVIOUS
<1>5. \A v \in Writer : writer'[v].at = "check" => writer'[v].sent \in Sent
  BY <1>2, <1>4 DEF TodoInv
<1>6. \A v \in Writer : writer'[v].at \in {"scan", "append"} => holder' = v
  BY <1>2, <1>4
<1>7. \A v \in Writer : writer'[v].checked => writer'[v].text # ""
  <2>1. writer'[w].checked => writer'[w].text # ""
    BY <1>2
  <2>2. \A v \in Writer \ {w} : writer'[v].checked => writer'[v].text # ""
    BY <1>2 DEF TodoInv
  <2> QED
    BY <1>4, <2>1, <2>2
<1> QED
  BY <1>2, <1>3, <1>5, <1>6, <1>7 DEF TodoInv

LEMMA TodoStep ==
    ASSUME TodoInv, conf \in DOMAIN Config, [ServerNext]_serverVars
    PROVE  TodoInv'
<1>1. CASE UNCHANGED feedbackVars
  BY <1>1 DEF feedbackVars, TodoInv, HasTodoItem, TodoKept, TodoOnce, EmptyTodoOnlyByReload
<1>2. ASSUME NEW w \in Writer,
             Receive(w) \/ CheckText(w) \/ File(w) \/ LockTodo(w) \/ ScanTodo(w) \/ AppendTodo(w)
      PROVE  TodoInv'
  <2> DEFINE old == writer[w]
  <2>1. /\ old \in Handler
        /\ \A v \in Writer : writer[v].at \in {"scan", "append"} => holder = v
        /\ \A v \in Writer : writer[v].at = "append" => ~HasTodoItem(writer[v].text)
        /\ old.checked => old.text # ""
        /\ TodoKept /\ todo \in Seq(Item)
        /\ Nil \notin Writer /\ TodoPath \in BOOLEAN
    BY FeedbackAssumption DEF TodoInv, TodoPath
  <2>2. Resting \in Handler /\ Resting.at = "idle" /\ Resting.checked = FALSE
    BY DEF Resting, Handler, Texts
  <2>3. ASSUME UNCHANGED todo
        PROVE  /\ TodoKept' /\ todo' \in Seq(Item)
               /\ \A text : HasTodoItem(text)' <=> HasTodoItem(text)
    BY <2>1, <2>3 DEF TodoKept, TodoOnce, EmptyTodoOnlyByReload, HasTodoItem
  \* Where neither the file nor its mutex changes.
  <2>4. ASSUME NEW s \in Handler, Becomes(w, s), UNCHANGED <<todo, holder>>,
               s.at = "check" => s.sent \in Sent,
               s.at \notin {"scan", "append"},
               s.checked => s.text # ""
        PROVE  TodoInv'
    BY <2>1, <2>3, <2>4, OneWrites
  <2>5. CASE UNCHANGED <<todo, holder>> /\ Answered(w)
    BY <2>2, <2>4, <2>5 DEF Answered
  <2>6. ASSUME NEW step \in {"lock", "scan", "append"}
        PROVE  LET s == [old EXCEPT !.at = step] IN
               s \in Handler /\ s.at = step /\ s.text = old.text /\ s.checked = old.checked
    BY <2>1 DEF Handler
  <2> HIDE DEF old
  <2>7. CASE Receive(w)
    <3>1. PICK sent \in Sent : Becomes(w, [old EXCEPT !.at = "check", !.sent = sent])
      BY <2>7 DEF Receive, old
    <3> DEFINE s == [old EXCEPT !.at = "check", !.sent = sent]
    <3>2. s \in Handler /\ s.at = "check" /\ s.sent = sent /\ s.checked = old.checked /\ s.text = old.text
      BY <2>1 DEF Handler
    <3>3. UNCHANGED <<todo, holder>>
      BY <2>7 DEF Receive
    <3> HIDE DEF s
    <3> QED
      BY <2>1, <2>4, <3>1, <3>2, <3>3 DEF s
  <2>8. CASE CheckText(w)
    <3>1. UNCHANGED <<todo, holder>> /\ old.sent \in Sent
      BY <2>8 DEF CheckText, At, TodoInv, old
    <3> DEFINE text == IF TodoPath THEN old.sent.normal ELSE ""
               s == [old EXCEPT !.at = "file", !.checked = TodoPath, !.text = text]
    <3>2. CASE ~(TodoPath /\ old.sent.normal = "") /\ Becomes(w, s)
      <4>1. text \in Texts /\ (TodoPath => text # "")
        BY <3>1, <3>2 DEF Texts
      <4> HIDE DEF text
      <4>2. s \in Handler /\ s.at = "file" /\ s.checked = TodoPath /\ s.text = text
        BY <2>1, <4>1 DEF Handler
      <4> HIDE DEF s
      <4> QED
        BY <2>4, <3>1, <3>2, <4>1, <4>2
    <3> QED
      BY <2>5, <2>8, <3>1, <3>2 DEF CheckText, old
  <2>9. CASE File(w)
    <3>1. UNCHANGED <<todo, holder>>
      BY <2>9 DEF File
    <3>2. CASE Go(w, "lock")
      <4> DEFINE s == [old EXCEPT !.at = "lock"]
      <4>1. s \in Handler /\ s.at = "lock" /\ s.text = old.text /\ s.checked = old.checked
        BY <2>6
      <4>2. Becomes(w, s)
        BY <3>2 DEF Go, old
      <4> HIDE DEF s
      <4> QED
        BY <2>1, <2>4, <3>1, <4>1, <4>2
    <3> QED
      BY <2>5, <2>9, <3>1, <3>2 DEF File
  <2>10. CASE LockTodo(w)
    <3> DEFINE s == [old EXCEPT !.at = "scan"]
    <3>1. s \in Handler /\ s.at = "scan" /\ s.text = old.text /\ s.checked = old.checked
      BY <2>6
    <3>2. Becomes(w, s) /\ holder = Nil /\ holder' = w /\ UNCHANGED todo
      BY <2>10 DEF LockTodo, Go, old
    <3>3. \A v \in Writer : writer[v].at \notin {"scan", "append"}
      BY <2>1, <3>2
    <3> HIDE DEF s
    <3> QED
      BY <2>1, <2>3, <3>1, <3>2, <3>3, OneWrites
  <2>11. ASSUME old.at \in {"scan", "append"}
         PROVE  \A v \in Writer \ {w} : writer[v].at \notin {"scan", "append"}
    BY <2>1, <2>11 DEF old
  <2>12. CASE ScanTodo(w)
    <3>1. UNCHANGED todo /\ old.at = "scan"
      BY <2>12 DEF ScanTodo, At, old
    <3>2. CASE holder' = Nil /\ Answered(w)
      BY <2>2, <2>3, <2>11, <3>1, <3>2, OneWrites DEF Answered
    <3>3. CASE ~HasTodoItem(old.text) /\ Go(w, "append") /\ UNCHANGED holder
      <4> DEFINE s == [old EXCEPT !.at = "append"]
      <4>1. s \in Handler /\ s.at = "append" /\ s.text = old.text /\ s.checked = old.checked
        BY <2>6
      <4>2. Becomes(w, s) /\ holder' = w
        BY <2>1, <3>1, <3>3 DEF Go, old
      <4> HIDE DEF s
      <4>3. ~HasTodoItem(s.text)
        BY <3>3, <4>1
      <4> QED
        BY <2>1, <2>3, <2>11, <3>1, <4>1, <4>2, <4>3, OneWrites
    <3> QED
      BY <2>12, <3>2, <3>3 DEF ScanTodo, old
  <2>13. CASE AppendTodo(w)
    <3>1. old.at = "append" /\ holder' = Nil /\ Becomes(w, Resting) /\ ~HasTodoItem(old.text)
      BY <2>1, <2>13 DEF AppendTodo, At, Answered, old
    <3>2. PICK text \in {old.text, Cut} : todo' = Append(todo, [text |-> text, checked |-> old.checked])
      BY <2>13 DEF AppendTodo, old
    <3> DEFINE item == [text |-> text, checked |-> old.checked]
    <3>3. item \in Item /\ item.text = text /\ item.checked = old.checked
      BY <2>1 DEF Item, Handler
    <3>4. text = Cut \/ ~HasTodoItem(text)
      BY <3>1, <3>2
    <3>5. text = "" => ~old.checked
      BY <2>1, <3>2 DEF Cut
    <3> HIDE DEF item
    <3>6. TodoKept' /\ todo' \in Seq(Item)
      BY <2>1, <3>2, <3>3, <3>4, <3>5, TodoAdded DEF item
    <3> QED
      BY <2>2, <2>11, <3>1, <3>6, OneWrites
  <2> QED
    BY <1>2, <2>7, <2>8, <2>9, <2>10, <2>12, <2>13
<1> QED
  BY <1>1, <1>2 DEF ServerNext, FeedbackStep, serverVars

-----------------------------------------------------------------------------
(* The invariants hold.                                                    *)

USE DEF ServerSpec

LEMMA ServerStarts ==
    ASSUME ServerInit
    PROVE  OpInv /\ TodoInv
<1> USE DEF ServerInit
<1>1. req \in Request /\ pc = "idle" /\ conf \in DOMAIN Config /\ st = conf
  BY RequestAssumption DEF OpInit
<1>2. params = << >> /\ calls = {} /\ effects = 0 /\ out = NoOut /\ records = 0 /\ answer = Nil
  BY DEF OpInit
<1>3. DecisionInv
  BY <1>1, <1>2 DEF DecisionInv, Pc, Working, HttpSteps, McpSteps, FileSteps
<1>4. ConnectorInv
  BY <1>1 DEF ConnectorInv, HttpSteps, McpSteps, FileSteps
<1>5. CallInv
  BY <1>1, <1>2 DEF CallInv, Main, HttpSteps
<1>6. OutcomeInv
  BY <1>1, <1>2 DEF OutcomeInv, NoOut, Status, Working, HttpSteps, McpSteps, FileSteps
<1>7. SeenInv
  BY <1>1, <1>2 DEF SeenInv, NoOut
<1>8. TodoInv
  <2>1. Resting \in Handler /\ Resting.at = "idle" /\ Resting.checked = FALSE
    BY DEF Resting, Handler, Texts
  <2>2. todo = << >> /\ writer = [w \in Writer |-> Resting]
    BY DEF FeedbackInit
  <2>3. writer \in [Writer -> Handler] /\ \A w \in Writer : writer[w] = Resting
    BY <2>1, <2>2
  <2>4. todo \in Seq(Item) /\ DOMAIN todo = {}
    BY <2>2
  <2>5. TodoKept
    BY <2>4 DEF TodoKept, TodoOnce, EmptyTodoOnlyByReload
  <2> QED
    BY <2>1, <2>3, <2>4, <2>5 DEF TodoInv
<1> QED
  BY <1>3, <1>4, <1>5, <1>6, <1>7, <1>8 DEF OpInv

LEMMA ServerGoesOn ==
    ASSUME OpInv, TodoInv, [ServerNext]_serverVars
    PROVE  OpInv' /\ TodoInv'
<1>1. OpInv'
  BY DecisionStep, ConnectorStep, CallStep, OutcomeStep, SeenStep DEF OpInv
<1>2. conf \in DOMAIN Config
  BY DEF OpInv, DecisionInv
<1> QED
  BY <1>1, <1>2, TodoStep

\* What the theorems below rest on.
LEMMA ServerInvariant == ServerSpec => [](OpInv /\ TodoInv)
BY ServerStarts, ServerGoesOn, PTL

\* The server keeps an audit log as module AuditLog has it: it writes records,
\* goes into the next day and restarts, and touches its files in no other way.
THEOREM ServerKeepsAuditLog == ServerSpec => Spec
<1>1. ServerInit => Init
  BY DEF ServerInit, OpInit
<1>2. ASSUME [ServerNext]_serverVars PROVE [Next]_vars
  <2>1. CASE FeedbackStep
    BY <2>1 DEF FeedbackStep, Receive, CheckText, File, LockTodo, ScanTodo, AppendTodo, At
  <2>2. CASE Handle
    <3>1. CASE Record
      BY <3>1 DEF Record, Next
    <3>2. CASE Arrive \/ Unreadable \/ Decide \/ Reply
      BY <3>2 DEF Arrive, Unreadable, Decide, Reply
    <3>3. ASSUME NEW step, Within(step) PROVE UNCHANGED vars
      BY <3>3 DEF Within
    <3>4. CASE Build \/ FetchCrumb \/ CheckLists \/ Send \/ RefreshToken \/ Retry
      BY <3>3, <3>4 DEF Build, FetchCrumb, CheckLists, Send, RefreshToken, Retry
    <3>5. CASE Initialize \/ Notify \/ CallTool \/ FileInfo \/ Download
      BY <3>3, <3>5 DEF Initialize, Notify, CallTool, FileInfo, Download
    <3>6. CASE Query \/ Service \/ MailCall \/ WorklogCall
      BY <3>3, <3>6 DEF Query, Service, MailCall, WorklogCall
    <3> QED
      BY <2>2, <3>1, <3>2, <3>4, <3>5, <3>6 DEF Handle
  <2>3. CASE Publish
    BY <2>3 DEF Publish
  <2>4. CASE Crash
    BY <2>4 DEF Crash, Next
  <2>5. CASE Midnight
    BY <2>5 DEF Next
  <2>6. CASE UNCHANGED serverVars
    BY <2>6 DEF serverVars, theVars
  <2> QED
    BY <1>2, <2>1, <2>2, <2>3, <2>4, <2>5, <2>6 DEF ServerNext, OpNext
<1> QED
  BY <1>1, <1>2, PTL DEF Spec

\* Rotation comes neither late nor early, whatever requests, answers and crashes
\* the records are of.
THEOREM ServerFillsFiles == ServerSpec => []FilesFilled
BY ServerKeepsAuditLog, FilesAlwaysFilled, PTL

-----------------------------------------------------------------------------
(* What is sent.                                                           *)

\* Every call for a request goes to an environment whose tunnel was found up for
\* it; the local-service connector may see a tunnel that the request's config
\* does not have only after a reload.
THEOREM CallsGoToCheckedEnv == ServerSpec => SentToCheckedEnv
<1>1. ASSUME OpInv, [ServerNext]_serverVars
      PROVE  [/\ \A c \in calls' \ calls :
                   c.env # Nil => Site.envs[c.env].tunnel \in checked \cup {Nil}
              /\ pc = "service" /\ out'.kind = "result" =>
                   conf # st \/ \A s \in out'.seen : s.tunnel \in Config[st].tunnels]_theVars
  <2>1. DecisionInv /\ ConnectorInv /\ OutcomeInv /\ conf \in DOMAIN Config
    BY <1>1 DEF OpInv, DecisionInv
  <2>2. CASE Handle
    BY <2>1, <2>2, CallsChecked, ServiceSees DEF CheckedCall
  <2>3. CASE Crash
    BY <2>3 DEF Crash, NoOut
  <2>4. CASE Aside
    <3>1. pc = "service" => out.kind = "none"
      BY <2>1 DEF OutcomeInv, Working
    <3> QED
      BY <2>4, <3>1 DEF Aside
  <2> QED
    BY <1>1, <2>1, <2>2, <2>3, <2>4, ServerSteps
<1> QED
  BY <1>1, ServerInvariant, PTL DEF SentToCheckedEnv

\* A path that is found in order reaches nowhere else.
LEMMA OkPathStays ==
    ASSUME NEW piece, NEW v, NEW multi \in BOOLEAN,
           piece.how \in {"raw", "escaped", "query"}, PieceOk(piece, v, multi)
    PROVE  LET reach == Reaches(piece, v) IN
           /\ reach \cap (IF multi THEN (Outside \ {"slash"}) \cup {"gap"} ELSE Outside) = {}
           /\ piece.inquery => "amp" \notin reach
<1> USE DEF Outside
<1>1. CASE piece.how = "raw"
  <2>1. Reaches(piece, v) = v.has
    BY <1>1 DEF Reaches
  <2>2. RawOk(piece, v, multi)
    BY <1>1 DEF PieceOk
  <2> QED
    BY <2>1, <2>2 DEF RawOk
<1>2. CASE piece.how = "query" \/ (piece.how = "escaped" /\ piece.inquery)
  <2>1. Reaches(piece, v) = {}
    BY <1>2 DEF Reaches
  <2> QED
    BY <2>1
<1>3. CASE piece.how = "escaped" /\ ~piece.inquery
  <2>1. Reaches(piece, v) = v.has \cap {"amp"}
    BY <1>3 DEF Reaches, Unescaped, PieceOk
  <2> QED
    BY <1>3, <2>1
<1> QED
  BY <1>1, <1>2, <1>3

\* No parameter takes the path out of what the operation makes it.
THEOREM PathIsKept == ServerSpec => []PathKept
<1>1. ASSUME OpInv PROVE PathKept
  <2> SUFFICES ASSUME Main, ViaHttp, NEW i \in DOMAIN Op.path,
                      Op.path[i].how # "text", Given(params, Op.path[i].key)
               PROVE  LET p == Op.path[i]
                          reach == Reaches(p, params[p.key])
                          multi == Given(Op.params, p.key) /\ Op.params[p.key].multi
                      IN  /\ reach \cap (IF multi THEN (Outside \ {"slash"}) \cup {"gap"} ELSE Outside) = {}
                          /\ p.inquery => "amp" \notin reach
    BY DEF PathKept
  <2> DEFINE p == Op.path[i]
             multi == Given(Op.params, p.key) /\ Op.params[p.key].multi
  <2>1. PieceOk(p, params[p.key], multi)
    BY <1>1 DEF OpInv, CallInv, PathOk
  <2>2. p.how \in {"raw", "escaped", "query"}
    <3>1. req.op \in DOMAIN Ops
      BY <1>1, RequestAssumption DEF OpInv, DecisionInv
    <3> QED
      BY <3>1, RequestAssumption DEF Op
  <2>3. multi \in BOOLEAN
    OBVIOUS
  <2> HIDE DEF multi, p
  <2> QED
    BY <2>1, <2>2, <2>3, OkPathStays DEF multi, p
<1> QED
  BY <1>1, ServerInvariant, PTL

\* What becomes of a request's parameters: only the query changes, and what is
\* missing gets its default.
LEMMA ParamsGiven ==
    ASSUME NEW op, NEW given, NEW policy, NEW p, p = WithDefaults(op, Constrained(op, given, policy))
    PROVE  /\ DOMAIN p \subseteq DOMAIN given \cup DOMAIN op.params
           /\ \A n \in DOMAIN p : n \notin DOMAIN given => op.params[n].default # Nil
           /\ \A n \in DOMAIN given : n # "jql" => p[n] = given[n]
           /\ "jql" \in DOMAIN given => p["jql"] = Constrained(op, given, policy)["jql"]
<1> DEFINE c == Constrained(op, given, policy)
<1>1. DOMAIN c = DOMAIN given /\ \A n \in DOMAIN given : n # "jql" => c[n] = given[n]
  <2>1. CASE ~Scoped(op, policy)
    BY <2>1 DEF Constrained
  <2>2. CASE Scoped(op, policy)
    <3>1. c = [given EXCEPT !["jql"] = [given["jql"] EXCEPT !.jql = JqlScoped(given["jql"].jql), !.is = "scoped"]]
      BY <2>2 DEF Constrained
    <3> DEFINE v == [given["jql"] EXCEPT !.jql = JqlScoped(given["jql"].jql), !.is = "scoped"]
    <3> HIDE DEF v, c
    <3> QED
      BY <3>1 DEF v
  <2> QED
    BY <2>1, <2>2
<1> HIDE DEF c
<1> DEFINE filled == {n \in DOMAIN op.params : ~Given(c, n) /\ op.params[n].default # Nil}
<1>2. p = [n \in DOMAIN c \cup filled |-> IF n \in filled THEN op.params[n].default ELSE c[n]]
  BY DEF WithDefaults, c
<1>3. \A n \in filled : n \in DOMAIN op.params /\ n \notin DOMAIN c /\ op.params[n].default # Nil
  BY DEF Given
<1> HIDE DEF filled
<1>4. DOMAIN p = DOMAIN c \cup filled /\ \A n \in DOMAIN c : p[n] = c[n]
  BY <1>2, <1>3
<1> QED
  BY <1>1, <1>3, <1>4 DEF c

\* A query that was accepted goes out with its scope.
LEMMA QueryIsScoped ==
    ASSUME NEW op, NEW given, NEW policy, NEW p, p = WithDefaults(op, Constrained(op, given, policy)),
           \A n \in DOMAIN given : IsValue(given[n]),
           ConstraintsOk(op, given, policy), Scoped(op, policy)
    PROVE  ScopeOutermost(p["jql"].jql)
<1> DEFINE v == given["jql"]
           w == [v EXCEPT !.jql = JqlScoped(v.jql), !.is = "scoped"]
<1>1. "jql" \in DOMAIN given /\ JqlAccepted(v.jql)
  BY DEF ConstraintsOk, Scoped, TextOf, Given
<1>2. v.jql \in Seq(JqlToken) /\ "jql" \in DOMAIN v
  BY <1>1, QueryAssumption DEF IsValue
<1>3. Constrained(op, given, policy) = [given EXCEPT !["jql"] = w]
  BY DEF Constrained
<1>4. w.jql = JqlScoped(v.jql)
  BY <1>2
<1> HIDE DEF v, w
<1>5. Constrained(op, given, policy)["jql"] = w
  BY <1>1, <1>3
<1>6. p["jql"] = w
  BY <1>1, <1>5, ParamsGiven
<1> QED
  BY <1>1, <1>2, <1>4, <1>6, AcceptedQueryIsClosed

\* So does a channel that was found on the list.
LEMMA ChannelIsListed ==
    ASSUME NEW op, NEW given, NEW policy, NEW p, p = WithDefaults(op, Constrained(op, given, policy)),
           Valid(op, given, policy), ScopesOk(op, given, policy),
           "channel" \in DOMAIN op.params =>
               op.params["channel"].type \in {"string", "enum"} /\ op.params["channel"].default = Nil,
           Listed(policy, "slack_channels"), Given(p, "channel")
    PROVE  p["channel"].is \in policy["slack_channels"] \cup {""}
<1>1. "channel" \in DOMAIN given /\ p["channel"] = given["channel"]
  BY ParamsGiven DEF Given
<1>2. "channel" \in DOMAIN op.params
  BY <1>1 DEF Valid
<1>3. given["channel"].type = "string"
  BY <1>1, <1>2 DEF Valid, Given, ValueOk, TextOk, EnumOk
<1> QED
  BY <1>1, <1>2, <1>3 DEF ScopesOk, TextOf, Given

\* What the upstream is asked is inside the lists of the config that the request
\* was decided by: channel, card list, recipient and query.
THEOREM RequestsStayInLists == ServerSpec => []SentWithinLists
<1>1. ASSUME OpInv PROVE SentWithinLists
  <2> SUFFICES ASSUME Main PROVE SentWithinLists
    BY DEF SentWithinLists
  <2>1. Accepted /\ req \in Request /\ req.op \in DOMAIN Ops
    BY <1>1, RequestAssumption DEF OpInv, DecisionInv, Main
  <2>2. params = WithDefaults(Op, Constrained(Op, req.params, Policy))
    BY <2>1 DEF Accepted, CheckedParams
  <2>3. Valid(Op, req.params, Policy) /\ ConstraintsOk(Op, req.params, Policy) /\ ScopesOk(Op, req.params, Policy)
    BY <2>1 DEF Accepted, Acceptable
  <2>4. Listed(Policy, "slack_channels") /\ Given(params, "channel")
          => params["channel"].is \in Policy["slack_channels"] \cup {""}
    <3>1. "channel" \in DOMAIN Op.params =>
            Op.params["channel"].type \in {"string", "enum"} /\ Op.params["channel"].default = Nil
      BY <2>1, RequestAssumption DEF Op
    <3> QED
      BY <2>2, <2>3, <3>1, ChannelIsListed
  <2>5. ViaHttp /\ Op.site = "trello" /\ Listed(Policy, "trello_allowed_lists")
          => ListGiven \in Policy["trello_allowed_lists"]
    BY <1>1 DEF OpInv, CallInv, ListDenied
  <2>6. Op.connector = "email" /\ Op.action = "send"
          => WithinMailLists(TextOf(params, "to"), "email_denied_senders", "email_allowed_senders")
    BY <1>1 DEF OpInv, CallInv
  <2>7. Scoped(Op, Policy) => ScopeOutermost(params["jql"].jql)
    <3>1. \A n \in DOMAIN req.params : IsValue(req.params[n])
      BY <2>1, RequestAssumption
    <3> QED
      BY <2>2, <2>3, <3>1, QueryIsScoped
  <2> QED
    BY <2>4, <2>5, <2>6, <2>7 DEF SentWithinLists
<1> QED
  BY <1>1, ServerInvariant, PTL

-----------------------------------------------------------------------------
(* What comes back.                                                        *)

\* The agent can tell from its answer what was done, and the audit log has it.
THEOREM AnswersAreTrue == ServerSpec => []PerformedAsAnswered
<1>1. ASSUME OpInv PROVE PerformedAsAnswered
  <2> SUFFICES ASSUME pc = "idle" PROVE PerformedAsAnswered
    BY DEF PerformedAsAnswered
  <2>1. Nil \notin {"unreadable", "denied", "error", "result"}
    BY AnswerAssumption
  <2>2. CASE answer \in {Nil, "unreadable"} /\ calls = {} /\ effects = 0 /\ records = 0
    BY <2>1, <2>2 DEF PerformedAsAnswered
  <2>3. CASE /\ Outcome /\ records = 1
             /\ answer = IF out.kind = "result" /\ out.body = Null THEN Nil ELSE out.kind
    BY <2>1, <2>3 DEF PerformedAsAnswered, Outcome
  <2> QED
    BY <1>1, <2>2, <2>3 DEF OpInv, OutcomeInv
<1> QED
  BY <1>1, ServerInvariant, PTL

\* An agent sees the mail, the rows and the files that the lists allow, and no
\* others.
THEOREM AnswersStayInLists == ServerSpec => []SeenWithinLists
<1>1. ASSUME OpInv PROVE SeenWithinLists
  <2> SUFFICES ASSUME answer = "result" PROVE SeenAllowed
    BY DEF SeenWithinLists
  <2>1. Nil # "result"
    BY AnswerAssumption
  <2>2. out.kind = "result"
    BY <1>1, <2>1 DEF OpInv, OutcomeInv
  <2> QED
    BY <1>1, <2>2 DEF OpInv, SeenInv
<1> QED
  BY <1>1, ServerInvariant, PTL

\* The states of a request are of their types.
THEOREM OperationTypeCorrect == ServerSpec => []OpTypeOK
<1>1. ASSUME OpInv, TypeOK PROVE OpTypeOK
  <2>1. \A n \in DOMAIN params : n \in DOMAIN Op.params \cup {"env", "cluster"}
    <3>1. CASE params = << >>
      BY <3>1
    <3>2. CASE params # << >>
      <4>1. Accepted
        BY <1>1, <3>2 DEF OpInv, DecisionInv
      <4>2. params = WithDefaults(Op, Constrained(Op, req.params, Policy))
        BY <4>1 DEF Accepted, CheckedParams
      <4>3. DOMAIN req.params \subseteq DOMAIN Op.params \cup {"env", "cluster"}
        BY <4>1 DEF Accepted, Acceptable, Valid
      <4>4. DOMAIN params \subseteq DOMAIN req.params \cup DOMAIN Op.params
        BY <4>2, ParamsGiven
      <4> QED
        BY <4>3, <4>4
    <3> QED
      BY <3>1, <3>2
  <2>2. conf \in DOMAIN Config /\ st \in DOMAIN Config /\ req \in Request /\ pc \in Pc
    BY <1>1 DEF OpInv, DecisionInv
  <2>3. records \in 0..1
    BY <1>1, <2>2 DEF OpInv, OutcomeInv, Pc, Working, HttpSteps, McpSteps, FileSteps
  <2>4. answer \in {Nil, "unreadable", "denied", "error", "result"}
    BY <1>1 DEF OpInv, OutcomeInv, Outcome
  <2> QED
    BY <1>1, <2>1, <2>2, <2>3, <2>4 DEF OpTypeOK, OpInv, OutcomeInv, Status
<1> QED
  BY <1>1, ServerInvariant, ServerKeepsAuditLog, AuditTypeCorrect, PTL

-----------------------------------------------------------------------------

\* The TODO file has no text twice, and an empty one only by a reload, for any
\* number of handlers.
THEOREM TodoIsKept == ServerSpec => []TodoKept
<1>1. TodoInv => TodoKept
  BY DEF TodoInv
<1> QED
  BY <1>1, ServerInvariant, PTL

\* The pure rules, in the form in which runs check them.
THEOREM JqlStaysClosed == ServerSpec => []JqlClosed
<1>1. JqlClosed
  BY QueriesAreClosed DEF JqlClosed
<1> QED
  BY <1>1, PTL

THEOREM PgScopeIsExact == ServerSpec => []PgScopeExact
<1>1. PgScopeExact
  BY StatementsResolved, EntriesAdmitTheirOwn DEF PgScopeExact
<1> QED
  BY <1>1, PTL

-----------------------------------------------------------------------------
(* What allow_fields let an agent see.                                     *)

LEMMA ShapedShows ==
    ASSUME NEW status, status \notin {"refused", "unauthorized"}, NEW body \in Body,
           NEW fields \in Seq(Path), fields # << >>, NEW b, b = Shaped(status, body, fields)
    PROVE  /\ b.kind = "obj" => OnlyFields(b, fields)
           /\ b.kind = "arr" => \A i \in DOMAIN b.of : b.of[i].kind = "obj" /\ OnlyFields(b.of[i], fields)
<1>1. body \in Value \/ body.kind = "raw"
  BY AnswerAssumption
<1>2. CASE body.kind = "obj"
  <2>1. b = Shape(body, fields)
    BY <1>2 DEF Shaped
  <2>2. b \in Confined(fields)
    BY <1>1, <1>2, <2>1, ShapeIsWithin
  <2> QED
    BY <2>2 DEF Confined
<1>3. CASE body.kind = "arr"
  <2> DEFINE s == ShapedObjects(body.of, fields)
  <2>1. b = Arr(s)
    BY <1>3 DEF Shaped
  <2>2. s \in Seq(Confined(fields))
    BY <1>1, <1>3, ElementsAreValues, ObjectsAreWithin
  <2> HIDE DEF s
  <2>3. b.kind = "arr" /\ b.of = s
    BY <2>1 DEF Arr
  <2>4. \A i \in DOMAIN s : s[i] \in Confined(fields)
    BY <2>2, LenProperties, ElementOfSeq
  <2> QED
    BY <2>3, <2>4 DEF Confined
<1>4. CASE body.kind # "obj" /\ body.kind # "arr"
  BY <1>4 DEF Shaped
<1> QED
  BY <1>2, <1>3, <1>4

LEMMA ResultShows ==
    ASSUME NEW body \in Body, Op.fields \in Seq(Path), Op.fields # << >>,
           NEW b, b = ShapedResult(body), b.kind = "obj"
    PROVE  OnlyFields(b, Op.fields)
<1>1. body \in Value \/ body.kind = "raw"
  BY AnswerAssumption
<1>2. CASE body = Null
  <2>1. Null.kind = "null"
    BY DEF Null
  <2>2. b = EmptyObject
    BY <1>2, <2>1 DEF ShapedResult
  <2> QED
    BY <2>2, EmptyShows DEF OnlyFields
<1>3. CASE body # Null /\ body.kind \in {"obj", "null"}
  <2>1. b = Shape(body, Op.fields)
    BY <1>3 DEF ShapedResult
  <2>2. body.kind = "obj" /\ body \in Value
    <3>1. body \in Value
      BY <1>1, <1>3
    <3>2. body \in Flat \cup Nested(Members(MaxNesting))
      BY <3>1, Depths, JsonLevel DEF Value
    <3> QED
      BY <1>3, <3>1, <3>2, ValueKinds
  <2>3. b \in Confined(Op.fields)
    BY <2>1, <2>2, ShapeIsWithin
  <2> QED
    BY <2>3 DEF Confined
<1>4. CASE body.kind \notin {"obj", "null"}
  BY <1>4 DEF ShapedResult
<1> QED
  BY <1>2, <1>3, <1>4

LEMMA ShownFrame ==
    ASSUME UNCHANGED <<req, out>>
    PROVE  AnswerShaped' <=> AnswerShaped
<1>1. Op' = Op
  BY DEF Op
<1> QED
  BY <1>1 DEF AnswerShaped

\* What HTTP and MCP return.
LEMMA HttpShows ==
    ASSUME Handle, HandleFrame, OpInv, Op.connector = "http-rest", Op.fields \in Seq(Path),
           Op.fields # << >>, out'.kind = "result", out'.status \notin {"refused", "unauthorized"}
    PROVE  /\ out'.body.kind = "obj" => OnlyFields(out'.body, Op.fields)
           /\ out'.body.kind = "arr" =>
                 \A i \in DOMAIN out'.body.of :
                     out'.body.of[i].kind = "obj" /\ OnlyFields(out'.body.of[i], Op.fields)
<1>1. out.kind = "none" /\ (pc = "refresh" => out.status = "unauthorized")
  BY DEF OpInv, OutcomeInv, HandleFrame
<1>2. pc \in HttpSteps \cup FileSteps
  BY DEF OpInv, ConnectorInv, HandleFrame, Working
<1>3. ASSUME NEW status, NEW body \in Body, Return(status, Shaped(status, body, Op.fields), {})
      PROVE  /\ out'.body.kind = "obj" => OnlyFields(out'.body, Op.fields)
             /\ out'.body.kind = "arr" =>
                   \A i \in DOMAIN out'.body.of :
                       out'.body.of[i].kind = "obj" /\ OnlyFields(out'.body.of[i], Op.fields)
  <2>1. out'.status = status /\ out'.body = Shaped(status, body, Op.fields)
    BY <1>3, ReturnEnds
  <2> QED
    BY <2>1, ShapedShows
<1>4. ~Lost
  BY FailEnds DEF Lost
<1>5. CASE pc \in {"build", "crumb", "lists", "info"}
  BY <1>1, <1>5, StepAt, FailEnds, NoOutHolds DEF Build, FetchCrumb, CheckLists, FileInfo
<1>6. CASE pc = "send"
  <2>1. Send
    BY <1>6, StepAt
  <2>2. PICK x \in Exchanges, body \in Body :
           \/ out' = [NoOut EXCEPT !.status = x[1], !.body = body]
           \/ Return(x[1], Shaped(x[1], body, Op.fields), {})
    BY <1>4, <2>1 DEF Send
  <2>3. out' # [NoOut EXCEPT !.status = x[1], !.body = body]
    <3>1. [NoOut EXCEPT !.status = x[1], !.body = body].kind = "none"
      BY NoOutHolds
    <3> QED
      BY <3>1
  <2>4. Return(x[1], Shaped(x[1], body, Op.fields), {})
    BY <2>2, <2>3
  <2> QED
    BY <1>3, <2>4
<1>7. CASE pc = "retry"
  <2>1. Retry
    BY <1>7, StepAt
  <2>2. PICK x \in Exchanges, body \in Body : Return(x[1], Shaped(x[1], body, Op.fields), {})
    BY <1>4, <2>1 DEF Retry
  <2> QED
    BY <1>3, <2>2
<1>8. CASE pc = "refresh"
  <2>1. RefreshToken
    BY <1>8, StepAt
  <2>2. out' = out \/ Return(out.status, out.body, {})
    BY <2>1 DEF RefreshToken
  <2> QED
    BY <1>1, <1>8, <2>2, ReturnEnds
<1>9. CASE pc = "download"
  <2>1. Download
    BY <1>9, StepAt
  <2>2. Return("ok", EmptyObject, out.seen)
    BY <2>1, FailEnds DEF Download
  <2>3. out'.body = EmptyObject
    BY <2>2, ReturnEnds
  <2> QED
    BY <2>3, EmptyShows DEF OnlyFields
<1> QED
  BY <1>2, <1>5, <1>6, <1>7, <1>8, <1>9 DEF HttpSteps, FileSteps

LEMMA McpShows ==
    ASSUME Handle, HandleFrame, OpInv, Op.connector = "mcp", Op.fields \in Seq(Path),
           Op.fields # << >>, out'.kind = "result", out'.body.kind = "obj"
    PROVE  OnlyFields(out'.body, Op.fields)
<1>1. out.kind = "none"
  BY DEF OpInv, OutcomeInv, HandleFrame
<1>2. pc \in McpSteps
  BY DEF OpInv, ConnectorInv, HandleFrame, Working, ViaHttp
<1>3. ~Lost
  BY FailEnds DEF Lost
<1>4. CASE pc \in {"initialize", "notify"}
  BY <1>1, <1>4, StepAt, FailEnds DEF Initialize, Notify
<1>5. CASE pc = "call"
  <2>1. CallTool
    BY <1>5, StepAt
  <2>2. PICK x \in { <<"ok", TRUE>>, <<"refused", FALSE>> }, body \in Body :
            Return(x[1], ShapedResult(body), {})
    BY <1>3, <2>1, FailEnds DEF CallTool
  <2>3. out'.body = ShapedResult(body)
    BY <2>2, ReturnEnds
  <2> QED
    BY <2>3, ResultShows
<1> QED
  BY <1>2, <1>4, <1>5 DEF McpSteps

LEMMA ShownStep ==
    ASSUME OpInv, AnswerShaped, [ServerNext]_serverVars
    PROVE  AnswerShaped'
<1>1. Handle \/ Crash \/ Aside
  BY ServerSteps DEF OpInv, DecisionInv
<1>2. CASE Aside
  BY <1>2, ShownFrame DEF Aside
<1>3. CASE Crash \/ Arrive
  BY <1>3 DEF Crash, Arrive, AnswerShaped, NoOut
<1>4. CASE Unreadable \/ Record \/ Reply
  BY <1>4, ShownFrame DEF Unreadable, Record, Reply
<1>5. CASE Decide
  <2>1. out'.kind # "result"
    BY <1>5, DecideStep DEF Decide, OpInv, OutcomeInv, DecisionInv
  <2> QED
    BY <2>1 DEF AnswerShaped
<1>6. CASE Handle /\ HandleFrame
  <2>1. Op' = Op
    BY <1>6, Framed DEF HandleFrame
  <2>2. Op.fields \in Seq(Path)
    BY AnswerAssumption, RequestAssumption DEF Op, OpInv, DecisionInv
  <2> QED
    BY <1>6, <2>1, <2>2, HttpShows, McpShows DEF AnswerShaped
<1> QED
  BY <1>1, <1>2, <1>3, <1>4, <1>5, <1>6, WorkingSteps

\* allow_fields: shaping leaves of any object exactly what its fields name, where
\* it stood, and no result of HTTP or MCP shows an agent anything else.
THEOREM ShapeIsExact == ServerSpec => []ShapeExact
<1>1. ServerInit => AnswerShaped
  BY DEF ServerInit, OpInit, NoOut, AnswerShaped
<1>2. OpInv /\ AnswerShaped /\ [ServerNext]_serverVars => AnswerShaped'
  BY ShownStep
<1>3. AnswerShaped => ShapeExact
  BY ObjectsAreShaped DEF ShapeExact
<1> QED
  BY <1>1, <1>2, <1>3, ServerInvariant, PTL
=============================================================================
