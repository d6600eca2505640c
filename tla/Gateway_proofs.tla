--------------------------- MODULE Gateway_proofs ---------------------------
(***************************************************************************)
(* For any number of requests and reloads and any contents of the files:   *)
(* type correctness of the pipeline, wholeness of the published state,     *)
(* that a call goes upstream only on the permission of one state of the    *)
(* request's life, and that a listing shows nothing but what such states   *)
(* have granted, defined and registered.                                   *)
(*                                                                         *)
(* IInv adds what a reload holds when it publishes (Loaded), and that the  *)
(* state a request decides on was in force during its life (SnapshotSeen); *)
(* ListSeen says the same of what a listing still has to look at.          *)
(***************************************************************************)
EXTENDS Gateway, TLAPS

IInv == TypeOK /\ StateWhole /\ Loaded /\ SnapshotSeen /\ CallPermittedByOneState

\* What a step of one request that leaves everything else alone has to keep.
LEMMA RequestMove ==
    ASSUME IInv, NEW r \in Request, NEW from, NEW to \in RequestType,
           Step(r, from, to), from # "idle", UNCHANGED seen, Quiet,
           to.pc # "idle", to.call = req[r].call,
           to.pc = "decide" => to.st \in seen[r] /\ to.agent = to.st.cfg,
           to.pc \in {"call", "audit", "reply"} =>
               \E st \in seen[r] : Permits(st, to.call)
    PROVE  IInv'
<1> USE DEF IInv
<1>1. /\ req' \in [Request -> RequestType]
      /\ req[r].pc = from
      /\ req'[r] = to
      /\ \A q \in Request \ {r} : req'[q] = req[q]
  BY DEF TypeOK, Step
<1>2. TypeOK'
  BY <1>1 DEF TypeOK, Quiet, disk
<1>3. StateWhole' /\ Loaded'
  BY DEF StateWhole, Loaded, Quiet, disk
<1>4. SnapshotSeen'
  BY <1>1 DEF SnapshotSeen, Quiet, disk
<1>5. CallPermittedByOneState'
  BY <1>1 DEF CallPermittedByOneState, Performed, Quiet, disk
<1>6. QED
  BY <1>2, <1>3, <1>4, <1>5

\* A reload step that does not publish keeps what the requests rely on.
LEMMA ReloadMove ==
    ASSUME IInv, NEW l \in Reload, NEW from, NEW to \in ReloadType,
           StepReload(l, from, to), UNCHANGED <<disk, state, req, seen>>,
           checksum' \in Config \cup {Broken},
           to.pc \in {"ops", "sum", "publish", "report"} => to.cfg \in Config,
           to.pc \in {"sum", "publish", "report"} => to.reg \in Registry,
           to.pc \in {"publish", "report"} => to.sum \in Config \cup {Broken}
    PROVE  IInv'
<1> USE DEF IInv
<1>1. /\ rl' \in [Reload -> ReloadType]
      /\ rl'[l] = to
      /\ \A m \in Reload \ {l} : rl'[m] = rl[m]
  BY DEF TypeOK, StepReload
<1>2. TypeOK'
  BY <1>1 DEF TypeOK, disk
<1>3. Loaded'
  BY <1>1 DEF Loaded
<1>4. StateWhole' /\ SnapshotSeen' /\ CallPermittedByOneState'
  BY DEF StateWhole, SnapshotSeen, CallPermittedByOneState, Performed
<1>5. QED
  BY <1>2, <1>3, <1>4

\* The check of executeOp on the loaded state lets through only what that
\* state permits.
LEMMA VerdictAllows ==
    ASSUME NEW st \in RuntimeState, NEW c \in Call, NEW problem \in Problem,
           NEW tunnelOK \in BOOLEAN, tunnelOK => st.checker # Nil,
           Verdict(st, st.cfg, c, problem, tunnelOK) = "allow"
    PROVE  Permits(st, c)
  BY DEF Verdict, Permits, Problem

LEMMA InvInit == Init => IInv
<1> USE GatewayAssumption
<1> SUFFICES ASSUME Init PROVE IInv
  OBVIOUS
<1>1. TypeOK
  BY DEF Init, TypeOK, RuntimeState, ReloadType, RequestType, IdleReload, IdleRequest
<1>2. StateWhole /\ Loaded /\ SnapshotSeen /\ CallPermittedByOneState
  BY DEF Init, StateWhole, Loaded, SnapshotSeen, CallPermittedByOneState, Performed,
         IdleReload, IdleRequest
<1>3. QED
  BY <1>1, <1>2 DEF IInv

LEMMA InvReload ==
    ASSUME IInv, NEW l \in Reload, ReloadArrives(l) \/ ReloadStep(l)
    PROVE  IInv'
<1> USE DEF IInv
<1>a. rl[l] \in ReloadType /\ checksum \in Config \cup {Broken}
  BY DEF TypeOK
<1>1. CASE ReloadArrives(l)
  <2>1. [rl[l] EXCEPT !.pc = "config"] \in ReloadType
    BY <1>a DEF ReloadType
  <2>2. QED
    BY <1>1, <1>a, <2>1, ReloadMove DEF ReloadArrives, ReloadType
<1>2. CASE LoadConfig(l)
  <2>1. CASE cfgFile # Broken
    <3>1. cfgFile \in Config
      BY <2>1 DEF TypeOK
    <3>2. [rl[l] EXCEPT !.pc = "ops", !.cfg = cfgFile] \in ReloadType
      BY <1>a, <3>1 DEF ReloadType
    <3>3. QED
      BY <1>2, <1>a, <2>1, <3>1, <3>2, ReloadMove DEF LoadConfig, ReloadType
  <2>2. CASE cfgFile = Broken
    <3>1. IdleReload \in ReloadType
      BY DEF ReloadType, IdleReload
    <3>2. QED
      BY <1>2, <1>a, <2>2, <3>1, ReloadMove DEF LoadConfig, IdleReload
  <2>3. QED
    BY <2>1, <2>2
<1>3. CASE LoadOps(l)
  <2>0. rl[l].pc = "ops" => rl[l].cfg \in Config
    BY DEF Loaded
  <2>1. CASE opsFile # Broken
    <3>1. opsFile \in Registry
      BY <2>1 DEF TypeOK
    <3>2. [rl[l] EXCEPT !.pc = "sum", !.reg = opsFile] \in ReloadType
      BY <1>a, <3>1 DEF ReloadType
    <3>3. QED
      BY <1>3, <1>a, <2>0, <2>1, <3>1, <3>2, ReloadMove DEF LoadOps, ReloadType, StepReload
  <2>2. CASE opsFile = Broken
    <3>1. IdleReload \in ReloadType
      BY DEF ReloadType, IdleReload
    <3>2. QED
      BY <1>3, <1>a, <2>2, <3>1, ReloadMove DEF LoadOps, IdleReload
  <2>3. QED
    BY <2>1, <2>2
<1>4. CASE ComputeChecksum(l)
  <2>1. rl[l].pc = "sum" /\ rl[l].cfg \in Config /\ rl[l].reg \in Registry
    BY <1>4 DEF ComputeChecksum, StepReload, Loaded
  <2>2. cfgFile \in Config \cup {Broken}
    BY DEF TypeOK
  <2>3. [rl[l] EXCEPT !.pc = "publish", !.sum = cfgFile] \in ReloadType
    BY <1>a, <2>2 DEF ReloadType
  <2>4. QED
    BY <1>4, <1>a, <2>1, <2>2, <2>3, ReloadMove DEF ComputeChecksum, ReloadType
<1>5. CASE Publish(l)
  <2>1. /\ rl[l].pc = "publish" /\ rl[l].cfg \in Config /\ rl[l].reg \in Registry
        /\ rl[l].sum \in Config \cup {Broken}
    BY <1>5 DEF Publish, StepReload, Loaded
  <2>2. /\ state' = [cfg |-> rl[l].cfg, reg |-> rl[l].reg, checker |-> rl[l].cfg]
        /\ state' \in RuntimeState
    BY <1>5, <2>1 DEF Publish, RuntimeState
  <2>3. /\ rl' = [rl EXCEPT ![l] = [rl[l] EXCEPT !.pc = "report"]]
        /\ [rl[l] EXCEPT !.pc = "report"] \in ReloadType
        /\ UNCHANGED <<cfgFile, opsFile, checksum, req>>
    BY <1>5, <1>a DEF Publish, StepReload, ReloadType, disk
  <2>4. \A r \in Request :
          seen'[r] = IF req[r].pc = "idle" THEN {} ELSE seen[r] \cup {state'}
    BY <1>5 DEF Publish, Remember
  <2>5. seen' \in [Request -> SUBSET RuntimeState]
    BY <1>5, <2>2 DEF Publish, Remember, TypeOK
  <2>6. TypeOK'
    BY <2>2, <2>3, <2>5 DEF TypeOK
  <2>7. StateWhole'
    BY <2>2 DEF StateWhole
  <2>8. Loaded'
    BY <2>1, <2>3, <1>a DEF Loaded, TypeOK, ReloadType
  <2>9. SnapshotSeen'
    <3>1. state'.checker = state'.cfg
      BY <2>2
    <3> SUFFICES ASSUME NEW r \in Request
                 PROVE  /\ req[r].pc # "idle" => req[r].call \in Call /\ state' \in seen'[r]
                        /\ req[r].pc = "decide" =>
                             req[r].st \in seen'[r] /\ req[r].agent = req[r].st.cfg
                        /\ \A st \in seen'[r] : st.checker = st.cfg
      BY <2>3 DEF SnapshotSeen
    <3>2. CASE req[r].pc = "idle"
      BY <3>2, <2>4
    <3>3. CASE req[r].pc # "idle"
      BY <3>1, <3>3, <2>4, ZenonT(60) DEF SnapshotSeen
    <3>4. QED
      BY <3>2, <3>3
  <2>10. CallPermittedByOneState'
    BY <2>3, <2>4 DEF CallPermittedByOneState, Performed
  <2>11. QED
    BY <2>6, <2>7, <2>8, <2>9, <2>10
<1>6. CASE PublishChecksum(l)
  <2>1. IdleReload \in ReloadType
    BY DEF ReloadType, IdleReload
  <2>2. rl[l].sum \in Config \cup {Broken}
    BY <1>6 DEF PublishChecksum, StepReload, Loaded
  <2>3. QED
    BY <1>6, <1>a, <2>1, <2>2, ReloadMove DEF PublishChecksum, IdleReload
<1>7. QED
  BY <1>1, <1>2, <1>3, <1>4, <1>5, <1>6 DEF ReloadStep

LEMMA InvRequest ==
    ASSUME IInv, NEW r \in Request, RequestStep(r)
    PROVE  IInv'
<1> USE DEF IInv
<1>a. /\ req[r] \in RequestType
      /\ state \in RuntimeState
      /\ state.cfg \in Config
  BY DEF TypeOK, RuntimeState
<1>b. req[r].pc # "idle" => req[r].call \in Call /\ state \in seen[r]
  BY DEF SnapshotSeen
<1>c. Granted(r) \subseteq Role
  BY DEF Granted, GrantedRoles
<1>d. Performed(r) => \E st \in seen[r] : Permits(st, req[r].call)
  BY DEF CallPermittedByOneState
<1>1. CASE Authenticate(r)
  <2>1. Authenticated(r) \in RequestType /\ [req[r] EXCEPT !.pc = "reauth"] \in RequestType
    BY <1>a DEF Authenticated, RequestType
  <2>2. QED
    BY <1>1, <1>a, <2>1, RequestMove DEF Authenticate, Authenticated, RequestType
<1>2. CASE AuthenticateAgain(r)
  <2>1. /\ Authenticated(r) \in RequestType
        /\ [req[r] EXCEPT !.pc = IF req[r].kind = "list" THEN "answer" ELSE "deny"]
             \in RequestType
    BY <1>a DEF Authenticated, RequestType
  <2>2. QED
    BY <1>2, <1>a, <2>1, RequestMove DEF AuthenticateAgain, Authenticated, RequestType
<1>3. CASE LoadState(r)
  <2>1. [req[r] EXCEPT !.pc = "decide", !.st = state, !.agent = state.cfg] \in RequestType
    BY <1>a DEF RequestType
  <2>2. QED
    BY <1>3, <1>a, <1>b, <2>1, RequestMove DEF LoadState, RequestType, Step
<1>4. CASE Decide(r)
  <2>1. PICK problem \in Problem, up \in BOOLEAN :
          Step(r, "decide", AfterVerdict(r,
               Verdict(req[r].st, req[r].agent, req[r].call, problem,
                       CheckTunnel(req[r].st, up) \/ req[r].kind = "dryrun")))
    BY <1>4 DEF Decide
  <2> DEFINE tunnelOK == CheckTunnel(req[r].st, up) \/ req[r].kind = "dryrun"
             verdict  == Verdict(req[r].st, req[r].agent, req[r].call, problem, tunnelOK)
             to       == AfterVerdict(r, verdict)
  <2>2. /\ req[r].call \in Call
        /\ req[r].st \in seen[r]
        /\ req[r].st \in RuntimeState
        /\ req[r].agent = req[r].st.cfg
    BY <2>1, <1>b DEF Step, SnapshotSeen, TypeOK
  <2>3. to \in RequestType
    BY <1>a, <1>c, ZenonT(60) DEF AfterVerdict, RequestType
  <2>4. /\ to.pc \in {"call", "answer", "deny"}
        /\ to.call = req[r].call
        /\ to.pc = "call" => verdict = "allow" /\ req[r].kind = "execute"
    BY <1>a DEF AfterVerdict, RequestType
  <2>5. to.pc = "call" => Permits(req[r].st, req[r].call)
    <3>1. tunnelOK \in BOOLEAN
      BY DEF CheckTunnel
    <3>2. req[r].kind = "execute" => (tunnelOK => req[r].st.checker # Nil)
      BY DEF CheckTunnel
    <3> HIDE DEF tunnelOK
    <3>3. QED
      BY <2>2, <2>4, <3>1, <3>2, VerdictAllows
  <2>6. Step(r, "decide", to) /\ UNCHANGED seen /\ Quiet
    BY <1>4, <2>1 DEF Decide
  <2> HIDE DEF to
  <2>7. QED
    BY <2>2, <2>3, <2>4, <2>5, <2>6, RequestMove
<1>5. CASE AuditDeny(r)
  <2>1. [req[r] EXCEPT !.pc = IF req[r].roles # {} THEN "roles" ELSE "answer"] \in RequestType
    BY <1>a DEF RequestType
  <2>2. QED
    BY <1>5, <1>a, <2>1, RequestMove DEF AuditDeny, RequestType
<1>6. CASE CallUpstream(r)
  <2>1. [req[r] EXCEPT !.pc = "audit"] \in RequestType
    BY <1>a DEF RequestType
  <2>2. QED
    BY <1>6, <1>a, <1>d, <2>1, RequestMove DEF CallUpstream, RequestType, Step, Performed
<1>7. CASE AuditAllow(r)
  <2>1. [req[r] EXCEPT !.pc = "reply"] \in RequestType
    BY <1>a DEF RequestType
  <2>2. QED
    BY <1>7, <1>a, <1>d, <2>1, RequestMove DEF AuditAllow, RequestType, Step, Performed
<1>8. CASE Answer(r)
  <2>1. IdleRequest \in RequestType /\ IdleRequest.pc = "idle"
    BY DEF IdleRequest, RequestType
  <2>2. /\ req' \in [Request -> RequestType]
        /\ req'[r] = IdleRequest
        /\ \A q \in Request \ {r} : req'[q] = req[q]
    BY <1>8, <2>1 DEF Answer, TypeOK
  <2>3. /\ seen' \in [Request -> SUBSET RuntimeState]
        /\ seen'[r] = {}
        /\ \A q \in Request \ {r} : seen'[q] = seen[q]
    BY <1>8 DEF Answer, TypeOK
  <2>4. UNCHANGED <<cfgFile, opsFile, state, checksum, rl>>
    BY <1>8 DEF Answer, Quiet, disk
  <2>5. TypeOK' /\ StateWhole' /\ Loaded'
    BY <2>2, <2>3, <2>4 DEF TypeOK, StateWhole, Loaded
  <2>6. SnapshotSeen'
    BY <2>1, <2>2, <2>3, <2>4 DEF SnapshotSeen
  <2>7. CallPermittedByOneState'
    BY <2>1, <2>2, <2>3 DEF CallPermittedByOneState, Performed
  <2>8. QED
    BY <2>5, <2>6, <2>7
<1>9. CASE ListAgent(r)
  <2>1. /\ [req[r] EXCEPT !.pc = "workspace", !.agent = state.cfg] \in RequestType
        /\ [req[r] EXCEPT !.pc = "answer"] \in RequestType
    BY <1>a DEF RequestType
  <2>2. QED
    BY <1>9, <1>a, <2>1, RequestMove DEF ListAgent, RequestType
<1>10. CASE ListWorkspace(r)
  <2>1. /\ [req[r] EXCEPT !.pc = "roles", !.ws = state.cfg, !.roles = Granted(r), !.agent = Nil]
              \in RequestType
        /\ [req[r] EXCEPT !.pc = "answer"] \in RequestType
    BY <1>a, <1>c DEF RequestType
  <2>2. QED
    BY <1>10, <1>a, <2>1, RequestMove DEF ListWorkspace, RequestType
<1>11. CASE ListRole(r)
  <2>1. PICK role \in req[r].roles :
          Step(r, "roles", [req[r] EXCEPT !.pc = "ops", !.ops = state.cfg.roles[role],
                                          !.roles = @ \ {role}])
    BY <1>11 DEF ListRole
  <2>2. state.cfg.roles[role] \subseteq Op
    BY <1>a, <2>1, GatewayAssumption DEF RequestType
  <2>3. [req[r] EXCEPT !.pc = "ops", !.ops = state.cfg.roles[role], !.roles = @ \ {role}]
          \in RequestType
    BY <1>a, <2>2 DEF RequestType
  <2>4. QED
    BY <1>11, <1>a, <2>1, <2>3, RequestMove DEF ListRole, RequestType
<1>12. CASE ListOp(r)
  <2> DEFINE to(o, keep) == [req[r] EXCEPT !.ops = @ \ {o},
                                           !.listed = IF keep THEN @ \cup {o} ELSE @]
  <2>1. PICK o \in req[r].ops, keep \in BOOLEAN : Step(r, "ops", to(o, keep))
    BY <1>12 DEF ListOp
  <2>2. to(o, keep) \in RequestType
    BY <1>a DEF RequestType
  <2>3. QED
    BY <1>12, <1>a, <2>1, <2>2, RequestMove, ZenonT(60) DEF ListOp, RequestType, Step
<1>13. CASE ListEnd(r)
  <2>1. [req[r] EXCEPT !.pc = IF req[r].roles = {} THEN "answer" ELSE "roles"] \in RequestType
    BY <1>a DEF RequestType
  <2>2. QED
    BY <1>13, <1>a, <2>1, RequestMove DEF ListEnd, RequestType
<1>14. QED
  BY <1>1, <1>2, <1>3, <1>4, <1>5, <1>6, <1>7, <1>8, <1>9, <1>10, <1>11, <1>12, <1>13
     DEF RequestStep

LEMMA InvArrive ==
    ASSUME IInv, NEW r \in Request, NEW kind \in {"execute", "dryrun", "list"},
           NEW c \in Call, Arrive(r, kind, c)
    PROVE  IInv'
<1> USE DEF IInv
<1> DEFINE to == [req[r] EXCEPT !.pc = "auth", !.kind = kind, !.call = c]
<1>1. to \in RequestType /\ to.pc = "auth" /\ to.call = c
  BY ZenonT(60) DEF TypeOK, RequestType
<1>2. Step(r, "idle", to) /\ seen' = [seen EXCEPT ![r] = {state}] /\ Quiet
  BY DEF Arrive
<1> HIDE DEF to
<1>3. /\ req' \in [Request -> RequestType]
      /\ req'[r] = to
      /\ \A q \in Request \ {r} : req'[q] = req[q]
  BY <1>1, <1>2 DEF Step, TypeOK
<1>4. /\ seen' \in [Request -> SUBSET RuntimeState]
      /\ seen'[r] = {state}
      /\ \A q \in Request \ {r} : seen'[q] = seen[q]
  BY <1>2 DEF TypeOK
<1>5. UNCHANGED <<cfgFile, opsFile, state, checksum, rl>>
  BY <1>2 DEF Quiet, disk
<1>6. TypeOK' /\ StateWhole' /\ Loaded'
  BY <1>3, <1>4, <1>5 DEF TypeOK, StateWhole, Loaded
<1>7. SnapshotSeen'
  BY <1>1, <1>3, <1>4, <1>5 DEF SnapshotSeen, StateWhole
<1>8. CallPermittedByOneState'
  BY <1>1, <1>3, <1>4 DEF CallPermittedByOneState, Performed
<1>9. QED
  BY <1>6, <1>7, <1>8

LEMMA InvNext == IInv /\ [Next]_vars => IInv'
<1> SUFFICES ASSUME IInv, [Next]_vars PROVE IInv'
  OBVIOUS
<1> USE DEF IInv
<1>1. CASE Deploy
  BY <1>1 DEF Deploy, TypeOK, StateWhole, Loaded, SnapshotSeen, CallPermittedByOneState, Performed
<1>2. CASE UNCHANGED vars
  BY <1>2 DEF vars, TypeOK, StateWhole, Loaded, SnapshotSeen, CallPermittedByOneState, Performed
<1>3. QED
  BY <1>1, <1>2, InvReload, InvRequest, InvArrive DEF Next

LEMMA Invariance == Spec => []IInv
  BY InvInit, InvNext, PTL DEF Spec

\* Type correctness: a published state and a request's snapshot are always
\* contents that config.Load and NewRegistry accepted.
THEOREM GatewayTypeCorrect == Spec => []TypeOK
<1>1. IInv => TypeOK
  BY DEF IInv
<1>2. QED
  BY <1>1, Invariance, PTL

\* The published state is whole after every reload, successful or not.
THEOREM StateAlwaysWhole == Spec => []StateWhole
<1>1. IInv => StateWhole
  BY DEF IInv
<1>2. QED
  BY <1>1, Invariance, PTL

\* No call goes upstream but on the permission of one published state that was
\* in force during the request: executeOp decides on one snapshot.
THEOREM CallsPermitted == Spec => []CallPermittedByOneState
<1>1. IInv => CallPermittedByOneState
  BY DEF IInv
<1>2. QED
  BY <1>1, Invariance, PTL

-----------------------------------------------------------------------------
(* Listings.                                                               *)

\* What a step of one request has to keep for its listing.
LEMMA ListMove ==
    ASSUME IInv, ListSeen, NEW r \in Request, NEW from, NEW to \in RequestType,
           Step(r, from, to), UNCHANGED seen, to.pc # "idle", to.call = req[r].call,
           to.pc = "workspace" => \E s \in seen[r] : s.cfg = to.agent,
           \A role \in to.roles : RoleSeen(r, role),
           \A o \in to.ops : OpSeen(r, o),
           \A o \in to.listed : OpSeen(r, o) /\ \E s \in seen[r] : SiteOf(s.reg, o) # Nil
    PROVE  ListSeen'
<1>1. req'[r] = to /\ \A q \in Request \ {r} : req'[q] = req[q]
  BY DEF IInv, TypeOK, Step
<1>2. \A q \in Request : req'[q].call = req[q].call
  BY <1>1
<1>3. \A q \in Request : (\A role : RoleSeen(q, role)' = RoleSeen(q, role))
                      /\ (\A o : OpSeen(q, o)' = OpSeen(q, o))
  BY <1>2 DEF RoleSeen, OpSeen
<1> SUFFICES ASSUME NEW q \in Request
             PROVE  /\ req'[q].pc = "idle" => req'[q].roles = {} /\ req'[q].ops = {} /\ req'[q].listed = {}
                    /\ req'[q].pc = "workspace" => \E s \in seen[q] : s.cfg = req'[q].agent
                    /\ \A role \in req'[q].roles : RoleSeen(q, role)
                    /\ \A o \in req'[q].ops : OpSeen(q, o)
                    /\ \A o \in req'[q].listed :
                          OpSeen(q, o) /\ \E s \in seen[q] : SiteOf(s.reg, o) # Nil
  BY <1>3 DEF ListSeen
<1> QED
  BY <1>1 DEF ListSeen

LEMMA ListRequest ==
    ASSUME IInv, ListSeen, NEW r \in Request, RequestStep(r)
    PROVE  ListSeen'
<1>a. req[r] \in RequestType /\ state \in RuntimeState /\ state.cfg \in Config
  BY DEF IInv, TypeOK, RuntimeState
<1>b. req[r].pc # "idle" => state \in seen[r]
  BY DEF IInv, SnapshotSeen
<1>c. /\ req[r].pc = "workspace" => \E s \in seen[r] : s.cfg = req[r].agent
      /\ \A role \in req[r].roles : RoleSeen(r, role)
      /\ \A o \in req[r].ops : OpSeen(r, o)
      /\ \A o \in req[r].listed : OpSeen(r, o) /\ \E s \in seen[r] : SiteOf(s.reg, o) # Nil
  BY DEF ListSeen
<1>d. ASSUME NEW s \in seen[r], s.cfg = req[r].agent
      PROVE  \A role \in Granted(r) : RoleSeen(r, role)
  BY <1>d DEF Granted, RoleSeen
<1>e. Granted(r) \subseteq Role
  BY DEF Granted, GrantedRoles
<1>1. ASSUME NEW from, NEW to \in RequestType, Step(r, from, to), UNCHANGED seen,
             to.pc \notin {"idle", "workspace"}, to.call = req[r].call,
             to.roles = req[r].roles, to.ops = req[r].ops, to.listed = req[r].listed
      PROVE  ListSeen'
  BY <1>c, <1>1, ListMove
<1>2. CASE Authenticate(r)
  <2> DEFINE to == IF HasAgent(state.cfg, req[r].call.token)
                   THEN Authenticated(r) ELSE [req[r] EXCEPT !.pc = "reauth"]
  <2>1. /\ to \in RequestType /\ to.pc \in {"agent", "load", "reauth"} /\ to.call = req[r].call
        /\ to.roles = req[r].roles /\ to.ops = req[r].ops /\ to.listed = req[r].listed
    BY <1>a DEF Authenticated, RequestType
  <2>2. Step(r, "auth", to) /\ UNCHANGED seen
    BY <1>2 DEF Authenticate
  <2> HIDE DEF to
  <2> QED
    BY <1>1, <2>1, <2>2
<1>3. CASE AuthenticateAgain(r)
  <2> DEFINE to == IF HasAgent(state.cfg, req[r].call.token) THEN Authenticated(r)
                   ELSE [req[r] EXCEPT !.pc = IF req[r].kind = "list" THEN "answer" ELSE "deny"]
  <2>1. /\ to \in RequestType /\ to.pc \in {"agent", "load", "answer", "deny"} /\ to.call = req[r].call
        /\ to.roles = req[r].roles /\ to.ops = req[r].ops /\ to.listed = req[r].listed
    BY <1>a DEF Authenticated, RequestType
  <2>2. Step(r, "reauth", to) /\ UNCHANGED seen
    BY <1>3 DEF AuthenticateAgain
  <2> HIDE DEF to
  <2> QED
    BY <1>1, <2>1, <2>2
<1>4. CASE LoadState(r)
  <2> DEFINE to == [req[r] EXCEPT !.pc = "decide", !.st = state, !.agent = state.cfg]
  <2>1. /\ to \in RequestType /\ to.pc = "decide" /\ to.call = req[r].call
        /\ to.roles = req[r].roles /\ to.ops = req[r].ops /\ to.listed = req[r].listed
    BY <1>a DEF RequestType
  <2>2. Step(r, "load", to) /\ UNCHANGED seen
    BY <1>4 DEF LoadState
  <2> HIDE DEF to
  <2> QED
    BY <1>1, <2>1, <2>2
<1>5. CASE Decide(r)
  <2>1. PICK verdict : Step(r, "decide", AfterVerdict(r, verdict)) /\ UNCHANGED seen
    BY <1>5 DEF Decide
  <2> DEFINE to == AfterVerdict(r, verdict)
  <2>2. /\ to \in RequestType /\ to.pc \in {"call", "answer", "deny"} /\ to.call = req[r].call
        /\ to.roles \subseteq req[r].roles \cup Granted(r)
        /\ to.ops = req[r].ops /\ to.listed = req[r].listed
    BY <1>a, <1>e, ZenonT(60) DEF AfterVerdict, RequestType
  <2>3. req[r].st \in seen[r] /\ req[r].st.cfg = req[r].agent
    BY <2>1 DEF Step, IInv, SnapshotSeen
  <2>4. \A role \in to.roles : RoleSeen(r, role)
    BY <1>c, <1>d, <2>2, <2>3
  <2>5. Step(r, "decide", to) /\ UNCHANGED seen
    BY <2>1
  <2> HIDE DEF to
  <2> QED
    BY <1>c, <2>2, <2>4, <2>5, ListMove
<1>6. ASSUME NEW from, NEW pc \in {"answer", "roles", "audit", "reply"},
             Step(r, from, [req[r] EXCEPT !.pc = pc]), UNCHANGED seen
      PROVE  ListSeen'
  <2> DEFINE to == [req[r] EXCEPT !.pc = pc]
  <2>1. /\ to \in RequestType /\ to.pc = pc /\ to.call = req[r].call
        /\ to.roles = req[r].roles /\ to.ops = req[r].ops /\ to.listed = req[r].listed
    BY <1>a DEF RequestType
  <2>2. Step(r, from, to) /\ UNCHANGED seen
    BY <1>6
  <2> HIDE DEF to
  <2> QED
    BY <1>1, <2>1, <2>2
<1>7. CASE AuditDeny(r) \/ CallUpstream(r) \/ AuditAllow(r) \/ ListEnd(r)
  BY <1>6, <1>7 DEF AuditDeny, CallUpstream, AuditAllow, ListEnd
<1>8. CASE Answer(r)
  <2>1. req'[r] = IdleRequest /\ \A q \in Request \ {r} : req'[q] = req[q] /\ seen'[q] = seen[q]
    BY <1>8 DEF Answer, IInv, TypeOK
  <2>2. IdleRequest.pc = "idle" /\ IdleRequest.roles = {} /\ IdleRequest.ops = {} /\ IdleRequest.listed = {}
    BY DEF IdleRequest
  <2>3. \A q \in Request \ {r} : (\A role : RoleSeen(q, role)' = RoleSeen(q, role))
                              /\ (\A o : OpSeen(q, o)' = OpSeen(q, o))
    BY <2>1 DEF RoleSeen, OpSeen
  <2> QED
    BY <2>1, <2>2, <2>3 DEF ListSeen
<1>9. CASE ListAgent(r)
  <2> DEFINE to == [req[r] EXCEPT !.pc = "workspace", !.agent = state.cfg]
  <2>1. /\ to \in RequestType /\ to.pc = "workspace" /\ to.call = req[r].call /\ to.agent = state.cfg
        /\ to.roles = req[r].roles /\ to.ops = req[r].ops /\ to.listed = req[r].listed
    BY <1>a DEF RequestType
  <2>2. /\ req[r].pc = "agent" /\ UNCHANGED seen
        /\ Step(r, "agent", to) \/ Step(r, "agent", [req[r] EXCEPT !.pc = "answer"])
    BY <1>9 DEF ListAgent, Step
  <2> HIDE DEF to
  <2>3. CASE Step(r, "agent", to)
    <3>1. \E s \in seen[r] : s.cfg = to.agent
      BY <1>b, <2>1, <2>2
    <3> QED
      BY <1>c, <2>1, <2>2, <2>3, <3>1, ListMove
  <2> QED
    BY <1>6, <2>2, <2>3
<1>10. CASE ListWorkspace(r)
  <2> DEFINE to == [req[r] EXCEPT !.pc = "roles", !.ws = state.cfg, !.roles = Granted(r), !.agent = Nil]
  <2>1. /\ to \in RequestType /\ to.pc = "roles" /\ to.call = req[r].call
        /\ to.roles = Granted(r) /\ to.ops = req[r].ops /\ to.listed = req[r].listed
    BY <1>a, <1>e DEF RequestType
  <2>2. /\ req[r].pc = "workspace" /\ UNCHANGED seen
        /\ Step(r, "workspace", to) \/ Step(r, "workspace", [req[r] EXCEPT !.pc = "answer"])
    BY <1>10 DEF ListWorkspace, Step
  <2>3. \A role \in Granted(r) : RoleSeen(r, role)
    BY <1>c, <1>d, <2>2
  <2> HIDE DEF to
  <2> QED
    BY <1>c, <1>6, <2>1, <2>2, <2>3, ListMove
<1>11. CASE ListRole(r)
  <2>1. PICK role \in req[r].roles :
          Step(r, "roles", [req[r] EXCEPT !.pc = "ops", !.ops = state.cfg.roles[role],
                                          !.roles = @ \ {role}])
    BY <1>11 DEF ListRole
  <2> DEFINE to == [req[r] EXCEPT !.pc = "ops", !.ops = state.cfg.roles[role], !.roles = @ \ {role}]
  <2>2. state.cfg.roles[role] \subseteq Op
    BY <1>a, <2>1, GatewayAssumption DEF RequestType
  <2>3. /\ to \in RequestType /\ to.pc = "ops" /\ to.call = req[r].call
        /\ to.roles \subseteq req[r].roles /\ to.ops = state.cfg.roles[role]
        /\ to.listed = req[r].listed
    BY <1>a, <2>2 DEF RequestType
  <2>4. \A o \in to.ops : OpSeen(r, o)
    <3>1. RoleSeen(r, role) /\ state \in seen[r]
      BY <1>b, <1>c, <2>1 DEF Step
    <3> QED
      BY <2>3, <3>1 DEF RoleSeen, OpSeen
  <2>5. Step(r, "roles", to) /\ UNCHANGED seen
    BY <1>11, <2>1 DEF ListRole
  <2> HIDE DEF to
  <2> QED
    BY <1>c, <2>3, <2>4, <2>5, ListMove
<1>12. CASE ListOp(r)
  <2> DEFINE to(o, keep) == [req[r] EXCEPT !.ops = @ \ {o},
                                           !.listed = IF keep THEN @ \cup {o} ELSE @]
  <2>1. PICK o \in req[r].ops, keep \in BOOLEAN :
          Step(r, "ops", to(o, keep)) /\ (keep => SiteOf(state.reg, o) # Nil)
    BY <1>12 DEF ListOp
  <2> DEFINE next == to(o, keep)
  <2>2. /\ next \in RequestType /\ next.pc = req[r].pc /\ next.call = req[r].call
        /\ next.roles = req[r].roles /\ next.ops \subseteq req[r].ops
        /\ next.listed \subseteq req[r].listed \cup (IF keep THEN {o} ELSE {})
    BY <1>a DEF RequestType
  <2>3. Step(r, "ops", next) /\ req[r].pc = "ops" /\ UNCHANGED seen
    BY <1>12, <2>1 DEF ListOp, Step
  <2>4. keep => OpSeen(r, o) /\ \E s \in seen[r] : SiteOf(s.reg, o) # Nil
    BY <1>b, <1>c, <2>1, <2>3
  <2> HIDE DEF next
  <2> QED
    BY <1>c, <2>2, <2>3, <2>4, ListMove
<1> QED
  BY <1>2, <1>3, <1>4, <1>5, <1>7, <1>8, <1>9, <1>10, <1>11, <1>12 DEF RequestStep

\* A state that is published while a request runs adds to what it may see.
LEMMA ListNext == IInv /\ ListSeen /\ [Next]_vars => ListSeen'
<1> SUFFICES ASSUME IInv, ListSeen, [Next]_vars PROVE ListSeen'
  OBVIOUS
<1>1. ASSUME UNCHANGED <<req, seen>> PROVE ListSeen'
  BY <1>1 DEF ListSeen, RoleSeen, OpSeen
<1>2. ASSUME NEW l \in Reload, Publish(l) PROVE ListSeen'
  <2>1. UNCHANGED req /\ \A q \in Request : req[q].pc # "idle" => seen[q] \subseteq seen'[q]
    BY <1>2 DEF Publish, Remember
  <2>2. ASSUME NEW q \in Request, req[q].pc # "idle"
        PROVE  /\ \A role : RoleSeen(q, role) => RoleSeen(q, role)'
               /\ \A o : OpSeen(q, o) => OpSeen(q, o)'
    BY <2>1, <2>2 DEF RoleSeen, OpSeen
  <2> SUFFICES ASSUME NEW q \in Request
               PROVE  /\ req[q].pc = "idle" => req[q].roles = {} /\ req[q].ops = {} /\ req[q].listed = {}
                      /\ req[q].pc = "workspace" => \E s \in seen'[q] : s.cfg = req[q].agent
                      /\ \A role \in req[q].roles : RoleSeen(q, role)'
                      /\ \A o \in req[q].ops : OpSeen(q, o)'
                      /\ \A o \in req[q].listed :
                            OpSeen(q, o)' /\ \E s \in seen'[q] : SiteOf(s.reg, o) # Nil
    BY <2>1 DEF ListSeen
  <2> QED
    BY <2>1, <2>2 DEF ListSeen
<1>3. ASSUME NEW l \in Reload, ReloadArrives(l) \/ ReloadStep(l), ~Publish(l) PROVE UNCHANGED <<req, seen>>
  BY <1>3 DEF ReloadArrives, ReloadStep, LoadConfig, LoadOps, ComputeChecksum, PublishChecksum
<1>4. ASSUME NEW r \in Request, NEW kind \in {"execute", "dryrun", "list"}, NEW c \in Call,
             Arrive(r, kind, c)
      PROVE  ListSeen'
  <2> DEFINE to == [req[r] EXCEPT !.pc = "auth", !.kind = kind, !.call = c]
  <2>1. /\ req[r].pc = "idle" /\ req[r] \in RequestType
        /\ req'[r] = to
        /\ \A q \in Request \ {r} : req'[q] = req[q] /\ seen'[q] = seen[q]
    BY <1>4 DEF Arrive, Step, IInv, TypeOK
  <2>2. to.pc = "auth" /\ to.roles = {} /\ to.ops = {} /\ to.listed = {}
    BY <2>1 DEF ListSeen, RequestType
  <2> HIDE DEF to
  <2> QED
    BY <2>1, <2>2 DEF ListSeen, RoleSeen, OpSeen
<1>5. Deploy \/ UNCHANGED vars => UNCHANGED <<req, seen>>
  BY DEF Deploy, vars
<1> QED
  BY <1>1, <1>2, <1>3, <1>4, <1>5, ListRequest DEF Next

\* A listing never shows an operation that no state of the request's life
\* granted, even though every entry is looked up in the state current then.
THEOREM ListingsPieceByPiece == Spec => []ListedPieceByPiece
<1>1. Init => ListSeen
  <2>1. IdleRequest.pc = "idle" /\ IdleRequest.roles = {} /\ IdleRequest.ops = {} /\ IdleRequest.listed = {}
    BY DEF IdleRequest
  <2>2. Init => \A r \in Request : req[r] = IdleRequest
    BY DEF Init
  <2> QED
    BY <2>1, <2>2 DEF ListSeen
<1>2. ListSeen => ListedPieceByPiece
  BY DEF ListSeen, OpSeen, ListedPieceByPiece
<1> QED
  BY <1>1, <1>2, ListNext, Invariance, PTL DEF Spec

-----------------------------------------------------------------------------
(* Refinement of Authorization.                                            *)

\* A request step that neither performs nor ends the request stutters.
LEMMA Stutters ==
    ASSUME IInv, NEW r \in Request, NEW from, NEW to,
           Step(r, from, to), UNCHANGED seen, Quiet,
           from \notin {"idle", "audit", "reply"},
           to.pc \notin {"idle", "audit", "reply"},
           to.call = req[r].call
    PROVE  UNCHANGED Auth!authVars
<1>1. /\ req[r].pc = from
      /\ req' = [req EXCEPT ![r] = to]
      /\ req \in [Request -> RequestType]
  BY DEF Step, IInv, TypeOK
<1>2. \A q \in Request : /\ q # r => req'[q] = req[q]
                         /\ q = r => req'[q] = to
  BY <1>1
<1>3. Stage' = Stage
  BY <1>1, <1>2 DEF Stage
<1>4. [q \in Request |-> req[q].call]' = [q \in Request |-> req[q].call]
  BY <1>1, <1>2
<1>5. QED
  BY <1>3, <1>4 DEF Auth!authVars, Quiet

LEMMA RequestRefines ==
    ASSUME IInv, NEW r \in Request, RequestStep(r)
    PROVE  [Auth!Next]_(Auth!authVars)
<1>a. req[r] \in RequestType /\ req \in [Request -> RequestType]
  BY DEF IInv, TypeOK
<1>1. CASE Authenticate(r)
  BY <1>1, <1>a, Stutters DEF Authenticate, Authenticated, RequestType
<1>2. CASE AuthenticateAgain(r)
  <2> DEFINE to == IF HasAgent(state.cfg, req[r].call.token) THEN Authenticated(r)
                   ELSE [req[r] EXCEPT !.pc = IF req[r].kind = "list" THEN "answer" ELSE "deny"]
  <2>1. to.pc \in {"agent", "load", "answer", "deny"} /\ to.call = req[r].call
    BY <1>a DEF Authenticated, RequestType
  <2>2. Step(r, "reauth", to) /\ UNCHANGED seen /\ Quiet
    BY <1>2 DEF AuthenticateAgain
  <2> HIDE DEF to
  <2>3. QED
    BY <2>1, <2>2, Stutters
<1>3. CASE LoadState(r)
  <2> DEFINE to == [req[r] EXCEPT !.pc = "decide", !.st = state, !.agent = state.cfg]
  <2>1. to.pc = "decide" /\ to.call = req[r].call
    BY <1>a DEF RequestType
  <2>2. Step(r, "load", to) /\ UNCHANGED seen /\ Quiet
    BY <1>3 DEF LoadState
  <2> HIDE DEF to
  <2>3. QED
    BY <2>1, <2>2, Stutters
<1>4. CASE Decide(r)
  <2>1. PICK problem \in Problem, up \in BOOLEAN :
          Step(r, "decide", AfterVerdict(r,
               Verdict(req[r].st, req[r].agent, req[r].call, problem,
                       CheckTunnel(req[r].st, up) \/ req[r].kind = "dryrun")))
    BY <1>4 DEF Decide
  <2> DEFINE to == AfterVerdict(r,
               Verdict(req[r].st, req[r].agent, req[r].call, problem,
                       CheckTunnel(req[r].st, up) \/ req[r].kind = "dryrun"))
  <2>2. to.pc \in {"call", "answer", "deny"} /\ to.call = req[r].call
    BY <1>a DEF AfterVerdict, RequestType
  <2>3. Step(r, "decide", to) /\ UNCHANGED seen /\ Quiet
    BY <1>4, <2>1 DEF Decide
  <2> HIDE DEF to
  <2>4. QED
    BY <2>2, <2>3, Stutters
<1>5. CASE AuditDeny(r)
  BY <1>5, <1>a, Stutters DEF AuditDeny, RequestType
<1>6. CASE CallUpstream(r)
  <2>1. /\ req[r].pc = "call"
        /\ req' = [req EXCEPT ![r] = [req[r] EXCEPT !.pc = "audit"]]
        /\ UNCHANGED <<seen, state>>
    BY <1>6 DEF CallUpstream, Step, Quiet
  <2>2. \E st \in seen[r] : Permits(st, req[r].call)
    BY <2>1 DEF IInv, CallPermittedByOneState, Performed
  <2>3. \A q \in Request : /\ q # r => req'[q] = req[q]
                           /\ q = r => req'[q] = [req[r] EXCEPT !.pc = "audit"]
    BY <2>1, <1>a
  <2>4. Stage[r] = "pending" /\ Stage' = [Stage EXCEPT ![r] = "performed"]
    BY <2>1, <2>3, <1>a DEF Stage, RequestType
  <2>5. [q \in Request |-> req[q].call]' = [q \in Request |-> req[q].call]
    BY <2>3, <1>a DEF RequestType
  <2>6. Auth!Perform(r)
    BY <2>1, <2>2, <2>4, <2>5 DEF Auth!Perform
  <2>7. QED
    BY <2>6 DEF Auth!Next
<1>7. CASE AuditAllow(r)
  <2>1. /\ req[r].pc = "audit"
        /\ req' = [req EXCEPT ![r] = [req[r] EXCEPT !.pc = "reply"]]
        /\ UNCHANGED <<seen, state>>
    BY <1>7 DEF AuditAllow, Step, Quiet
  <2>2. \A q \in Request : /\ q # r => req'[q] = req[q]
                           /\ q = r => req'[q] = [req[r] EXCEPT !.pc = "reply"]
    BY <2>1, <1>a
  <2>3. Stage' = Stage
    BY <2>1, <2>2, <1>a DEF Stage, RequestType
  <2>4. [q \in Request |-> req[q].call]' = [q \in Request |-> req[q].call]
    BY <2>2, <1>a DEF RequestType
  <2>5. QED
    BY <2>1, <2>3, <2>4 DEF Auth!authVars
<1>8. CASE Answer(r)
  <2>1. /\ req[r].pc \in {"answer", "reply"}
        /\ req' = [req EXCEPT ![r] = IdleRequest]
        /\ seen' = [seen EXCEPT ![r] = {}]
        /\ UNCHANGED state
    BY <1>8 DEF Answer, Quiet
  <2>2. \A q \in Request : /\ q # r => req'[q] = req[q]
                           /\ q = r => req'[q] = IdleRequest
    BY <2>1, <1>a
  <2>3. Stage[r] # "idle" /\ Stage' = [Stage EXCEPT ![r] = "idle"]
    BY <2>1, <2>2, <1>a DEF Stage, IdleRequest
  <2>4. [q \in Request |-> req[q].call]'
          = [[q \in Request |-> req[q].call] EXCEPT ![r] = Nil]
    <3>1. IdleRequest.call = Nil
      BY DEF IdleRequest
    <3>2. QED
      BY <2>2, <3>1, <1>a
  <2>5. Auth!Close(r)
    BY <2>1, <2>3, <2>4 DEF Auth!Close
  <2>6. QED
    BY <2>5 DEF Auth!Next
<1>9. CASE ListAgent(r)
  BY <1>9, <1>a, Stutters DEF ListAgent, RequestType
<1>10. CASE ListWorkspace(r)
  <2> DEFINE to == IF req[r].call.ws \in state.cfg.workspaces
                   THEN [req[r] EXCEPT !.pc = "roles", !.ws = state.cfg,
                                       !.roles = Granted(r), !.agent = Nil]
                   ELSE [req[r] EXCEPT !.pc = "answer"]
  <2>1. to.pc \in {"roles", "answer"} /\ to.call = req[r].call
    BY <1>a DEF RequestType
  <2>2. Step(r, "workspace", to) /\ UNCHANGED seen /\ Quiet
    BY <1>10 DEF ListWorkspace
  <2> HIDE DEF to
  <2>3. QED
    BY <2>1, <2>2, Stutters
<1>11. CASE ListRole(r)
  BY <1>11, <1>a, Stutters, ZenonT(60) DEF ListRole, RequestType
<1>12. CASE ListOp(r)
  <2> DEFINE to(o, keep) == [req[r] EXCEPT !.ops = @ \ {o},
                                           !.listed = IF keep THEN @ \cup {o} ELSE @]
  <2>1. PICK o \in req[r].ops, keep \in BOOLEAN : Step(r, "ops", to(o, keep))
    BY <1>12 DEF ListOp
  <2>2. to(o, keep).pc = req[r].pc /\ to(o, keep).call = req[r].call
    BY <1>a DEF RequestType
  <2>3. QED
    BY <1>12, <2>1, <2>2, Stutters DEF ListOp, Step
<1>13. CASE ListEnd(r)
  BY <1>13, <1>a, Stutters DEF ListEnd, RequestType
<1>14. QED
  BY <1>1, <1>2, <1>3, <1>4, <1>5, <1>6, <1>7, <1>8, <1>9, <1>10, <1>11, <1>12, <1>13
     DEF RequestStep

LEMMA ReloadRefines ==
    ASSUME IInv, IInv', NEW l \in Reload, ReloadArrives(l) \/ ReloadStep(l)
    PROVE  [Auth!Next]_(Auth!authVars)
<1>1. CASE Publish(l)
  <2>1. state' \in RuntimeState
    BY DEF IInv, TypeOK
  <2>2. UNCHANGED req
    BY <1>1 DEF Publish
  <2>3. \A r \in Request : Stage[r] = "idle" <=> req[r].pc = "idle"
    BY DEF Stage
  <2>4. seen' = [r \in Request |-> IF Stage[r] = "idle" THEN {} ELSE seen[r] \cup {state'}]
    BY <1>1, <2>3 DEF Publish, Remember
  <2>5. UNCHANGED Stage /\ UNCHANGED [r \in Request |-> req[r].call]
    BY <2>2 DEF Stage
  <2>6. Auth!Replace
    BY <2>1, <2>4, <2>5 DEF Auth!Replace
  <2>7. QED
    BY <2>6 DEF Auth!Next
<1>2. CASE UNCHANGED <<state, req, seen>>
  <2>1. UNCHANGED Stage /\ UNCHANGED [r \in Request |-> req[r].call]
    BY <1>2 DEF Stage
  <2>2. QED
    BY <1>2, <2>1 DEF Auth!authVars
<1>3. QED
  BY <1>1, <1>2 DEF ReloadStep, ReloadArrives, LoadConfig, LoadOps, ComputeChecksum, PublishChecksum

LEMMA ArriveRefines ==
    ASSUME IInv, NEW r \in Request, NEW kind \in {"execute", "dryrun", "list"},
           NEW c \in Call, Arrive(r, kind, c)
    PROVE  Auth!Ask(r)
<1> DEFINE to == [req[r] EXCEPT !.pc = "auth", !.kind = kind, !.call = c]
<1>a. req[r] \in RequestType /\ req \in [Request -> RequestType]
  BY DEF IInv, TypeOK
<1>1. to.pc = "auth" /\ to.call = c
  BY <1>a DEF RequestType
<1>2. /\ req[r].pc = "idle"
      /\ req' = [req EXCEPT ![r] = to]
      /\ seen' = [seen EXCEPT ![r] = {state}]
      /\ UNCHANGED state
  BY DEF Arrive, Step, Quiet
<1> HIDE DEF to
<1>3. \A q \in Request : /\ q # r => req'[q] = req[q]
                         /\ q = r => req'[q] = to
  BY <1>2, <1>a
<1>4. Stage[r] = "idle" /\ Stage' = [Stage EXCEPT ![r] = "pending"]
  BY <1>1, <1>2, <1>3, <1>a DEF Stage
<1>5. [q \in Request |-> req[q].call]' = [[q \in Request |-> req[q].call] EXCEPT ![r] = c]
  BY <1>1, <1>3, <1>a
<1>6. QED
  BY <1>2, <1>4, <1>5 DEF Auth!Ask

\* The pipeline and the reload implement the abstract authorisation service:
\* every step is one of its steps or leaves its state alone.
THEOREM GatewayImplementsAuthorization == Spec => ImplementsAuthorization
<1>1. Init /\ IInv => Auth!Init
  BY DEF Init, IInv, TypeOK, Auth!Init, Stage, IdleRequest
<1>2. IInv /\ IInv' /\ [Next]_vars => [Auth!Next]_(Auth!authVars)
  <2> SUFFICES ASSUME IInv, IInv', [Next]_vars PROVE [Auth!Next]_(Auth!authVars)
    OBVIOUS
  <2>1. CASE Deploy \/ UNCHANGED vars
    <3>1. UNCHANGED <<state, req, seen>>
      BY <2>1 DEF Deploy, vars
    <3>2. UNCHANGED Stage /\ UNCHANGED [r \in Request |-> req[r].call]
      BY <3>1 DEF Stage
    <3>3. QED
      BY <3>1, <3>2 DEF Auth!authVars
  <2>2. ASSUME NEW r \in Request, NEW kind \in {"execute", "dryrun", "list"}, NEW c \in Call,
               Arrive(r, kind, c)
        PROVE  [Auth!Next]_(Auth!authVars)
    BY <2>2, ArriveRefines DEF Auth!Next
  <2>3. QED
    BY <2>1, <2>2, RequestRefines, ReloadRefines DEF Next
<1>3. QED
  BY <1>1, <1>2, InvInit, Invariance, PTL DEF Spec, ImplementsAuthorization, Auth!Spec
=============================================================================
