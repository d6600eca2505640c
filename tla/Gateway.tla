------------------------------ MODULE Gateway ------------------------------
(***************************************************************************)
(* The request pipeline of internal/server/server.go and its hot reload.   *)
(*                                                                         *)
(* POST /admin/reload loads the two files from disk and publishes them as  *)
(* one runtimeState through an atomic pointer; the checksum that           *)
(* /capabilities reports is a second atomic.  No lock covers a reload: two *)
(* of them, and any number of requests, interleave at every load and store *)
(* of these atomics, and an operator may replace the files at any moment.  *)
(*                                                                         *)
(* executeOp and handleDryRun decide on one loaded state.  Authentication  *)
(* before them, and the listings (/capabilities, /help and the suggestions *)
(* for an unknown operation), load the state again at every use.           *)
(*                                                                         *)
(* A config and a registry are records of the facts the pipeline asks for. *)
(***************************************************************************)
EXTENDS Naturals

CONSTANTS
    Request,    \* agents' requests under way
    Reload,     \* admins' reload requests under way
    Token, Workspace, Role, Op, Site,
    Config,     \* contents of config.yaml that config.Load accepts
    Registry,   \* contents of operations.yaml that NewRegistry accepts
    Broken,     \* content that is refused
    Nil

ASSUME GatewayAssumption ==
    /\ Config \subseteq
         [agents     : SUBSET Token,
          grants     : SUBSET (Token \X Workspace \X Role),
          roles      : [Role -> SUBSET Op],
          workspaces : SUBSET Workspace,
          disabled   : SUBSET (Workspace \X Site),
          gated      : SUBSET (Workspace \X Site),
          admin      : BOOLEAN]
    /\ Registry \subseteq [Op -> Site \cup {Nil}]
    /\ Broken \notin Config /\ Broken \notin Registry
    /\ Nil \notin Config /\ Nil \notin Registry /\ Nil \notin Site

VARIABLES
    cfgFile,    \* config.yaml on disk
    opsFile,    \* operations.yaml on disk
    state,      \* Server.state: config, registry and its tunnel checker
    checksum,   \* Server.configChecksum: the content it was computed from
    rl,         \* reload handlers
    req,        \* request handlers
    seen        \* history: states published during each request's life

vars == <<cfgFile, opsFile, state, checksum, rl, req, seen>>
disk == <<cfgFile, opsFile>>

RuntimeState == [cfg : Config, reg : Registry, checker : Config \cup {Nil}]
Call         == [token : Token, ws : Workspace, op : Op]

IdleRequest == [pc |-> "idle", kind |-> "execute", call |-> Nil, st |-> Nil, agent |-> Nil,
                ws |-> Nil, roles |-> {}, ops |-> {}, listed |-> {}]

IdleReload == [pc |-> "idle", cfg |-> Nil, reg |-> Nil, sum |-> Nil]

ReloadType ==
    [pc  : {"idle", "config", "ops", "sum", "publish", "report"},
     cfg : Config \cup {Nil}, reg : Registry \cup {Nil},
     sum : Config \cup {Broken, Nil}]

RequestType ==
    [pc     : {"idle", "auth", "reauth", "load", "decide", "deny", "call", "audit",
               "reply", "answer", "agent", "workspace", "roles", "ops"},
     kind   : {"execute", "dryrun", "list"},
     call   : Call \cup {Nil},
     st     : RuntimeState \cup {Nil},  \* the state executeOp loaded
     agent  : Config \cup {Nil},        \* the config the agent was taken from
     ws     : Config \cup {Nil},        \* the config the workspace was taken from
     roles  : SUBSET Role,              \* granted roles still to be listed
     ops    : SUBSET Op,                \* operations of a role still to be looked up
     listed : SUBSET Op]                \* the listing so far

TypeOK ==
    /\ cfgFile \in Config \cup {Broken}
    /\ opsFile \in Registry \cup {Broken}
    /\ state \in RuntimeState
    /\ checksum \in Config \cup {Broken}
    /\ rl \in [Reload -> ReloadType]
    /\ req \in [Request -> RequestType]
    /\ seen \in [Request -> SUBSET RuntimeState]

-----------------------------------------------------------------------------
(* What a config, a registry and a published state say.                    *)

HasAgent(cfg, t) == t \in cfg.agents

GrantedRoles(cfg, t, w) == {r \in Role : <<t, w, r>> \in cfg.grants}

\* agentHasOp: the grants of the agent's own config, the roles of cfg.
agentHasOp(cfg, agentCfg, c) ==
    \E r \in GrantedRoles(agentCfg, c.token, c.ws) : c.op \in cfg.roles[r]

SiteOf(reg, o) == reg[o]

\* The first check of executeOp that refuses the call, or "allow".  Problem is
\* what is wrong with the body, "" for nothing: bad JSON, ValidateParams,
\* CheckConstraints, checkParamScopes or checkEnvSelection.
Verdict(st, agentCfg, c, problem, tunnelOK) ==
    LET site == <<c.ws, SiteOf(st.reg, c.op)>> IN
    IF ~ HasAgent(st.cfg, c.token)                 THEN "agent"
    ELSE IF c.ws \notin st.cfg.workspaces          THEN "workspace"
    ELSE IF SiteOf(st.reg, c.op) = Nil             THEN "operation"
    ELSE IF ~ agentHasOp(st.cfg, agentCfg, c)      THEN "grant"
    ELSE IF site \in st.cfg.disabled               THEN "disabled"
    ELSE IF problem # ""                           THEN problem
    ELSE IF site \in st.cfg.gated /\ ~ tunnelOK    THEN "tunnel"
    ELSE "allow"

\* CheckTunnel: a registry without a checker refuses every gated call, another
\* asks the tunnel.
CheckTunnel(st, up) == st.checker # Nil /\ up

\* The state, taken alone, lets the call through when the tunnel is up.
Permits(st, c) == Verdict(st, st.cfg, c, "", st.checker # Nil) = "allow"

Init ==
    /\ cfgFile \in Config
    /\ opsFile \in Registry
    /\ state = [cfg |-> cfgFile, reg |-> opsFile, checker |-> cfgFile]
    /\ checksum = cfgFile
    /\ rl = [l \in Reload |-> IdleReload]
    /\ req = [r \in Request |-> IdleRequest]
    /\ seen = [r \in Request |-> {}]

-----------------------------------------------------------------------------
(* POST /admin/reload.                                                     *)

StepReload(l, from, to) == rl[l].pc = from /\ rl' = [rl EXCEPT ![l] = to]

\* authenticateAdmin: refused while no admin token is configured.
ReloadArrives(l) ==
    /\ state.cfg.admin
    /\ StepReload(l, "idle", [rl[l] EXCEPT !.pc = "config"])
    /\ UNCHANGED <<disk, state, checksum, req, seen>>

LoadConfig(l) ==
    /\ \/ cfgFile # Broken /\ StepReload(l, "config", [rl[l] EXCEPT !.pc = "ops", !.cfg = cfgFile])
       \/ cfgFile = Broken /\ StepReload(l, "config", IdleReload)
    /\ UNCHANGED <<disk, state, checksum, req, seen>>

LoadOps(l) ==
    /\ \/ opsFile # Broken /\ StepReload(l, "ops", [rl[l] EXCEPT !.pc = "sum", !.reg = opsFile])
       \/ opsFile = Broken /\ StepReload(l, "ops", IdleReload)
    /\ UNCHANGED <<disk, state, checksum, req, seen>>

\* computeChecksum reads the file a second time.
ComputeChecksum(l) ==
    /\ StepReload(l, "sum", [rl[l] EXCEPT !.pc = "publish", !.sum = cfgFile])
    /\ UNCHANGED <<disk, state, checksum, req, seen>>

Remember(st) ==
    seen' = [r \in Request |-> IF req[r].pc = "idle" THEN {} ELSE seen[r] \cup {st}]

\* Mutant: the checksum keeps its value of the start of the process.
PublishChecksumOnce(l) ==
    /\ StepReload(l, "report", IdleReload)
    /\ UNCHANGED <<disk, state, checksum, req, seen>>

\* state.Store, with the checker tunnelCheckerFactory built for this config.
Publish(l) ==
    /\ StepReload(l, "publish", [rl[l] EXCEPT !.pc = "report"])
    /\ state' = [cfg |-> rl[l].cfg, reg |-> rl[l].reg, checker |-> rl[l].cfg]
    /\ Remember(state')
    /\ UNCHANGED <<disk, checksum, req>>

PublishChecksum(l) ==
    /\ StepReload(l, "report", IdleReload)
    /\ checksum' = rl[l].sum
    /\ UNCHANGED <<disk, state, req, seen>>

-----------------------------------------------------------------------------
(* A request, up to the decision.                                          *)

Step(r, from, to) == req[r].pc = from /\ req' = [req EXCEPT ![r] = to]

Quiet == UNCHANGED <<disk, state, checksum, rl>>

Arrive(r, kind, c) ==
    /\ Step(r, "idle", [req[r] EXCEPT !.pc = "auth", !.kind = kind, !.call = c])
    /\ seen' = [seen EXCEPT ![r] = {state}]
    /\ Quiet

Authenticated(r) == [req[r] EXCEPT !.pc = IF req[r].kind = "list" THEN "agent" ELSE "load"]

\* authenticate looks the token up, and loads the config anew to scan it again.
Authenticate(r) ==
    /\ Step(r, "auth", IF HasAgent(state.cfg, req[r].call.token)
                       THEN Authenticated(r) ELSE [req[r] EXCEPT !.pc = "reauth"])
    /\ UNCHANGED seen /\ Quiet

\* handleWorkspaceOp audits the refusal, the listings only answer 401.
AuthenticateAgain(r) ==
    /\ Step(r, "reauth",
            IF HasAgent(state.cfg, req[r].call.token) THEN Authenticated(r)
            ELSE [req[r] EXCEPT !.pc = IF req[r].kind = "list" THEN "answer" ELSE "deny"])
    /\ UNCHANGED seen /\ Quiet

LoadState(r) ==
    /\ Step(r, "load", [req[r] EXCEPT !.pc = "decide", !.st = state, !.agent = state.cfg])
    /\ UNCHANGED seen /\ Quiet

Problem == {"", "body", "validation", "constraint", "scope"}

\* The roles of the agent, as it was looked up, in the workspace of the call.
Granted(r) == GrantedRoles(req[r].agent, req[r].call.token, req[r].call.ws)

\* Where the verdict leads: handleDryRun answers an unknown agent without an
\* audit record, a bad body is never audited, an unknown operation is audited
\* and then answered with suggestions.
AfterVerdict(r, verdict) ==
    LET done    == [req[r] EXCEPT !.st = Nil, !.agent = Nil]
        unheard == verdict = "body" \/ (verdict = "agent" /\ req[r].kind = "dryrun")
    IN  IF verdict = "allow"
        THEN [done EXCEPT !.pc = IF req[r].kind = "execute" THEN "call" ELSE "answer"]
        ELSE [done EXCEPT !.pc = IF unheard THEN "answer" ELSE "deny",
                          !.roles = IF verdict = "operation" THEN Granted(r) ELSE {}]

\* Mutant: the check of disabled sites is dropped.
DecideDisabled(r) ==
    /\ \E problem \in Problem, up \in BOOLEAN :
             Step(r, "decide", AfterVerdict(r,
                  Verdict([req[r].st EXCEPT !.cfg.disabled = {}],
                          req[r].agent, req[r].call, problem, CheckTunnel(req[r].st, up))))
    /\ UNCHANGED seen /\ Quiet

\* The chain of checks on the loaded state.  handleDryRun has no scope and no
\* tunnel check.
Decide(r) ==
    /\ \E problem \in Problem, up \in BOOLEAN :
          /\ req[r].kind = "dryrun" => problem # "scope"
          /\ Step(r, "decide", AfterVerdict(r,
                  Verdict(req[r].st, req[r].agent, req[r].call, problem,
                          CheckTunnel(req[r].st, up) \/ req[r].kind = "dryrun")))
    /\ UNCHANGED seen /\ Quiet

\* LogDeny, whose error is ignored.
AuditDeny(r) ==
    /\ Step(r, "deny", [req[r] EXCEPT !.pc = IF req[r].roles # {} THEN "roles" ELSE "answer"])
    /\ UNCHANGED seen /\ Quiet

\* The connector is dispatched; it may still fail before it calls upstream.
CallUpstream(r) ==
    /\ Step(r, "call", [req[r] EXCEPT !.pc = "audit"])
    /\ UNCHANGED seen /\ Quiet

\* LogAllow, after the call; its error is ignored.
AuditAllow(r) ==
    /\ Step(r, "audit", [req[r] EXCEPT !.pc = "reply"])
    /\ UNCHANGED seen /\ Quiet

\* writeRedactedJSON or the refusal: the handler returns.
Answer(r) ==
    /\ req[r].pc \in {"answer", "reply"}
    /\ req' = [req EXCEPT ![r] = IdleRequest]
    /\ seen' = [seen EXCEPT ![r] = {}]
    /\ Quiet

-----------------------------------------------------------------------------
(* Listings: handleCapabilities, handleHelp and closestAllowedOps.  Every  *)
(* step loads the state that is current then.                              *)

ListAgent(r) ==
    /\ Step(r, "agent",
            IF GrantedRoles(state.cfg, req[r].call.token, req[r].call.ws) # {}
            THEN [req[r] EXCEPT !.pc = "workspace", !.agent = state.cfg]
            ELSE [req[r] EXCEPT !.pc = "answer"])
    /\ UNCHANGED seen /\ Quiet

\* Mutant: the loop over the grants does not skip those of other workspaces.
ListWorkspaceAll(r) ==
    /\ Step(r, "workspace",
            [req[r] EXCEPT !.pc = "roles", !.ws = state.cfg, !.agent = Nil,
                           !.roles = {x \in Role : \E w \in Workspace :
                               <<req[r].call.token, w, x>> \in req[r].agent.grants}])
    /\ UNCHANGED seen /\ Quiet

ListWorkspace(r) ==
    /\ Step(r, "workspace",
            IF req[r].call.ws \in state.cfg.workspaces
            THEN [req[r] EXCEPT !.pc = "roles", !.ws = state.cfg,
                                !.roles = Granted(r), !.agent = Nil]
            ELSE [req[r] EXCEPT !.pc = "answer"])
    /\ UNCHANGED seen /\ Quiet

\* s.cfg().GetRole for the next grant of the agent in the workspace.
ListRole(r) ==
    /\ \E role \in req[r].roles :
          Step(r, "roles", [req[r] EXCEPT !.pc = "ops", !.ops = state.cfg.roles[role],
                                          !.roles = @ \ {role}])
    /\ UNCHANGED seen /\ Quiet

\* s.registry().Get for the next operation of the role; the listings skip the
\* operations of a disabled site, the suggestions do not.
ListOp(r) ==
    /\ \E o \in req[r].ops :
          LET site == SiteOf(state.reg, o)
              keep == /\ site # Nil
                      /\ req[r].kind = "list" =>
                            <<req[r].call.ws, site>> \notin req[r].ws.disabled
          IN  Step(r, "ops", [req[r] EXCEPT !.ops = @ \ {o},
                                            !.listed = IF keep THEN @ \cup {o} ELSE @])
    /\ UNCHANGED seen /\ Quiet

ListEnd(r) ==
    /\ req[r].ops = {}
    /\ Step(r, "ops", [req[r] EXCEPT !.pc = IF req[r].roles = {} THEN "answer" ELSE "roles"])
    /\ UNCHANGED seen /\ Quiet

-----------------------------------------------------------------------------
(* The operator edits the files.                                           *)

Deploy ==
    /\ \/ cfgFile' \in Config \cup {Broken} /\ UNCHANGED opsFile
       \/ opsFile' \in Registry \cup {Broken} /\ UNCHANGED cfgFile
    /\ UNCHANGED <<state, checksum, rl, req, seen>>

-----------------------------------------------------------------------------

ReloadStep(l) ==
    \/ LoadConfig(l) \/ LoadOps(l) \/ ComputeChecksum(l)
    \/ Publish(l) \/ PublishChecksum(l)

RequestStep(r) ==
    \/ Authenticate(r) \/ AuthenticateAgain(r) \/ LoadState(r) \/ Decide(r)
    \/ AuditDeny(r) \/ CallUpstream(r) \/ AuditAllow(r) \/ Answer(r)
    \/ ListAgent(r) \/ ListWorkspace(r) \/ ListRole(r) \/ ListOp(r) \/ ListEnd(r)

Next ==
    \/ \E l \in Reload : ReloadArrives(l) \/ ReloadStep(l)
    \/ \E r \in Request : RequestStep(r)
    \/ \E r \in Request, kind \in {"execute", "dryrun", "list"}, c \in Call :
          Arrive(r, kind, c)
    \/ Deploy

Spec == Init /\ [][Next]_vars

\* A reload handler runs to its end: it only reads files and stores pointers.
FairSpec == Spec /\ \A l \in Reload : WF_vars(ReloadStep(l))

-----------------------------------------------------------------------------

Performed(r) == req[r].pc \in {"call", "audit", "reply"}

\* A call goes upstream only if one published state, current at some moment of
\* the request's life, permits it: executeOp never mixes the grants of one
\* config with the roles of another (the comment on agentHasOp).
CallPermittedByOneState ==
    \A r \in Request : Performed(r) => \E st \in seen[r] : Permits(st, req[r].call)

\* Whatever fails in a reload, the published state is whole: its tunnel checker
\* was built for its own config (handleAdmin, "Re-attach a tunnel checker").
StateWhole == state.checker = state.cfg

\* A listed operation is in a role that some state of the request's life grants
\* to the agent in this workspace, as some state then defined the role, and
\* some state then registered it.
ListedPieceByPiece ==
    \A r \in Request : \A o \in req[r].listed :
        /\ \E s1, s2 \in seen[r] :
             \E role \in GrantedRoles(s1.cfg, req[r].call.token, req[r].call.ws) :
                 o \in s2.cfg.roles[role]
        /\ \E s3 \in seen[r] : SiteOf(s3.reg, o) # Nil

\* Once the files are whole and no longer change, reloads bring the state and
\* the checksum to them, however reloads overlap (handleAdmin has no lock).
ReloadsConverge ==
    /\ <>[][FALSE]_disk
    /\ <>[](cfgFile # Broken /\ opsFile # Broken)
    /\ []<>(\E l \in Reload : rl[l].pc = "config")
    => <>[](state.cfg = cfgFile /\ state.reg = opsFile /\ checksum = cfgFile)

\* What makes the above inductive: the state in force belongs to every request
\* under way, the one a request decides on was in force during its life, and a
\* reload holds loaded content when it publishes.
SnapshotSeen ==
    \A r \in Request :
        /\ req[r].pc # "idle" => req[r].call \in Call /\ state \in seen[r]
        /\ req[r].pc = "decide" => req[r].st \in seen[r] /\ req[r].agent = req[r].st.cfg
        /\ \A st \in seen[r] : st.checker = st.cfg

Loaded ==
    \A l \in Reload :
        /\ rl[l].pc \in {"ops", "sum", "publish", "report"} => rl[l].cfg \in Config
        /\ rl[l].pc \in {"sum", "publish", "report"} => rl[l].reg \in Registry
        /\ rl[l].pc \in {"publish", "report"} => rl[l].sum \in Config \cup {Broken}

Stage == [r \in Request |-> IF req[r].pc = "idle" THEN "idle"
                           ELSE IF req[r].pc \in {"audit", "reply"} THEN "performed"
                           ELSE "pending"]

Auth == INSTANCE Authorization WITH
            Policy  <- RuntimeState,
            policy  <- state,
            stage   <- Stage,
            call    <- [r \in Request |-> req[r].call],
            inForce <- seen,
            NoCall  <- Nil

\* The pipeline and the reload implement the abstract authorisation service.
ImplementsAuthorization == Auth!Spec

RoleSeen(r, role) ==
    \E s \in seen[r] : role \in GrantedRoles(s.cfg, req[r].call.token, req[r].call.ws)

OpSeen(r, o) ==
    \E s1, s2 \in seen[r] :
        \E role \in GrantedRoles(s1.cfg, req[r].call.token, req[r].call.ws) : o \in s2.cfg.roles[role]

\* With them, ListedPieceByPiece is inductive: what a listing still has to look
\* at has come from the states of the request's life as well.
ListSeen ==
    \A r \in Request :
        /\ req[r].pc = "idle" => req[r].roles = {} /\ req[r].ops = {} /\ req[r].listed = {}
        /\ req[r].pc = "workspace" => \E s \in seen[r] : s.cfg = req[r].agent
        /\ \A role \in req[r].roles : RoleSeen(r, role)
        /\ \A o \in req[r].ops : OpSeen(r, o)
        /\ \A o \in req[r].listed : OpSeen(r, o) /\ \E s \in seen[r] : SiteOf(s.reg, o) # Nil
=============================================================================
