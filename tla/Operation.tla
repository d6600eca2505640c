----------------------------- MODULE Operation -----------------------------
(***************************************************************************)
(* One operation from request to answer (executeOp and the connectors in   *)
(* internal/server/server.go and slack_file.go, internal/connectors),      *)
(* composed with the audit log: every request that is decided writes its   *)
(* record by the step of module AuditLog.                                  *)
(*                                                                         *)
(* Module Gateway has shown who may call what; here an agent is granted    *)
(* everything, and what is looked at is what the request must satisfy,     *)
(* what is sent where, what comes back and what is recorded.  Requests are *)
(* handled independently of each other, so there is one at a time, beside  *)
(* reloads and crashes.  An upstream call and its answer are one step.     *)
(*                                                                         *)
(* An operation is a record of its connector, site, method and the rest of *)
(* its definition; a config one of sites, policy and tunnels.              *)
(***************************************************************************)
EXTENDS AuditLog, RequestPolicy, PgScope, ResponseShape

CONSTANTS
    Request,      \* requests: operation, parameters, and whether the body is JSON
    Later,        \* bound: the requests that arrive when one has been recorded
    Ops,          \* the registry: operations by their ids
    Config,       \* contents of the config by names, the first one and those of reloads
    Body,         \* what an HTTP or MCP upstream answers with, JSON or not
    Mail,         \* messages on the mail server: mailbox and sender
    SlackFile,    \* files on Slack: id, channels, whether text, small and well placed
    PgTables,     \* tables of the database
    MaxRows       \* rows that a query returns at most

\* A parameter's value, as a request gives it.
IsValue(v) ==
    /\ DOMAIN v = {"type", "is", "size", "has", "jql", "statement"}
    /\ v.jql \in JqlQuery

\* Requests name operations of the registry, of the connectors that are modelled.
\* In the definition of an operation a piece of the path is text or a parameter,
\* and the channel, which is looked at before the defaults are applied, is a text
\* without a default.
ASSUME RequestAssumption ==
    /\ Request # {} /\ Later \subseteq Request
    /\ \A r \in Request : r.op \in DOMAIN Ops /\ \A n \in DOMAIN r.params : IsValue(r.params[n])
    /\ \A o \in DOMAIN Ops :
          /\ Ops[o].connector \in {"http-rest", "postgres", "local-service", "mcp", "email", "jira-worklog"}
          /\ \A i \in DOMAIN Ops[o].path : Ops[o].path[i].how \in {"text", "raw", "escaped", "query"}
          /\ "channel" \in DOMAIN Ops[o].params =>
                /\ Ops[o].params["channel"].type \in {"string", "enum"}
                /\ Ops[o].params["channel"].default = Nil

\* No environment is without a name.
ASSUME ConfigAssumption ==
    /\ DOMAIN Config # {}
    /\ \A c \in DOMAIN Config : \A s \in DOMAIN Config[c].sites :
          DOMAIN Config[c].sites[s].envs \cap {"", Nil} = {}
    /\ \A c \in DOMAIN Config :
          Config[c].policy["pg_allowed_tables"] # Nil => Config[c].policy["pg_allowed_tables"] \subseteq Entry

\* A body is a JSON value, or raw.
ASSUME AnswerAssumption ==
    /\ \A o \in DOMAIN Ops : Ops[o].fields \in Seq(Path)
    /\ Body \subseteq Value \cup {[kind |-> "raw"]}
    /\ MaxRows \in Nat /\ Nil \notin {"unreadable", "denied", "error", "result", "ok"}

VARIABLES
    conf,     \* the published config, by its name
    st,       \* that of the request in progress
    req,      \* the request
    pc,       \* where it is
    params,   \* its parameters, constrained and with defaults
    checked,  \* tunnels found up for it
    calls,    \* what was sent upstream for it: kinds of calls, with the environment
    effects,  \* upstream: how often it has performed what was asked
    out,      \* what the connector returned, or the denial
    records,  \* audit records written for it, or tried to
    answer    \* what the agent got, Nil for nothing

opVars  == <<conf, st, req, pc, params, checked, calls, effects, out, records, answer>>
theVars == <<vars, opVars>>

Op     == Ops[req.op]
Sites  == Config[st].sites
Policy == Config[st].policy
Site   == Sites[Op.site]

Pc == {"idle", "decide", "build", "crumb", "lists", "send", "refresh", "retry", "initialize",
       "notify", "call", "info", "download", "query", "service", "mail", "worklog", "log", "reply"}

NoOut == [kind |-> "none", status |-> Nil, body |-> Null, seen |-> {}]

OpTypeOK ==
    /\ TypeOK
    /\ conf \in DOMAIN Config /\ st \in DOMAIN Config
    /\ req \in Request
    /\ pc \in Pc
    /\ \A n \in DOMAIN params : n \in DOMAIN Op.params \cup {"env", "cluster"}
    /\ effects \in 0..1
    /\ out.kind \in {"none", "denied", "error", "result"}
    /\ out.status \in {Nil, "ok", "redirect", "refused", "unauthorized"}
    /\ records \in 0..1
    /\ answer \in {Nil, "unreadable", "denied", "error", "result"}

OpInit ==
    /\ Init
    /\ conf \in DOMAIN Config /\ st = conf
    /\ req \in {CHOOSE r \in Request : TRUE}
    /\ pc = "idle"
    /\ params = << >>
    /\ checked = {} /\ calls = {} /\ effects = 0
    /\ out = NoOut
    /\ records = 0
    /\ answer = Nil

-----------------------------------------------------------------------------
(* The decision.                                                           *)

Arrive ==
    /\ pc = "idle"
    /\ logged < MaxLog
    /\ req' \in IF logged = 0 THEN Request ELSE Later
    /\ st' = conf
    /\ pc' = "decide"
    /\ params' = << >> /\ checked' = {} /\ calls' = {} /\ effects' = 0
    /\ out' = NoOut /\ records' = 0 /\ answer' = Nil
    /\ UNCHANGED <<vars, conf>>

\* A body over the limit, or that is not JSON, is answered without a record.
Unreadable ==
    /\ pc = "decide"
    /\ ~req.json
    /\ pc' = "idle"
    /\ answer' = "unreadable"
    /\ UNCHANGED <<vars, conf, st, req, params, checked, calls, effects, out, records>>

FirstStep ==
    CASE Op.connector = "http-rest"     -> IF Op.fileContent THEN "info" ELSE "build"
      [] Op.connector = "postgres"      -> "query"
      [] Op.connector = "local-service" -> "service"
      [] Op.connector = "mcp"           -> "initialize"
      [] Op.connector = "email"         -> "mail"
      [] Op.connector = "jira-worklog"  -> "worklog"

\* Mutant: the environment is checked before the defaults are applied.
CheckedParamsRaw == Constrained(Op, req.params, Policy)

\* The parameters that environment and tunnel are checked with: defaults first.
CheckedParams == WithDefaults(Op, Constrained(Op, req.params, Policy))

Acceptable ==
    /\ Valid(Op, req.params, Policy)
    /\ ConstraintsOk(Op, req.params, Policy)
    /\ ScopesOk(Op, req.params, Policy)
    /\ EnvOk(Op, Sites, CheckedParams)

Deny ==
    /\ pc' = "log"
    /\ out' = [NoOut EXCEPT !.kind = "denied"]
    /\ UNCHANGED <<params, checked>>

\* The tunnel that the environment needs has to be configured and up.
Decide ==
    /\ pc = "decide"
    /\ req.json
    /\ IF ~Acceptable THEN Deny
       ELSE LET tunnel == NeededTunnel(Op, Sites, CheckedParams) IN
            \/ tunnel # Nil /\ Deny
            \/ /\ tunnel # Nil => tunnel \in Config[st].tunnels
               /\ params' = WithDefaults(Op, Constrained(Op, req.params, Policy))
               /\ checked' = {tunnel} \ {Nil}
               /\ pc' = FirstStep
               /\ UNCHANGED out
    /\ UNCHANGED <<vars, conf, st, req, calls, effects, records, answer>>

-----------------------------------------------------------------------------
(* What the connectors have in common.                                     *)

EnvName == ResolvedEnv(Site, params)
Env     == Site.envs[EnvName]

Call(kind, env) == calls' = calls \cup {[kind |-> kind, env |-> env]}

Return(status, body, seen) ==
    /\ pc' = "log"
    /\ out' = [kind |-> "result", status |-> status, body |-> body, seen |-> seen]

Fail(status) ==
    /\ pc' = "log"
    /\ out' = [NoOut EXCEPT !.kind = "error", !.status = status]

Performed(yes) == effects' = IF yes THEN effects + 1 ELSE effects

Within(step) ==
    /\ pc = step
    /\ UNCHANGED <<vars, conf, st, req, params, checked, records, answer>>

\* shapeResponse: errors and what is neither object nor array pass as they are;
\* of an array the elements that are no objects are left out.
Shaped(status, body, fields) ==
    IF fields = << >> \/ status \in {"refused", "unauthorized"} THEN body
    ELSE IF body.kind = "obj" THEN Shape(body, fields)
    ELSE IF body.kind = "arr" THEN Arr(ShapedObjects(body.of, fields))
    ELSE body

-----------------------------------------------------------------------------
(* executeHttpConnector                                                    *)

Complete(multipart) == \A n \in multipart : TextOf(params, n) # ""

Build ==
    /\ Within("build")
    /\ IF \/ Op.site \notin DOMAIN Sites
          \/ ~Env.url
          \/ ~PathOk(Op, params)
          \/ ~Complete(Op.multipart)
       THEN Fail(Nil)
       ELSE /\ pc' = IF Op.site = "jenkins" /\ Op.writes THEN "crumb" ELSE "lists"
            /\ UNCHANGED out
    /\ UNCHANGED <<calls, effects>>

\* Without a crumb the request goes out all the same.
FetchCrumb ==
    /\ Within("crumb")
    /\ Call("crumb", EnvName)
    /\ pc' = "lists"
    /\ UNCHANGED <<effects, out>>

ListGiven ==
    IF TextOf(params, "listId") # "" THEN TextOf(params, "listId") ELSE TextOf(params, "idList")

\* Mutant: only a list that is given is looked at.
ListDeniedIfGiven ==
    /\ Op.site = "trello" /\ Listed(Policy, "trello_allowed_lists")
    /\ ListGiven \notin Policy["trello_allowed_lists"] \cup {""}

\* With the list set, an operation that names no list is denied as well.
ListDenied ==
    /\ Op.site = "trello" /\ Listed(Policy, "trello_allowed_lists")
    /\ ListGiven \notin Policy["trello_allowed_lists"]

CheckLists ==
    /\ Within("lists")
    /\ IF ListDenied THEN Fail(Nil) ELSE pc' = "send" /\ UNCHANGED out
    /\ UNCHANGED <<calls, effects>>

\* Mutant: the client follows a redirect, and a write that is lost on the way
\* is answered with the status of what it leads to.
ExchangesFollowed ==
    { <<"ok", TRUE>>, <<"ok", FALSE>>, <<"refused", FALSE>>, <<"unauthorized", FALSE>> }

\* httprest: what may be answered to a request, and whether it was performed.
Exchanges ==
    { <<"ok", TRUE>>, <<"redirect", FALSE>>, <<"refused", FALSE>>, <<"unauthorized", FALSE>> }

\* No answer within 30 seconds, or one of more than 20 MB: the request may have
\* been performed.
Lost ==
    /\ Fail(Nil)
    /\ \E yes \in BOOLEAN : Performed(yes)

Refreshes(status) == status = "unauthorized" /\ Env.oauth

Send ==
    /\ Within("send")
    /\ Call("main", EnvName)
    /\ \/ Lost
       \/ \E x \in Exchanges, body \in Body :
             /\ Performed(x[2])
             /\ IF Refreshes(x[1])
                THEN /\ pc' = "refresh"
                     /\ out' = [NoOut EXCEPT !.status = x[1], !.body = body]
                ELSE Return(x[1], Shaped(x[1], body, Op.fields), {})

\* refreshOAuthToken (module OAuthRefresh); when it fails the 401 stands.
RefreshToken ==
    /\ Within("refresh")
    /\ \/ pc' = "retry" /\ UNCHANGED out
       \/ Return(out.status, out.body, {})
    /\ UNCHANGED <<calls, effects>>

Retry ==
    /\ Within("retry")
    /\ Call("main", EnvName)
    /\ \/ Lost
       \/ \E x \in Exchanges, body \in Body :
             /\ Performed(x[2])
             /\ Return(x[1], Shaped(x[1], body, Op.fields), {})

-----------------------------------------------------------------------------
(* executeMcpConnector: the handshake, then the call.                      *)

Initialize ==
    /\ Within("initialize")
    /\ IF Op.site \notin DOMAIN Sites \/ ~Env.url
       THEN Fail(Nil) /\ UNCHANGED calls
       ELSE \/ Fail(Nil) /\ UNCHANGED calls
            \/ /\ Call("initialize", EnvName)
               /\ \/ Fail(Nil)
                  \/ Fail("refused")
                  \/ pc' = "notify" /\ UNCHANGED out
    /\ UNCHANGED effects

\* The answer to the notification is not looked at.
Notify ==
    /\ Within("notify")
    /\ Call("notify", EnvName)
    /\ pc' = "call"
    /\ UNCHANGED <<effects, out>>

\* Whatever the status, a result is shaped when it is an object, and null becomes
\* an empty one on the way.
ShapedResult(body) ==
    IF Op.fields = << >> \/ body.kind \notin {"obj", "null"} THEN body
    ELSE IF body = Null THEN EmptyObject ELSE Shape(body, Op.fields)

\* The tool is the operation's path or the parameter; an RPC error and an
\* unreadable answer are errors.
CallTool ==
    /\ Within("call")
    /\ IF Op.tool = "" /\ TextOf(params, "tool") = ""
       THEN Fail(Nil) /\ UNCHANGED <<calls, effects>>
       ELSE /\ Call("main", EnvName)
            /\ \/ Lost
               \/ Fail("ok") /\ Performed(FALSE)
               \/ \E x \in { <<"ok", TRUE>>, <<"refused", FALSE>> }, body \in Body :
                     Performed(x[2]) /\ Return(x[1], ShapedResult(body), {})

-----------------------------------------------------------------------------
(* executeSlackFileContent                                                 *)

\* checkSlackFileScope
FileInScope(f) ==
    Listed(Policy, "slack_channels") => f.channels \cap Policy["slack_channels"] # {}

\* What Slack says of the file; another file's answer, a file of other channels,
\* one that is not text or too large, and a URL elsewhere are refused.
FileInfo ==
    /\ Within("info")
    /\ IF Op.site \notin DOMAIN Sites \/ ~Env.url
       THEN Fail(Nil) /\ UNCHANGED calls
       ELSE /\ Call("info", EnvName)
            /\ \/ Fail(Nil)
               \/ \E f \in SlackFile :
                     IF f.id = TextOf(params, "file") /\ FileInScope(f) /\ f.text /\ f.small /\ f.placed
                     THEN pc' = "download" /\ out' = [NoOut EXCEPT !.seen = {f}]
                     ELSE Fail(Nil)
    /\ UNCHANGED effects

Download ==
    /\ Within("download")
    /\ Call("main", EnvName)
    /\ \/ Fail(Nil) /\ Performed(FALSE)
       \/ Return("ok", EmptyObject, out.seen) /\ Performed(TRUE)

-----------------------------------------------------------------------------
(* executePostgresConnector                                                *)

PgEnv    == TextOf(params, "env")
PgSchema == Site.envs[PgEnv].schema
SqlGiven == IF Given(params, "sql") THEN params["sql"].statement ELSE Nil

\* The tables of the schema by these names; none when no schema is configured.
Qualified(names) ==
    {[schema |-> PgSchema, name |-> t] : t \in IF PgSchema = "" THEN {} ELSE names}

\* ExecuteQuery runs in a read-only transaction: what would write fails there.
\* The rows past the limit are not read.
RunQuery(statement) ==
    IF \/ statement = Nil
       \/ ~OnlySelects(statement)
       \/ ~InTableScope(statement, Policy["pg_allowed_tables"])
    THEN Fail(Nil) /\ UNCHANGED <<calls, effects>>
    ELSE /\ Call("main", PgEnv)
         /\ \/ Fail(Nil) /\ Performed(FALSE)
            \/ /\ ~statement.writes
               /\ \E n \in 0..(MaxRows + 1) :
                     Return("ok", EmptyObject, [table : TablesRead(statement),
                                           rows : {IF n > MaxRows THEN MaxRows ELSE n}])
               /\ Performed(TRUE)

\* The tables of the schema, without those that the list does not allow, and no row
\* of any.
ListTables ==
    /\ Call("main", PgEnv)
    /\ \/ Fail(Nil) /\ Performed(FALSE)
       \/ /\ Return("ok", EmptyObject,
                    [table : Qualified({t \in PgTables :
                                 TableAllowed(Policy["pg_allowed_tables"], PgSchema, t)}),
                     rows : {0}])
          /\ Performed(TRUE)

DescribeTable(t) ==
    IF t = "" \/ ~TableAllowed(Policy["pg_allowed_tables"], PgSchema, t)
    THEN Fail(Nil) /\ UNCHANGED <<calls, effects>>
    ELSE /\ Call("main", PgEnv)
         /\ \/ Fail(Nil) /\ Performed(FALSE)
            \/ Return("ok", EmptyObject, [table : Qualified({t}), rows : {0}]) /\ Performed(TRUE)

\* This connector takes the environment by its name alone.
Query ==
    /\ Within("query")
    /\ IF \/ Op.site \notin DOMAIN Sites
          \/ PgEnv \notin DOMAIN Site.envs
          \/ TextOf(params, "db") \notin Site.envs[PgEnv].dbs
       THEN Fail(Nil) /\ UNCHANGED <<calls, effects>>
       ELSE \/ Fail(Nil) /\ UNCHANGED <<calls, effects>>
            \/ Op.action = "query"  /\ RunQuery(SqlGiven)
            \/ Op.action = "tables" /\ ListTables
            \/ Op.action = "schema" /\ DescribeTable(TextOf(params, "table"))

-----------------------------------------------------------------------------
(* executeLocalServiceConnector: the tunnel is looked up in the config that *)
(* is published by now, the site in the request's own.                     *)

TunnelNamed == IF TextOf(params, "tunnel") = "" THEN "vpn1" ELSE TextOf(params, "tunnel")

Service ==
    /\ Within("service")
    /\ IF \/ TunnelNamed \notin Config[conf].tunnels
          \/ Op.method = "STATUS" /\ Op.site \notin DOMAIN Sites
          \/ Op.method = "TEST" /\ (TextOf(params, "host") = "" \/ TextOf(params, "port") = "")
       THEN Fail("ok") /\ UNCHANGED <<calls, effects>>
       ELSE /\ Call("main", Nil)
            /\ \/ Op.method = "STATUS" /\ Fail("ok") /\ Performed(FALSE)
               \/ Return("ok", EmptyObject, {[tunnel |-> TunnelNamed]}) /\ Performed(TRUE)

-----------------------------------------------------------------------------
(* executeEmailConnector                                                   *)

\* Mutant: the allowed list is asked first, and what is on it is not denied.
denyResourceAllowedFirst(value, denied, allowed) ==
    value \notin allowed /\ (value \in denied \/ allowed # {})

\* A value that is on the denied list, or missing on a list of allowed ones.
denyResource(value, denied, allowed) ==
    value \in denied \/ (allowed # {} /\ value \notin allowed)

BoxDenied(box)     == denyResource(box, Policy["email_denied_mailboxes"], Policy["email_allowed_mailboxes"])
SenderDenied(from) == denyResource(from, Policy["email_denied_senders"], Policy["email_allowed_senders"])

Mailbox == IF TextOf(params, "mailbox") = "" THEN "INBOX" ELSE TextOf(params, "mailbox")

Mailed(seen) == Return("ok", EmptyObject, seen) /\ Performed(TRUE)

ListMailboxes ==
    Mailed({[box |-> b, from |-> Nil] : b \in {m.box : m \in {n \in Mail : ~BoxDenied(n.box)}}})

SearchMail == ~BoxDenied(Mailbox) /\ Mailed({m \in Mail : m.box = Mailbox /\ ~SenderDenied(m.from)})

\* A message of a denied sender is fetched, and not returned.
ReadMail ==
    /\ ~BoxDenied(Mailbox)
    /\ \E m \in Mail :
          /\ m.box = Mailbox
          /\ IF SenderDenied(m.from) THEN Fail(Nil) /\ Performed(TRUE) ELSE Mailed({m})

SendMail ==
    /\ TextOf(params, "to") # "" /\ ~SenderDenied(TextOf(params, "to"))
    /\ Mailed({}) \/ Lost

\* Whatever goes wrong with the server is an error; a mail may have been sent.
MailCall ==
    /\ Within("mail")
    /\ \/ Fail(Nil) /\ UNCHANGED <<calls, effects>>
       \/ Op.site \in DOMAIN Sites /\ Call("main", EnvName)
          /\ \/ Op.action = "list_mailboxes" /\ ListMailboxes
             \/ Op.action = "search" /\ SearchMail
             \/ Op.action = "read" /\ ReadMail
             \/ Op.action = "send" /\ SendMail

-----------------------------------------------------------------------------

\* executeJiraWorklog (module Worklog).
WorklogCall ==
    /\ Within("worklog")
    /\ \/ Fail(Nil) /\ UNCHANGED <<calls, effects>>
       \/ /\ Op.site \in DOMAIN Sites
          /\ Call("main", EnvName)
          /\ Lost \/ (Return("ok", EmptyObject, {}) /\ Performed(TRUE))

\* LogAllow or LogDeny, whatever becomes of the write.
Record ==
    /\ pc = "log"
    /\ Log
    /\ records' = records + 1
    /\ pc' = "reply"
    /\ UNCHANGED <<conf, st, req, params, checked, calls, effects, out, answer>>

\* The body null becomes a map that is nil, and writing the request's id into it
\* panics: the server closes the connection.
Reply ==
    /\ pc = "reply"
    /\ pc' = "idle"
    /\ answer' = IF out.kind = "result" /\ out.body = Null THEN Nil ELSE out.kind
    /\ UNCHANGED <<vars, conf, st, req, params, checked, calls, effects, out, records>>

Publish ==
    /\ conf' \in DOMAIN Config \ {conf}
    /\ UNCHANGED <<vars, st, req, pc, params, checked, calls, effects, out, records, answer>>

Crash ==
    /\ Restart
    /\ pc' = "idle" /\ params' = << >> /\ checked' = {} /\ calls' = {} /\ effects' = 0
    /\ out' = NoOut /\ records' = 0 /\ answer' = Nil
    /\ UNCHANGED <<conf, st, req>>

Handle ==
    \/ Arrive \/ Unreadable \/ Decide
    \/ Build \/ FetchCrumb \/ CheckLists \/ Send \/ RefreshToken \/ Retry
    \/ Initialize \/ Notify \/ CallTool \/ FileInfo \/ Download
    \/ Query \/ Service \/ MailCall \/ WorklogCall
    \/ Record \/ Reply

OpNext ==
    \/ Handle
    \/ Publish
    \/ Crash
    \/ Midnight /\ UNCHANGED opVars

OpSpec == OpInit /\ [][OpNext]_theVars

-----------------------------------------------------------------------------
(* What was sent.                                                          *)

Main == \E c \in calls : c.kind = "main"

\* A request goes upstream under the config it was decided by.  Whatever is sent
\* for it, in each of its up to three calls, goes to an environment whose tunnel
\* was found up for it, if it needs one: the check and the connectors each choose
\* the environment for themselves, from the parameters as they stand by then.  The
\* local-service connector looks its tunnel up anew: one that the request's config
\* does not have is looked into only when another was published meanwhile.
SentToCheckedEnv ==
    [][/\ \A c \in calls' \ calls :
             c.env # Nil => Site.envs[c.env].tunnel \in checked \cup {Nil}
       /\ pc = "service" /\ out'.kind = "result" =>
             conf # st \/ \A s \in out'.seen : s.tunnel \in Config[st].tunnels]_theVars

\* executeHttpConnector, and not the reading of a Slack file.
ViaHttp == Op.connector = "http-rest" /\ ~Op.fileContent

Outside == {"slash", "dotdot", "query", "percent", "semicolon", "control"}

\* A parameter put into the path leaves the path what the operation makes it:
\* it stays within its segment, or below the ones before it if it may be of
\* several, and within its value in a query.
PathKept ==
    Main /\ ViaHttp => \A i \in DOMAIN Op.path :
        LET p == Op.path[i] IN
        p.how # "text" /\ Given(params, p.key) =>
            LET reach == Reaches(p, params[p.key])
                multi == Given(Op.params, p.key) /\ Op.params[p.key].multi
            IN  /\ reach \cap (IF multi THEN (Outside \ {"slash"}) \cup {"gap"} ELSE Outside) = {}
                /\ p.inquery => "amp" \notin reach

\* On the list of allowed ones, if there is one, and not on the list of denied ones.
WithinMailLists(value, denied, allowed) ==
    /\ value \notin Policy[denied]
    /\ Policy[allowed] # {} => value \in Policy[allowed]

\* What the upstream was asked, if it was, is inside the workspace's lists as
\* they were when the request was decided: the channel posted to, the list of a
\* card, the recipient, and the scope of a JQL query, which nothing the agent
\* writes can take out of the outermost AND.
SentWithinLists ==
    Main =>
        /\ Listed(Policy, "slack_channels") /\ Given(params, "channel")
               => params["channel"].is \in Policy["slack_channels"] \cup {""}
        /\ ViaHttp /\ Op.site = "trello" /\ Listed(Policy, "trello_allowed_lists")
               => ListGiven \in Policy["trello_allowed_lists"]
        /\ Op.connector = "email" /\ Op.action = "send"
               => WithinMailLists(TextOf(params, "to"), "email_denied_senders", "email_allowed_senders")
        /\ Scoped(Op, Policy) => ScopeOutermost(params["jql"].jql)

-----------------------------------------------------------------------------
(* What came of it.                                                        *)

\* The agent can tell the outcome: what it is told was done was done, once, and
\* what is denied, redirected or refused was not; a retry after a 401 and a
\* redirect that is not followed never do it twice.  Only an error leaves it open.
\* No answer at all is given to a request only when the upstream's is null.  Once
\* it is over, an audit record was written for all that has gone upstream: the
\* record comes after the call, so that only a crash in between leaves none.
PerformedAsAnswered ==
    pc = "idle" =>
        /\ answer = "result" => effects = IF out.status = "ok" THEN 1 ELSE 0
        /\ answer \in {"denied", "unreadable"} => effects = 0 /\ calls = {}
        /\ answer = Nil /\ records = 1 => out.body = Null
        /\ calls # {} \/ answer \in {"denied", "error", "result"} => records = 1

\* Mail of a mailbox and a sender that are not denied.
MailAllowed(m) ==
    /\ WithinMailLists(m.box, "email_denied_mailboxes", "email_allowed_mailboxes")
    /\ m.from # Nil => WithinMailLists(m.from, "email_denied_senders", "email_allowed_senders")

\* Rows of a table on the list, and no more of them than the limit.
RowsAllowed(s) ==
    /\ s.rows <= MaxRows
    /\ Listed(Policy, "pg_allowed_tables") => \E e \in Policy["pg_allowed_tables"] : Covers(e, s.table)

\* A file of an allowed channel, which is the one that was asked for.
FileAllowed(f) == f.id = TextOf(params, "file") /\ FileInScope(f) /\ f.text

SeenAllowed ==
    /\ Op.connector = "email"    => \A m \in out.seen : MailAllowed(m)
    /\ Op.connector = "postgres" => \A s \in out.seen : RowsAllowed(s)
    /\ Op.connector = "http-rest" /\ Op.fileContent => \A f \in out.seen : FileAllowed(f)

\* An agent that gets a result has seen what the lists allow and nothing more,
\* also of mail that one list allows and the other denies.
SeenWithinLists == answer = "result" => SeenAllowed

\* The status and the body of a call come back to the agent that made it: "surface
\* the upstream HTTP status so callers can confirm the real outcome" (server.go).
AnswerShowsStatus ==
    pc = "idle" /\ effects = 1 /\ records = 1 => answer \in {"error", "result"}

-----------------------------------------------------------------------------
(* The rules that are pure, over inputs of their own.                      *)

\* splitJQLOrderBy and JQLScopeConstraint: no query that is accepted takes the
\* scope out of the outermost AND, whatever its quotes, backslashes, parentheses
\* and ORDER BYs.
JqlClosed == pc = "send" => QueriesClosed

\* walk: the tables found in a statement are those it reads, with every name of a
\* common table expression resolved where it stands, or the statement is refused
\* because of a denied function or its depth; and an entry of pg_allowed_tables
\* admits no table but those it names.
PgScopeExact == pc = "query" => ReferencesFound /\ EntriesCover

\* With allow_fields set, a result of HTTP shows nothing else unless it is that
\* of an error, and one of MCP unless it is no object.
AnswerShaped ==
    out.kind = "result" /\ Op.fields # << >> =>
        /\ Op.connector = "http-rest" /\ out.status \notin {"refused", "unauthorized"} =>
              /\ out.body.kind = "obj" => OnlyFields(out.body, Op.fields)
              /\ out.body.kind = "arr" =>
                    \A i \in DOMAIN out.body.of :
                        out.body.of[i].kind = "obj" /\ OnlyFields(out.body.of[i], Op.fields)
        /\ Op.connector = "mcp" /\ out.body.kind = "obj" => OnlyFields(out.body, Op.fields)

\* ResponseShaper and shapeResponse: a shaped object has every text the fields
\* allow and no other, each where it stood, whichever fields overlap and in
\* whatever order; and no other text is in what an agent is answered, whether at
\* once, after a refresh of the token or by a tool.
ShapeExact ==
    /\ pc = "reply" => ObjectsShaped
    /\ AnswerShaped
=============================================================================
