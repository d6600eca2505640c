--------------------------- MODULE RequestPolicy ---------------------------
(***************************************************************************)
(* What an operation's request must satisfy before anything is sent:       *)
(* parameters and constraints of internal/policy/registry.go, environment  *)
(* selection and parameter scopes of internal/server/server.go, and path   *)
(* templates of internal/server/pathtemplate.go.                           *)
(*                                                                         *)
(* A parameter's value is a record of what the rules look at: its JSON     *)
(* type, which text it is, its size (the length of a text, the value of a  *)
(* number), what it contains (the classes of special characters of a text, *)
(* the keys of an object), and the tokens of a JQL query.  A list of the   *)
(* workspace's policy, and one of a parameter's definition, is a set.      *)
(***************************************************************************)
EXTENDS Integers, Sequences, FiniteSets, SequencesExt, Absent

CONSTANT JqlQuery    \* JQL queries, as their tokens

\* The characters of a path value that are special to a URL: "query" begins a
\* query or a fragment, "escape" is a %XX of a harmless character, "percent" any
\* other percent sign, "gap" an empty segment or a single dot as one, "amp" one
\* of & = +.
CharClass == {"slash", "dotdot", "gap", "query", "percent", "escape", "semicolon", "amp", "control"}

Given(params, name) == name \in DOMAIN params

\* A list of the policy that restricts anything: it is set, and not empty.
Listed(policy, list) == policy[list] \notin {Nil, {}}

\* A text parameter, "" when it is missing or of another type.
TextOf(params, name) ==
    IF Given(params, name) /\ params[name].type = "string" THEN params[name].is ELSE ""

-----------------------------------------------------------------------------
(* ValidateParams                                                          *)

TextOk(def, v) ==
    /\ v.type = "string"
    /\ def.maxlen > 0 => v.size <= def.maxlen
    /\ def.pattern # Nil => v.is \in def.pattern

ObjectOk(def, v) ==
    /\ v.type = "object"
    /\ def.keys # Nil => v.has \subseteq def.keys

NumberOk(def, v) ==
    /\ v.type = "number"
    /\ def.max > 0 => v.size <= def.max

\* An enum is from a list of the workspace, which restricts nothing when it is
\* empty or unknown, or from values of its own.
EnumOk(def, v, policy) ==
    /\ v.type = "string"
    /\ IF def.from # Nil
       THEN def.from \in DOMAIN policy /\ Listed(policy, def.from) => v.is \in policy[def.from]
       ELSE def.values # Nil => v.is \in def.values

ValueOk(def, v, policy) ==
    /\ def.type = "string" => TextOk(def, v)
    /\ def.type = "object" => ObjectOk(def, v)
    /\ def.type = "int"    => NumberOk(def, v)
    /\ def.type = "bool"   => v.type = "bool"
    /\ def.type = "enum"   => EnumOk(def, v, policy)

Valid(op, params, policy) ==
    /\ \A name \in DOMAIN op.params :
          IF Given(params, name) THEN ValueOk(op.params[name], params[name], policy)
                                 ELSE ~op.params[name].required
    /\ DOMAIN params \subseteq DOMAIN op.params \cup {"env", "cluster"}

WithDefaults(op, params) ==
    LET filled == {n \in DOMAIN op.params : ~Given(params, n) /\ op.params[n].default # Nil}
    IN  [n \in DOMAIN params \cup filled |->
            IF n \in filled THEN op.params[n].default ELSE params[n]]

-----------------------------------------------------------------------------
(* JQLScopeConstraint                                                      *)

JqlToken == {"open", "close", "dquote", "squote", "backslash", "orderby", "word"}

ASSUME QueryAssumption == JqlQuery \subseteq Seq(JqlToken) /\ Nil \notin JqlToken

JqlStart == [quote |-> Nil, skip |-> FALSE, depth |-> 0, lowest |-> 0, at |-> 0, order |-> 0]

\* One token further: where quotes and parentheses stand, and where the
\* top-level ORDER BY begins.
Scan(s, token) ==
    LET t == [s EXCEPT !.at = @ + 1] IN
    IF s.skip THEN [t EXCEPT !.skip = FALSE]
    ELSE IF s.quote # Nil THEN [t EXCEPT !.quote = IF token = @ THEN Nil ELSE @,
                                         !.skip = token = "backslash"]
    ELSE IF token \in {"dquote", "squote"} THEN [t EXCEPT !.quote = token]
    ELSE IF token = "open" THEN [t EXCEPT !.depth = @ + 1]
    ELSE IF token = "close" THEN [t EXCEPT !.depth = @ - 1,
                                           !.lowest = IF s.depth - 1 < @ THEN s.depth - 1 ELSE @]
    ELSE IF token = "orderby" /\ s.depth = 0 /\ s.order = 0 THEN [t EXCEPT !.order = t.at]
    ELSE t

\* How the scan stands behind each of a text's tokens, and before the first.
Scanned(jql) ==
    LET after[i \in 0..Len(jql)] == IF i = 0 THEN JqlStart ELSE Scan(after[i - 1], jql[i])
    IN  after

\* The clause lists sort fields only: words, and texts in quotes.
OrderStart == [quote |-> Nil, ok |-> TRUE, fields |-> 0]

OrderScan(s, token) ==
    IF s.quote # Nil THEN [s EXCEPT !.quote = IF token = @ THEN Nil ELSE @]
    ELSE IF token \in {"dquote", "squote"} THEN [s EXCEPT !.quote = token, !.fields = @ + 1]
    ELSE [s EXCEPT !.ok = @ /\ token = "word", !.fields = @ + 1]

OrderOk(clause) ==
    LET s == FoldLeft(OrderScan, OrderStart, Tail(clause))
    IN  s.ok /\ s.quote = Nil /\ s.fields > 0

\* Mutant: only the total of the parentheses is looked at.
BalancedAtEnd(jql) == LET s == Scanned(jql)[Len(jql)] IN s.quote = Nil /\ s.depth = 0

Balanced(jql) == LET s == Scanned(jql)[Len(jql)] IN s.quote = Nil /\ s.depth = 0 /\ s.lowest = 0

OrderBegins(jql) == Scanned(jql)[Len(jql)].order

FilterOf(jql) == IF OrderBegins(jql) = 0 THEN jql ELSE SubSeq(jql, 1, OrderBegins(jql) - 1)
OrderOf(jql)  == IF OrderBegins(jql) = 0 THEN << >> ELSE SubSeq(jql, OrderBegins(jql), Len(jql))

JqlAccepted(jql) == Balanced(jql) /\ (OrderOf(jql) # << >> => OrderOk(OrderOf(jql)))

JqlScoped(jql) ==
    LET filter == FilterOf(jql) IN
    (IF filter = << >> THEN << "scope" >> ELSE << "open" >> \o filter \o << "close", "and", "scope" >>)
    \o OrderOf(jql)

\* The scope stands outside all quotes and parentheses, what is before it is one
\* parenthesis or nothing, and only the clause that sorts comes after it.
ScopeOutermost(jql) ==
    LET place == Scanned(jql) IN
    \E s \in DOMAIN jql :
        /\ jql[s] = "scope"
        /\ place[s].depth = 0 /\ place[s].quote = Nil
        /\ s > 1 => /\ jql[1] = "open" /\ jql[s - 1] = "and"
                    /\ \A i \in 1..(s - 3) : place[i].depth > 0
        /\ s < Len(jql) => jql[s + 1] = "orderby"

\* No query that is accepted takes the scope out of the outermost AND.
QueriesClosed == \A q \in JqlQuery : JqlAccepted(q) => ScopeOutermost(JqlScoped(q))

\* The projects of a jql_scope constraint: a list of the operation's own, or one
\* of the workspace's by name, and jira_projects when that is not set.
ScopeOf(op, policy) ==
    IF op.scope.list = Nil THEN op.scope.own
    ELSE IF op.scope.list \in DOMAIN policy /\ policy[op.scope.list] # Nil THEN policy[op.scope.list]
    ELSE policy["jira_projects"]

Scoped(op, policy) == op.scope # Nil /\ ScopeOf(op, policy) \notin {Nil, {}}

\* CheckConstraints: the query is there, and well-formed when it has to be
\* scoped; a list of the operation's own that is empty denies.
ConstraintsOk(op, params, policy) ==
    op.scope # Nil =>
        /\ op.scope.list = Nil => op.scope.own # {}
        /\ TextOf(params, "jql") # ""
        /\ Scoped(op, policy) => JqlAccepted(params["jql"].jql)

\* What CheckConstraints makes of the parameters.
Constrained(op, params, policy) ==
    IF ~Scoped(op, policy) THEN params
    ELSE [params EXCEPT !["jql"].jql = JqlScoped(@), !["jql"].is = "scoped"]

-----------------------------------------------------------------------------
(* Scopes and environments.                                                *)

\* checkParamScopes
ScopesOk(op, params, policy) ==
    Listed(policy, "slack_channels") /\ "channel" \in DOMAIN op.params
        => TextOf(params, "channel") \in policy["slack_channels"] \cup {""}

\* resolveEnv: the environment that is named, or the site's default one, or its
\* only one; Nil when it is refused.
ResolvedEnv(site, params) ==
    LET asked == IF TextOf(params, "env") # "" THEN TextOf(params, "env") ELSE TextOf(params, "cluster")
        names == DOMAIN site.envs
        name == IF asked # "" THEN asked ELSE IF site.default # Nil THEN site.default
                ELSE IF Cardinality(names) = 1 THEN CHOOSE n \in names : TRUE ELSE Nil
    IN  IF name \in names THEN name ELSE Nil

\* checkEnvSelection
EnvOk(op, sites, params) ==
    op.connector \in {"http-rest", "mcp", "email", "jira-worklog"} /\ op.site \in DOMAIN sites
        => ResolvedEnv(sites[op.site], params) # Nil

\* The tunnel that checkTunnelAccess asks about, Nil for none.
NeededTunnel(op, sites, params) ==
    IF op.site \notin DOMAIN sites THEN Nil
    ELSE LET env == ResolvedEnv(sites[op.site], params)
         IN  IF env = Nil THEN Nil ELSE sites[op.site].envs[env].tunnel

-----------------------------------------------------------------------------
(* Path templates: pieces that are text, or a parameter put in raw, escaped,
   or in a query.                                                          *)

\* hasPathInjection, and what the default case of expandPathTemplate refuses.
RawOk(piece, v, multi) ==
    /\ v.has \cap {"dotdot", "query", "percent", "semicolon", "control"} = {}
    /\ "escape" \in v.has => multi
    /\ "slash" \in v.has => multi
    /\ multi => "gap" \notin v.has
    /\ piece.inquery => "amp" \notin v.has

PieceOk(piece, v, multi) ==
    /\ piece.how = "raw" => RawOk(piece, v, multi)
    /\ piece.how = "escaped" /\ ~piece.inquery => v.is \notin {".", ".."}

\* What PathEscape leaves as it is.
Unescaped(v) == v.has \cap (IF v.is \in {".", ".."} THEN {"amp", "dotdot", "gap"} ELSE {"amp"})

\* Mutant: in the query part too, a value is escaped as in a path.
ReachesEscapedAsPath(piece, v) == IF piece.how = "raw" THEN v.has ELSE Unescaped(v)

\* The special characters that reach the URL; "query" is {key} right behind
\* ?path= or &path=, and QueryEscape leaves nothing.
Reaches(piece, v) ==
    IF piece.how = "raw" THEN v.has
    ELSE IF piece.how = "query" \/ piece.inquery THEN {}
    ELSE Unescaped(v)

PathOk(op, params) ==
    \A i \in DOMAIN op.path :
        LET p == op.path[i] IN
        p.how # "text" /\ Given(params, p.key) =>
            PieceOk(p, params[p.key], Given(op.params, p.key) /\ op.params[p.key].multi)
=============================================================================
