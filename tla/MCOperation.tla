---------------------------- MODULE MCOperation ----------------------------
(***************************************************************************)
(* Operation for TLC: an operation for each connector and each rule, after *)
(* config.example/operations.yaml, requests that meet the rules and that   *)
(* break one each, and three configs:                                      *)
(*   Strict  every list of the policy is set;                              *)
(*   Open    no list is set, one tunnel is gone, the mail sites disagree;  *)
(*   Bare    one of Strict in which no site is configured.                 *)
(* The rules that are pure are looked at over inputs of their own besides. *)
(***************************************************************************)
EXTENDS Feedback, TLC

-----------------------------------------------------------------------------
(* Parameters and their definitions.                                       *)

NoParams == [n \in {} |-> Nil]

Typed(type, is) == [type |-> type, is |-> is, size |-> 1, has |-> {}, jql |-> << >>, statement |-> Nil]
Text(is)        == Typed("string", is)
Number(n)       == [Typed("number", "n") EXCEPT !.size = n]
With(is, chars) == [Text(is) EXCEPT !.has = chars]
Jql(tokens)     == [Text("jql") EXCEPT !.jql = tokens]
Sql(tree)       == [Text("sql") EXCEPT !.statement = tree]

String   == [type |-> "string", required |-> FALSE, from |-> Nil, values |-> Nil, max |-> 0,
             maxlen |-> 2, pattern |-> Nil, keys |-> Nil, default |-> Nil, multi |-> FALSE]
Required == [String EXCEPT !.required = TRUE]
Bounded  == [String EXCEPT !.type = "int", !.max = 3]
OneOf(list) == [String EXCEPT !.type = "enum", !.from = list]

-----------------------------------------------------------------------------
(* Queries and statements.                                                 *)

Table(s, n)  == [kind |-> "table", schema |-> s, name |-> n]
Fn(d, of)    == [kind |-> "func", denied |-> d, of |-> of]
Cte(n, q)    == [name |-> n, query |-> q]
Select(with, rec, of) ==
    [kind |-> "select", locks |-> FALSE, writes |-> FALSE, with |-> with, recursive |-> rec, of |-> of]

\* The queries of up to five tokens.
MCJqlQuery == UNION {[1..n -> JqlToken] : n \in 0..5}

Names  == {"a", "b"}
Tables == {Table(s, n) : s \in {"", "s"}, n \in Names}
Selects == {Select(<< >>, FALSE, <<t>>) : t \in Tables}
Ctes   == {Cte(n, q) : n \in Names, q \in Selects}
Inner  == {Select(<<c>>, r, <<Table("", n)>>) : c \in Ctes, r \in BOOLEAN, n \in Names}
Bodies == {<<t>> : t \in Tables} \cup {<<Fn(FALSE, <<i>>)>> : i \in Inner}
          \cup {<<Table("", "a"), Fn(TRUE, << >>)>>}

\* A SELECT with two common table expressions, or one with one of its own.
MCStatement ==
    {Select(<<c, d>>, r, b) : c \in Ctes, d \in Ctes, r \in BOOLEAN, b \in Bodies}
    \cup {Select(<<Cte(n, i)>>, r, <<t>>) : n \in Names, i \in Inner, r \in BOOLEAN, t \in Tables}

MCEntry == {[schema |-> "*", name |-> "*"], [schema |-> "s", name |-> "*"], [schema |-> "s", name |-> "a"],
            [schema |-> "", name |-> "a"], [schema |-> "public", name |-> "a"],
            [schema |-> "pg_catalog", name |-> "*"]}

MCReference == {[schema |-> s, name |-> n] : s \in {"", "s", "public"}, n \in {"a", "b", "pg_x"}}

-----------------------------------------------------------------------------
(* JSON bodies.                                                            *)

JsonText(t)   == [kind |-> "text", is |-> t]
Pair(a, b)    == Obj("a" :> a @@ "b" :> b)
Only(k, v)    == Obj(k :> v)

Elements == {Null, JsonText("x"), Only("a", JsonText("x")), Only("b", JsonText("y")),
             Pair(JsonText("x"), JsonText("y")), Only("a", Null)}
Values   == Elements \cup {Arr(<< >>)} \cup {Arr(<<e, f>>) : e \in Elements, f \in Elements}
MCOriginal == {Pair(v, w) : v \in Values, w \in {Null, JsonText("z"), Arr(<<JsonText("q")>>)}}

Paths == { <<"a">>, <<"b">>, <<"a", "a">>, <<"a", "[]">>, <<"a", "[]", "a">>, <<"a", "[]", "b">>, <<"b", "[]">> }
MCFieldList == [1..1 -> Paths] \cup [1..2 -> Paths] \cup [1..3 -> Paths]

MCBody == {Pair(JsonText("x"), JsonText("y")), Arr(<<Only("a", JsonText("x")), JsonText("y")>>), Null, [kind |-> "raw"]}

-----------------------------------------------------------------------------
(* The registry.                                                           *)

Piece(how, key, inquery) == [how |-> how, key |-> key, inquery |-> inquery]

Plain == [connector |-> "http-rest", site |-> "git", method |-> "GET", action |-> "", params |-> NoParams,
          scope |-> Nil, path |-> << >>, multipart |-> {}, fileContent |-> FALSE,
          writes |-> FALSE, tool |-> "", fields |-> << >>]

Http(site, defs)     == [Plain EXCEPT !.site = site, !.params = defs]
Postgres(action, defs)     == [Plain EXCEPT !.connector = "postgres", !.site = "pg", !.action = action,
                                        !.params = "env" :> Required @@ "db" :> Required @@ defs]
Local(method, defs)  == [Plain EXCEPT !.connector = "local-service", !.site = "git", !.method = method,
                                        !.params = defs]
Email(action, defs)  == [Plain EXCEPT !.connector = "email", !.site = "mail", !.action = action,
                                        !.params = defs]

MCOps ==
    "search" :> [Http("git", "jql" :> Required) EXCEPT !.scope = [list |-> "jira_projects", own |-> {}],
                                                !.fields = << <<"a">> >>]
 @@ "other"  :> [Http("git", "jql" :> Required) EXCEPT !.scope = [list |-> Nil, own |-> {"B"}]]
 @@ "none"   :> [Http("git", "jql" :> Required) EXCEPT !.scope = [list |-> Nil, own |-> {}]]
 @@ "file"   :> [Http("git", "path" :> [Required EXCEPT !.multi = TRUE] @@ "id" :> Bounded @@ "ref" :> String
                             @@ "env" :> [String EXCEPT !.default = Text("prod")])
                 EXCEPT !.path = <<Piece("raw", "path", FALSE), Piece("escaped", "ref", TRUE)>>]
 @@ "branch" :> [Http("git", "name" :> Required @@ "key" :> OneOf("keys") @@ "env" :> String)
                 EXCEPT !.path = <<Piece("raw", "name", FALSE), Piece("escaped", "key", FALSE)>>]
 @@ "build"  :> [Http("jenkins", "name" :> Required)
                 EXCEPT !.writes = TRUE, !.path = <<Piece("escaped", "name", FALSE)>>]
 @@ "task"   :> [Http("asana", NoParams) EXCEPT !.fields = << <<"b">> >>]
 @@ "upload" :> [Http("jenkins", "content" :> Required) EXCEPT !.multipart = {"content"}]
 @@ "post"   :> Http("slack", "channel" :> Required)
 @@ "blob"   :> [Http("slack", "file" :> Required) EXCEPT !.fileContent = TRUE]
 @@ "card"   :> Http("trello", "idList" :> String)
 @@ "query"  :> Postgres("query", "sql" :> Required)
 @@ "tables" :> Postgres("tables", NoParams)
 @@ "schema" :> Postgres("schema", "table" :> Required)
 @@ "status" :> Local("STATUS", "tunnel" :> [String EXCEPT !.default = Text("wg")])
 @@ "test"   :> Local("TEST", "host" :> String @@ "port" :> String @@ "tunnel" :> String)
 @@ "tool"   :> [Plain EXCEPT !.connector = "mcp", !.site = "rovo", !.params = "tool" :> String,
                              !.fields = << <<"a">> >>]
 @@ "boxes"  :> Email("list_mailboxes", NoParams)
 @@ "mails"  :> Email("search", "mailbox" :> String)
 @@ "mail"   :> Email("read", "mailbox" :> [String EXCEPT !.default = Text("INBOX")])
 @@ "send"   :> Email("send", "to" :> Required)
 @@ "log"    :> [Plain EXCEPT !.connector = "jira-worklog", !.params = "env" :> Required]

-----------------------------------------------------------------------------
(* The configs.                                                            *)

NoEnv == [tunnel |-> Nil, url |-> TRUE, oauth |-> FALSE, dbs |-> {}, schema |-> "public"]
Site1(env) == [envs |-> "only" :> env, default |-> Nil]

AllSites ==
    "git"     :> [envs |-> "prod" :> [NoEnv EXCEPT !.tunnel = "wg"] @@ "dev" :> [NoEnv EXCEPT !.tunnel = "vpn1"],
                  default |-> "dev"]
 @@ "jenkins" :> [envs |-> "a" :> NoEnv @@ "b" :> [NoEnv EXCEPT !.url = FALSE], default |-> "a"]
 @@ "asana"   :> Site1([NoEnv EXCEPT !.oauth = TRUE])
 @@ "slack"   :> Site1(NoEnv)
 @@ "trello"  :> Site1(NoEnv)
 @@ "pg"      :> Site1([NoEnv EXCEPT !.dbs = {"db"}])
 @@ "rovo"    :> Site1(NoEnv)
 @@ "mail"    :> Site1(NoEnv)

Lists == {"slack_channels", "trello_allowed_lists", "pg_allowed_tables", "jira_projects", "keys",
          "email_denied_mailboxes", "email_allowed_mailboxes", "email_denied_senders", "email_allowed_senders"}

Unset == [l \in Lists |-> IF l \in {"slack_channels", "trello_allowed_lists", "pg_allowed_tables",
                                    "jira_projects", "keys"} THEN Nil ELSE {}]

Strict ==
    [sites |-> AllSites, tunnels |-> {"wg", "vpn1"}, todo |-> TRUE,
     policy |-> [Unset EXCEPT !["slack_channels"] = {"c1"}, !["trello_allowed_lists"] = {"l1"},
                              !["pg_allowed_tables"] = {[schema |-> "public", name |-> "a"]},
                              !["jira_projects"] = {"A"}, !["keys"] = {"k", "."},
                              !["email_denied_mailboxes"] = {"Trash"}, !["email_allowed_mailboxes"] = {"INBOX", "Trash"},
                              !["email_denied_senders"] = {"x"}, !["email_allowed_senders"] = {"x", "y"}]]
Open ==
    [sites |-> [AllSites EXCEPT !["git"].default = Nil, !["asana"].envs["only"].oauth = FALSE,
                                !["pg"].envs["only"].schema = ""],
     tunnels |-> {"vpn1"}, todo |-> FALSE, policy |-> Unset]
Bare == [Strict EXCEPT !.sites = "trello" :> Site1([NoEnv EXCEPT !.url = FALSE])]

MCConfig == "strict" :> Strict @@ "open" :> Open @@ "bare" :> Bare

-----------------------------------------------------------------------------
(* The requests.                                                           *)

R(op, given) == [op |-> op, params |-> given, json |-> TRUE]

PgParams == "env" :> Text("only") @@ "db" :> Text("db")

PathValues == {With("x", {}), With("x", {"slash"}), With("x", {"dotdot"}), With("x", {"gap", "slash"}),
               With("x", {"escape"}), With("x", {"percent"}), With("x", {"amp"}), With("..", {"dotdot"}),
               With("x", {"semicolon", "control"})}

MCRequest ==
    {[R("task", NoParams) EXCEPT !.json = FALSE], R("task", NoParams), R("task", "more" :> Text("x"))}
    \cup {R("search", p) : p \in {NoParams, "jql" :> Jql(<<"word">>), "jql" :> Jql(<<"word", "orderby", "word">>),
                                  "jql" :> Jql(<<"close", "open">>), "jql" :> Text("")}}
    \cup {R(op, "jql" :> Jql(<<"word">>) @@ "env" :> Text("dev")) : op \in {"other", "none"}}
    \cup {R("file", "path" :> v) : v \in PathValues}
    \cup {R("file", "path" :> Text("x") @@ "ref" :> v) : v \in PathValues}
    \cup {R("file", "path" :> Text("x") @@ "env" :> Text(e)) : e \in {"dev", "nowhere"}}
    \cup {R("file", "path" :> Text("x") @@ "id" :> v) : v \in {Number(3), Number(4), Text("3")}}
    \cup {R("branch", "name" :> v) : v \in PathValues}
    \cup {R("branch", "name" :> Text("x") @@ "key" :> Text(k)) : k \in {"k", ".", "other"}}
    \cup {R("branch", "name" :> Text("x") @@ "env" :> Text("prod")),
          R("branch", "name" :> [Text("x") EXCEPT !.size = 3])}
    \cup {R("build", "name" :> With("x", {"slash"})), R("build", "name" :> Text("x") @@ "cluster" :> Text("b"))}
    \cup {R("upload", "content" :> Text(t)) : t \in {"", "x"}}
    \cup {R("post", "channel" :> Text(c)) : c \in {"c1", "c2"}}
    \cup {R("blob", "file" :> Text(f)) : f \in {"f1", "f2"}}
    \cup {R("card", p) : p \in {NoParams, "idList" :> Text("l1"), "idList" :> Text("l2")}}
    \cup {R("query", PgParams @@ "sql" :> Sql(s)) :
             s \in {Select(<< >>, FALSE, <<Table("", "a")>>), Select(<< >>, FALSE, <<Table("", "b")>>),
                    Select(<<Cte("a", Select(<< >>, FALSE, <<Table("s", "b")>>))>>, FALSE, <<Table("", "a")>>),
                    Select(<< >>, FALSE, <<Table("", "a"), Fn(TRUE, << >>)>>),
                    [Select(<< >>, FALSE, <<Table("", "a")>>) EXCEPT !.locks = TRUE],
                    [Select(<< >>, FALSE, <<Table("", "a")>>) EXCEPT !.writes = TRUE], Nil}}
    \cup {R("tables", PgParams), R("tables", [PgParams EXCEPT !["db"] = Text("no")])}
    \cup {R("schema", PgParams @@ "table" :> Text(t)) : t \in {"a", "b"}}
    \cup {R("status", NoParams), R("status", "tunnel" :> Text("vpn1"))}
    \cup {R("test", "host" :> Text("h")), R("test", "host" :> Text("h") @@ "port" :> Text("80"))}
    \cup {R("tool", NoParams), R("tool", "tool" :> Text("t"))}
    \cup {R("boxes", NoParams), R("mail", NoParams), R("mail", "mailbox" :> Text("Trash")),
          R("mails", "mailbox" :> Text("Trash")), R("mails", NoParams)}
    \cup {R("send", "to" :> Text(t)) : t \in {"", "x", "y", "z"}}
    \cup {R("log", "env" :> Text("dev"))}

MCLater == {R("status", NoParams)}

MCMail == {[box |-> b, from |-> f] : b \in {"INBOX", "Trash"}, f \in {"x", "y", "z"}}

MCSlackFile ==
    LET whole == [id |-> "f1", channels |-> {"c1"}, text |-> TRUE, small |-> TRUE, placed |-> TRUE]
    IN  {whole, [whole EXCEPT !.id = "f2"], [whole EXCEPT !.channels = {"c2"}], [whole EXCEPT !.text = FALSE],
         [whole EXCEPT !.small = FALSE], [whole EXCEPT !.placed = FALSE]}

-----------------------------------------------------------------------------
(* Operations and feedback share no more than the published config, and are *)
(* explored apart: every step is one of ServerNext.                        *)

MCInit == ServerInit
MCNext ==
    \/ QuietFeedback /\ OpNext /\ UNCHANGED feedbackVars
    \/ /\ logged = 0 /\ pc = "idle" /\ answer = Nil /\ restarts = 0 /\ day = 0
       /\ FeedbackStep \/ (Publish /\ UNCHANGED feedbackVars)

MCSent ==
    {[is |-> "a", normal |-> "a"], [is |-> " a", normal |-> "a"], [is |-> "b", normal |-> "b"],
     [is |-> " ", normal |-> ""]}

MCSpec == MCInit /\ [][MCNext]_serverVars

=============================================================================
