----------------------------- MODULE DesktopEdit -----------------------------
(***************************************************************************)
(* How the desktop application edits the source files of a workspace       *)
(* (cmd/egw-desktop, configedit.go and the handlers of server.go that call *)
(* it) and records tokens in agent-keys.txt (upsertKey, gateway.go).       *)
(*                                                                         *)
(* A handler opens both files, edits what it read, has the outcome loaded  *)
(* as the gateway would load it, and writes the files that changed, one    *)
(* after the other.  No lock is held, and os.WriteFile empties a file      *)
(* before it fills it: whoever reads in between reads an empty file.       *)
(*                                                                         *)
(* A token stands for its hash too.  Every role is granted to an agent.    *)
(***************************************************************************)
EXTENDS Naturals, Sequences, FiniteSets

Least == INSTANCE FiniteSetsExt

CONSTANTS
    Handler,        \* goroutines of the UI's requests
    Role, Agent,
    SiteOf,         \* a function: the site of every operation id
    Edit,           \* the edits that are asked for
    FirstConfig,    \* the files at first
    FirstOps,
    FirstKeys,
    FirstMade,      \* whom the tokens at first are for: token t is for FirstMade[t]
    AdminLabel,     \* the label of the admin token in agent-keys.txt
    MaxRequest,     \* requests in a behaviour
    Nil

Op == DOMAIN SiteOf

\* Who has a token: the agents, and the administrator by the label.
Party == Agent \cup {AdminLabel}

TokenIn(c, x) == IF x = AdminLabel THEN c.admin ELSE c.agents[x]

\* A config that has its parts; an emptied file has none.
Whole(c) ==
    /\ c # Nil
    /\ DOMAIN c = {"agents", "admin", "granted", "sites", "off"}
    /\ DOMAIN c.agents = Agent

\* The first config grants what there is, its tokens belong to those they are
\* for, and no agent has the label of the administrator (an agent's id is in
\* lower case).
ASSUME EditAssumption ==
    /\ Whole(FirstConfig)
    /\ \A g \in FirstConfig.granted : g[2] \in FirstOps
    /\ AdminLabel \notin Agent
    /\ \A e \in Edit : e.kind # "use" /\ (e.kind \in {"regenerate", "agent"} => e.agent \in Agent)
    /\ Nil \notin Nat
    /\ FirstMade \in Seq(Party \cup {Nil})
    /\ \A x \in Party : LET t == TokenIn(FirstConfig, x)
                        IN  t = Nil \/ (t \in DOMAIN FirstMade /\ FirstMade[t] = x)

\* The labels of agent-keys.txt.
Names == Party \cup {FirstKeys[i].label : i \in DOMAIN FirstKeys}

\* The labels under which a token of x may be recorded: its own, and those that
\* the user has given its token.
Labels(x) ==
    {x} \cup {FirstKeys[i].label : i \in {i \in DOMAIN FirstKeys : FirstMade[FirstKeys[i].token] = x}}

\* agent-keys.txt has at first every token of the config, and none of anyone's
\* under a label that is another one's too: upsertKey goes by the label.
ASSUME KeysAssumption ==
    /\ FirstKeys \in Seq([label : Names, token : DOMAIN FirstMade])
    /\ \A x \in Party : LET t == TokenIn(FirstConfig, x)
                        IN  t = Nil \/ \E i \in DOMAIN FirstKeys : FirstKeys[i].token = t
    /\ \A x, y \in Party : x = y \/ Labels(x) \cap Labels(y) = {}

VARIABLES
    file,   \* config.<ws>.yaml, operations.<ws>.yaml and agent-keys.txt
    held,   \* app.adminTokens of the workspace, Nil for none
    made,   \* the tokens in being, numbered: whom each was made for
    req,    \* the handlers
    asked,  \* the requests so far
    history \* what has happened so far, for the properties

editVars == <<file, held, made, req, asked, history>>

\* os.WriteFile has emptied the file: a config with nothing in it, a list of
\* operations and of keys without one.
Empty == [config |-> Nil, ops |-> {}, keys |-> << >>]

Idle == [at |-> "idle", edit |-> Nil, seen |-> Empty, next |-> Empty, todo |-> << >>,
         tok |-> Nil, old |-> Nil, label |-> Nil, helper |-> 0]

EditInit ==
    /\ file = [config |-> FirstConfig, ops |-> FirstOps, keys |-> FirstKeys]
    /\ held = Nil
    /\ made = FirstMade
    /\ req = [h \in Handler |-> Idle]
    /\ asked = 0
    /\ history = {}

-----------------------------------------------------------------------------
(* The edits.  c and o are the config and the operations as they were      *)
(* opened, p is the config as it was read once more for its values.        *)

Grants(roles, id) == roles \X {id}

addOperation(o, ids) == o \cup ids

\* setGrants makes exactly the given roles grant the operation.
setGrants(granted, id, roles) == {g \in granted : g[2] # id} \cup Grants(roles, id)

addGrants(granted, id, roles) == granted \cup Grants(roles, id)

\* Whether the edit itself finds what it needs.
Permitted(e, c, o, p) ==
    \/ e.kind = "add" /\ p # Nil /\ e.id \notin o
         /\ SiteOf[e.id] \in (IF p = Nil THEN {} ELSE p.sites)
    \/ e.kind = "grants"
    \/ e.kind = "remove" /\ e.id \in o
    \/ e.kind = "service" /\ e.site \notin c.sites
    \/ e.kind = "disable" /\ e.site \in c.sites
    \/ e.kind = "enable" /\ e.site \in (c.sites \cap c.off)
    \/ e.kind = "regenerate" /\ c.agents[e.agent] # Nil
    \/ e.kind = "agent" /\ p # Nil /\ c.agents[e.agent] = Nil
    \/ e.kind = "admin"

EditedConfig(e, c, t) ==
    CASE e.kind = "add"        -> [c EXCEPT !.granted = addGrants(@, e.id, e.roles)]
      [] e.kind = "grants"     -> [c EXCEPT !.granted = setGrants(@, e.id, e.roles)]
      [] e.kind = "remove"     -> [c EXCEPT !.granted = setGrants(@, e.id, {})]
      [] e.kind = "service"    -> [c EXCEPT !.sites = @ \cup {e.site},
                                            !.granted = @ \cup (e.roles \X e.ids)]
      [] e.kind = "disable"    -> [c EXCEPT !.off = @ \cup {e.site}]
      [] e.kind = "enable"     -> [c EXCEPT !.off = @ \ {e.site}]
      [] e.kind = "regenerate" -> [c EXCEPT !.agents[e.agent] = t]
      [] e.kind = "agent"      -> [c EXCEPT !.agents[e.agent] = t]
      [] e.kind = "admin"      -> [c EXCEPT !.admin = t]

\* Mutant: the operation is put into a new mapping.
EditedOpsFresh(e, o) ==
    CASE e.kind = "add"     -> {e.id}
      [] e.kind = "service" -> addOperation(o, e.ids)
      [] e.kind = "remove"  -> o \ {e.id}
      [] OTHER              -> o

EditedOps(e, o) ==
    CASE e.kind = "add"     -> addOperation(o, {e.id})
      [] e.kind = "service" -> addOperation(o, e.ids)
      [] e.kind = "remove"  -> o \ {e.id}
      [] OTHER              -> o

\* config.Load: an empty config has no agents, and a role may only name
\* operations of the workspace's sites, defined or not.
Loads(c) == c # Nil /\ \A g \in (IF c = Nil THEN {} ELSE c.granted) : SiteOf[g[2]] \in c.sites

\* Mutant: a new admin token is only put into the config.
TakesTokenOfAgent(e) == e.kind \in {"regenerate", "agent"}

TakesToken(e) == e.kind \in {"regenerate", "agent", "admin"}

\* Whose token the edit is about, and which one the config has.
PartyOf(e) == IF e.kind \in {"admin", "use"} THEN AdminLabel ELSE e.agent

TokenOf(e, c) == TokenIn(c, PartyOf(e))

\* The number of the next token.
NextToken == Len(made) + 1

-----------------------------------------------------------------------------
(* agent-keys.txt: blocks of a label and a token.                          *)

\* keyBySHA: the first block with the token, as a set of at most one index.
WithToken(keys, t) == {i \in DOMAIN keys : keys[i].token = t /\ t # Nil}

First(I) == Least!Min(I)

\* The blocks with the label or the old token, whose first one is replaced.
Hits(keys, label, old) == {i \in DOMAIN keys : keys[i].label = label} \cup WithToken(keys, old)

\* Mutant: when no block is replaced, the new one is all that is written.
upsertKeyAlone(keys, label, old, t) ==
    LET block == [label |-> label, token |-> t]
        hits == Hits(keys, label, old)
    IN  IF hits = {} THEN <<block>> ELSE [keys EXCEPT ![First(hits)] = block]

upsertKey(keys, label, old, t) ==
    LET block == [label |-> label, token |-> t]
        hits == Hits(keys, label, old)
    IN  IF hits = {} THEN Append(keys, block) ELSE [keys EXCEPT ![First(hits)] = block]

\* keyByLabel
keyByLabel(keys, label) ==
    LET hits == {i \in DOMAIN keys : keys[i].label = label}
    IN  IF hits = {} THEN Nil ELSE keys[First(hits)].token

\* The application finds the admin token under its label at first.
ASSUME AdminAssumption == keyByLabel(FirstKeys, AdminLabel) = FirstConfig.admin

\* adminToken: what the application presents to the gateway.
adminToken == IF held # Nil THEN held ELSE keyByLabel(file.keys, AdminLabel)

-----------------------------------------------------------------------------
(* The handlers.                                                           *)

At(h, step) == req[h].at = step
Becomes(h, r) == req' = [req EXCEPT ![h] = r]
Goes(h, step) == Becomes(h, [req[h] EXCEPT !.at = step])
Answer(h) == Becomes(h, Idle)

Untouched == UNCHANGED <<file, held, made, asked, history>>

\* A request comes; marked when another one is not answered yet.
Receive(h, r) ==
    /\ At(h, "idle")
    /\ asked < MaxRequest
    /\ asked' = asked + 1
    /\ Becomes(h, r)
    /\ history' = IF \E k \in Handler : ~ At(k, "idle") THEN history \cup {"together"} ELSE history

\* openEdit reads the config ...
OpenConfig(h) ==
    /\ \E e \in Edit :
         Receive(h, [Idle EXCEPT !.at = "ops", !.edit = e, !.seen.config = file.config])
    /\ UNCHANGED <<file, held, made>>

\* Somebody is between emptying and filling the file, or has gone for good.
Filling(h, f) == At(h, "fill") /\ Head(req[h].todo) = f

Torn(f) == \E h \in Handler : Filling(h, f)

\* ... and the operations; one without any text is one without operations.
OpenOps(h) ==
    /\ At(h, "ops")
    /\ Becomes(h, [req[h] EXCEPT !.at = "edit", !.seen.ops = file.ops])
    /\ history' = IF Torn("ops") THEN history \cup {"torn"} ELSE history
    /\ UNCHANGED <<file, held, made, asked>>

\* What the handler opened can be edited, and the outcome would load.  Every
\* edit of an empty config is refused, since no agent is left in it.
Commits(e, c, o, p) ==
    /\ c # Nil
    /\ Permitted(e, c, o, p)
    /\ Loads(EditedConfig(e, c, NextToken))
    /\ EditedConfig(e, c, NextToken) # c \/ EditedOps(e, o) # o

Changed(r) ==
    (IF r.next.config # r.seen.config THEN <<"config">> ELSE << >>)
        \o (IF r.next.ops # r.seen.ops THEN <<"ops">> ELSE << >>)

\* The config is read again, the edit made, and what changes is to be written.
\* A grant of an operation that is not there passes.
MakeEdit(h) ==
    /\ At(h, "edit")
    /\ LET r == req[h]
           c == r.seen.config
           made1 == [r EXCEPT
               !.at = "write",
               !.next = [config |-> EditedConfig(r.edit, c, NextToken),
                         ops |-> EditedOps(r.edit, r.seen.ops), keys |-> << >>],
               !.tok = IF TakesToken(r.edit) THEN NextToken ELSE Nil,
               !.old = IF r.edit.kind = "regenerate" THEN TokenOf(r.edit, c) ELSE Nil]
       IN  /\ Commits(r.edit, c, r.seen.ops, file.config)
           /\ Becomes(h, [made1 EXCEPT !.todo = Changed(made1)])
           /\ made' = IF TakesToken(r.edit) THEN Append(made, PartyOf(r.edit)) ELSE made
           /\ history' = history
                \cup (IF r.edit.kind = "remove" THEN {r.edit.id} ELSE {})
                \cup (IF r.edit.kind = "grants" /\ r.edit.roles # {} /\ r.edit.id \notin r.seen.ops
                      THEN {"undefined"} ELSE {})
    /\ UNCHANGED <<file, held, asked>>

\* The edit is refused, or it was only asked what it would change.
RefuseEdit(h) ==
    /\ At(h, "edit")
    /\ \/ ~ Commits(req[h].edit, req[h].seen.config, req[h].seen.ops, file.config)
       \/ ~ TakesToken(req[h].edit)
    /\ Answer(h)
    /\ Untouched

\* The source config: what is in the file, or what it is being filled with.
Sources ==
    ({file.config} \cup {req[h].next.config : h \in {h \in Handler : Filling(h, "config")}}) \ {Nil}

\* The token of the handler is no longer, or not yet, the one of the config.
Superseded(r) == \E c \in Sources : r.tok # TokenOf(r.edit, c)

\* os.WriteFile opens and so empties the file.  The mark tells whether what is
\* going to be written was computed from something else than what is there.
\* (Of two handlers that write one file at the same time the later one is
\* taken to win; in fact a longer text would leave its end behind.)
Truncate(h) ==
    /\ At(h, "write") /\ req[h].todo # << >>
    /\ LET r == req[h]
           f == Head(r.todo)
           stale == \/ Torn(f)
                    \/ IF f = "keys" THEN file.keys # r.seen.keys
                       ELSE <<file.config, file.ops>> # <<r.seen.config, r.seen.ops>>
       IN  /\ file' = [file EXCEPT ![f] = Empty[f]]
           /\ history' = history \cup (IF ~ stale THEN {} ELSE IF f = "keys" THEN {"stale keys"} ELSE {"stale source"})
                           \cup (IF f = "keys" /\ Superseded(r) THEN {"superseded"} ELSE {})
    /\ Goes(h, "fill")
    /\ UNCHANGED <<held, made, asked>>

\* Mutant: a handler that has written the config is done with the files.
FillConfigOnly(h) ==
    /\ At(h, "fill")
    /\ LET f == Head(req[h].todo)
       IN  /\ file' = [file EXCEPT ![f] = req[h].next[f]]
           /\ Becomes(h, [req[h] EXCEPT !.at = "write", !.todo = << >>, !.seen[f] = req[h].next[f]])
    /\ UNCHANGED <<held, made, asked, history>>

Fill(h) ==
    /\ At(h, "fill")
    /\ LET f == Head(req[h].todo)
       IN  /\ file' = [file EXCEPT ![f] = req[h].next[f]]
           /\ Becomes(h, [req[h] EXCEPT !.at = "write", !.todo = Tail(@), !.seen[f] = req[h].next[f]])
    /\ UNCHANGED <<held, made, asked, history>>

\* A backup or the file cannot be written; an emptied file may stay so.  What
\* is left undone is left so: the next file, or recording the token.
WriteFails(h) ==
    /\ (At(h, "write") /\ req[h].todo # << >>) \/ At(h, "fill")
    /\ history' = history \cup {"failed"}
    /\ Answer(h)
    /\ UNCHANGED <<file, held, made, asked>>

Recorded(r) == r.seen.keys # << >> \/ r.next.keys # << >>

\* commit has written what there was, and the handler has no token to record.
EditDone(h) ==
    /\ At(h, "write") /\ req[h].todo = << >> /\ req[h].tok = Nil
    /\ Answer(h)
    /\ Untouched

\* Whose key it is: the label of the block that has the old token, if any.
LabelKey(h) ==
    /\ At(h, "write") /\ req[h].todo = << >> /\ req[h].tok # Nil
    /\ ~ Recorded(req[h])
    /\ LET e == req[h].edit
           hits == WithToken(file.keys, req[h].old)
           label == IF hits # {} THEN file.keys[First(hits)].label
                    ELSE IF e.kind = "admin" THEN AdminLabel ELSE e.agent
       IN  Becomes(h, [req[h] EXCEPT !.at = "keys", !.label = label])
    /\ Untouched

\* upsertKey reads the whole file, which all workspaces share.
ReadKeys(h) ==
    /\ At(h, "keys")
    /\ LET r == req[h]
           keys == upsertKey(file.keys, r.label, r.old, r.tok)
       IN  Becomes(h, [r EXCEPT !.at = "write", !.todo = <<"keys">>,
                                !.seen.keys = file.keys, !.next.keys = keys])
    /\ Untouched

\* The token is recorded: the request of the UI is answered, or, for an admin
\* token, goes on with publishing it.
KeyRecorded(h) ==
    /\ At(h, "write") /\ req[h].todo = << >> /\ Recorded(req[h])
    /\ IF req[h].edit.kind = "admin"
       THEN held' = req[h].tok /\ Goes(h, "publish")
       ELSE held' = held /\ Answer(h)
    /\ UNCHANGED <<file, made, asked, history>>

EditStep(h) ==
    \/ OpenOps(h) \/ MakeEdit(h) \/ RefuseEdit(h)
    \/ Truncate(h) \/ Fill(h) \/ WriteFails(h) \/ EditDone(h)
    \/ LabelKey(h) \/ ReadKeys(h) \/ KeyRecorded(h)
=============================================================================
