---------------------------- MODULE DesktopPublish ----------------------------
(***************************************************************************)
(* How the desktop application brings the source files of a workspace to   *)
(* its gateway (cmd/egw-desktop, elevate.go and the handlers of server.go  *)
(* that call it), beside the edits of module DesktopEdit.                  *)
(*                                                                         *)
(* What needs administrator rights is done by a helper: the application    *)
(* itself when it runs elevated, a copy of it started over the UAC prompt  *)
(* otherwise, which goes on when nobody waits for it any more.             *)
(***************************************************************************)
EXTENDS DesktopEdit

CONSTANT
    Order       \* what else the UI asks for: publishing, service control, an admin token

ASSUME OrderAssumption == Nil # "restart"

VARIABLES
    inst,       \* config.yaml and operations.yaml in the install directory
    gw,         \* the pair that the gateway has loaded, or Down
    elevated,   \* app.elevated
    helper      \* the helpers started so far

pubVars == <<inst, gw, elevated, helper>>
vars == <<editVars, pubVars>>

Copied == {"config", "ops"}

\* A gateway that does not run has nothing loaded.
Down == [config |-> Nil, ops |-> {}]

\* A helper that has nothing to do.
Gone == [at |-> "gone", todo |-> {}, svc |-> "none", name |-> "config", text |-> Nil, ok |-> TRUE]

Init ==
    /\ EditInit
    /\ inst = [config |-> FirstConfig, ops |-> FirstOps]
    /\ gw = inst
    /\ elevated \in BOOLEAN
    /\ helper = << >>

-----------------------------------------------------------------------------
(* The helper.                                                             *)

Waits(h, i) == At(h, "wait") /\ req[h].helper = i

HelperAt(i, step) ==
    /\ helper[i].at = step
    /\ UNCHANGED <<editVars, elevated>>

\* The result is written, and read if the handler still waits for it.
Finish(i, ok) ==
    helper' = [helper EXCEPT ![i] =
        IF \E h \in Handler : Waits(h, i) THEN [Gone EXCEPT !.at = "done", !.ok = ok] ELSE Gone]

\* publishFiles copies the files in any order: it reads one ...
ReadSource(i) ==
    /\ HelperAt(i, "copy")
    /\ \E f \in helper[i].todo :
         helper' = [helper EXCEPT ![i].at = "truncate", ![i].todo = @ \ {f},
                                  ![i].name = f, ![i].text = file[f]]
    /\ UNCHANGED <<inst, gw>>

\* ... and writes it over the installed one.
TruncateInstalled(i) ==
    /\ HelperAt(i, "truncate")
    /\ inst' = [inst EXCEPT ![helper[i].name] = Empty[helper[i].name]]
    /\ helper' = [helper EXCEPT ![i].at = "fill"]
    /\ UNCHANGED gw

FillInstalled(i) ==
    /\ HelperAt(i, "fill")
    /\ inst' = [inst EXCEPT ![helper[i].name] = helper[i].text]
    /\ helper' = [helper EXCEPT ![i].at = "copy", ![i].text = Nil, ![i].name = "config"]
    /\ UNCHANGED gw

FilesCopied(i) ==
    /\ HelperAt(i, "copy") /\ helper[i].todo = {}
    /\ IF helper[i].svc = "none" THEN Finish(i, TRUE)
       ELSE helper' = [helper EXCEPT ![i].at = "service"]
    /\ UNCHANGED <<inst, gw>>

\* The gateway starts with the installed pair, or not at all.
Started == IF Loads(inst.config) THEN inst ELSE Down

\* controlService
ControlService(i) ==
    /\ HelperAt(i, "service")
    /\ LET starts == helper[i].svc = "restart" \/ gw = Down
       IN  IF helper[i].svc = "stop" THEN gw' = Down /\ Finish(i, TRUE)
           ELSE IF starts THEN gw' = Started /\ Finish(i, Started # Down)
           ELSE gw' = gw /\ Finish(i, FALSE)
    /\ UNCHANGED inst

\* A file or the service control manager fails, maybe after the stop.
HelperFails(i) ==
    /\ \E step \in {"copy", "truncate", "fill", "service"} : HelperAt(i, step)
    /\ Finish(i, FALSE)
    /\ gw' = gw \/ (helper[i].at = "service" /\ helper[i].svc # "start" /\ gw' = Down)
    /\ UNCHANGED inst

HelperStep(i) ==
    \/ ReadSource(i) \/ TruncateInstalled(i) \/ FillInstalled(i) \/ FilesCopied(i)
    \/ ControlService(i) \/ HelperFails(i)

-----------------------------------------------------------------------------
(* The handlers.                                                           *)

\* apiPublish and apiService.
ReceiveOrder(h) ==
    /\ \E e \in Order :
         e.kind \in {"publish", "service"} /\ Receive(h, [Idle EXCEPT !.at = e.kind, !.edit = e])
    /\ UNCHANGED <<file, held, made, pubVars>>

\* useAdminToken takes a token that the running config knows, and may record it.
UseAdminToken(h) ==
    /\ inst.config # Nil /\ inst.config.admin # Nil
    /\ held' = inst.config.admin
    /\ \E e \in Order :
         /\ e.kind = "use"
         /\ Receive(h, IF ~ e.remember THEN Idle
                       ELSE [Idle EXCEPT !.at = "keys", !.edit = e, !.tok = inst.config.admin,
                                         !.label = AdminLabel])
    /\ UNCHANGED <<file, made, pubVars>>

RestartAsked(e) == e.kind = "admin" \/ (e.kind = "publish" /\ e.restart)

\* runElevated starts the helper, at once or when the prompt is confirmed.
StartHelper(h) ==
    /\ \/ /\ At(h, "publish")
          /\ helper' = Append(helper, [Gone EXCEPT !.at = "copy", !.todo = Copied,
                 !.svc = IF RestartAsked(req[h].edit) THEN "restart" ELSE "none"])
       \/ /\ At(h, "service")
          /\ helper' = Append(helper, [Gone EXCEPT !.at = "service",
                 !.svc = IF req[h].edit.kind = "service" THEN req[h].edit.svc ELSE "restart"])
    /\ Becomes(h, [req[h] EXCEPT !.at = "wait", !.helper = Len(helper) + 1])
    /\ UNCHANGED <<file, held, made, asked, history, inst, gw, elevated>>

Refused(h) == ~ elevated /\ Answer(h)

\* The prompt is declined.
Declined(h) ==
    /\ At(h, "publish") \/ At(h, "service")
    /\ Refused(h)
    /\ UNCHANGED <<file, held, made, asked, history, pubVars>>

\* Without a restart, the gateway is still to be told to load the files; a
\* handler that comes back from restarting it has nothing else to do.
ReloadDue(h) ==
    /\ req[h].edit.kind = "publish" /\ ~ req[h].edit.restart
    /\ req[h].label = Nil

\* Mutant: the result is not looked at.
TakeAnyResult(h) ==
    /\ At(h, "wait")
    /\ helper[req[h].helper].at = "done"
    /\ helper' = [helper EXCEPT ![req[h].helper] = Gone]
    /\ IF ReloadDue(h) THEN Becomes(h, [req[h] EXCEPT !.at = "reload", !.helper = 0]) ELSE Answer(h)
    /\ UNCHANGED <<file, held, made, asked, history, inst, gw, elevated>>

\* A helper that failed is an error, but not when it is this process.
TakeResult(h) ==
    /\ At(h, "wait")
    /\ helper[req[h].helper].at = "done"
    /\ helper' = [helper EXCEPT ![req[h].helper] = Gone]
    /\ LET ok == helper[req[h].helper].ok
       IN  /\ IF ~ ok /\ ~ elevated THEN Answer(h)
              ELSE IF ReloadDue(h)
              THEN Becomes(h, [req[h] EXCEPT !.at = "reload", !.helper = 0])
              ELSE Answer(h)
           /\ history' = IF ~ ok /\ elevated THEN history \cup {"swallowed"} ELSE history
    /\ UNCHANGED <<file, held, made, asked, inst, gw, elevated>>

\* Five minutes have passed; the helper, if it still runs, goes on.
WaitNoLonger(h) ==
    /\ At(h, "wait")
    /\ Refused(h)
    /\ helper[req[h].helper].at # "done"
    /\ history' = history \cup {"late"}
    /\ UNCHANGED <<file, held, made, asked, pubVars>>

\* Whether POST /admin/reload is granted and the installed pair loads.
Reloads == gw # Down /\ adminToken # Nil /\ adminToken = gw.config.admin /\ Loads(inst.config)

\* reload, and the restart when it is refused (label marks the second call).
Reload(h) ==
    /\ At(h, "reload")
    /\ IF Reloads THEN gw' = inst /\ Answer(h)
       ELSE gw' = gw /\ Becomes(h, [req[h] EXCEPT !.at = "service", !.label = "restart"])
    /\ UNCHANGED <<file, held, made, asked, history, inst, elevated, helper>>

PublishStep(h) ==
    StartHelper(h) \/ Declined(h) \/ TakeResult(h) \/ WaitNoLonger(h) \/ Reload(h)

\* The application ends and is started again; a helper of its own process ends
\* with it.
Exit ==
    /\ req' = [h \in Handler |-> Idle]
    /\ held' = Nil
    /\ history' = history
         \cup (IF \E h \in Handler : ~ At(h, "idle") THEN {"exit"} ELSE {})
         \cup (IF \E h \in Handler : At(h, "wait") THEN {"late"} ELSE {})
    /\ helper' = [i \in DOMAIN helper |->
                    IF elevated \/ helper[i].at = "done" THEN Gone ELSE helper[i]]
    /\ UNCHANGED <<file, made, asked, inst, gw, elevated>>

-----------------------------------------------------------------------------

Next ==
    \/ \E h \in Handler :
         \/ (OpenConfig(h) \/ EditStep(h)) /\ UNCHANGED pubVars
         \/ ReceiveOrder(h) \/ UseAdminToken(h) \/ PublishStep(h)
    \/ \E i \in DOMAIN helper : HelperStep(i)
    \/ Exit

Spec == Init /\ [][Next]_vars

-----------------------------------------------------------------------------

Token == DOMAIN made

Site == {SiteOf[o] : o \in Op}

Files == {"config", "ops", "keys"}

\* What a file may have in it when the given tokens are in being.
TypeOf(f, tokens) ==
    CASE f = "config" -> [agents : [Agent -> tokens \cup {Nil}], admin : tokens \cup {Nil},
                          granted : SUBSET (Role \X Op), sites : SUBSET Site, off : SUBSET Site] \cup {Nil}
      [] f = "ops"    -> SUBSET Op
      [] f = "keys"   -> Seq([label : Names, token : tokens])

FilesType(x, F, tokens) == DOMAIN x = F /\ \A f \in F : x[f] \in TypeOf(f, tokens)

EditType ==
    [kind : {"add", "grants"}, id : Op, roles : SUBSET Role]
        \cup [kind : {"remove"}, id : Op]
        \cup [kind : {"service"}, site : Site, ids : SUBSET Op, roles : SUBSET Role]
        \cup [kind : {"disable", "enable"}, site : Site]
        \cup [kind : {"regenerate", "agent"}, agent : Agent]
        \cup [kind : {"admin"}]

OrderType ==
    [kind : {"publish"}, restart : BOOLEAN]
        \cup [kind : {"service"}, svc : {"start", "stop", "restart"}]
        \cup [kind : {"use"}, remember : BOOLEAN]

\* The gateway runs with the first config.
ASSUME TypeAssumption ==
    /\ FirstConfig \in TypeOf("config", DOMAIN FirstMade) /\ Loads(FirstConfig)
    /\ FirstOps \in TypeOf("ops", DOMAIN FirstMade)
    /\ Edit \subseteq EditType /\ Order \subseteq OrderType
    /\ MaxRequest \in Nat

\* What is yet to be written.
Todos == {<< >>, <<"config">>, <<"ops">>, <<"config", "ops">>, <<"keys">>}

\* A handler that has a token has taken it for an edit that takes one, or it is
\* to be recorded as it is; who writes to agent-keys.txt knows under which label.
HandlerType(r, tokens) ==
    /\ DOMAIN r = DOMAIN Idle
    /\ r.at \in {"idle", "ops", "edit", "write", "fill", "keys", "publish", "service", "wait", "reload"}
    /\ FilesType(r.seen, Files, tokens) /\ FilesType(r.next, Files, tokens)
    /\ r.tok \in tokens \cup {Nil} /\ r.old \in tokens \cup {Nil}
    /\ r.todo \in Todos /\ (r.todo # << >> => r.at \in {"write", "fill"})
    /\ r.at = "fill" => r.todo # << >>
    /\ r.at # "idle" => r.edit \in Edit \cup Order
    /\ r.at \in {"ops", "edit"} => r.edit \in Edit
    /\ r.at \in {"service", "reload"} => r.edit \in Order
    /\ r.at = "keys" => r.tok # Nil /\ r.label \in Names
    /\ r.tok # Nil => \/ r.edit \in Edit /\ TakesToken(r.edit)
                      \/ r.edit.kind = "use" /\ (r.at = "keys" \/ r.next.keys # << >>)

HelperType(u, tokens) ==
    /\ DOMAIN u = DOMAIN Gone
    /\ u.at \in {"copy", "truncate", "fill", "service", "done", "gone"}
    /\ u.todo \subseteq Copied /\ u.name \in Copied /\ u.text \in TypeOf(u.name, tokens)
    /\ u.svc \in {"none", "start", "stop", "restart"} /\ u.ok \in BOOLEAN

\* What the gateway runs with has loaded.
GatewayType(g, tokens) == g = Down \/ (FilesType(g, Copied, tokens) /\ Loads(g.config))

\* A handler waits for a helper there is.
TypeOK ==
    /\ made \in Seq(Party \cup {Nil})
    /\ FilesType(file, Files, Token) /\ FilesType(inst, Copied, Token)
    /\ held \in Token \cup {Nil} /\ asked \in 0..MaxRequest /\ elevated \in BOOLEAN
    /\ DOMAIN req = Handler /\ \A h \in Handler : HandlerType(req[h], Token)
    /\ helper \in Seq({helper[i] : i \in DOMAIN helper})
    /\ \A i \in DOMAIN helper : HelperType(helper[i], Token)
    /\ \A h \in Handler : At(h, "wait") => req[h].helper \in DOMAIN helper
    /\ GatewayType(gw, Token)

Excused(marks) == history \cap marks # {}

Writing(f) == Torn(f)

\* The blocks of the key file, with what a handler is filling it with.
Blocks ==
    LET fills == {h \in Handler : Filling(h, "keys")}
        all == {file.keys} \cup {req[h].next.keys : h \in fills}
    IN  UNION {{keys[i] : i \in DOMAIN keys} : keys \in all}

\* The user can still find the token in agent-keys.txt, or soon will.
Known(t) ==
    \/ t \in {b.token : b \in Blocks}
    \/ \E h \in Handler : ~ At(h, "idle") /\ req[h].tok = t /\ req[h].edit.kind # "use"

\* A source file or the key file was written over another handler's, a token
\* was recorded that the config has no more, a write failed, or the application
\* ended meanwhile.
KeysMarks == {"stale source", "stale keys", "superseded", "failed", "exit"}

\* Every hash of the source config has its token in agent-keys.txt, although
\* upsertKey replaces a block by what was read before, unless: an edit or a key
\* was written over another one's, a token was recorded that the config has no
\* more, a write failed, or the application ended meanwhile.
KeysKept ==
    \/ Excused(KeysMarks)
    \/ file.config = Nil
    \/ \A t \in {file.config.admin} \cup {file.config.agents[a] : a \in Agent} : t = Nil \/ Known(t)

\* A role grants no operation that the operations file does not define (commit
\* writes the config first and checks only that the site is there), unless an
\* edit was written over another one's, a write failed, the application ended
\* between the two files, or a page that is out of date asked for the grant.
GrantsBacked ==
    \/ Excused({"stale source", "failed", "exit", "undefined"})
    \/ file.config = Nil
    \/ \E h \in Handler : \E i \in DOMAIN req[h].todo : req[h].todo[i] = "ops"
    \/ \A g \in file.config.granted : g[2] \in file.ops

\* However edits overlap, none of them destroys what no request was about: the
\* config is never lost, and an operation that nobody removed is only lost when
\* the file was opened in the middle of another write (openYAML takes an empty
\* text), or a write failed or was cut off.
SourceSurvives ==
    \/ Excused({"failed", "exit"})
    \/ /\ file.config # Nil \/ Writing("config")
       /\ \A o \in FirstOps :
            o \in file.ops \/ o \in history \/ "torn" \in history \/ Writing("ops")

\* The application has, entered or in agent-keys.txt, an admin token of the
\* running gateway or of the config that the next publish brings it, even when
\* a new one could not be published, with the exceptions of KeysKept.
AdminNeverLost ==
    \/ Excused(KeysMarks)
    \/ gw = Down \/ file.config = Nil
    \/ Writing("keys")
    \/ \E t \in {gw.config.admin, file.config.admin} :
          \/ t \in {held, keyByLabel(file.keys, AdminLabel)}
          \/ \E h \in Handler : ~ At(h, "idle") /\ req[h].tok = t

\* A publish that is answered "published".
Published(h) ==
    /\ req[h].edit # Nil /\ req[h].edit.kind = "publish"
    /\ (Reload(h) /\ Reloads) \/ (TakeResult(h) /\ (elevated \/ helper[req[h].helper].ok))
    /\ req'[h] = Idle

\* When publishing is reported as done, the gateway runs what the source is,
\* whether by the reload or, that refused, by a restart; unless requests have
\* overlapped, a helper has gone on after the five minutes and after a restart
\* of the application, or the application runs elevated and has taken a failed
\* helper for a success (runElevated).
PublishedIsSource ==
    [][\A h \in Handler : Published(h) =>
          \/ gw' # Down /\ gw'.config = file.config /\ gw'.ops = file.ops
          \/ history' \cap {"together", "late", "swallowed"} # {}]_vars

-----------------------------------------------------------------------------
(* What makes SourceSurvives inductive.                                    *)

\* Every operation of the first file is among the given ones, or is excused.
Kept(ops, marks) == \A o \in FirstOps : o \in ops \/ o \in marks \/ "torn" \in marks

\* What a handler has read and is yet to write.
Sound(r, marks) ==
    /\ DOMAIN r = DOMAIN Idle /\ DOMAIN r.seen = Files /\ DOMAIN r.next = Files
    /\ r.todo \in Seq(Files)
    /\ r.at = "fill" => r.todo # << >>
    /\ r.at = "edit" => Kept(r.seen.ops, marks)
    /\ \A i \in DOMAIN r.todo :
          /\ r.todo[i] = "config" => r.next.config # Nil
          /\ r.todo[i] = "ops" => Kept(r.next.ops, marks)

SourceSound ==
    /\ DOMAIN file = Files
    /\ DOMAIN req = Handler /\ \A h \in Handler : Sound(req[h], history)
    /\ file.config # Nil \/ Torn("config")
    /\ Kept(file.ops, history) \/ Torn("ops")

SourceInv == Excused({"failed", "exit"}) \/ SourceSound

-----------------------------------------------------------------------------
(* What makes GrantsBacked and KeysKept inductive.  Unless a file was       *)
(* written over another one's edit, one handler at a time writes a source  *)
(* file, and has read what it replaces.                                    *)

\* The handler is yet to write the file.
Due(r, f) == \E i \in DOMAIN r.todo : r.todo[i] = f

\* What an edit changes in the pair it has read: it grants what is there or
\* what it adds, removes what is granted no more, and replaces the token of
\* the one it is about.
Fits(r, marks) ==
    /\ r.seen.config # Nil /\ Whole(r.next.config)
    /\ ~ Recorded(r) /\ r.edit.kind # "use"
    /\ Due(r, "config") =>
         /\ \A g \in r.next.config.granted :
               \/ g \in r.seen.config.granted \/ g[2] \in r.seen.ops
               \/ Due(r, "ops") /\ g[2] \in r.next.ops
               \/ "undefined" \in marks
         /\ \A x \in Party : LET t == TokenIn(r.next.config, x)
                            IN  \/ t = TokenIn(r.seen.config, x)
                                \/ TakesToken(r.edit) /\ x = PartyOf(r.edit) /\ t = r.tok
    /\ Due(r, "ops") =>
         /\ \A o \in r.seen.ops \ r.next.ops : \A g \in r.next.config.granted : g[2] # o
         /\ Due(r, "config") \/ r.next.config = r.seen.config

Formed(r, marks) ==
    /\ DOMAIN r = DOMAIN Idle /\ DOMAIN r.seen = Files /\ DOMAIN r.next = Files
    /\ r.todo \in Todos
    /\ r.todo # << >> => r.at \in {"write", "fill"}
    /\ r.at = "fill" => r.todo # << >>
    /\ r.seen.config = Nil \/ Whole(r.seen.config)
    /\ r.at \in {"ops", "edit"} => ~ Recorded(r)
    /\ Due(r, "config") \/ Due(r, "ops") => Fits(r, marks)

\* A file is empty while it is filled, and one handler fills it.
OneWriter(f) ==
    /\ \A h, k \in Handler : Filling(h, f) /\ Filling(k, f) => h = k
    /\ Torn(f) => file[f] = Empty[f]

InTurn ==
    /\ DOMAIN file = Files /\ (file.config = Nil \/ Whole(file.config))
    /\ DOMAIN req = Handler /\ \A h \in Handler : Formed(req[h], history)
    /\ OneWriter("config") /\ OneWriter("ops")

\* Every operation that is granted and not there is still to be written.
GrantsOwed ==
    \A c \in Sources : \A g \in c.granted :
       g[2] \in file.ops \/ \E h \in Handler : Due(req[h], "ops") /\ g[2] \in req[h].next.ops

GrantsInv == Excused({"stale source", "failed", "exit", "undefined"}) \/ (InTurn /\ GrantsOwed)

\* A token t of the owners m is of x.
Owned(t, x, m) == t = Nil \/ (t \in DOMAIN m /\ m[t] = x)

OwnConfig(c, m) == c = Nil \/ (Whole(c) /\ \A x \in Party : Owned(TokenIn(c, x), x, m))

\* Blocks of tokens there are, under a label of the one they are for.
OwnKeys(keys, m) ==
    /\ keys \in Seq([label : Names, token : DOMAIN m])
    /\ \A i \in DOMAIN keys : \A x \in Party : m[keys[i].token] = x => keys[i].label \in Labels(x)

\* The handler is yet to record its token.
Records(r) ==
    /\ r.tok # Nil
    /\ r.at = "keys" \/ (r.at \in {"write", "fill"} /\ (r.todo # << >> \/ ~ Recorded(r)))

\* What the handler has and writes goes with the owners: the token it records
\* and the one that it replaces are of the same one, under a label of that one.
OwnToken(r, m) ==
    /\ OwnConfig(r.seen.config, m) /\ OwnConfig(r.next.config, m)
    /\ r.at \in {"ops", "edit"} => r.edit \in Edit
    /\ r.tok # Nil => LET x == PartyOf(r.edit)
                      IN  /\ x \in Party /\ Owned(r.tok, x, m) /\ Owned(r.old, x, m)
                          /\ x = AdminLabel => r.old = Nil
    /\ Due(r, "config") /\ TakesToken(r.edit) => r.tok # Nil
    /\ r.at = "keys" \/ Due(r, "keys") =>
          /\ r.tok # Nil /\ r.label \in Labels(PartyOf(r.edit))
          /\ PartyOf(r.edit) = AdminLabel => r.label = AdminLabel
    /\ Due(r, "keys") =>
          /\ OwnKeys(r.seen.keys, m) /\ OwnKeys(r.next.keys, m)
          /\ r.next.keys = upsertKey(r.seen.keys, r.label, r.old, r.tok)
    /\ Records(r) /\ r.edit.kind = "use" => r.at = "keys" \/ Due(r, "keys")

Ownership ==
    /\ made \in Seq(Party \cup {Nil})
    /\ OwnConfig(file.config, made) /\ OwnKeys(file.keys, made)
    /\ \A h \in Handler : OwnToken(req[h], made)

\* What is installed, or is going to be, comes from the source.
Installed ==
    /\ DOMAIN inst = Copied /\ OwnConfig(inst.config, made)
    /\ helper \in Seq({helper[i] : i \in DOMAIN helper})
    /\ \A i \in DOMAIN helper :
         /\ DOMAIN helper[i] = DOMAIN Gone
         /\ helper[i].name = "config" => OwnConfig(helper[i].text, made)

\* The text of agent-keys.txt, as it is or as it is going to be.
KeyTexts ==
    IF Torn("keys") THEN {req[h].next.keys : h \in {h \in Handler : Filling(h, "keys")}}
    ELSE {file.keys}

Recording(t) == \E h \in Handler : Records(req[h]) /\ req[h].tok = t /\ req[h].edit.kind # "use"

\* The tokens of the source are there or are going to be recorded.
KeysOwed ==
    \A c \in Sources : \A keys \in KeyTexts :
       /\ \A x \in Party : LET t == TokenIn(c, x)
                          IN  t = Nil \/ Recording(t) \/ \E i \in DOMAIN keys : keys[i].token = t
       /\ Recording(c.admin) \/ keyByLabel(keys, AdminLabel) = c.admin

KeysSound == InTurn /\ OneWriter("keys") /\ Ownership /\ Installed /\ KeysOwed

KeysInv == Excused(KeysMarks) \/ KeysSound

-----------------------------------------------------------------------------
(* What makes PublishedIsSource hold: a request that publishes is alone,   *)
(* nobody's helper works beside its own, and how far both have come.       *)

InstalledIsSource == \A f \in Copied : inst[f] = file[f]

Restarts(r) == RestartAsked(r.edit) \/ r.label # Nil

\* What the helper has done for the handler that waits for it.
Reached(r, u) ==
    /\ u.at \in {"copy", "truncate", "fill", "service"} =>
          u.svc = IF Restarts(r) THEN "restart" ELSE "none"
    /\ u.at = "copy" => \A f \in Copied \ u.todo : inst[f] = file[f]
    /\ u.at \in {"truncate", "fill"} =>
          /\ u.text = file[u.name]
          /\ \A f \in Copied \ (u.todo \cup {u.name}) : inst[f] = file[f]
    /\ u.at = "service" => InstalledIsSource
    /\ u.at = "done" /\ u.ok =>
          InstalledIsSource /\ (Restarts(r) => gw # Down /\ gw = inst)

Publishes(r) == r.edit # Nil /\ r.edit.kind = "publish"

OnTheWay(r) ==
    Publishes(r) =>
        /\ r.at = "publish" => r.label = Nil
        /\ r.at = "reload" => InstalledIsSource
        /\ r.at = "service" => r.label # Nil /\ InstalledIsSource
        /\ r.at = "wait" => r.helper \in DOMAIN helper /\ Reached(r, helper[r.helper])

Awaited(i) == \E h \in Handler : Waits(h, i)

PublishSound ==
    /\ DOMAIN inst = Copied /\ DOMAIN req = Handler
    /\ helper \in Seq({helper[i] : i \in DOMAIN helper})
    /\ \A i \in DOMAIN helper :
          DOMAIN helper[i] = DOMAIN Gone /\ (helper[i].at = "gone" \/ Awaited(i))
    /\ \A h, k \in Handler : h = k \/ At(h, "idle") \/ At(k, "idle")
    /\ \A h \in Handler : DOMAIN req[h] = DOMAIN Idle /\ OnTheWay(req[h])

PublishMarks == {"together", "late", "swallowed"}

PublishInv == Excused(PublishMarks) \/ PublishSound
=============================================================================
