# External gateway: TLA+ verification project

The repository is a gateway between agents and external services (Jira, Slack,
Tempo, Postgres, mail and others). Agents call named operations over HTTP; the
gateway authenticates them, checks their grants, fills in the credentials that the
agents never see, calls the service, redacts the answer and audits the call. A
second program, the desktop application, edits the gateway's files, publishes them
and watches the gateway's secrets.

This directory holds TLA+ modules that model those parts, the TLC configurations that
check them on small instances, and proofs, checked by TLAPS, that the main safety
properties hold for every value of the constants. `PROJECT.json` maps each definition to
the lines that it models, and lists the runs, the mutants that show each property can
fail, the findings, the hazards and the theorems.

To repeat a run or a proof:

    tlc -workers 2 -config Resolver.cfg Resolver
    tlapm OAuthRefresh_proofs.tla

## 1. Inventory

| Component (source) | State | Operations | Hard behaviour | What makes it correct |
|---|---|---|---|---|
| Secret resolver and taint registry (`internal/secrets/resolver.go`) | cache of secrets with times, set of tainted values | Resolve, Set, Delete, FlushCache, Taint | the store is asked between two critical sections; a secret is cached before it is tainted; a write overtakes a read | redaction knows what is held; why and how long a cached secret may be stale |
| OAuth token refresh (`server.go` 989-1024, 1426-1500) | stored tokens, refresh mutex, the provider's live tokens | first attempt, 401, refresh, retry | concurrent 401s, rotation, lost replies, failed writes, crashes | the live refresh token is never mislaid by the code itself; the lock is always released |
| Authorisation and listings (`server.go` 193-540, 1624-1787, 2317-2338) | the request's snapshot | executeOp, handleDryRun, handleCapabilities, handleHelp | a reload between any two loads | one state decides a call |
| Hot reload (`server.go` 2277-2310, `config.go`, `registry.go`) | published state, checksum | POST /admin/reload | overlapping reloads, files edited meanwhile, one of two files refused | published state is whole; it follows the files |
| An operation's way (`server.go` 540-1400, `registry.go`, `pathtemplate.go`, `internal/connectors`) | parameters, chosen environment, upstream effects, audit records | validation, defaults, constraints, scopes, environment, the connector's calls, shaping, audit, answer | each connector chooses the environment anew; lost answers, retries, handshakes; lists that deny and allow | what is sent, where, and what comes back stays within the workspace's lists; the answer and the audit tell what was done |
| Job store and scheduler (`internal/scheduler`) | jobs, running, stop channel | Add, Cancel, Delete, claim, finish, Start, Stop | loops that overlap after Stop and Start, `stopCh` read without the mutex; a job added anew under its id | a job runs once, has its own run's outcome, cancelled stays cancelled, no due job starves, loops end |
| Audit log (`internal/audit/logger.go`) | current file, sequence number, files | Log | rotation and date change, restart, failed writes | file sizes are bounded, rotation is never early |
| Jira and Tempo worklogs (`jira_worklog.go`, `internal/workcal`) | worklogs in Tempo, activity map in a file | add, update, delete, activity_set, activity_remove, report, issue_time | ownership is read before it is used; a write's answer is lost; the listing moves under its pages; the movable holidays | own worklogs in scope only; an answer is true; a report has everything once and its sums agree |
| Feedback (`feedback.go`, `server.go` 1974-2064) | TODO file, its mutex | file an entry | two reads of the config; check and append apart | each text once, none empty |
| Desktop checker (`cmd/egw-desktop/checker.go`) | results, checking, rechecking, notified | checkAll, recheck, refresh, notifyNew | overlapping checks whose answers arrive in any order; a list used after the lock was released | results and notifications follow the gateways; marks are exact |
| Desktop editing (`configedit.go`, `yamledit.go`, `gateway.go`) | config, operations and key files | openEdit, commit, upsertKey, the edits of `server.go` | lost updates; a file read while it is empty; one of two files written | nothing else is destroyed; every key can still be found |
| Desktop publishing (`elevate.go`, `gateway.go`, `server.go`) | installed pair, the gateway's pair, helpers, entered admin token | publishFiles, runElevated, service control, reload, useAdminToken | a declined prompt, a helper that ends after its caller has given up | "published" is true; an admin token is always at hand |
| Secret status, redaction hook, other secret stores, form session, commands, deployment | none, or external programs | | | section 5 |

How the parts interact. A handler goroutine authenticates (config), loads the
published state, decides (config and registry), calls a connector, which resolves
credentials (resolver, store) and may refresh a token (mutex, resolver, provider),
writes the audit record (log mutex) and answers through the shaping of its fields and
the redaction of tainted values (taint registry). An admin request replaces the
published state while handlers work on the old one. The desktop application talks to the
gateways over HTTP, from its loop and from the goroutines of its own requests, and shares
the files with them.

## 2. Modules

| Module | Models | Composition |
|---|---|---|
| `Resolver` | resolver.go and the redaction of an answer | |
| `OAuthRefresh` | the 401 path and the refresh, a provider, crashes | extends `Resolver`: every access to a token takes its steps |
| `Authorization` | abstract specification: a request is performed only if one policy in force during its life permits it | |
| `Gateway` | executeOp up to the dispatch, handleDryRun, listings, authentication, reload | implements `Authorization` |
| `AuditLog` | choice of the file, rotation, writes, restarts | |
| `RequestPolicy` | validation, defaults, constraints, JQL scope, parameter scopes, environment, path templates | operators |
| `PgScope` | the table scope of a SQL statement | operators |
| `ResponseShape` | the allowed fields of an answer | operators |
| `Absent` | one constant: what is not there | shared by the three above and `AuditLog` |
| `Operation` | a request from its body to its answer, every connector, reloads and crashes | extends `AuditLog`, whose `Log` writes its record, `RequestPolicy`, `PgScope` and `ResponseShape`, which shapes its answers |
| `Feedback` | POST /feedback of type todo | extends `Operation`: shares the published config |
| `Worklog` | writes of the jira-worklog connector, Tempo, the activity map | |
| `WorkCalendar` | Polish working days and the norm of hours | operators |
| `WorklogReport` | report and issue_time | extends `Worklog` and `WorkCalendar` |
| `Scheduler` | job store and loops | |
| `DesktopChecker` | the desktop application's background checks | |
| `DesktopEdit` | edits of the source files and agent-keys.txt | |
| `DesktopPublish` | publishing, elevation, service control, the admin token | extends `DesktopEdit` |
| `MCGateway`, `MCOAuthRefresh`, `MCOperation`, `MCWorklog`, `MCDesktop` | values of the constants for TLC | each extends the module it checks (`MCOperation` extends `Feedback`, `MCWorklog` `WorklogReport`, `MCDesktop` `DesktopPublish`) |
| `*_proofs` | theorems and proofs | each extends the module it is about: `OAuthRefresh_proofs` has the resolver's theorems too, `Policy_proofs` extends `RequestPolicy`, `PgScope` and `ResponseShape`, `Operation_proofs` extends `Feedback` and `Policy_proofs` and has the log's, `Worklog_proofs` extends `WorklogReport` |

Definitions called *Mutant* in their comment are not part of a specification: each is
the form an action would have with a plausible mistake, and shows that a property
fails with it.

### Resolver

A goroutine's place inside the resolver is `pc`: "read" (the entry was missing or
expired, no lock is held), "insert" (the store has answered), "taint" (the entry is in
the cache, the lock released), "held" (Resolve has returned), "forget" (Set or Delete
has written the store and has yet to drop the entry, in its deferred call). The age of
an entry counts ticks up to `TTL`. The values a store may hold are secrets, secrets
under five bytes (`Short`, which Taint skips on purpose), a value that `checkEmpty`
refuses (`Blank`), and nothing. `Respond` is the answer: the service may echo the
secret, and redaction replaces what is tainted at that moment. `overtaken`, `late` and
`exposed` are history variables. A hit on the cache taints nothing, and an entry is
inserted before it is tainted: `TaintCover` and `ExposedOnlyWhilePending` state the
window this leaves, and that there is no other.

### OAuthRefresh

A token is the number of the grant that issued it, so an older token is a smaller
number. A goroutine serves an operation on an OAuth site, or a
`GET /admin/secrets/status`, which resolves the same secrets without the refresh lock.
The provider accepts one access and one refresh token, and may rotate the latter. A
reply may be lost after the provider has spent the token, a `Set` may fail, the process
may crash anywhere: store and provider survive. `lost` records that a rotated token did
not reach the store for one of these reasons.

### Gateway and Authorization

A config and a registry are records of the facts that authorisation asks for: agents,
grants, roles, workspaces, disabled and tunnel-gated sites, whether there is an admin
token; the site of an operation. `state` is the atomic pointer, `checksum` the second
atomic. Every load of either is a step. What a body may be refused for is a
nondeterministic `problem`, placed in the chain where the code has it (module `Operation`
computes it); whether the tunnel is up is nondeterministic as well. `seen` is a history
variable: the states in force since the request arrived. The refinement maps the states
of `Gateway` to policies, and a request to "performed" once its connector has been
dispatched. Simplifications: a site that the workspace does not have is a dispatched call
that fails; a config file that cannot be read has the checksum `Broken`; the process is
not restarted, since a restart is `Init`. That a load of the published pointer is whole
is `StateWhole`, proved.

### RequestPolicy, PgScope, ResponseShape

These three are operators, checked against definitions of what is meant.

`RequestPolicy` keeps of a parameter's value what the rules look at: its JSON type, which
text it is, its size, the classes of special characters it has (`CharClass`), the tokens
of a JQL query. Each class of character stands for every character the code treats alike;
`Reaches` says what a server makes of a value once it is escaped, raw or in a query, which
is what `PathKept` compares with what the template meant. `JqlScoped` is the text the
gateway sends, as tokens; `ScopeOutermost` reads it back with quotes and parentheses and
says whether the scope is still a conjunct of the whole.

`PgScope` has a statement as a tree of selects, common table expressions, tables and
function calls. `Walk` is walk.go; `TablesRead` is what SQL makes of the names, written
from the meaning of WITH. Both look at the tree level by level, from the innermost
statements outwards, without RECURSIVE operators, so that proofs can be made about them.

`ResponseShape` has JSON values as trees of at most `MaxNesting` levels (encoding/json has
such a limit too). `Shape` projects each allowed path and merges what it finds. What project
and mergeValues do by recursion is a function for each level, from that of the level below,
so that proofs can be made about it. `ShapedRight` says which texts of the original, at which
places, must be left.

### Operation

One request at a time, since the handlers of operations share nothing but the published
state, which reloads change (`Publish`), and the log, whose mutex makes `Log` one step.
`pc` is the place in executeOp and the connector: "decide" (everything before the
dispatch, in the order of its early returns), then the connector's steps: for HTTP the
request is built, the crumb fetched, the lists asked, the request sent, the token
refreshed, the request sent again; for MCP the handshake and the tool call; for Slack
files the file's information and its download; one step each for a query, a mail call, a
local service, a worklog call. An upstream call and its answer are one step whose outcome
is a choice: done and answered, done and the answer lost, refused, redirected, 401.
`calls` has every call sent with the environment it went to, `effects` how often the
upstream has done what was asked, `checked` the tunnels that were found up. "log" and
"reply" end every request; `Crash` may come between any two steps and restarts the log.
`st` is the request's config, `conf` the published one: only the local-service connector
looks at both.

`Feedback` adds handlers of /feedback, which read the published config twice and look for
a duplicate and append under `feedbackTodoMu`. A write may be cut short.

### Worklog, WorkCalendar, WorklogReport

A call reads (worklog, issue, activity), is "ready", sends one request ("sent"), and is
answered or gives up; `flight` is the request on its way, which takes effect in `Land`,
perhaps after the gateway has given up or crashed. People change worklogs in Tempo at any
time (`Edit`). `ledger` is a history variable: what the worklogs would be if every change
were made at once; `raced` has the worklogs that changed between a call's reading and its
writing. The activity map is read, written to a temporary file and renamed under `mutex`,
which a crash releases. An issue that is in the map need not be in scope: `Check` comes
after the look-up in the map, as scopedIssueKey does.

A report reads its listing page by page at an offset, while `Meanwhile` everything else
goes on; Tempo lists worklogs by their number, which is higher for each new one. `first`,
`touched` and `moved` are history: the worklogs at the first page, those changed before the
last one, and whether one has left, or joined, what was already read. `Listing` and
`Select` are written with `Nth`, the n-th smallest of a set of numbers, which the proofs can
reason about. The order in which a report shows its entries is left out. A date is a day number, hours are hundredths,
the precision of the code's rounding. `WorkCalendar` has the calendar, Easter by the
code's algorithm and, as the reference, by the computus: golden number, epact, and the
Sunday after the full moon.

### Scheduler

A loop is a goroutine of `run`; channels are numbered in the order in which Start makes
them. `Select` reads `stopCh` without the mutex, so it sees any channel from the one it
saw last to the current one. A loop busy during Stop and Start continues with the new
channel and overlaps with the new loop. `added` numbers the jobs that have had one id. No
command of the repository starts the scheduler, and its one kind of job is a stub that
fails (`Succeeds`).

### AuditLog

`Log` holds its mutex throughout and is one action. A file is identified by day and
sequence number and reduced to its size. A write adds the record, its beginning when it
is cut short, or nothing when the file does not open. A restarted process begins at the
day's first file and finds its way through the full ones by rotating, one file at a
time, without looking at the file it turns to before it writes: this is why
`FilesFilled` grants a record more for every run of the gateway.

### DesktopChecker

A gateway is "down" (any failed request), or its secret is missing, rejected by the
provider, or fine. A goroutine is the loop or a request of the UI: "check now",
a saved secret, a status page, a publish (`recheck`). Requests to the gateways run
without a lock and take effect in `Store`, under `a.mu`. A check of the stored state
does not ask the provider and keeps what an earlier live check said (`Merge`).
`notifyNew` is two steps, because it takes the to-do list in one critical section and
uses it in another. `notified` survives a restart, in `state.json`.

### DesktopEdit and DesktopPublish

The files are their contents: a config (agents with their tokens, the admin token, grants,
sites), a set of operations, a list of labelled keys. An edit reads both files in two
steps (`seen`), computes the new pair, and writes what changed in the order the code has
(`todo`); each write empties the file and then fills it, so another handler may read it
empty. A write may fail, and `Exit` ends the application anywhere. `history` records what
the properties may be excused by: a file overwritten that had changed since it was read,
a file read while empty, a failed write, an exit, an operation removed on request, a token
recorded that the config, as it is or as it is being filled, has no more. `made` is a history
variable: for whom each token was made. The first files are as the application leaves them:
what is granted is there, every token of the config is in agent-keys.txt, and no block of one
party has a label that is another one's too, since upsertKey goes by the label.

A helper is the elevated copy of the application, or the application itself: it copies the
files, controls the service, and leaves its result. A caller stops waiting after five
minutes and the helper goes on. After the copy the caller asks for a reload, and for a
restart by another helper when that is refused. The application keeps the admin token it was given in
memory (`held`) and, if asked to, in the key file. A gateway that does not run has nothing
loaded (`Down`).

Simplifications: one workspace (agent-keys.txt is shared, and another workspace's blocks
behave as the block "hand" does); of two writes of one file that overlap the last one
wins; the gateway loads the pair in one step; YAML text is its contents, so the patching
of lines and comments is left out.

## 3. Runs

| Run | Bounds | Shows |
|---|---|---|
| `resolver` | 2 goroutines, 1 key, 3 secrets (one short), TTL 2 | `StaleOnlyByRace`, `ExposedOnlyWhilePending`; `StaleExpires`: once the store is no longer written, a stale entry goes |
| `oauth` | 2 goroutines, 3 grants (two refreshes), TTL 1, symmetry | `LiveRefreshAccountedFor`, `AccessNeverRollsBack`, `DeadTokenOnlyByRace` |
| `oauth_live` | 2 goroutines, 2 grants | `RefreshEnds`: whatever fails, every request that meets a 401 is answered |
| `oauth_spend` (violation) | as `oauth` | of two requests refused with one token, the second refreshes again after the first has finished |
| `gateway` | 1 request, 1 reload, 2 agents, 2 workspaces, 2 roles, 3 operations, 2 sites, 2 configs | `ListedPieceByPiece`, `ImplementsAuthorization` |
| `gateway_reload` | 2 reloads, configs with and without an admin token, 2 registries, refused files | `ReloadsConverge` |
| `scheduler` | 1 job added twice, 2 loops, 3 starts | `ExecutedOnce`, `CancelSticks`, `OutcomeOfItsRun`, `NoJobStarves`, `StopEnds` |
| `desktop_checker` | 1 workspace, the loop and 1 request | `MarksExact`, `ResultsConverge`, `NotifiedConverges` |
| `worklog` | 3 events of: 2 calls, reports, changes in Tempo, crashes; pages of one row, 2 issues; the day after Easter Monday 2025; the years 1940 to 2090 | `LostOnlyByRace`, `AnswerTrue`, `WritesOwnScoped`, `MapChangesByOne`, `AllAnswered`, `ReportComplete`, `SumsAgree` |
| `operation` | an operation of every connector and rule, requests that meet the rules and that break one each, 3 configs; 3 records, cap 1, 1 restart, 2 days; 2 feedback handlers | `SentToCheckedEnv`, `PathKept`, `SentWithinLists`, `SeenWithinLists`, `PerformedAsAnswered`, `FilesFilled`, `TodoKept`; `JqlClosed`, `PgScopeExact`, `ShapeExact` over bounded inputs |
| `null_body` (violation) | as `operation`, one record | an upstream answer `null` leaves the agent without an answer |
| `desktop` | 2 requests of 10 edits and 6 orders, together or in turn; symmetry | `KeysKept`, `GrantsBacked`, `SourceSurvives`, `AdminNeverLost`, `PublishedIsSource` |

What the safety properties of the larger runs say:

- `SentToCheckedEnv`: whatever is sent for a request, in each of up to three calls, goes to
  an environment whose tunnel was found up for it, although the check and each connector
  choose the environment for themselves, before and after the defaults.
- `SentWithinLists`, `SeenWithinLists`: what goes upstream and what comes back stays within
  the channels, lists, recipients, mailboxes, senders, tables and projects of the
  workspace. `JqlClosed`: no query that is accepted takes the scope out of the outermost
  AND. `PgScopeExact`: the tables found in a statement are those it reads.
- `PerformedAsAnswered`: what is answered as done was done once, what is refused was not, and
  what has gone upstream gets an audit record unless the gateway dies in between.
- `LostOnlyByRace`, `AnswerTrue`: a change of a worklog is lost only if the worklog changed
  between ownWorklog and the PUT; a call's answer is what happened.
- `ReportComplete`: of the worklogs that nobody touches between the first and the last page,
  only one that leaves the part already read hides another, and only one that joins it, by a
  change of its date or issue, has another shown twice; what is added does neither.
- `KeysKept`, `GrantsBacked`, `SourceSurvives`, `AdminNeverLost`, `PublishedIsSource`: what
  overlapping edits, failed writes and late helpers may cost, each with the list of what
  alone excuses it. Each excuse is an event in `history`; without any one of them TLC
  finds a counterexample.

Why the bounds are enough. The races of the resolver and of the refresh are between two
goroutines: one that fills or refreshes, and one that overtakes it. Both are symmetric
and do the same operations, so a third adds no new pair. Two refreshes suffice for a
spent token to be presented; TTL 2 separates a renewed entry from one that only ages.
One request meets one reload at every step; the two configs disagree in every fact that
authorisation asks for, so that a mixture of them shows. Two reloads are needed for one
to publish after the other what it read before it. Two loops overlap once, three starts
let a loop outlive two channels, and one deletion between two adds gives a job a
namesake. In the checker one late answer needs a goroutine beside the loop; workspaces do
not interact but through `checking`, whose theorem holds for any number.

In `worklog` three events are a call, what overtakes it, and a crash or a report; the
longest chain a property tells apart, a call that overwrites a change and another call that
reads the outcome, takes three. Pages of one row put a page boundary between any two
worklogs; the first of them is on another issue at first, so that it may join a listing that
has been read in part, and the second may leave it. In `operation` requests do not interact, so that one after the other under each
config is every case; the config "strict" sets every list, "open" none, with one tunnel gone
and the two mail sites at odds, "bare" has no site. Three records with cap 1 rotate twice
or cross a day and a restart. Walks are cut at three levels and statements have up to
four; JQL has up to five tokens, enough for an ORDER BY inside an open parenthesis beside
a quote; two objects of up to two elements and lists of up to three paths have every way
two paths can overlap. In `desktop` two requests are what two handlers do at once; a
third is the gateway's or a helper's, which runs beside them.

Operations and feedback share no more than the published config and are explored apart
(`MCNext`). Symmetry is used where the run has no liveness (`oauth`, `desktop`; goroutines
that are all alike). Deadlock is checked, but for `scheduler`, `worklog`, `operation`,
`null_body` and `desktop`: a scheduler that was stopped, with its jobs finished, and the
others with their bounds used up, do stop.

### Fairness

- Resolver: a goroutine inside the resolver proceeds, as store calls return; the clock
  runs (weak fairness of `Progress` and `Tick`). Nobody has to call it.
- OAuthRefresh: weak fairness of a handler's own steps, whose HTTP clients have
  time-outs; strong fairness of `Lock`, since `sync.Mutex` hands the lock to a waiter
  that has starved for a millisecond.
- Gateway: weak fairness of a reload's steps, which only read files and store pointers.
  That reloads happen again and again is a premise of `ReloadsConverge`.
- Scheduler: weak fairness of a loop's steps (its ticker fires); strong fairness of
  `Return`, since `select` chooses at random between ready cases.
- DesktopChecker: weak fairness of a goroutine's steps (requests time out) and of the
  loop's `checkAll` (it sleeps for its interval and comes back).
- Worklog: weak fairness of a call's steps (Jira and Tempo are asked with time-outs);
  strong fairness of the two that take the mutex, as for the refresh.
- Operation, Feedback, DesktopEdit, DesktopPublish: none; only safety is stated.

### Findings

- `oauth_spend`: the comment at server.go:1427 says that two concurrent 401s do not each
  spend a refresh token. The mutex orders them, but nothing tells the second that the
  first has refreshed; it spends another token.
- `null_body`: server.go:614 has the answer show the upstream's status, so that success and
  failure differ. A body that is the JSON value `null` unmarshals into a nil map without an
  error, and writing the request's id into it panics, after the call was made and recorded:
  the connection is closed and the agent learns nothing.

### Observed while modelling, without a run

Secrets and tokens
- A secret is returned in clear if an answer falls between another goroutine's insert and
  its Taint (`ExposedOnlyWhilePending` states exactly this window).
- A status check may put a spent refresh token back into the cache, or make the retry after
  a refresh use the old access token (`DeadTokenOnlyByRace` has the causes).

State, listings, reload
- A listing looks up the agent once and the role anew for every grant (server.go:312): a
  reload in between lists what neither config grants. The call itself would be refused.
- The checksum is computed from a second read of the file.
- The local-service connector finds the tunnel in the config published by then
  (server.go:1354).

Scheduler and log
- `run` ends with its context and leaves `running` set; from then on Start answers
  "scheduler already running" (scheduler.go:239).
- A record that follows a cut-short write is appended to its fragment; after a restart
  records may be appended to a file before the newest one.

Operations
- The constraints readonly, allowed_tables and tunnel have a Check that does nothing
  (registry.go:168-186). An operation whose JQL scope names a list that is not set falls
  back to jira_projects. A dry run skips parameter scopes and tunnels.
- `isIntegral` accepts 2^63 (server.go:1593), which a conversion to int64 does not hold.
- The e-mail, Postgres and local-service connectors do not apply `response.allow_fields`. A
  local service that fails is audited with status 200.
- The TEST operation of operations.yaml:1306 declares `port` an int, and the connector
  reads it as a string: a number that was validated is missing.
- An MCP answer whose JSON-RPC error has an empty message is taken for a result.
- A report that takes several pages counts a worklog twice when an earlier one is moved into
  the listing between two pages, and misses one when an earlier one is deleted or moved out
  (jira_worklog.go:251): `ReportComplete` says that nothing else does either.
- The rows of a mail search have uid 0, since FetchUid is not asked for (email/connector.go:91).
- A bare entry of pg_allowed_tables admits an unqualified table in a statement; in a database
  whose configured schema is not public, the same table is neither listed nor described.

Feedback
- todo_path set by a reload between the two readings lets an empty text be filed (`TodoKept`);
  an item without a text is not recognised as a duplicate of another.

Desktop application
- `notifyNew` may replace `notified` by an older list, and toast a problem twice
  (`NotifiedConverges` shows that this does not last).
- An operations file that is read while another handler fills it is taken for empty and
  written back with one operation (yamledit.go:32). A backup is named by the second, so
  that the second of two within one replaces the first (configedit.go:112).
- setGrants accepts an operation that is not defined.
- upsertKey replaces the first block that has the label or the old token: a block that the
  user has put under the label of somebody else is replaced by that one's next token. It takes
  a file that cannot be read for an empty one and writes the new block alone (gateway.go:199).
- In an elevated application a failed helper action comes back with a nil error, which its
  callers take for success (elevate.go:27).
- useAdminToken with "remember", or a regeneration that overlaps, can put an older admin
  token into agent-keys.txt over the newer one; a token entered in this session is
  preferred to the one recorded there.

## 4. Proofs

All theorems hold for every value of the constants that satisfies the named assumptions
of its module, which TLC evaluates in every run: `ResolverAssumption`, `OAuthAssumption`,
`GatewayAssumption`, `SchedulerAssumption`, `AuditAssumption`, `CheckerAssumption`,
`WorklogAssumption` and `ReportAssumption` (types of the constants, distinct null values,
pages of one row or more, a finite number of worklogs, days and issues);
`RequestAssumption`, `ConfigAssumption`, `AnswerAssumption`, `QueryAssumption`,
`PgAssumption`, `ShapeAssumption` and `FeedbackAssumption` (what a registry, a config, a
request, an answer and a JSON value consist of); `EditAssumption`, `KeysAssumption`,
`AdminAssumption`, `OrderAssumption` and `TypeAssumption` (the first files, as in section 2, what
edits and orders there are, that the gateway can run with the first config, and that no label of
a publish is the null value). They have the form `Init => IInv`,
`IInv /\ [Next]_vars => IInv'`, `IInv => Property`, with one step for each action.

| Theorem | Property | Argument |
|---|---|---|
| OAuthRefresh_proofs: `TypeCorrect` | `TypeOK` | inductive as it stands |
| `TaintCovers` | `TaintCover` | inductive with the types: whoever ends the "taint" phase of a secret has tainted it |
| `ExposureWindow` | `ExposedOnlyWhilePending` | from `TaintCover`: a held secret that is not tainted is some other goroutine's to taint |
| `StaleCauses` | `StaleOnlyByRace` | with `FillCurrent`: a goroutine about to insert holds the stored value, unless a write has overtaken it |
| `OAuthTypeCorrect` | `OAuthTypeOK` | part of `OAuthInv` |
| `RefreshUsesResolver` | | under `OAuthInv`, each step of the refresh is one of the resolver's, a crash, or leaves the resolver's variables alone |
| `RefreshTaints` | `TaintCover` | part of `OAuthInv`, by the lemmas about the resolver's steps |
| `LiveRefreshKept` | `LiveRefreshAccountedFor` | `OAuthInv`, below |
| `AccessTokensAdvance` | `AccessNeverRollsBack` | a stored access token comes from `Carried`: it is the last grant, and the stored one is not newer |
| `DeadTokenCauses` | `DeadTokenOnlyByRace` | with `StaleOnlyByRace` of the resolver, which every step of the refresh keeps |
| Gateway_proofs: `GatewayTypeCorrect`, `StateAlwaysWhole`, `CallsPermitted` | `TypeOK`, `StateWhole`, `CallPermittedByOneState` | with `Loaded` (a reload publishes what was accepted) and `SnapshotSeen` (what a request decides on was in force during its life, and the agent is of the same config) |
| `GatewayImplementsAuthorization` | `ImplementsAuthorization` | every step of `Gateway` is a step of `Authorization` or leaves its variables alone, under the same invariant |
| `ListingsPieceByPiece` | `ListedPieceByPiece` | with `ListSeen`: roles and operations that a listing has still to look at come from states of the request's life |
| Scheduler_proofs: `SchedulerTypeCorrect`, `JobsExecutedOnce`, `CancelledStays` | `TypeOK`, `ExecutedOnce`, `CancelSticks` | with `ClaimedNotPending`: a job under execution is not pending, unless it was added anew |
| `OutcomesOfRuns` | `OutcomeOfItsRun` | with `RunningIsRun`: a running job of a loop's own incarnation is the one it claimed |
| Operation_proofs: `AuditTypeCorrect` | `TypeOK` of the log | with `WrittenByLog`, `CurrentNotAhead` |
| `FilesAlwaysFilled` | `FilesFilled` of the log | with `RoomAhead`: a file of today that this process has not turned to has had a write less; and `CurrentFollowsFull`: the current file was turned to from a full one |
| `ServerKeepsAuditLog`, `ServerFillsFiles` | `FilesFilled` in `Operation` | every step of the server is a step of `AuditLog` or leaves its variables alone |
| `OperationTypeCorrect`, `CallsGoToCheckedEnv`, `PathIsKept`, `RequestsStayInLists`, `AnswersAreTrue`, `AnswersStayInLists` | `OpTypeOK`, `SentToCheckedEnv`, `PathKept`, `SentWithinLists`, `PerformedAsAnswered`, `SeenWithinLists` | `OpInv`, below |
| `TodoIsKept` | `TodoKept` | `TodoInv`: only the holder of the mutex scans and appends, and the text it found missing is still missing when it appends |
| `JqlStaysClosed`, `PgScopeIsExact` | `JqlClosed`, `PgScopeExact` | from the theorems of Policy_proofs |
| `ShapeIsExact` | `ShapeExact` | from `ObjectsAreShaped`, and with `AnswerShaped`: what HTTP or MCP has returned is shaped by the fields of its operation |
| Policy_proofs: `AcceptedQueryIsClosed` | | along the query: the depth and the quote that the code's scan keeps are those of the text in front of which the scope is put, and end where they began |
| `WalkFindsWhatIsRead`, `EntriesAdmitTheirOwn` | | level by level: what a walk has found of the inner statements is what they read, under the names that are visible there |
| `ObjectsAreShaped` | | level by level: a projection has the texts at or below its path, where they stood, and two that come from one value merge to the texts of both (`Parts`, below) |
| DesktopChecker_proofs: `CheckerTypeCorrect`, `MarksAlwaysExact` | `TypeOK`, `MarksExact` | with `Placed`, where each kind of goroutine can be; the bound in `TypeOK` follows from what the counter counts |
| Worklog_proofs: `WorklogTypeCorrect` | `WorklogTypeOK` | part of `WorklogInv` |
| `ChangesLostOnlyByRace`, `AnswersTrue`, `MapChangedByOne`, `WritesAreOwnScoped` | `LostOnlyByRace`, `AnswerTrue`, `MapChangesByOne`, `WritesOwnScoped` | `WorklogInv`, below |
| `ReportTypeCorrect`, `ReportsAreComplete` | `ReportTypeOK`, `ReportComplete` | `ReportInv`, below |
| `HolidaysListedRight`, `SumsAreRight` | `SumsAgree` | the calendar and the sums, below |
| DesktopPublish_proofs: `DesktopTypeCorrect` | `TypeOK` | inductive as it stands; stated for this theorem and in no run of section 3 |
| `SourceAlwaysSurvives` | `SourceSurvives` | `SourceInv`, below |
| `GrantsAlwaysBacked`, `KeysAlwaysKept`, `AdminIsNeverLost`, `PublishedIsAlwaysSource` | `GrantsBacked`, `KeysKept`, `AdminNeverLost`, `PublishedIsSource` | `GrantsInv`, `KeysInv`, `PublishInv`, below |

`OAuthInv` joins two levels. The resolver's part (types, `FillCurrent`, `StaleOnlyByRace`)
is kept by every step that is one of the resolver's, by the lemmas about it;
the steps of the refresh leave its variables alone or are such steps. Its own part: the
lock is held by exactly one handler, the one inside refreshOAuthToken (`LockHeld`); a key
is dropped, or a secret held, only at the places where a handler is inside the resolver
(`Placed`); and what a handler carries from the provider's answer to the store is what
the provider granted last (`Carried`). Without `LockHeld` two carriers could store in
either order and the older token would win; without `Carried` nothing relates the token on
its way to the provider's.

`SourceInv` of `DesktopPublish`: unless a write has failed or the application has ended,
whatever a handler is yet to write is a whole config, or a list with every operation that
nobody asked to remove (`Sound`), since its text comes from a file that was whole when it
was opened; and a file that is not whole is about to be filled by somebody (`Torn`). The
property alone says nothing of what the handlers hold, and a write could undo it.

`WorklogInv`: no id is given out twice and the ledger has the same worklogs (`IdsKnown`); the
map and its temporary file are the mutex holder's (`MapHeld`); and for every call
(`CallOk`) what is ready or on its way was `Prepared` from a worklog that is the caller's and
in scope, has taken effect as often as its flight says, and was checked before it was
asked. `LostOnlyByRace` is its own strengthening once an update is known to be made from
the worklog it read: if that is still the stored one, the outcome is the ledger's, and
otherwise the worklog has been marked as raced.

`ReportInv`: between two pages, the number of worklogs listed up to the last one read is
the number read, at least while none has left and at most while none has joined; so the
offset of the next page points right behind what was read. Every worklog of the first page's
time that nobody has touched was read, or its place in the listing is beyond that number.
What joins or leaves behind the last one read changes neither; what is added is behind it,
since its number is higher than any given out. The property alone says nothing before the
report is done. That each place of a listing is taken by exactly one worklog is
`NthCounts`, by the pigeonhole principle. The attempt to prove an earlier form of the
property, which was excused by worklogs that leave and not by those that join, showed that
it holds only for as few changes as the run then had.

`OpInv` of `Operation`: whoever works on a request or has called an upstream does so for a
request that the policy accepts, with the parameters it checked and the tunnel it looked at
(`DecisionInv`); each step is taken by the connector of its operation, and one that calls has
found its site (`ConnectorInv`); the path and the lists that were looked at before a request
is sent have held since (`CallInv`); nothing has been performed or recorded before the call
that a connector ends with, and what was performed is what the outcome says, also when a
401 came first and the token was refreshed (`OutcomeInv`); and what a result shows is within
the lists (`SeenInv`). None of them follows from the state at the answer: the properties
compare an answer with a decision many steps before it.

Of `DesktopPublish`, each unless one of the marks that excuse its property is set:

- `GrantsInv`: one handler at a time writes a source file, a file is empty while it is
  filled, and whoever has still to write has read what it replaces (`InTurn`); and every
  operation that is granted in the config, there or being filled, and not defined is in the
  list that is yet to be written (`GrantsOwed`).
- `KeysInv`: with `InTurn`, the same for the key file; tokens are of the party that they
  were made for and stand under a label of that party (`Ownership`), also in what is
  installed or being copied (`Installed`); and every token of the source is in the key file or
  about to be recorded (`KeysOwed`). Without `Ownership`, recording one party's token could
  replace another's block.
- `PublishInv`: a request that publishes is alone, the one helper at work is its own, and what
  that has copied so far is the source (`Reached`).

`TypeOK` of `DesktopPublish` says more than types where the code relies on it: files name
only tokens in being, since a token is made before the edit that has it is written; a handler
with a token has an edit that takes one, or, for the token of "use", its block is already in what
it will write; who restarts or reloads does it for an order or an admin token, and who waits
for a helper waits for one there is. Without the clause about tokens, `LabelKey` could not say
under which label a token is recorded.

`ShapeExact`: mergeValues is not right for any two values (of two texts it keeps the later
one), and neither is the induction for it. It is right for two parts of one value (`Parts`):
nulls in place of values, the same texts, some of the keys, as many elements. What project
finds is a part of the response with the texts at or below the path; two parts merge to a
part with the texts of both; and so, field by field, the result has what the fields name. Each
is proved for a level from what is known of the level below (`ProjectLevel`, `MergeLevel`).
`ShapeExact` says besides that a successful result of HTTP, and one of MCP that is an object, has
no text but what the fields allow (`AnswerShaped`); every step of the server keeps that.

`SumsAgree` is about one step, the last of a report. `Nth` and the fold of the code take the
entries in some order; `SumsAddUp` shows that a sum over a finite set does not depend on it, and
`SumsGroup` that groups add up to the sum of all, so days and issues agree. The calendar is
arithmetic with div and mod: `YearShows`, `MonthShows` and `WeekShows` relate a date to its day
number, `EasterIsSunday`, `MoonIs` and `EasterFollowsMoon` the code's algorithm for Easter to the
first Sunday after the paschal full moon, and `HolidaysShow` the list of a year to both. The
norm then counts the right days. Since the code's correction of Easter is part of it, the
theorem fails without that, as the run does.

Inductions on a number (the scan of a query, the levels of a statement or a value, the
elements of a finite set) are made with the least element of a set of numbers, which needs no
operator as a parameter.

The attempt to prove `KeysKept` and `AdminNeverLost` showed that an earlier form of the mark
"superseded", which looked only at the file and not at the config a handler is filling it
with, did not excuse enough for three overlapping requests; the mark was corrected.

Only model-checked is every liveness property (`StaleExpires`, `RefreshEnds`,
`ReloadsConverge`, `NoJobStarves`, `StopEnds`, `ResultsConverge`, `NotifiedConverges`,
`AllAnswered`), since the prover handles neither fairness nor ENABLED. Every other property of a
passing run is a theorem.

## 5. What is not modelled, and why

- The form-session connector: the server never calls it; no operation can name it, and
  executeOp has no branch for it.
- Credential stores other than the resolver's interface: external programs and files.
- Commands and deployment scripts: single-shot tools that prompt, call one endpoint or copy
  files. `Gateway` has a step `Deploy` for files that change.
- tokencheck.go: a table of each provider's wordings. That a status check resolves secrets
  is in `OAuthRefresh`.
- The log hook: it replaces text by patterns on every log line and keeps no state.
- /whoami, /health and the rate limit: they read the published state once, or a counter in
  memory, and change nothing else.
- Of the worklogs: the search of a person's issues and the listing of the map, which only
  read; attributes, which are carried over as the description is.
- Of the desktop application: settings, help pages, icons, tray, the patching of YAML lines.
- The contents of requests and answers that no rule looks at: wording, headers, time zones,
  redaction by pattern.
- Third-party code: the SQL parser, HTTP, IMAP, SMTP. Their outcome is a choice.

## 6. Plan

Done, in this order: `Resolver`; `OAuthRefresh` on top of it; `Authorization` and
`Gateway`; `Scheduler`; `AuditLog`; `DesktopChecker`; their proofs; `RequestPolicy`,
`PgScope`, `ResponseShape` and `Operation`, with `AuditLog` composed into it; `Feedback`;
`Worklog`, `WorkCalendar` and `WorklogReport`; `DesktopEdit` and `DesktopPublish`; the proofs
about `OAuthRefresh`, `Worklog`, the listings of `Gateway`, the outcomes of `Scheduler` and
the source files of `DesktopPublish`; `RequestPolicy` and `PgScope` without RECURSIVE
operators, and the proofs about them, `Operation` and `Feedback`; the proofs of the other
properties of `DesktopPublish` and of `ReportComplete`; `ResponseShape` level by level and
its proof; the proofs of `SumsAgree`, of `TaintCover` under the refresh, and of the types of
`DesktopPublish`.

What is left:

1. Overlapping writes of one file in `DesktopEdit` byte by byte, and a second workspace.
2. Liveness of the desktop application: an administrator who keeps publishing gets the source
   to the gateway.
