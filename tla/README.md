# A verification project for SemanticUI

SemanticUI is a report builder over Snowflake semantic views: a FastAPI server
(`src/backend/app`), a React client (`src/frontend/src`) and an XMLA endpoint
that lets Excel read the same views. This directory holds TLA+ models of the
parts where the order of events matters and of the algorithms that decide what
a query means, the TLC runs that check them on small instances, and TLAPS
proofs of what holds for every instance.

## 1. Inventory

| Component | State | Operations | What is hard | What makes it correct |
|---|---|---|---|---|
| Connection cache `snowflake/provider.py` | `_entries` (session id to connection, last use, lock), `_lock` | put, acquire, evict, discard, describe, sweep, cap | threads; two kinds of lock; connections opened and closed outside the sections; dead connections that say they are open; the cap with busy entries | one owner per connection, the session's own credential, no leak, no eviction of a busy entry, what is popped is closed |
| Sign-in and sessions `auth/routes.py`, `auth/dev.py`, `auth/sessions.py` | `sessions` rows with `last_seen_at`, tokens | OAuth callback, dev login, logout, `get_active_session` | failure after the connection is open; logout or expiry during a request | every failure closes the connection; nothing of a session outlives it for ever |
| Sweeper `main.py` | a thread | every 60 s: sweep, purge rows | an iteration that fails; races with requests | the loop never ends; busy entries are spared |
| OAuth states, connect tokens, throttle `auth/oauth.py`, `auth/connect_token.py`, `auth/throttle.py` | process tables with TTL and cap; a hash and an expiry per session row | make/consume state; mint/resolve; allowed/register_failure | single use, caps, check-then-act | a state lets one browser through, once, and is dropped only for a reason; no valid token is rejected; the limit holds |
| XMLA sessions `xmla/state.py`, `xmla/routes.py` | `_by_id`, `_by_digest` | open, get, end, sweep, one retry | a token resolved between two sections; idle and overflow | a session belongs to its token's app session; the tables agree |
| Session context `session/`, replay in `auth/routes.py`, stamp in `library/provenance.py` | role and warehouse of the shared connection; `users.last_role`, `last_warehouse` | read, set, replay | several statements, each may fail; a row shared by all the user's sessions; connections that are rebuilt | what is stored is what took effect, and comes back at the next sign-in |
| Workspaces `workspaces/` | `workspaces`, `workspace_members`, `users` | create, rename, delete, add, change, remove; first sign-in | handlers that read, then write, with no lock | a personal workspace is private; a shared one has an admin; no orphan rows |
| Reports `reports/` | `reports` rows with JSON documents of three versions | create, update, move, delete, import, migrate | whole-document writes; a move under a dashboard | a report is in one workspace, its document valid |
| Dashboards `dashboards/` | a JSON list of tiles; home pointer per user | add/remove tile, resolve, set home | read-modify-write; references to reports that move or go | at most 40 tiles with unique ids, tiles resolve only to what may be read |
| Library, home, explores `library/`, `home/`, `explores/` | per-user item state | pin, open, forget, list | get-or-create race; pointers to deleted items | one row per user and item |
| Semantic queries `semantic/`, `reports/filters.py` | none | describe, plan joins, compile, list values | which joins are possible; placeholders and values in step; limits | compiled exactly if answerable; the columns and rows that were asked for |
| XMLA engine `xmla/classify.py`, `engine.py`, `members.py`, ... | none | MDX to semantic queries to cells | sets nested in sets; subtotals; the state of a gesture comes back in the next statement | each cell is of its own rows; drill state is told truly; a member sent back selects itself |
| Export, feed `export/`, `feed/` | none | workbook, ODC, feed | three readings of one document | a feed serves what a fresh report shows, a workbook what its screen shows |
| Announcements, audit, admin | rows written once | - | - | - |
| Report builder `frontend/src/reports` | the document, saved text, query cache, pending calls; drills, marks, slicers | load, edit, save, bind, navigate; click | answers out of order, late or never; a component that is kept for another report | an edit is not lost; a document stays with its report; no unsaved changes means saved |
| Explorer, model `frontend/src/explorer`, `model` | fields in wells; a graph | reachability, layout | algorithmic | what is offered can be queried |

Interactions: every API handler calls `current_session` (the row is touched or
dropped), most then `ConnectionCache.acquire` and hold `entry.lock` while they
query. The XMLA endpoint does the same through `acquire_entry`, and starts over
once. Sign-in opens a connection, writes the rows (user, personal workspace,
session) and puts the connection in the cache. The sweeper works on both the
cache and the rows. Handlers on workspaces, reports and dashboards meet only in
the database. The client meets the server only through the API.

The hazards that follow from this are listed, each at its line, in
`PROJECT.json`.

## 2. Plan

| Order | Module | Content | Status |
|---|---|---|---|
| 1 | `ConnectionCache` | cache, sign-in, logout, requests, sweeper, session rows | done, 9 theorems |
| 2 | `Workspaces` | users, workspaces, members, overlapping handlers | done, 4 theorems |
| 3 | `Dashboards` | reports, dashboards, tiles as whole-document writes, moves and deletions under them | done, 5 theorems |
| 4 | `Library` | pins, views and home pointers against items that come and go | done, 4 theorems |
| 5 | `Access` | connect tokens, throttle, XMLA `SessionStore` on top of session rows | done, 7 theorems |
| 6 | `OAuthStates`, implementing `SingleUse` | the pruned and capped table of sign-ins under way, each state consumed once | done, 4 theorems |
| 7 | `SessionContext` | role and warehouse on the shared connection, remembered and replayed | done, 3 theorems |
| 8 | `ReportDocument` | the builder's load, edit, save and bind with answers out of order | done, 4 theorems |
| 9 | `Joins`, `SemanticQuery` | join plans, predicates, statements and value lists | done, 5 theorems |
| 10 | `Visuals` over `SemanticQuery` | one report on the screen, in a workbook and in a feed | done, 2 theorems |
| 11 | `Mdx`, `Pivot` over `Mdx` | Excel's statements, members and cells | done, 3 theorems |

What could come next: the rows of `xmla/discover.py`; relative dates in
`semantic/predicates.py`.

## 3. What is modelled

### ConnectionCache

One action per section under the cache lock and per step outside it. A thread
(`Worker`, or the `Sweeper`) has a program counter `pc`, the session it works
for (`sess`), the entry or connection in its local variable (`cur`) and the
connections it has popped and not closed (`toClose`); it goes on only when
`toClose` is empty, as the code closes before it returns.

| Model | Code |
|---|---|
| `LoginConnect`, `LoginCreate`, `LoginFail`, `ReplayFail`, `LoginPut` | `oauth_callback`, `dev_login`: connect, probe and create, `close_quietly`, replay of the context, `put` |
| `LogoutEvict`, `LogoutDelete` | `logout` |
| `Arrive`, `Browse`, `Check` | `xmla`/API routes up to `get_active_session` |
| `Hit`, `Miss`, `Build`, `BuildFail`, `InstallTheirs`, `InstallMine`, `Raise` | `acquire`, the two sections and what is between |
| `Enter`, `Leave`, `Discard` | `with entry.lock`, its end, `discard` by the XMLA endpoint and its one retry |
| `CapVictims`, `Insert` | `_enforce_cap_locked`, insertion |
| `Sweep`, `Purge`, `PurgeFail` | `_sweep_loop` |
| `Tick`, `ServerDrop`, `ClientDrop` | time; Snowflake ends a session; the connector notices |

An entry is created with one connection and never gets another, so an entry and
its connection are one value; `lock` is indexed by it. Database rows of a
session are "new", "live" or "gone"; a session id is used for one sign-in.
Tokens, the describe cache and the answers are left out. A closed connection to
which nothing refers is used again: connections are interchangeable, so this
bounds how many exist at a time and not how many are built. `owner` is not in the code: it
records whose credential opened a connection.

### Workspaces

A handler reads, then writes in one transaction at its end; in between others
commit (READ COMMITTED, no row lock). `Ask` is everything up to the first
decision, `GuardLastAdmin` the count, and one action per handler the commit.
`SignIn`/`SignInCommit` is `create_session` with `ensure_personal_workspace`.
`raced`, in a request, is not in the code: it records that the members of the
workspace have changed since the request read them.

### Dashboards

A dashboard's tiles are one JSON document. `UpdateDashboard`, `AddTile` and
`RemoveTile` are what these handlers do up to the first report they look up:
the gate (`Ask`), the checks on the document that was read, and the document
they are going to write (`sent`). `ReportInWorkspace` looks up one report of a
tile, `Commit` writes the document whole, also for an update of its layout or
title, which can so undo what another request did to the tiles; `CommitNothing`
is the commit that has nothing to write (SQLAlchemy emits no UPDATE for an equal
document) or no row to write it to. Creating, moving and deleting reports, dashboards and
workspaces are one step each: what they write does not depend on what they
read, so a request in progress is the same as one that starts at its commit.
A report stands for one visual on it. Membership is arbitrary: the gate leaves
only that the row is there. The foreign keys are PostgreSQL's. `adds`, `drops`,
`raced` and `moved` are not in the code: they record what the client asked for
and what has happened to the document and its reports since it was read.

### Library

`row` is the table user_item_state, `home` the column users.home_dashboard_id;
neither has a foreign key to the items. `Ask` reads the row, `WriteRow` is the
UPDATE of one column or the INSERT, `WriteNothing` the cases where nothing is
written: the value is there already, the row that was read is gone, or the row
to insert is there. `Delete`, `Forget`, `DeleteCommit`/`DeleteFails` are the
two transactions of delete_report and delete_explore. `DeleteDashboard`,
`ClearPointers` and `DropCommit` are delete_dashboard: its UPDATE of the users who
have the dashboard as home and the DELETE are one transaction, visible at its
commit; until then the rows it has updated are locked (`Locked`), and a pointer
written in between to another user's row is not cleared. `DeleteWorkspace` takes
any set of items. `swept` and `raced` are not in the code.

### Access

| Model | Code |
|---|---|
| `live`, `seen`, `hash`, `minted` | a row of `sessions`: it is there, `last_seen_at`, `connect_token_hash`, `connect_token_expires_at`, the times as ages |
| `Visit`, `Drop`, `Touch`, `Vanished` | `get_active_session`: read, then delete or touch, or find the row gone at the commit |
| `Purge`, `Logout`, `SignIn` | `purge_expired_sessions`, `delete_session`, `create_session` |
| `AskMint`, `Mint`; `Resolve` | `connect_token.mint`, `resolve` |
| `Allowed`, `FeedFailed`, `OpenFailed`, `HitsAge` | `SlidingWindow.allowed`, `register_failure`, `register_failure_once`, `_prune` |
| `byId`, `idle`, `byDigest` | `SessionStore._by_id` with `last_seen`, `_by_digest` |
| `AskById`, `AskByToken`, `OpenSession`, `EndSession` | `get`, the two sections of `open`, `end` |

The XMLA endpoint is an `async def` that does not await once it has the body:
it runs on the event loop, so one XMLA request is in progress at a time
(`Loop`), next to any number of feed and mint handlers in threads (`Handler`).
`open` is followed by `acquire_entry`, which reads the row again: the request goes
on at `Visit`. Then it goes on to the connection cache and its retry, which is
module `ConnectionCache`; here it is done. An `EndSession` that opens
its session first is `OpenAndEnd`, and `ends` in `AskByToken` when the digest
table has one. The window is per client and one client is modelled; a call that
prunes it does so before it looks, so pruning is part of `Tick`. Rows are purged
in one step: a row that is touched between being read and the commit is deleted
all the same, which is no more than a logout does. `owner`, `by` and `raced`
are not in the code: whose token it was minted for, which password was counted,
and that a row about to be dropped has been touched since it was read.

### OAuthStates and SingleUse

Nothing locks the dict `_states`, so one operation on it is one step.

| Model | Code |
|---|---|
| `table`, `age` | `_states`: its keys in the order of insertion, and how long ago each was made |
| `cookie` | the cookie that ties a sign-in to a browser |
| `AskLogin`, `IterationRaises`, `Collect`, `PopDoomed` | `_prune_expired_states`: the comprehension, which raises if the dict changes size under it, and one pop after the other |
| `Insert`, `CountOverflow`, `ListOldest`, `PopDoomed` | the rest of `make_state`, and `_enforce_state_cap`: the length, the list of keys, the pops |
| `AnswerLogin` | the redirect, which sets the cookie |
| `Callback`, `Consume`, `CheckAge` | `oauth_callback` up to the exchange, and `consume_state` |
| `SignedIn`, `ExchangeFails`, `SessionFails`, `Refuse` | what may become of it, and what that does to the cookie |

`SingleUse` is what a reader of the module's docstring expects: a state is
issued to one browser, and lets that browser and no other through, once, unless
it lapses before. `UsedOnce` says that `OAuthStates` implements it, with `open`
the states that are fresh and in the table or in the hands of the one callback
that popped them. `maker`, `uses`, `lost`, `disturbed` and, in a request, `had`,
`newest` and `raced` are not in the code: they record whose state it is, whom it
let through, what was dropped before it expired, whose cookie was overwritten,
and what an eviction knew when it counted and listed.

### SessionContext

Each statement on the connection, each read and each commit is a step. `Ask` to
`ReadBack` is the block `with entry.lock` of `set_context`, `Load`/`Remember` what
follows on the user's row, `StatementFails` the exception that leaves what was
applied. `SignIn`, `LoadRemembered`, `ReplayRole`, `ReplayWarehouse`,
`ReplayFails`, `RecordLive` and `ReadBackFails` are the replay at sign-in;
`ReplayFails` is any error but a refusal, before or after its statement took
effect. `Rebuild` is a connection that `acquire` builds anew, `Regrant` an
administrator at work. SQLAlchemy updates only the columns whose value differs
from the one loaded (`Store`). `drift`, and in a request `overtaken` and
`hindered`, are not in the code: for each session they record what may differ
between its connection and the row, and why.

### ReportDocument

One user, one tab. `cur`, `def` and `base` are the hook's `reportId`, `definition`
and `savedJson`; `cache` and `fetch` are react-query's cache and the fetch under
way, `calls` the mutations. `Go` is a route that changes under a component that
stays: the effect on `reportId` resets the document and `save`, and not `bind`.
`Serve` is the server's write, `SaveAnswered` and `BindAnswered` the two
`onSuccess`, in any order and at any time later; `CallFails` loses the request or
its answer. `failed` is `report.isError`: `FetchFails` sets it also when the
document is there and has been fetched again (`Refetch`, `Show`), and
`BuilderPage` then shows an alert instead of the builder, so there is nothing to
edit and no Save (`OnScreen`) until a fetch succeeds; the definition in the hook
stays. A bind can be asked for whenever the builder is shown, as the panel for it
also appears when the report's view is gone (`useViewFields`). Document contents
are told apart by the report they were made for, the edits in them and whether
they are bound to a view. `lateBind` and `doubt` are not in the code: that a bind
was answered when another report was open, and the reports the client may be wrong
about (a stale document from the cache or a fetch, overlapping requests, lost
answers, answers for another report).

### Joins and SemanticQuery

`Joins` is `semantic/joins.py`: the graph of the declared relationships,
breadth-first reachability as a recursive function, and `plan_join` with its
blocked dimensions, alternatives and bridge. `SemanticQuery` goes from the rows of
DESCRIBE (`describe_semantic_view`) over filters and predicates
(`is_active`, `build_filter_predicates`) to one statement
(`build_semantic_sql`), and has the two routes that run one: `query_semantic` and
`field_values`. A statement is a record of what the text says: the columns
selected and excluded, the fragments with their numbers of placeholders, the
values bound, the order and the limit. A refusal carries its advice: `advice` is
the set of requests that one piece of the message leads to, read as it stands
(the first blocked field is to go, whichever comes first; the metrics of the base
are to make way for one alternative; that field for one of the base; or the
fields of one table are kept). What Snowflake makes of it (`Keeps`,
three-valued truth, `Columns`) is external. A text is a sequence of letters, a
letter and its negative being its two cases.

### Visuals

The catalogue of visuals with `validate_wells`, the checks of a document
(`parse_definition`) and its upgrade (`migrate_definition`) say which documents
there are. The screen is `useVisualQuery` with what has been clicked (`onMark`
drills or selects, `drillUp`, `onSlicerChange`, `focusPage`); the workbook is
`sheetRequestsFor` and `export_workbook`; the feed is `build_feed_request`. Each
makes its request from the same document, and `build_semantic_sql` makes the
statement of it, so what is compared are statements and not requests: the feed,
for one, sends the filters the screen leaves out as unfinished, which adds
nothing to its statement unless the view no longer has their field.

### Mdx and Pivot

`Mdx` takes a statement as parsed and says what each set contributes to its axis
(`_classify`: members, `.CHILDREN`, `.MEMBERS`, DRILLDOWNLEVEL,
DRILLDOWNMEMBER with its complements, EXISTS, CROSSJOIN, tuples). The recursion
of the code is made of rounds: `walk` opens one level of nesting per round
(`Opened`, `Depth` rounds), which leaves the entries in the order in which the
code comes to them, each after its arguments; `Moves` gives what an entry then
does, and `Apply` does it to the one state that `_classify` builds (`measures`,
the hierarchies in the order they were met, a `HierSpec` of each, the filters and
paths of EXISTS). `Pivot` answers the statement: `Scope` merges axes, subselects
and slicer into one filter, `KeptRows` applies it, `MembersOf` enumerates the
members of a hierarchy, `Tuples` crosses them and leaves out what never occurs or
is not expanded, `Cells` runs over the ordinals. The nested `walk` of
`_userhier_members` is `Descend`, one level of the hierarchy per round
(`Deeper` puts the children of every open node right behind it, which is depth
first). The metric of a group is the set of its rows, so two groups have the same
value only if they are the same.

Values are texts as MDX spells them. One of them, `AllText`, is called "All" like
the member that stands for all: `[All]` and `.&[All]` differ by the key flag, to
which EXISTS and user hierarchies pay heed (`IsAll`) and attribute hierarchies in
slicers, subselects and on axes do not (`TakenForAll`). A drill set that names
`[All]` names the text (`Spelled`): it limits the parents to that value, or opens
that path. A complement outside a drill set is refused (`Unsupported`).

## 4. Runs

Every run is expected to pass; what contradicts a doc or a comment is under 6.

| Run | Bounds | Shows |
|---|---|---|
| `cache_requests` | 2 sessions (1 OAuth, 1 dev), 2 workers and the sweeper, 3 connections, cap 1, ages 0..1, API and XMLA routes | one owner, own credential, busy entries spared |
| `cache_cap` | 3 OAuth sessions, 2 workers, 3 connections, cap 2, API only | no leak, cap respected, acquire keeps what it stores |
| `cache_liveness` | 1 session, 2 workers, 2 connections, cap 1, API and XMLA routes, fair | orphans are reclaimed, no connection outlives its session for ever |
| `workspaces` | 2 users, 3 workspaces at a time, 2 handlers | privacy, admins lost only to races |
| `dashboards` | 2 workspaces, 2 reports, 1 dashboard, 2 tile ids, 2 tiles at most, 2 handlers | no orphans, valid documents, strays only by moves, changes only as asked or raced |
| `library` | 1 user, 1 report or explore, 1 dashboard, 3 handlers | favourites kept, rows and pointers outlive their items only by races or where nothing clears them |
| `access` | 2 app sessions, 3 passwords, 3 XMLA ids, 1 thread and the event loop, a budget of 2, `MaxSessions` 1, TTLs and window 0 or 1 tick | tables that agree, window bounded, failures counted once, rejections deserved, used rows kept |
| `sign_in` | 2 browsers, 3 states, 2 threads, cap 1, TTL of 1 tick | `SingleUse` is implemented; refusals and drops have a reason |
| `session_context` | 2 sessions, 2 roles, 1 warehouse that goes with the second role, 2 threads, two differences | what differs is explained; the choice comes back |
| `builder` | 2 reports, 1 edit, 2 calls, two things under way or failed, to the first late bind | a document stays with its report, clean means stored, edits are kept and come back after a failed fetch |
| `queries` | 4 entities under every acyclic graph whose edges go upwards, with at most one metric each and none on the last; a view of 2 dimensions and 2 facts with every pair of some 30 filters; 5 texts; some 150 reports of two pages | join verdicts, each piece of advice, projection, filters, value lists; feed and workbook against the screen |
| `excel` | 3 fields of 2 values, 27 tables, some with NULL, the empty text or a value called All; every statement of the axes, slicers and subselects in `MCPivot` | cells, drill state, members that select themselves |

Why the bounds are enough: with two workers and the sweeper every pair of
sections interleaves, and the cap is reached (cap 1 with two sessions, cap 2
with three), so eviction, replacement and the sweep all happen; one tick of age
is enough to be over a TTL of 0. `IdleTTL` and `SessionTTL` are ticks: ages are
counted up to `MaxAge` and stay there, which keeps every comparison with a TTL.
Three workspaces hold two personal ones and a shared one; two handlers make
every race of a check with a write. Two tiles and two reports are the least
with which removing one tile can take the other, or a document be full; two
handlers again make every lost update. In `library` three handlers let a pin
and a view race with a deletion; a second user would only add rows that nobody
else touches (deleting and forgetting are for all users at once).
In `access` three ids fill a store of `MaxSessions` + 1 and leave one to open,
so both the idle and the overflow sweep happen; three passwords let a session
have a current and a replaced one while another is guessed; a thread and the
event loop pass a budget of two together. Ages stop one past the limit they
are compared with.
In `sign_in` two threads at a cap of one both prune, both count and both evict,
and a third state is there to come in between. A login begins only while a value
of `State` is left for it (`CanDraw`, a bound of the model: the code draws from
2^128).
In `session_context` the default role may not use the warehouse, so a switch of
role can take it away. `MCSessionContext.Bounds` ends a run when more than two
of the four things that can differ (role or warehouse, in one of two sessions)
do; the proofs are without it. `MCReportDocument.Bounds` ends a run once a
document is shown under the wrong report, where `StrayNeedsLateBind` has
nothing more to say, and lets `MaxInFlight` requests and fetches be under way or
have failed at a time: two make every reordering of two answers, and let an
answer arrive behind an alert.
In `queries` four entities are the least with a bridge that has a nearer and a
farther alternative; the graphs are acyclic, as Snowflake takes no circular
relationships. Two filters and a combination are the least
with which placeholders and values can get out of step. In `excel` a user
hierarchy of two and one of three levels over the same fields, with NULLs on
either level, reach every branch of `_userhier_members`; the tables have a
combination missing wherever one can be.

Conditions of `cache_cap`. `NoLeak`, `CapRespected` and `AcquireReturns` are
checked with no more workers than `MaxSize` (the server has 40 threads and a cap
of 100, `config.py`); with more, the cap can find only busy entries. `NoLeak`
also assumes `CommitFails = FALSE`: when the commit of a sign-in fails, its
connection is forgotten (see 6). The theorems about the three state these
hypotheses, each only those it needs. `cache_liveness` assumes
`CommitFails = FALSE` for the same reason.

Known exceptions. Where the code is known to deviate, a property says so rather
than being weakened everywhere: `Known` and the ends of `DrillStateTold` and
`MemberSelectsItself` in `Pivot` (NULL members, NULL beside the empty text at a
level, where one of the two is shown, a field two hierarchies share, user
hierarchies scoped twice or by paths the data does not have, a selection of All
together with other members or of paths inside combinations, `Mixed`, a value of
an attribute that is called All, `TakenForAll`), `ReadDifferently` and a page's
own slicers in `Visuals`, NULL in `ValuesHonest`, what is left to hinder a metric
in `AdviceWorks`, the alert of a failed fetch in `EditsKept`, a replay that fails
in `ChoiceComesBack` (`hindered`), a stale overflow in `DropsDeserved`, a
disturbed cookie in `RefusedDeserved`, `lateBind` and `doubt` in `ReportDocument`,
`raced` elsewhere. Those that contradict a doc or a comment are findings (6).

Symmetry is used in runs without liveness properties only: workers,
connections and OAuth sessions are interchangeable, and so are users,
workspaces, reports, dashboards, tile ids, handlers, the sessions, tokens and
ids of `access`, browsers, states and threads of `sign_in`, sessions and threads
of `session_context` (not its roles: one is the default), reports and calls of
`builder`.

Fairness (`FairSpec`): the sweeper's thread loops for ever and catches every
exception (`main.py` 30-43); time passes; a handler that has started goes on,
because queries have a statement timeout and `close()` returns; nothing is
assumed of clients, of logouts or of Snowflake dropping connections.

Deadlock is checked in every run.

## 5. Proofs

Eight modules hold proofs: one for each of the modules 1 to 4, 6 and 7 of the
plan, `ReportsProofs` for the modules 8 to 10, and `XmlaProofs` for `Access` and
for `Mdx` and `Pivot`.

`ConnectionCacheProofs` proves, for every number of sessions, workers,
connections and every cap and TTL, `TypeOK`, `LockMatchesUse`, `OneOwner`,
`OwnCredential` and `BusySpared`. `TypeInv` adds to the types that a thread
between two sections has a session and a connection in its variables.
`OneOwner` is inductive with it and the invariant that an entry on its way to
or in a query is not owned by a thread; `OwnCredential` needs `OneOwner`, since
a connection could change its owner only by being closed and opened again,
which takes that nothing refers to it.

How many entries there are is a matter of counting. `_enforce_cap_locked` spares
the entries whose lock is held, and mapping each of those to the worker that
holds it is one to one (`LockedFew`, from `LockMatchesUse` and `OneOwner`); the
worker that enforces the cap holds none. So at most `MaxSize` entries, or fewer
than there are workers, are left (`InsertBound`), which every other step keeps:
`CacheBound`, proved without a hypothesis. With at most `MaxSize` + 1 workers it
gives `CapRespected`. With at most `MaxSize` the cap never takes the entry that
has just been made, from which `AcquireReturns` follows, and, with
`CommitFails = FALSE`, `NoLeak`: every open connection is in the table or in a
variable of some thread (`Held`), and a step that takes it from one puts it into
the other (`InsertHolds`, `PoppedHeld`, `OwnersKeep`, `OpenedHeld`: one lemma per
way in which a step can move a connection).

`WorkspacesProofs` proves `TypeOK`, `MembersAreReal`, `PersonalIsPrivate` and
`AdminLossNeedsRace`. `PersonalIsPrivate` is not inductive: `HarmlessRequests`
says that a request on a personal workspace is a role change or a removal of
its one admin, which passes the count of admins only when it changes nothing.
`AdminLossNeedsRace` rests on `UnracedInv`: a request that nobody raced has the
current role of its member in hand, and past the count there is another admin.

`DashboardsProofs` proves `TypeOK` and everything the run `dashboards` checks:
`NoOrphans`, `DocumentsValid`, `StrayNeedsMove` and `ChangesAreAsked`. The
inductive invariant `IInv` adds what is known of a request in progress while
its dashboard is there (`SoundWith`): it will write a valid document; that
document differs from the one it read by just what was asked; the one it read
is the one stored unless it has been raced; and each tile in it was there
before, is yet to be checked, has a report that moved, or stays in the
workspace. Without the first part `DocumentsValid` is not inductive, without
the second `ChangesAreAsked` says nothing of a commit, and the third is what
`StrayNeedsMove` needs at a commit. Finite documents (`DocumentFinite`) and
the effect of adding one tile on validity are lemmas of their own.

`LibraryProofs` proves `TypeOK`, `FavoriteKept`, `PhantomNeedsRace` and
`DanglingNeedsRace`. Its `ReqSound` is what the last two need at the commit: a
request that nobody raced acts on an item that is there, and once a deletion has
forgotten the item nobody has a row for it.

The first part of `XmlaProofs` proves `TypeOK`, `StoreBounded` and everything the
run `access` checks. `IInv` adds to the
checked invariants: a hash stands only on the row of its owner (`RowsSound`);
what a request has in hand at each step (`StepSound`); that a request that has
been rejected has a password no row will ever let in (`Dead`, which is stable
because the hash of a password in use is never minted again and the clock of a
token only goes on), and that the row it is about to drop is expired unless
another request touched it (`SessionSound`); that the token of an XMLA session
being opened has none yet and the store has room (`StoreSound`); that failures
are in order of age and as old as their fingerprints (`HitsSound`), without
which time would not keep the window; and that failures and the attempts past
`allowed` together are fewer than the limit and the threads (`BudgetKept`).
`RequestSteps` reduces a step to what it does to one request: it stays, asks or
goes on; so each invariant about requests has one proof per kind of step.

The second part, in the vocabulary of `PivotTerms`, proves `MemberSelectsItself`,
`CellsAreRight` and `DrillStateTold` of `PivotSpec`, with the exceptions the three
state, for any finite table, any set of hierarchies and the statements of
`StatementAssumption`. The inductive invariant is short, since a statement is
answered in one step: the answer that is open is `execute` of the data and the
statement (`Replied`). The work is in what `execute` computes. Its loops (the
rounds of `walk`, the moves of an axis, the rounds of a descent, the drilled paths
that are not shown) are recursive functions, which `LoopRuns` unfolds once for all
of them, and `FlatIs` says what FlattenSeq makes of a list of lists. `StateOK` is
the invariant of a classification: whatever moves come, hierarchies are listed
once and each has a `HierSpec` of its own kind (`ApplyOK`, `ClassifiedOK`). With
it every member on an axis is the member of a key of its hierarchy
(`UserMembersAre`, `AttributeMembersAre`), and every tuple has one of each
hierarchy in order (`TuplesAre`). `MemberSelectsItself` follows from what a filter
and a path predicate keep (`SlicedItself`, `TickedItself`). `CellsAreRight` has
two halves. That cells and places correspond: an ordinal and its coordinates are
inverse to each other (`OrdinalsArePlaces`), and the assignments of a place's members,
put together by `assignment.update`, hold of a row just when each member does
(`AssignedIs`), as no two of the hierarchies share a field. And that the rows are
those selected: a set of plain members is classified into exactly what it names
(`Holding`, an invariant of `Apply`; `PlainClassified`), combinations keep the
rows of one of their tuples (`CombosFit`), the paths of a hierarchy those below
one of them (`PathsSelect`), so that the merged scope keeps what every source
selects (`ScopedIsSelected`).

`DrillStateTold` compares the members of an axis with each other. For a user
hierarchy it follows its keys through every step that makes them. `Spread` is the
invariant of a descent's rounds: a node that is shut has its children among the
nodes, an open one is as deep as the rounds made, and every key but the start came
from one that was drilled; so at the last round there is no open node left to
matter (`DescendHas`). Named members, what is shown below them and the drilled
paths nothing led to, shortest first, keep both halves: the set is closed under
the children of drilled members, and whatever is in it was named or is such a
child (`NamedKeysHave`, `GrownOn`, `AllKeysHave`). `Emitted` takes one key per
name, and where NULL is not beside the empty text two keys of the data with one
name are equal (`SameName`). Then the tuples: a row that has a child of a tuple's
last member is a row of the tuple with the child in its place (`StillAgrees`), and
that tuple passes `_drill_allowed` when the first does (`DrillKept`, which needs
that a hierarchy drilled under parents has them on its axis: `ClassifiedParents`,
since such a drill moves its parents as members too); so
the axis shows all children of the data and no others (`ChildrenShown`). For
attributes, a value told to be collapsed is one `_parent_drilled` refused, by the
same include and exclude sets that `_drill_allowed` reads (`AttributeIsTold`).

`OAuthStatesProofs` proves that `OAuthStates` implements `SingleUse`
(`UsedOnceCorrect`: the initial states map to initial states, and each action to
`Issue`, `Use`, `Lapse` or a stutter), and `RefusedDeserved` and
`DropsDeserved`. That a state is used once rests on `StepsSound` (a state that is
being checked is not in the table and has let nobody through), `OneChecks` (it
is in the hands of one callback) and `UsesSound` (once used it never comes
back). `CookiesSound` ties it to its browser. `Gone` and `CookiesKept` give the
reasons for which a state may be missing from the table, or its cookie from the
browser, before anyone is refused; `RefusalsSound` carries them to the refusal.
`DoomsSound` is the argument for `DropsDeserved`: unless the table shrank
between the count and the list, the keys listed are none of the newest `Cap`,
which takes counting the entries of a sequence without repetition.

`SessionContextProofs` proves `DriftExplained` and `ChoiceComesBack`.
`Explained` says that the row is what a session runs as, or `drift` has the
reason, or a request of that session has changed the connection and not yet
written the row; `ReadsSound` that what a request has read back and loaded is
still so unless it was overtaken; `OneLocked` that one request at a time is in
the block under `entry.lock`; `ReplaysSound` how far a replay has come.

`ReportsProofs` has four parts. The first is about `ReportDocument`: `TypeOK`,
`StrayNeedsLateBind`, `CleanIsStored` and `EditsKept`. `Homes` says that until the
first late bind every document in the cache, in a fetch, in a request and at the
server is of the report it is for. `Known` says what the client knows of the
report it shows: at most one request for it is under way, and the server has that
request's document once it is served, and the baseline until then. It needs
`Alone`, the same for reports that are not shown, and `Heard`, that an answer
waits only for a mounted component.

The second part is about `SemanticQuery`, for every view and every question, in
the machine of `Visuals`: `JoinVerdictRight`, `AdviceWorks`, `AskedIsShown`,
`FiltersMean` and `ValuesHonest`. The invariant, `QueryInv`, says only that what
is shown was computed from a view and a question; the work is in lemmas about
what the code computes.
`ReachableIs`: the breadth-first search of `reachable` returns the least set that
holds the start and is closed under the edges, as it has visited everything
after as many rounds as there are tables (`SearchExists`, `Balls`).
`PlanIs` and `RepairIs`: `plan_join` and the repair by a bridge agree with what it
means to be answerable, blocked or bridged, which are stated with closed sets and
know of no search. The
distances it sums and the minima it picks are defined because a least
number exists (`LeastBy`, `TotalDistanceNat`).
`StatementIs` and `ColumnsAre`: a statement that is not refused has exactly the
columns asked for, less what was excluded.
`FiltersMean` needs that placeholders and values stay in step. `ExtendedKeeps`: a
fragment appended with its values means what it meant alone, and the
fragments before it take the same slices of the values as before. `RunKeeps` is
the loop of that, `WhereKeeps` the whole clause, and `FilterTruth` and `ComboTruth`
say that a fragment is true of the rows its filter means.
`ValuesHonest` needs that the order of texts is total, transitive and
irreflexive (`LessTotal`, `LessTransitive`, `LessIrreflexive`), so that the first
`n` of a finite set are well defined (`SmallestIs`).

The third and fourth part are about `Visuals`: `ExportShowsScreen` and
`FeedShowsReport`, for every document that `parse_definition` accepts.
`ReportInv` says that the open document is such a one, and that a selected mark
is one of a visual on the page that is shown. For the workbook: ids are apart
across all pages (`IdsApart`, from the numbering of the visuals in one list,
`VisualsPlaced`), so a sheet takes the selections of its own visual, and none on
a page that is not shown (`SameMark`, `NothingIn`). For the feed: the first level of
a hierarchy is what an undrilled screen shows (`TopLevel`, `SameRefs`); an unfinished
filter adds neither fragment nor value (`ActiveBuilds`); and requests that agree but
for those are made into the same statement (`SameStatement`).

Recursion in these modules is over numbers and by recursive functions. A theorem
whose hypothesis is a predicate cannot be instantiated, so an induction
is written with the set of numbers a statement fails for and its least member
(`LeastNat`, `Induction`), and a recursive function is shown to exist by building
it one argument at a time (`Recursion`).

The assumptions are the named ones of the modules: finite sets where something is
counted, a `None` that is none of the values it is told apart from, TTLs below
`MaxAge` or above zero; the rows of DESCRIBE, the questions and the values of a
column are of their types (`InputAssumption`); and a document that has been
upgraded and accepted has lists where the schema has lists (`UpgradedAssumption`,
which pydantic sees to). For `Pivot`: tables are finite (`DataAssumption`); a
hierarchy has each field once; sets are made of what the parser makes
(`EntryAssumption`) and `Entry` has with a set what is left of it when its
arguments are done (`ClosedAssumption`, so that a round of `walk` stays in it);
and statements are of the shape MDX and Excel give them (`StatementAssumption`):
two axes at most, no hierarchy on two of them, no deeper nesting than `Depth`,
EXISTS and subselects name members or tuples of members, and tuples over the same
hierarchies have them in the same order. TLC evaluates them in every run.
`ValuesHonest` has the hypothesis `VALUES_CAP < RowCap` (1000 in
`semantic/routes.py`, 10000 by default in `config.py`): the list asks for one row
more than it shows, to know whether it is cut off, and the row cap must not take
that row away.

Only model-checked: `OrphanReclaimed` and `NothingOutlives`, as liveness and
`ENABLED` are out of the prover's reach. Every other property a run checks is the
conclusion of a theorem.

## 6. Where code and documentation disagree

`PROJECT.json` lists them under "findings", each with the line and the words it
contradicts. They were met while modelling; the model has the code's behaviour,
and the property that would forbid it names the exception. In short:

- Connections: a request's entry can be closed between `acquire` and
  `entry.lock`; a sign-in whose commit fails forgets its connection; only the
  XMLA endpoint hands a dead entry back; the cap takes connections that cannot
  be rebuilt.
- Sign-in: evictions at the cap can take one state too many; pruning can raise
  while another sign-in comes in; a refused callback deletes the cookie of a
  sign-in under way.
- Tokens: a replaced token goes on opening its XMLA session while that is warm.
- Workspaces, dashboards, library: overlapping requests can take the last admin
  away or make a second personal workspace; a move leaves tiles behind;
  deletions leave rows and home pointers.
- Context: a refused warehouse leaves the new role applied; what is stamped on a
  saved item can differ from the connection it was saved over.
- Builder: a bind answered on another report puts its document there; a bind's
  answer drops edits made meanwhile; the cached document outlives a save; a failed
  fetch of an open report takes the builder and Save off the screen.
- Queries: following the advice of a refusal once leaves it refused when two
  dimensions are blocked or two metrics have different bases; one bridge is
  tried; a qualified ORDER BY is emitted bare; a count of years can leave the
  calendar; `truncated` with NULL.
- Excel: NULL below a hierarchy; a value called All is taken for the All member;
  values that differ in case only; path lists cut at the row cap; selections of
  nothing; fields two hierarchies share; drill state of a user hierarchy before
  another one.
- Feeds and workbooks read some sorts, limits, aggregations and slicers
  differently from the screen; a feed is refused for an unfinished filter by a
  field the view no longer has.

## 7. Not modelled

The texts of SQL, MDX, XML and workbooks, with the rows of `xmla/discover.py`,
the tokenizer of `xmla/mdx.py` and `xmla/dataset.py`; relative dates and the
literal statement for Excel; importing and exporting a definition as a file;
announcements, audit and administration (single rows, last writer wins); the
language model behind the assistant; the explorer and the model diagram, whose
join rules restate `semantic/joins.py`; rendering in the client; the launcher,
migrations and deployment. `PROJECT.json` has the reason for each component.
