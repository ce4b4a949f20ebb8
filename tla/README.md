# Brain2: TLA+ models, checks and proofs

This directory holds the formal models of Brain2: TLA+ modules translated from
the sources under `src/`, TLC configurations that check them on small instances,
and proofs of the central theorems with TLAPS. `PROJECT.json` lists the
components, the runs, which source lines every definition stands for, the
hazards the properties are aimed at, and the theorems.

Run a check with `tlc -config Store.cfg MCTodoStore.tla` and the proofs with
`tlapm TodoStoreProofs.tla`, and likewise for `AgentRuntimeProofs`, `WorkerProofs`,
`QueueProofs`, `ConsoleSessionProofs`, `ConsolePagesProofs`, `ConsoleViewsProofs` and
`ConsoleProofs`.

## 1. The system

Brain2 is a self-hosted knowledge and agent platform: a Python service (FastAPI
and MCP front ends, `brain2/api.py`, `brain2/mcp.py`), a worker process
(`brain2-worker`, `brain2/runtime.py`), one SQLite database (`store/local.py`), a
markdown vault under git, and a React console. API process and worker share
nothing but the database. All shared state is changed in SQLite transactions
(`LocalStore.transaction`), and that is where the difficulty lies: what is read
in one transaction and acted upon in another.

### Components

| Component | State it keeps | Operations | Interacts with | Hard behaviour | Correct when |
|---|---|---|---|---|---|
| **Agent store** (`store/local.py` 1246-1985, `model_ops`, `agent_ops`, `todo_ops`) | `models`, `agents`, `todos`, `todo_runs`, `conversations`, `messages` | create/update/delete of models, agents, todos; claim, stop, finish, requeue, continue; heartbeats; stale sweep; guarded transcript writes | API requests, supervisor, executions | late calls of executions that were swept; sweep against live agents; capacity derived from other tables | queue, ledger, agents and transcripts tell one story whoever calls what when |
| **Agent runtime** (`tasks/agent_runtime.py`, `chat.py`, `chat_ops.py`) | futures and claims in memory, one supervisor per process | tick (reap, heartbeat, sweep, scan, claim), run_agent_todo with the turn loop, close | agent store, LLM providers, tools | stale snapshots, crashes, shutdown races, store errors, stops at any point, two processes | a live future owns its todo, models are not oversubscribed, every claimed generation ends |
| **Task queue** (`tasks/queue.py`, `tasks/worker.py`, `local.py` 1128-1244) | `tasks` with leases and retry counts | enqueue, claim, heartbeat, complete, fail, sweep, boot recovery | scheduler, source processing, report generation | lease expiry against late answers, retry limits, caps counted outside the transaction | a task is executed under one claim, attempts are bounded, nothing is lost |
| **Event outbox** (`events/*`, `local.py` 931-1006) | `event_outbox`, `processed_events` | emit in the mutating transaction, claim batch, dispatch, ack, nack, dead-letter | add-ons, deletion saga | crash between claim and ack, per-entity order, duplicate delivery | every event reaches every subscriber or the dead letters, in order per entity |
| **Scheduler** (`scheduler.py`, `schedule.py`, `schedule_ops.py`) | `schedules`, `schedule_skips`, `schedule_runs` | due scan, enqueue, advance, skip, pause | task queue | two transactions per firing, several workers | every occurrence fires once, or is skipped |
| **Authentication** (`auth/*`, `local.py` 1008-1126) | `tokens`, `password_credentials`, lockout counters, break-glass grants | issue, validate, refresh, revoke family, lock | every request | concurrent refreshes, revocation between consume and issue | a replayed refresh token ends its family |
| **Access** (`access_ops`, `group_ops`, `workspace_*_ops`, `invite_ops`, `local.py` 314-443, 658-788) | roles, groups, members, invites | grant, revoke, demote, accept | every request | count-then-change rules | there is always an administrator and an owner |
| **Idempotency** (`api.py` 220-236, `local.py` 865-882) | `idempotency_keys` | recall, remember | every POST | two concurrent requests with one key | one key, one execution |
| **Secrets** (`secrets.py`) | `secrets`, `subject_data_keys` | store, rotate, create and shred keys | saga | shred against re-creation | a shredded key stays shredded |
| **Deletion saga** (`tasks/saga.py`) | none of its own | disable, revoke, handlers, event | outbox, add-ons | crash between steps | each step eventually happened |
| **LLM gateway** (`llm/gateway.py`, `ratelimit.py`) | breaker states, semaphores, windows | complete, retry, fall back | providers | concurrent calls around half-open | calls bounded, breaker closes again |
| **Vault** (`vault/*`, `vault_ops.py`) | files, git history, index rows | write, commit, index, watch | sources, console | debounce against indexing, write without commit | index converges to the files |
| **Sources** (`source_ops.py`, `tasks/source_process.py`) | `sources`, blobs | ingest, curate, process | task queue, vault | retries of half-done processing | a source settles once |
| **Audit** (`audit*.py`, `wiki_audit_*`, `tasks/audit_*`) | hash chain, audit runs | append, verify | all | concurrent appends | the chain has no fork |
| **Add-ons** (`brain2/addons`, `addons/concepts`, `addons/report_generation`) | own tables | event callbacks, operations | outbox, task queue | repeated delivery | callbacks are idempotent |
| **Console session** (`brain2-web/src/lib/auth.ts`, `api.ts`, `Login`, `RequireAuth`, the profile menu) | a token pair per tab and one in localStorage, refreshInFlight, the query cache | sign in, sign out, guard a route, fetch with refresh and retry | authentication, every page | answers after a sign-out, several tabs, page loads, lost answers | one successor per refresh token, no page shows two users' data, every request ends |
| **Console pages** (`brain2-web/src/pages`, `hooks`, `components`) | React state, drafts, selections, locks, cached answers | clicks, typing, calls, polls, timers | their part of the server, the query cache | answers out of order, refetches under an open form, effects after renders, partial failures | what is sent is what the user saw and chose; what is shown is what the server has |
| **Front ends, configuration, migrations, other read models, scripts** | little or none | routing, start-up | - | - | - |

The last group and the LLM provider adapters, knowledge extraction and prompt
sanitising are not planned: pure input and output, string processing, or code
that runs before anything else does.

## 2. What is modelled now

### TodoStore

The tables the agent runtime lives on, as the most general client of
`LocalStore` would see them: any caller may call any method with any argument at
any time, in particular an execution that was swept long ago and wakes up.

* Every store method is one SQLite transaction (`BEGIN IMMEDIATE` for all that
  claim, finish, sweep or requeue), so it is **one action**. A method that raises
  `Conflict` or `NotFound` rolls back: its failure is the action not being enabled.
* `model`, `agent`, `todo`, `run` are the rows of `models`, `agents`, `todos` and
  `todo_runs`. Todos are numbered in the order of creation (`created_at`), runs in
  the order of claims; the number of a run stands for its `run_token` (a UUID).
* `fresh[a]` says whether `last_heartbeat` is less than 30 seconds old
  (`_STALE_SECONDS`). `Elapse(a)` lets thirty seconds pass. A heartbeat carries
  the timestamp its caller read earlier, which may itself be old (`recent`).
* `script[t]` is the transcript of a todo's conversation, as the sequence of its
  authors: generations and `User`. Consecutive messages of one author are one
  block, since what matters is who may write after whom.
* `Owns(r)` and `MayProceed(r)` are the run-token fences (`_run_owns`, the
  `WHERE` clauses of finish and requeue, `_guard_runtime_write`).

Titles, personas, error texts, token totals and costs are left out.

### AgentRuntime

`AgentRuntimeSupervisor` and the executions it submits, one supervisor per worker
process, on top of TodoStore. `sup[w]` is the supervisor object and the place its
thread has reached in `tick` or `close`; `exec[r]` the future executing generation
`r` and its place in `run_agent_todo`, `run_turn` and `_persist_failure`.

* Each store call is a step of its own, and so is each read the code acts on
  later: the `now` of a tick (`stale`), the snapshot of `list_agents` (`look`),
  the claim, every `_should_stop`, every guarded write.
* A read and the guarded write that repeats its condition are one step when the
  outcome cannot differ: ownership of a generation, once lost, never comes back
  (this is `OutcomeFinal` with `LedgerMatches`).
* `Visit` writes the heartbeat from the snapshot without comparing, as the code
  does. `Stall` holds the supervisor up inside a tick, so its timestamps are old.
* `Crash` kills a process with its threads at any step, `Boot` starts the next
  one, `StoreError` makes any store call of an execution fail for good,
  `CloseBegin` starts a shutdown wherever the thread is.
* Provider answers and tools are abstracted to their outcome: failure, a final
  answer, or an answer with tool calls.

### TaskQueue, Scheduler, EventOutbox, OrderedDelivery

The three tables of background work. Each module has one action per store method
or transaction, and constrains only its own variables.

* **TaskQueue**: `task` are the rows of `tasks`. A lease runs or has expired, a
  task is due or not: `line` is the order in which the `available_at` of the
  tasks passed, which is the claim order because every caller of `enqueue` leaves
  priority and delay at their defaults. A task keeps its place when it is claimed,
  completed or recovered; only a failure that is to be retried, whose `available_at`
  moves ahead, takes it out until it comes due again. `CompleteTask` and `FailTask` look at
  neither status nor owner, as in the code. `starts` counts claims (auxiliary).
* **Scheduler**: `sched`, `skips` and `log` are `schedules`, `schedule_skips` and
  `schedule_runs`. Time is counted in the instants at which cron expressions fire,
  and an expression *is* the set of its instants. `run_due_schedules` is split where
  the code leaves a transaction: snapshot of the due rows, lookup of the skip, the
  firing, the advance. The same holds for requests: `schedules:update` computes
  `next_run_at` before it writes (`UpdateCompute`, `UpdateWrite`),
  `schedules:skip` checks the clock before it writes.
* **EventOutbox**: `event` are the rows of `event_outbox` in the order of
  `enqueued_at`, `drain[w]` the batch a dispatcher has claimed and the subscriber
  it has come to. `is_processed` with the callback is one step, `mark_processed`
  another; nobody else can mark the event in between (`OneInFlight`). `calls`
  counts callbacks that returned (auxiliary).

`OrderedDelivery` is what the outbox promises: the events of an entity are heard one
after the other, the next when the one before is delivered or given up, and
delivered means heard by all. It knows no claims, batches, marks, retries or
dispatchers; Worker implements it (`DeliveryIsOrdered`).

### Worker

`run_worker` and `worker_tick` over the three: sweep, due schedules, a batch of
events, one task. `worker[w]` is the place of the thread and the task in its hand.
`Boot` includes `recover_orphan_tasks`; `Crash` can come at any step and stands
also for an exception that nothing catches; `StoreFault` is a write that raises
where the code catches it. Of the handlers, `run_op` is modelled with the
finalisation of its log row; any other returns or raises. The supervisor's tick,
which shares the loop but no table, is AgentRuntime.

### ConsoleSession, TokenFamilies

`ConsoleSession` is the console's session with the server's token table under it.
A token pair is the number of its row. `mem[t]` are the module variables of a tab's
`auth.ts`, `storage` is localStorage, which the tabs share, `call[r]` is the
rotation that request `r` began and `heard` whether the tab's `refreshInFlight`
still points at it. Every network call is split into sending, the server's step
and the return; a promise chain that waits only for microtasks is one action.
`rotate` of `auth/tokens.py` is three actions (`RotateCheck`, `RotateConsume`,
`RotateIssue`), because it is three transactions. A page load (`Reload`) forgets
module variables and whatever listens; an answer can be lost (`RotateLost`);
sign-in, sign-out, the route guard, the forced change of a password and the
acceptance of an invite are the other operations. `reused`, `lost` and `late`
are auxiliary.

`TokenFamilies` is what the rotation promises: the tokens of one sign-in are a
chain, of which one is consumed and succeeded at a time. `ConsoleSession`
implements it (`RotationIsChain`), with rows grouped by family.

### Console pages

Each page is a module over its own part of the server. The pages share no state
but the session, the query cache and the selection of workspace and vault, so a behaviour
belongs to one page, chosen in the initial state (as scenarios do for the worker), and all
pages use one set of variables. `ConsolePages` puts thirteen pages together so, and
`ConsoleViews` extends it by seven others (ingest modal, audit drawer, graph, new workspace,
timeline, settings, shell), both for any values of their constants; `ConsoleSpec` is the
specification of all twenty. One run checks them all, and each property names the pages it is
about. The pages have at most two objects of a kind and two or three user actions that are not
bounded by anything else; every module's bounds are in its constants, with their values in the
configuration. `MCConsolePages` adds the tables of the instance and lets some of the pages start
where it matters: one source has text, an agent is listed, a vault is chosen and every page of
it but one written, at the address of that page or of none, the organisation has all of its people or none, the ingest modal has a vault
at once or has to wait for one, the graph begins at the organisation with everything there is,
and the settings are opened at the owner's section by who may not see it, else at another. Of
starts that differ in little but the name of a report kind, a model, a tag, an audited topic or
a theme, one is taken. The graph's pointer goes down on one node, and one API key is typed: no
property of the run compares two keys.

Two conventions hold in all of them. A handler and the React effects its state
change triggers are one action where no render of other state comes in between,
and separate where one can (`WorkspaceSelection`, `OrgGraph`, `WikiPage`). A call
to the server is split into sending, serving (in two steps where the operation
checks in one transaction and writes in another) and the answer; answers of
different calls come in any order, and an answer that fails may be one of a call
the server served: what a page does only on success is then not done, though the
server's state has changed. The pages that take nothing from an answer but a
refetch at any time (`WorkspaceBoard`, `OrgPeople`, `InboxRead`) need no such case.

| Module | Code | What it has |
|---|---|---|
| `IngestQueue` | `IngestModal.tsx`, `useIngest.ts` | the queue, its edits while a submission runs, links then files then tags, failures, reopening |
| `SourceEditing` | `Sources/index.tsx`, `source_ops.py` | selection, tabs, the text editor with its version check, history, restore, re-ingest, delete |
| `TagManager` | `ManageTagsOverlay.tsx` | renames, merges and deletions of tags, two mutations, other users' tags |
| `QueryCache` | `queryClient.ts`, `hooks/*.ts` | which query an operation invalidates, fetches in flight, failures, mounts |
| `WorkspaceSelection` | `WorkspaceContext.tsx`, `workspaceStorageKey.ts` | selection and its stored copies, effects, sign-outs, reloads |
| `ReportStudio` | `Reports/index.tsx`, `HistoryOverlay.tsx` | the dialog of a report with its timer, filters and pages of the history |
| `ScheduledRuns` | `ScheduledRunsOverlay.tsx`, `CronBuilder.tsx`, `schedule_ops.py` | agenda, skips against the firing, toggles, cadence editor, lost answers |
| `RunsTimeline` | `ScheduledRunsOverlay.tsx` | strip, lens, drags, wheel, calendar, window widths |
| `TodoPage` | `Agents/index.tsx` | the queue lock, actions, polls, the drawer with continues |
| `AgentEditor` | `Agents/components.tsx`, `update_agent` | the dialogs over a polled roster, baseline and draft |
| `WikiPage` | `Wiki/index.tsx`, `useVault.ts` | vault, topic and address, the editor, reverts |
| `AuditDrawer` | `AuditDrawer.tsx`, `api.py` 465 | start, stream with reconnects, suggestions, decisions |
| `OrgGraph` | `OrgGraphView.tsx` | selection, trail, layers, layout, a pointer of one button, camera requests |
| `OrgPeople` | `OrgPeopleSection.tsx`, `access_ops.py`, `group_ops.py`, `invite_ops.py` | roles of people, groups and guests, check and write apart |
| `WorkspaceBoard` | `workspaces/*.tsx` | board, drags, the drawer of a vault, foreign changes |
| `NewWorkspace` | `NewWorkspaceModal.tsx` | the dialog, its completion of people, its chain of calls |
| `ModelsSettings` | `ModelsSection.tsx`, `modelsLogic.ts` | form, tests, row actions, keys, the locks (those of deletion and status as one), lost answers |
| `SettingsPage` | `Settings/index.tsx`, `ProfileSection.tsx`, `tokens.ts` | sections by address, menu and role; name, persona and password; theme |
| `InboxRead` | `inbox.ts`, `Inbox/index.tsx`, `TopBar.tsx` | read marks of several tabs |
| `ConsoleShell` | `components/layout`, `components/ui` | menus, palette, modals, popovers, tab bar |

The react-query library, which is not part of the repository, is modelled from how
the hooks use it and its definitions are marked external.

### MC modules and runs

`MCTodoStore` adds the symmetry set and two kinds of clients, chosen in the initial
state: in "pair" two agents compete for two todos on a model with room for both and
every method on agents, todos and runs is called; in "generations" one agent and
one todo go through three claims with every operation on models too. Deadlock is
not an error there: every agent and todo may have been deleted. That nothing else
is lost when several supervisors use the store is not a run of its own:
`RuntimeIsClient` proves that any number of them is such a client.

`MCAgentRuntime` and `MCWorker` run several scenarios in one check. `env` is
chosen from `Scenarios` in the initial state and never changes: it names the kinds
of requests and faults that happen in this behaviour, and whether there is one
agent, model, worker or schedule or all of them. A scenario keeps the
combinations whose interplay a property is about and leaves out the others, whose
product no instance could afford. `MCAgentRuntime` starts from a store with its
models, agents and queued todos. The last process neither crashes nor is shut
down (another one runs, or can still be started): with finitely many boots, anything else would only say that a system
that stays down does nothing. Three properties are stated for the scenarios in
which the code can keep them: `UndisturbedTodosSettle` (nothing is stopped,
removed or broken), `SteadyFiresOnce` (no crash, no update) and
`MarkedHandledOnce` (no write raises).

| Run | Instance | Shows |
|---|---|---|
| `store` | "pair": 2 agents, 1 model, 2 todos, 2 generations; "generations": 1 todo, 3 generations, 2 complexities, priorities, capacities | `StoreTypeOK`, `LedgerMatches`, `AgentCurrent`, `TranscriptFenced`, `OutcomeFinal` |
| `runtime_safety` | 1 worker, 2 agents, 2 todos, two turns; scenarios: stops and a moving limit; crash, shutdown, store errors and stops; agents rebound, disabled, deleted (2 models; and stale heartbeats); pauses, stalls and continues; models removed and todos deleted | `RuntimeTypeOK`, `ExecutionBacked`, `OrphanReachable`, `ModelNotOversubscribed` |
| `runtime_progress` | fairness; scenarios: moving capacity with 2 agents; with stale heartbeats; crash, shutdown, store errors and stops | `RunsEnd`, `UndisturbedTodosSettle` |
| `runtime_orphan_paused` | crash and pause of the model, with fairness | `RunsEnd` is **violated**, see below |
| `worker_safety` | scenarios: 2 tasks with 1 retry under crashes, failing writes and expired leases; 1 schedule, 2 expressions, 2 instants under skips, toggles, deletes and updates, or crashes, or failing writes; 2 events to 2 subscribers with failing marks, or with 2 workers that crash | `WorkerTypeOK`, `ClaimHeld`, `AttemptsAccounted`, `DoneLogged`, `SkipHonoured`, `SteadyFiresOnce`, `OneInFlight`, `EntityOrder`, `MarkedHandledOnce`, and the refinement `DeliveryIsOrdered` |
| `worker_progress` | fairness; scenarios: 3 tasks under a crash and failing writes; due occurrences against a full backlog, with skips and a crash or toggles; 2 events with failing marks, or a crash | `TasksSettle`, `OccurrencesServed`, `UnstrandedEventsSettle` |
| `schedule_crash` | 1 schedule, 1 instant, 1 crash | `FiresOnce` is **violated** |
| `schedule_update` | 1 schedule, one update during a pass | `CadenceFollowsCron` is **violated** |
| `outbox_crash` | 1 event, 1 crash, with fairness | `EventsSettle` is **violated** |
| `console_session` | fairness; 2 requests, 1 expiry; crews: one tab and two users that sign in after each other; one tab with a page load and a lost answer; one tab whose user accepts an invite and must change the password; two tabs of one user with a page load | `SessionTypeOK`, `OneSuccessor`, `ReuseExplained`, `CacheOneUser`, `RequestsSettle`, and the refinement `RotationIsChain` |
| `console_sign_out` | one tab, one user, one request | `SignedOutHoldsNoTokens` is **violated** |
| `console_pages` | one page per behaviour, see "Console pages" | `InboxSafe`, `AgentsSafe`, `AgendaSafe`, `ReportsSafe`, `CacheSafe`, `WikiSafe`, `SourcesSafe`, `OrganisationSafe`, and for the other pages `FormsSafe`, `ViewsSafe` |

Bounds. `MaxTodos` and `MaxRuns` bound rows; two todos and two agents give every
contention there is for an agent, a todo and a place on a model, and three
generations of one todo a sweep, a stop and a continue in one history.
`MaxTurns` (8 in the code) is 1 or 2: one turn already has the three places a
stop can come in, two turns the way round the loop. `MaxBoots` is 2 where
a process dies and is restarted: what a second crash finds is what the first one
found.
`MaxRuns` ends claiming (last disjunct of `ClaimNothing`); no property depends on
claims beyond it. `Capacities` are 1 and 2, below and at the number of agents.

For the worker: one retry (`MaxRetries`, 3 in the code; `MaxDeliveries`, 5) has
the first failure, the retry and the exhausted limit; a backlog (`MaxPending`,
5000) of 1 is filled by one task that waits for its retry; a batch (20) of 2
holds two entities at once, or leaves the second event of one behind. `MaxConcurrent` (8) is 1: one worker never runs more.
`MaxTasks`, `MaxEvents` and `MaxTime` end what the requests and the clock add;
when the task numbers are used up, a firing fails like one that met a full backlog
(`PassFull`), and the runs with liveness have enough of them. Two or three instants give
every order of a tick, an occurrence and the next one, including missed ones.

### Properties

* `LedgerMatches`: a ledger row is running exactly while a running todo carries
  its token and its agent.
* `AgentCurrent`: the todo an agent points to is running and assigned to that
  agent. The stale sweep requeues `current_todo_id` without looking at the
  assignee and is only correct because of this.
* `TranscriptFenced`: a generation writes one uninterrupted block, never after
  another author, never after it ended.
* `OutcomeFinal` (action property): outcomes of generations never change, and a
  todo settles only through the generation that holds it, with no stop pending.
* `ExecutionBacked`: with one supervisor, while a future may still persist
  output its todo is running under that generation, its agent is busy with it,
  and the model it calls is the one in the ledger.
* `OrphanReachable`: a running todo without a live future can be found by the
  sweep.
* `ModelNotOversubscribed` (action property): a step that puts one more execution
  on a model respects the limit of that moment. (Lowering the limit below the
  work in progress is allowed by the code and by the property.)
* `RunsEnd`, `UndisturbedTodosSettle` (liveness): every claimed generation ends;
  every queued todo settles.

`LocalStore` is documented as a single-process store, so `ExecutionBacked` and
`ModelNotOversubscribed` are stated for one worker. With two workers they fail,
as one would expect: each supervisor sees the other's executions as orphans.
The theorems of section 3 show what survives even then.

* `ClaimHeld`: with one worker, a task is running exactly while that worker has it in
  hand or waits to be restarted. It is why the late answers that `complete_task`
  and `fail_task` do not guard against cannot happen.
* `AttemptsAccounted`: claims are retries plus the attempt in progress or done, so
  failing handlers, failing writes and crashes all count against `max_retries`.
* `DoneLogged`: a done task has a done row in the run log, whatever earlier attempts
  logged.
* `SkipHonoured`: an occurrence that was skipped in time never fires, although
  updates and late writes may move `next_run_at` back to it.
* `SteadyFiresOnce`, `OccurrencesServed`: each occurrence is enqueued once, and is enqueued
  or skipped, unless its schedule is disabled or deleted.
* `OneInFlight`, `EntityOrder`, `MarkedHandledOnce`: the claim is the lock of an
  entity; subscribers see its events in order; nobody sees an event twice unless
  `mark_processed` failed. `DeliveryIsOrdered` is about whole histories: every step
  is one of `OrderedDelivery` or unseen by subscribers, so nothing that is settled is
  heard or settled again, and what counts as delivered was heard by all.
* `TasksSettle`, `UnstrandedEventsSettle` (liveness): every task is done or failed;
  every event is delivered or dead-lettered, unless a crash left an event of its
  entity claimed. So a dead letter does not hold up its successors, and a crash
  costs only the entities it had in hand.

`ClaimHeld` and `AttemptsAccounted` are for one worker. With several,
`sweep_expired_leases` hands out a task whose worker outlived its lease, without
counting the attempt; one worker sweeps only between its tasks. `FiresOnce` and
`EventsSettle` need workers that do not die: see the violations below.

The session:

* `OneSuccessor`: a family never holds two tokens that can still be rotated, though
  check, consumption and issue are three transactions. `RotationIsChain` says the
  same of the whole history.
* `ReuseExplained`: with one tab, the server sees a consumed token again only if a
  page load or a lost answer cut the rotation that consumed it. With two tabs it
  also sees one when both rotate, which ends the family; that is the server's rule.
* `CacheOneUser`: a tab never shows data of two users, but for the late rotation of
  `console_sign_out`.
* `RequestsSettle` (liveness): every call of `apiFetch` ends.

The pages. Eight properties are of the pages of `ConsolePages`:

* `InboxSafe` (`InboxRead`): what no list of any tab has shown stays unread.
* `AgentsSafe` (`TodoPage`, `AgentEditor`, `ModelsSettings`): one queue action at a time, its
  lock always has a holder that will release it, and no text is sent twice but after a
  failure; a dialog over the polled roster sends only what its user changed, and models and
  agents it was shown; no test result is older than the page's own last change of its model,
  and every call holds its lock to the end.
* `AgendaSafe` (`ScheduledRuns`): a skipped run stays out, the cadence editor keeps the
  last choice, and with no answer awaited each row of the agenda is the server's. The
  hooks ask again in `onSuccess` alone (`useSchedules.ts:60-115`), so the exception is
  exact: an accepted write of the row's schedule lost its answer, and the server has not
  read the occurrences since (`changed`).
* `ReportsSafe` (`ReportStudio`): prompt and format of a report agree, a dialog sends once,
  no order of clicks leads beyond the history's end.
* `CacheSafe` (`QueryCache`, `WorkspaceSelection`): once no fetch runs, a mounted view shows
  what the tab itself wrote, but for the pairs of `LeftStale`, a failed fetch, and one that
  an invalidation could not replace; a selection is stored under its own user only, and heals.
* `WikiSafe` (`WikiPage`): no page gets a text loaded from another. Texts of two pages are
  taken to differ: the editor's effect is keyed by the text.
* `SourcesSafe` (`SourceEditing`): a save names the version its text was begun from.
* `OrganisationSafe` (`OrgPeople`, `WorkspaceBoard`, `TagManager`): who was removed stays out,
  and a deleted group has no members; a vault goes only where it was sent; crossing merges
  and renames take no source's last tag.

Those of the pages of `ConsoleViews` are in two groups, one conjunct for each page:

* `FormsSafe` (`IngestQueue`, `NewWorkspace`, `SettingsPage`): a queue that closes without
  an error ingested every row with its mode and tags; a finished dialog made its workspace
  complete; a deep link survives the wait for the role, forms report on their own calls,
  and a password is changed once.
* `ViewsSafe` (`AuditDrawer`, `OrgGraph`, `RunsTimeline`, `ConsoleShell`): "Applied" was
  written; the graph's layout and camera are about the selected node; a day asked for comes
  under the lens; no layer outlasts Escape or a sign-out, and every page keeps its place in
  the tab bar.

Some modules state further properties that do not hold and that no run checks,
because nothing in the repository promises them; they are there for the reader of
the code (`OnlyQueuedIngested`, `NoLostUpdate`, `DeepLinkAligned`,
`FinishedAuditStaysShown`, `RemovedGuestStaysOut`, `AddNamesTheDisplayed`,
`InvitedHaveInvites`, `SaveLockReleased`, `TypedKeyStored`, `MarkAllForgetsNothing`).
Section "What the runs found" has what they came from.

### Fairness

`FairSpec` assumes weak fairness of: the tick and the close of each supervisor
(the loop of `run_worker` ticks until the process ends; a tick has no wait in
it); each execution (a thread pool runs what it took, and every provider call has
an httpx timeout, `llm/providers.py`); `Boot` (a service manager restarts the
worker); and the passing of time for an agent nobody sends heartbeats for.
Requests, crashes, stalls and store errors are under no obligation.
`UndisturbedTodosSettle` is about scenarios without requests that could stop or
pin work for ever.

For the worker, weak fairness of its steps and of `Boot`, for the same reason
(handlers and callbacks are taken to end), and of retry times coming due. The
clock, requests, crashes and failing writes are under no obligation.

For the session, weak fairness of what a request and the rotation it began do next
(`Carry`): the server answers what reached it and the browser runs the
continuations. `fetch` has no timeout in the code, so a connection that hangs for
ever is outside; a broken one is `RotateLost`. Nobody is bound to sign in or out,
to reload, or to send.

The page modules have no liveness: their locks are checked by invariants that name
the call or poll that releases them.

### What the runs found

`runtime_orphan_paused`: after a crash, an agent is busy in the table and no
process executes its todo. If its model is paused before the agent's heartbeat
has become stale, the next tick takes the branch for models that are not ready
(`agent_runtime.py:336`) and writes `offline` and no current todo for that agent.
The stale sweep looks only at agents that are not offline and only at their
`current_todo_id`, so the todo remains `running` for ever: it cannot be continued
or deleted, a stop only sets its flag, and it keeps its share of the model's
capacity. The design document
(`docs/superpowers/specs/2026-07-12-configured-agent-runtimes-design.md:152`)
promises that stale-heartbeat recovery requeues orphaned running todos.

`schedule_crash`: the enqueue of a firing and the advance of `next_run_at` are two
transactions (`scheduler.py:48`, `62`), where the design
(`2026-06-08-scheduling-backend-design.md:77`) has one. A crash in between fires the
occurrence twice.

`schedule_update`: the advance writes an instant of the expression it read with
its snapshot over the `next_run_at` of an update that came in between
(`scheduler.py:61-68`), although `cron_expr` is to be the source of truth of the
cadence (`0031_schedules_cron.sql:3`).

`outbox_crash`: nothing but ack, nack and dead letter clears `claimed_at`
(`local.py:972-993`). Events claimed by a worker that died are never delivered, and
every later event of their entities waits behind them for ever. The design
(`2026-05-24-brain2-phase4-scale-correctness.md:13`) guarantees delivery.

`console_sign_out`: nothing ties the answer of a rotation to the session it was begun
in. One that returns after the sign-out stores its pair in memory and localStorage
(`auth.ts:84-88`), although `clearSession` is to clear both (`auth.ts:36`), and the
browser that was signed out is signed in again.

Smaller things the models show, which no document of the repository contradicts:

* *Sources.* A save checks the version and then writes in two steps, so two saves can
  both pass. Files of a modal reopened before its links were done are taken from
  the new queue.
* *Wiki.* A finished audit's suggestions are replaced by the cached audit of before
  the run (`AuditDrawer.tsx:117`); a deep link may leave the viewed vault without the
  topic.
* *People.* The level of a guest's grant that was removed meanwhile is written as a
  new grant. After a first Add the menu's shown scope is not the one sent. An
  invitation cut short leaves a role without an invite.
* *Workspaces.* Save writes back a name another user changed; a drag whose card
  unmounts is left behind; a retry after a partial failure makes a second
  workspace; invites added while the calls run are lost.
* *Models.* A save of a model that somebody removes meanwhile keeps its lock; a key
  typed again after a failure is not stored.
* *Tags.* The success of an earlier rename closes the editor of another row.
* *Selection.* The key used before the user is known is everybody's: for a moment
  another user's selection is restored, against the comment of
  `workspaceStorageKey.ts:3`.
* *Timeline.* A window narrowed under the lens inverts it at the next drag; the scroll
  is not brought back after a resize; "today" is computed when the module loads.
* *Settings.* A refetch replaces text that is being typed; a persona can be saved
  before the stored one has come, and then replaces it; a wrong current password is
  sent twice and counts twice, because its 401 looks like an expired token.
* *Graph.* Stepping back to what is already selected leaves its mark behind, and the
  next pick records no step; the history survives a change of scope.
* *Scheduled runs.* A toggle, skip, restore, edit or deletion that the server accepted and
  whose answer is lost leaves the agenda as it was, until something asks for it again.
* *Inbox.* "Mark all read" replaces the list and forgets ids beyond the menu's limit.

## 3. Proofs

`TodoStoreProofs` proves, for every number of agents, models, todos and
generations and for every client:

| Theorem | Statement |
|---|---|
| `StoreTypeCorrect` | `StoreSpec => []StoreTypeOK` |
| `LedgerCorrect` | `StoreSpec => []LedgerMatches` |
| `CurrentCorrect` | `StoreSpec => []AgentCurrent` |
| `FencedCorrect` | `StoreSpec => []TranscriptFenced` |
| `OutcomesFinal` | `StoreSpec => OutcomeFinal` |

`AgentRuntimeProofs` proves, for every number of workers and boots:

| Theorem | Statement |
|---|---|
| `RuntimeTypeCorrect` | `Spec => []RuntimeTypeOK` |
| `RuntimeIsClient` | `Spec => StoreSpec`: the runtime implements the most general client |
| `RuntimeKeepsRecords` | the four record properties for the runtime |

and of the supervisors, for every number of agents, models, todos and restarts:

| Theorem | Statement |
|---|---|
| `ExecutionsBacked` | `Spec /\ []OneAtATime => []ExecutionBacked` |
| `SoleWorkerBacked` | with one worker process: `Spec => []ExecutionBacked` |
| `OrphansReachable` | `Spec /\ []OneAtATime /\ []ModelsReady => []OrphanReachable` |
| `ModelsNotOversubscribed` | `Spec /\ []OneAtATime => ModelNotOversubscribed` |

`WorkerProofs` proves, for every number of workers, tasks, schedules, requests, events and
subscribers, with crashes and failing writes anywhere:

| Theorem | Statement |
|---|---|
| `ExecutionsVisible` | `Spec => []ClaimHeld` |
| `SkipsHold` | `Spec => []SkipHonoured` |
| `EntityLocked` | `Spec => []OneInFlight` |
| `EventsInOrder` | `Spec => []EntityOrder` |
| `DeliveryImplemented` | `Spec => DeliveryIsOrdered`: the refinement of `OrderedDelivery` |

`QueueProofs` adds, for the same numbers (`MCSpec` has a constant `env` of the requests and
faults that may happen, any set of them):

| Theorem | Statement |
|---|---|
| `AttemptsCounted` | `Spec => [](Sole => AttemptsAccounted)` |
| `RunLogAgrees` | `Spec => [](Sole => DoneLogged)` |
| `WorkerTypes` | `Spec => [](Sole => WorkerTypeOK)` |
| `MarkedHandledAtMostOnce` | `MCSpec => []MarkedHandledOnce` |
| `SteadyFirings` | `MCSpec => [](Sole => SteadyFiresOnce)` |

`ConsoleSessionProofs` proves, for every number of tabs, users, requests, losses and
page loads:

| Theorem | Statement |
|---|---|
| `ReferencesIssued` | `Spec => []References`: every pair named anywhere is a row of the table |
| `RefreshHasOneSuccessor` | `Spec => []OneSuccessor` |
| `RotationImplementsChain` | `Spec => RotationIsChain`: the refinement of `TokenFamilies` |
| `SessionTypes` | `Spec => []SessionTypeOK` |
| `CachesOneUser` | `Spec => []CacheOneUser` |
| `ReusesExplained` | `Spec => []ReuseExplained` |

`ConsolePagesProofs` proves, for every value of a page's constants:

| Theorem | Statement |
|---|---|
| `UnseenUnread` | `PagesSpec => []InboxSafe` |
| `AgentsAreSafe` | `PagesSpec => []AgentsSafe` |
| `RunsOverlayIsSafe` | `PagesSpec => []AgendaSafe` |
| `StudioIsSafe` | `PagesSpec => []ReportsSafe` |
| `BrowserKeepsItsOwn` | `PagesSpec => []CacheSafe` |
| `TextsStayOnTheirPages` | `PagesSpec => []WikiSafe` |
| `SavesNameTheirBase` | `PagesSpec => []SourcesSafe` |
| `OrganisationIsSafe` | `PagesSpec => []OrganisationSafe` |

`ConsoleViewsProofs` proves, of the other pages for every value of theirs:

| Theorem | Statement |
|---|---|
| `FormsAreSafe` | `ConsoleSpec => []FormsSafe` |
| `ViewsAreSafe` | `ConsoleSpec => []ViewsSafe` |

and `ConsoleProofs` puts the two together:

| Theorem | Statement |
|---|---|
| `ConsoleIsSafe` | `ConsoleSpec` keeps all ten properties of the pages, under the hypotheses of their theorems |

So every invariant and every action property that a passing run checks is also a theorem, and so
are its refinements; what remains with TLC alone is liveness.

Assumptions are the named `ASSUME`s of the modules: bounds are natural
numbers, capacities positive, 0 a priority, `None` not an id, `User` not a number,
at least one future and one turn, finitely many requests, an idle request is no
update and no skip (`RequestNone`), the dispatchers are the workers (`OneProcess`),
`None` is no schedule and no outcome of a handler (`ScheduleNone`, `OutcomeNone`), and
there are finitely many tabs (`TabsFinite`). The theorems about pages state theirs as
hypotheses: `None` is none of the records, times or versions that stand beside it
(`NoneApart`, `NobodyApart`, `CallsApart`), no model is called `create` (`CallsApart`), names,
models and complexities are not empty (`RowsFilled`), nine o'clock is one of the times, a
page of the history has at least one row, and there is a vault. `ServerAnswers` says of the
server what its types say: it answers users with lists of workspaces and workspaces with
lists of vaults. `OrganisationIsSafe` has none. `ConsoleIsSafe` has all of them, and TLC finds
all of them true of the instance of `console_pages`.

The pages of `ConsoleViews` have theirs as named `ASSUME`s, which TLC evaluates in that run. Most
say what a value is: `None` is no file, link, section, text or stream (`IngestAssumption`,
`AuditAssumption`, `SettingsAssumption`), the mode of a new row is a mode, the profile is not for
owners only, the tabs are all different and none is the sign-in (`ShellAssumption`).
`GraphAssumption` says what the tables of the organisation relate: grants are of people and
groups in workspaces, members are people in groups, guests are in vaults, pages and sources
belong to vaults, vaults to workspaces. `TimelineAssumption` has the sizes: the present lies in
the day it is said to be in, a day is wider than its paddings, the least lens that a window opens
with is not narrower than a handle may make it, and no wider than the most it may be or the
narrowest strip. In the code these are constants and widths of a screen.

Three hypotheses say something about the deployment, and each is needed:

* `OneAtATime` (the supervisors) and `Sole` (the queue): no two worker processes run
  side by side; restarts, crashes and shutdowns in any number are allowed. `LocalStore`
  is documented for a single process. Two supervisors take each other's executions for
  orphans; two workers on the queue run a task again whose lease expires in the hand of
  the first, which no retry counts, and both fire an occurrence that both have in their
  snapshots.
* `ModelsReady` (orphans only): no enabled agent's model is paused or missing.
  `runtime_orphan_paused` shows what happens without it.
* `MarkedHandledOnce` and `SteadyFiresOnce` are about behaviours without failing marks, and
  without crashes and updates: the runs `outbox_crash`, `schedule_crash` and
  `schedule_update` are the other side.

The argument. `LedgerMatches` is inductive given the types: a claim connects a
queued todo and an unused generation (`LedgerClaim`), every end of a generation
takes status and token away together with the ledger row's `running`
(`LedgerEnd`, `LedgerSweep`), and whatever else happens touches neither
(`LedgerKeep`, `LedgerIdle`, `LedgerFrame`). `AgentCurrent` needs the ledger and
one more fact, `LedgerAttributed` (a used row names its todo and agent), for the
heartbeat of a generation; two agents never point to one todo because the todo
names its agent (`PointsApart`), which is what the sweep needs.
`TranscriptFenced` is not inductive alone: a claim could start a generation that
already wrote. `AuthorsClaimed` (only claimed generations have written) excludes
it, and `LedgerMatches` says that the writer is the only running generation of
its todo. `OutcomeFinal` follows from `RowsKept` (a used ledger row is never
reused and is frozen once it is not running) and `OnlyFinishSettles`.

For the runtime, `RuntimeInv` strengthens the type invariant so that it is
inductive: a supervisor in a claim has an agent in hand, an execution that may
still call the provider has a turn left, only claimed generations are executed.
It and the store's invariants are carried together (`ReachableInv`), because the
model an execution resolves to is that of an agent named in the ledger.

`ExecutionBacked` needs `Backed`, four facts about supervisors and the records they are
responsible for. `HandsTidy`: a supervisor that is down holds nothing, and one that claims
does so for an agent it has just visited. `LiveTracked`: a live future belongs to a
supervisor that has claimed its generation, which is still running and whose model it
calls. `ClaimsKept`: what a supervisor has claimed and nobody ended still has its agent,
busy, enabled and bound to the model of the ledger, and out of reach of the pass that
overwrites agents from a snapshot (`Untouched`). `Spared`: the heartbeats at the start of a
tick take the agents of all claims out of what the sweep of that tick judges by. With one
supervisor at a time nobody else's sweep or pass can break these. `OrphanReachable`
carries over the same for every running generation, with a future or without (`AllKept`);
the branch for a model that is not ready is the one step that breaks it, hence
`ModelsReady`. `ModelNotOversubscribed` follows because executions on a model map one to one
to running todos that the claim counts (`ExecutingBounded`).

For the worker there are three inductive invariants, one for each table. `OutboxInv`:
whatever a dispatcher has in hand is open, claimed and the first open event of its
entity (`HeldFirst`), and is in one hand and one place of its batch only
(`HeldOnce`); so two events of an entity in hand would each be the first, which is
`OneInFlight`. `EntityOrder` then survives a callback because only the first is
dispatched, and a new event because rows are emitted in order (`EmittedInOrder`).
That delivered means heard needs `DispatchTrue`: unless some subscriber failed, all
that the dispatch has passed are recorded. The same facts give the refinement,
one lemma for each step that subscribers notice (`EmitPublishes`, `CallHears`,
`SettleOutcome`). `HandInv` has the types of tasks and workers and ties the place of a
worker to the task in its hand; with one worker (`Sole`) a boot finds nothing but
its own orphans and a sweep runs only with empty hands. `SkipInv` bounds what was
recorded by the clock: a skip counts as made in time while its instant lies ahead,
every firing has an instant that has passed, so a firing that precedes the skip is
impossible; one that follows would have passed the lookup of the skip after its
snapshot, and a skip of a row that is in hand to be fired was not in time
(`FireClear`). That `NextRun` is an instant of the expression uses the least number
principle, from the well-foundedness of `<` in the library (`LeastExists`).

`QueueProofs` carries two more. `Placed` says which of a worker's records are empty where
its thread is. `LedgerInv` has the accounts: beside the two properties that a task has
failed as often as it may (`RetriesBounded`), and that the log says done of an operation
whose success is still to be reported (`ReportLogged`), without which a failing write
between handler and `complete_task` would break `DoneLogged`. `Typed` adds the types that no
argument needed. Where some fault does not happen, `MarkPending` says that a callback which returned and
is not marked is in the hand of the dispatcher that is about to mark it, so that a later
delivery for the sake of another subscriber finds the mark. `Ahead` says that the next run of
a schedule, and whatever a pass still has in its rows or in hand to fire, has not fired:
its instant lies after all that have, unless the pass is about to advance the schedule.

For the session, `OneSuccessor` is inductive with two more facts (`ChainInv`): while a
call stands between consumption and issue, every token of its family is consumed
(`FamilySpent`), and no second call of the family stands there (`OneBetween`).
`RotateConsume` finds its token unconsumed, so by `OneSuccessor` it was the last one
of its family and by `FamilySpent` no call is in between; `RotateIssue` then adds
the only token that can be rotated; a revocation in between changes neither. What
the table's rows, calls and requests name must be known to exist (`References`),
which one lemma per variable shows (`TableStep`, `HeldStep`, `SigningStep`,
`CallStep`, `ReqStep`). The refinement needs that row numbers stay within the pairs of
the abstract specification: every sign-in and every request issues once at most
(`CountInv`), because a request that has rotated is `Past` and never rotates again.

`SessionTypeOK` needs `GuardInv`: what a tab shows fits the token it holds, its call of
`/me` and its sign-in or sign-out (`GuardFits`). `CacheOneUser` is inductive with `CacheInv`: a
family is one user's (`SameUser`), and outside of `late` the cache of a tab has data of the
owner of the token held only, and requests whose answer it would show ask for that user
(`ShowsOwner`); only a rotation that was begun before a sign-in and returns after it breaks
this, and that is what `late` records. `ReuseExplained` needs the single flight
(`FlightInv`): a tab listens to one rotation at a time (`HeardOnce`), one that runs unheard was
cut by a page load or a lost answer (`UnheardLost`), pairs on their way are unused, held by
nobody and come once (`ComingFresh`, `ComingOnce`). With one open tab it follows that a
consumed token is held or presented only while its rotation is awaited or after that was
cut (`HoldsFresh`, `AsksFresh`).

The pages have an inductive invariant each; a theorem whose property is about several pages
takes them together, since a behaviour stays on its page. For the same reason a behaviour of the
console that does not begin on a page of `ConsoleViews` is one of `ConsolePages`
(`PagesStandAlone`), which is how `ConsoleIsSafe` follows from the theorems of both.

* Inbox: what a list shows was seen (`ShownIsSeen`), so what any tab marks was.
* Agents: a call that is out has the lock and its action is the one shown, and there is
  no second one (`ActHasLock`); a text that is still in the draft is out or has failed
  (`DraftOut`).
* Dialogs of the agents' page: a call has its dialog open under it, and an update sends
  fields within the agent's (`UpdateFits`). That the draft differs from its baseline where
  it was sent survives every poll because the dialog's own model is dropped only to `None`,
  which is no agent's model, and only while the list agrees with the baseline
  (`DialogAdjusted`).
* Models: a call whose answer is waited for is of the form that is open, and a test is of
  another model's (`CallsOfForm`); the page has seen no version that the server has not
  reached (`OwnReached`, `SaveReached`, `RowReached`), and versions only grow until the row is
  gone (`ReachedOnward`); so a test that is done is of the page's last change or a later
  version (`TestRecent`).
* Scheduled runs: the editor reads its choice back from the expression it writes, for all
  presets and times (`CronReadBack`). A skip that was stored in time is still stored, unless
  a request takes it back (`EarlySkipHeld`), and what ran is not ahead of the clock
  (`RanByNow`). Rows on the screen, or answered and on their way, are current but for
  schedules written since the server read them (`AnswersCurrent`), and each of those has
  an accepted call whose answer has not come, or the rows are asked for, or asking failed
  (`ChangesDue`). With no answer awaited that call's answer was lost.
* Reports: an edited prompt is for the format chosen (`PromptFits`); a dialog that may send
  has sent only what was refused or lost (`SendOpen`). Every cached page of the history that
  begins before its total has rows, no total exceeds what is found and a page on its way
  has at least the cached total, because reports are only added (`AnswersOK`, `FetchesOK`);
  so the page chosen lies inside (`PageInside`).
* Query cache: a fetch that did not miss an invalidation read at least the newest own
  write, and so did data that are not marked (`FetchFresh`, `DataFresh`); a mounted query at
  rest has data that are not marked, or failed (`RestShown`). What an operation promises,
  it refreshes (`PromiseKept`): a fact about the table of operations and queries, checked
  entry by entry (`ReadsAre`, `OperationListed`).
* Selection: the effects of the last render ran for the scope that the selection was loaded
  for (`RenderedLoads`), and what is loaded for a user is of that user's lists
  (`LoadedIsOwn`); so the effect that stores it stores the user's own.
* Wiki: while the editor is open its text was begun from what the page in view shows, at
  every state between the effects of a navigation (`DraftShown`); copies are of their own
  pages (`PagesFit`), and every write out is of the page it was begun from (`WritesFit`).
* Sources: the editor is mounted exactly while its tab and a source are chosen (`BodyOpen`)
  and was begun from the text shown (`BodyShown`); copies are versions of their source
  (`CopiesFit`), so version and text of a save agree (`SavesFit`).

* Organisation: every call of the people's page is about a scope where its operation is
  about a role (`CallsFit`). What an open drawer of the board would send as a move is the
  workspace it shows or one that was picked (`DraftFits`). A call that merges is about two
  tags (`MergesAreOfTwo`), so a tag taken from a source leaves another there, and a deletion
  is out only for a tag that was confirmed (`DeletionIsAskedFor`).
* Ingest modal: the file of a queued row is in the map, under the name it was picked with
  (`HasFile`). While links are uploaded, each is still to come, stored, or counted as a failure
  (`LinksFit`); at the change to the files the submission copies the map, and from then on what
  is neither stored nor failed is among the files still to come (`FilesFit`), with the two
  exceptions of the property: rows that were renamed or share a name, and a modal that was opened
  again before the links were done.
* New workspace: no two clicks made the same workspace (`ClicksApart`), and the description and
  the members a click has given it, with those it still has to give, are all its form said
  (`MakingFits`), which at the end is the property. That the list of a form has nobody twice
  survives an addition because candidates exclude it, and a removal because what is left of a
  sequence without repetitions has none (`OneTakenOff`).
* Settings: the section shown is never one that the role refuses, and a link is kept while the
  role is unknown (`SectionHolds`). Every call has changed a password at most once and is sent a
  second time only where the first was not a change (`AttemptFits`); a call of the form that is
  open is one that the form has counted (`CallKnown`), so what the form says is of its own calls.
* Audit drawer: a card stands for a row of the table, and one that says Applied for one that was
  accepted and written (`CardFits`); a decision has come only as far as the table has
  (`DecisionFits`); and the table only grows (`TableGrows`, `FitsStay`), so cards, cached answers
  and events on the wire stay true under whatever other calls do. A start call, a stream and the
  flag exclude each other, and events come by a stream only (`LineHolds`).
* Graph: every member of a node's closure is of a kind that the focus layout has a place for
  (`ClosureHasPlaces`), which is what the shapes of the tables in `GraphAssumption` are needed for;
  what the trail still has to skip is never the step to another node (`TrailIsRecorded`).
* Timeline: the lens lies within the window unless that was narrowed (`LensHolds`), the calendar
  shows the month its user has come to (`CalendarHolds`), and a place of the strip that is aimed
  at comes under the lens after scroll and lens have been clamped (`PlaceComesUnderLens`); that a
  run lies in the day it is drawn in is division with remainder (`Division`,
  `DivisionKeepsOrder`).
* Shell: Escape, a sign-out and the layout of a popover keep what they establish (`ShellInv`), and
  the tabs shown with those under More are all of them, at every width (`TabsFit`).

Only model-checked: liveness (`RunsEnd`, `UndisturbedTodosSettle`, `TasksSettle`,
`OccurrencesServed`, `UnstrandedEventsSettle`, `RequestsSettle`), which is beyond the prover. The
properties of the five violated runs do not hold. Three pages filter a sequence in the
code; `IngestQueue`, `AuditDrawer` and `NewWorkspace` say what the result is (the rows that are
kept, in their order) and not how it is computed, since the provers know nothing of `SelectSeq` and `CHOOSE` over a
cardinality without induction.

## 4. Not modelled, and plan

Not modelled in the components above: interactive chat turns
(`api.py` 549-651), which may write to the conversation of a todo without a run
token; who may call an operation (roles); billing figures of a run; several
tenants; `heartbeat_task`, which nothing calls; task priorities and delays, which
no caller sets. Two processes that emit at once may commit in another order than
that of their `enqueued_at`; events are numbered as if they did not.

Of the console: the pages and sections that only read or keep a single switch (Home,
the page graph of the wiki, the activity, tools and integrations sections of the
settings), markdown and diff rendering, charts, colours and layout beyond what a
property is about. Of the server, what a page
uses of it is in the page's module; the rest of those operations is not modelled.
`docs/design` holds design prototypes that nothing runs.

Left out for a reason given with each component in `PROJECT.json`: idempotency keys,
secrets, the deletion saga, the LLM gateway, provider adapters, knowledge extraction,
dispatch, configuration and scripts.

What would come next, in order:

1. `TodoLifecycle`: what a todo promises its requester (phase, generations,
   voice), as an abstract specification that TodoStore implements.
2. `Occurrences` (pending, skipped, fired) as an abstract specification that the
   scheduler implements for workers that do not die.
3. `SourceProcessing` as a handler on `TaskQueue`, `AccessRoles` (last
   administrator), `DeletionSaga` with `EventOutbox`, the vault's watcher and indexer.
