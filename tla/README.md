# Marunage in TLA+

Marunage collects tasks from sources (markdown files, Slack, Gmail, ...),
decides which of them are worth doing, and gives each one to an interactive
Claude session in a terminal workspace of its own.  Its state is one SQLite
database that several processes share without any other coordination: the loop
(foreground or daemon), one-shot `marunage dispatch`, the web server with its
completion watcher, the reaper, `marunage clean`, and the operator at the
command line.  The `README.md` of the repository promises five invariants: no
silent loss, no silent run, reversibility, idempotency, crash safety.  These
modules say what the code does about them when its processes interleave, fail
and die.

The modules are checked with TLC on small instances and proved about with
TLAPS for every value of the constants.

## 1. Inventory

Paths are relative to `src/internal/`.

| component | state | operations | talks to |
|---|---|---|---|
| task store (`store/tasks.go`) | the `tasks` table | Insert, List, UpdateStatus, AcquireLock, ReleaseLock, ClaimWorkspace, SetWorkspace, SetStartedAt, Mark..., TransitionStatus, Delete | everyone, one SQL statement at a time |
| key-value state (`store/kvstate.go`) | the `kv_state` table | Get, Set, InsertIfAbsent, DeleteIfValue, CompareAndSwap | loop lock, source checkpoints, settings |
| collect (`collect/`) | checkpoints (kv) | Gather, early triage by rules | sources, kv |
| manage (`manage/`) | none; the scorer has an optional cache | Plan: score in batches, cut off, rank, verdicts | Claude scorer |
| loop (`loop/`) | its lock row (kv) | RunOnce, Run, dispatchOnly, planAll, persistDecision | all phases, kv |
| dispatcher (`dispatch/`) | none of its own; `audit.log` | Run, dispatchOne, markFailed | store, execution backend, audit log |
| execution backends (`exec/cmux`, `tmux`, `herdr`, `local`) | panes, sessions, processes of other programs | Start, Send, AwaitExit, ListSessions, Teardown | dispatcher, reaper, clean, live stream; one command line per request |
| dispatch agent (`cmux/dispatch_agent.go`) | the ws file, a queue directory | Start, Dispatch, the agent's shell loop | cmux; no command of this commit constructs one |
| control directories `workspaces/<id>/` | `.exit_code` | made by the dispatcher, written by Claude, read by the watcher | files |
| completion watcher (`completion/`) | none | Tick, checkOne | store, control directories; runs in `marunage web` only |
| reaper (`reaper/`) | none | Run | store, backend; end of every loop tick, or `marunage reaper` |
| operator commands (`cli/task_*.go`) | none | add, done, fail, promote, reopen, rm, priority, clean | store, backend |
| web server (`web/`, `cli/web.go`) | subscribers of the event hub, open streams | the factory, serve and shut down, task operations as single guarded UPDATEs, event stream, live stream, dispatch requests | store, dispatcher, backend |
| daemon control (`cli/daemon.go`) | `daemon.pid` | start, stop, status | loop processes |
| reflection (`dispatch/reflection.go`) | `.reflection`, the reflection column | Tick, hook | not wired into a command at this commit |
| markdown source (`source/markdown`) | the user's files, mtime checkpoints (kv) | Discover, Since, Add, Complete, Delete | collect, CLI hooks |
| remote sources (`source/slack`, `slack/reaction`, `github`, `gmail`, `notion`, `googletasks`, `calendar`) | remote services, cursors (kv) | Discover, Since, Complete, Delete, Add | collect, CLI hooks |
| source registry (`source/registry.go`, `manifest.go`) | manifests | Register, Validate | every source |
| notes on a row (`judgment_reason`) | one column | append, replace, split | triage, dispatcher, permission gate, completion watcher, reaper, `review` |
| configuration (`config/`, `cli/config.go`) | `config.toml` and its backups | set, edit, Save, init | every command |
| secrets (`secrets/`) | keyring, pass, age vault or file; `audit.log` | Open, Get, Set, Delete | sources |
| skills (`skills/`, `skills/registry/`) | `~/.claude/skills`, the registry's state file | setup --skills, install, uninstall | the user, who edits the same files |
| journal (`journal/`) | a file per day, a checkpoint | Tick | git, gh, the store |
| log rotation (`logging/rotate.go`) | the log and its backups | Write, rotate, prune | daemon |
| schema migration (`store/store.go`) | schema version | Open, migrate | every command |
| web pages, browser source, rendering, project board, notifications, doctor, autoreply, version, permission, policy, fsutil | none or files | reading, parsing, formatting | - |

What is hard here, and which properties would show it going wrong:

* **No transaction spans two statements.**  `dispatchOne` locks, claims,
  starts, binds, stamps and sets running in separate statements, and any other
  process may act between any two of them.  A row must not get two sessions
  (`OneSessionPerTask`), rows with the same key must not overlap
  (`SameKeyIsSequential`), nobody may see a half-made running row
  (`StartIsRecorded`, `RunningIsBound`).
* **Almost every write is unguarded.**  Status is read, decided on, and
  overwritten later.  What the processes promise together about a queue nobody
  edits is the abstract specification `TaskAssignment`.
* **Processes die, backends fail half-way.**  Start can fail with or without a
  session, the taking back of a claim can fail; the process can stop after any
  statement (`SessionIsKnown`, `ClaimHasDispatcher`, `StartIsRecorded`).
* **Two observers race.**  The watcher reads `.exit_code`, the reaper reads the
  live sessions, both write from snapshots (`ReaperSparesLive`,
  `ImplementsAssignment`).
* **Progress.**  Lock contention, failed starts and vanished sessions must not
  keep a row from its outcome (`EveryTaskSettles`, `SomeRowCanRun`).
* **Other programs lose replies.**  A backend is driven by command lines that
  may do their work and still fail, or answer what nobody can parse; a second
  Claude for a row or a pane nobody knows is the price (`OneClaudePerRow`,
  `AnswersAreTrue`, `CallsActOnce`).
* **Files are read, changed and renamed into place.**  Every such file has a
  mutex in one process at most, while commands, the loop and the user's editor
  write it (`LinesSurvive`, `SecretsAreKept`, `SettingsAreKept`, `SkillsAreKept`).
* **Cursors move past what was not read.**  Pages, clocks, refused requests and
  failing collectors (`SourcesReportEverything`, `RestartsLoseNothing`).
* **Goroutines of the web server.**  Subscribers come and go while events are
  sent and the server shuts down (`ServerIsOrderly`, `NobodyWaitsForEver`).
* **A list with a limit.**  The dispatcher looks at the first rows only, and
  some of those cannot start (`ListIsServedInOrder`).
* **Locks in files and rows.**  The loop's lock has no expiry and the daemon's
  pidfile is not locked (`FullTicksExclude`, `LockOnlyInTick`,
  `DaemonIsRecorded`, `StopEndsTheDaemon`).
* **The planner and the dispatcher share rows.**  A tick fetches, moves the
  checkpoint, judges against a snapshot and then writes status and label in
  separate statements, while a label is what holds a row back and others
  dispatch (`DepsBeforeRun`, `NoDrift`, `HeldIsReleased`); what it drops on an
  error must come again (`EveryItemIsRecorded`, `NoItemIsLost`).

The full list, each at its line, is under `hazards` in `PROJECT.json`.

## 2. Modules

```
TaskStore      the tasks table, one action per SQL statement
Workspaces     sessions of the backend, control directories, kinds of fault
 |-- Dispatch    Dispatcher.Run / dispatchOne
 |-- Completion  Watcher.Tick
 |-- Reaper      Reaper.Run and `clean --apply`
 |-- TaskOps     operator and web edits
      \-- Marunage        all of them together, properties, refinement
            |-- TaskAssignment   the abstract queue it implements
            |-- MCMarunage       small instances
            \-- RunProofs -> ClaimProofs
LoopLock       ticks of the loop processes and the kv lock
 \-- Daemon       `daemon start` / `daemon stop` and the pidfile, properties
      |-- MCDaemon     small instances
      \-- LoopProofs
Pipeline       Gather, Plan and persistDecision: what a full tick does to rows
 |-- MCPipeline   small instances
 \-- PipelineProofs

MCExecution    three components of the execution side, one of them at a time
 |-- Backends      cmux, tmux, herdr and local, command line by command line
 |    \-- Executor      the contract of exec.Executor they implement
 |-- WebServer     factory, shutdown, event hub, live stream, dispatch requests
 |-- Ordering      the dispatcher's list, its order and its LIMIT
 \-- ExecutionProofs
MCParts        thirteen components nobody waits for, one of them at a time
 |-- MarkdownFile, Feeds, WriteBack, SourceFormats     the sources
 |-- Annotations, DispatchAgent, Scoring               around a row
 |-- SecretStore, SkillInstall, Settings, Journal, RotatingLog, Migration
 |                                                     what is kept on disk
 \-- MarkdownProofs, FormatProofs -> PartsProofs
```

**TaskStore.**  A row is one value of each of `status`, `lock_key`, `ws` and
`started_at` (stamped or not).  An action is one statement, enabled exactly
when it affects a row; `NoRow` is the other outcome, where the code gets
`ErrNotFound`.  SQLite serialises statements, so one statement is one atomic
step, and nothing larger is.  The guards in the WHERE clauses are kept
(`Claimable`, `LockConflicts`, the reaper's `status = 'running'`) and so is
their absence.

**Workspaces.**  A session goes from unused over ready (or unready) and working
to reported, and can disappear at any time.  `owner` is history: for whom a
session was started.
Claude's report is the rename of `.exit_code` the prompt asks for; malformed
content counts as non-zero, as the watcher treats it.

**Dispatch.**  `pc` is the line of `dispatchOne` a dispatcher is at; each
access to the table, the backend or the audit log is a step.  The one error
that the code discards and that matters, of taking a claim back
(`dispatch.go:655`), is the fault `unclaim`.  `queue` is the
snapshot Run works from and `left` its remaining `max_parallel`.  Scanners are
loops and `marunage dispatch`, requesters `marunage dispatch <id>` and the web
button.  Every error path is there: no directory, claim lost, Start failing
with and without a session, Send failing, a row that was deleted, the death of
the process (which also stands for a cancelled context: all later statements
fail).

**Completion, Reaper, TaskOps.**  Each keeps its snapshot in variables, so that
the time between reading and writing is visible.  `clean` lists sessions first
and rows second, the reaper the other way round.  The CLI's transitions are
three or four statements, the web server's are one.

**LoopLock, Daemon.**  `step` is the phase of RunOnce a process is in;
`cancelled` its context.  A release under a cancelled context executes nothing.
A controller probes, removes, spawns, writes and signals in separate steps.

**Pipeline.**  The planning half of a full tick, one step per call: a source is
asked, its checkpoint is stamped, the snapshot is read, each candidate is
judged (which reads its dependencies' rows), and each decision is persisted in
up to four statements, Insert, lookup, UpdateStatus and SetPlan.  `fresh` is
what a checkpoint means: the items changed since it was stamped.  `seen` and
`verdict` are the tick's memory, which a failed plan or a crash loses.  Full
ticks exclude each other (`FullTicksExclude`), so there is one planner.  The
dispatcher, the watcher and the operator appear as what they do to the two
columns the planner writes; with `Concurrent` FALSE dispatching follows
planning, as in a loop that runs alone, with TRUE it happens at any time, as it
does beside `marunage dispatch` or the web server.  Two variables are history:
`wasDone`, the rows that were done at some time, and `rushed`, the rows on
their way or running that a dispatcher listed without a label.

**Backends.**  One row, one backend.  An action is one run of the backend's
command line: create, launch, look at the screen, paste, Enter, wait, list.  A
`mishap` is a run that does its work and is reported as failed, or exits 0 with
an output nobody can parse; a run that fails and did nothing may happen at any
time.  The last run of Send is one of those that lose their reply: the row then
fails while its session is at work on the prompt.  `wired` tells whether the
session's handle carries a sentinel directory, without which AwaitExit refuses
(all backends but local).  `exited` says of a session that it is done and its
code can be read; local has a code of every process that is over, -1 of one
that was killed (`HasCode`).  Each backend keeps its own order of clean-ups,
deadline and list semantics; what distinguishes them in the properties is named
there (`cmux` and a lost reply, `tmux` and `herdr` and an unavailable list).  A
garbled list is one of every backend: lines or nodes that do not name a session
are passed over without an error.

**WebServer.**  The factory opens one thing after the other and closes what it
opened when a later one fails.  `Publish` snapshots the subscribers under the
lock and sends outside of it: `targets` are the sends that all calls together
still have to make, any of which may be next, `closed` the events of which one
is to a channel that was closed since, and `overlap` which calls overlapped.
`Shutdown` waits for handlers; a live stream polls a pane and sends what changed.

**Ordering.**  A row is its place in the list.  An attempt is one step, because
Dispatch has its steps; what is kept is which rows a Run can see.

**MarkdownFile.**  Lines are titles with an optional id.  Every operation of
the plugin is a read followed by a rename, with the user's editor and the
other process between the two; Since has the three passes of the code (which
files are newer, list them, look at their mtimes again).

**Feeds, WriteBack.**  A source is one of a few kinds, told apart by how it
asks (a cursor, a first page, everything), and by what it does with a request
that fails.  A write is a sequence of requests, each of which may lose its
reply, and a caller that was told of an error may call again.

**SourceFormats.**  The conversions as operators over short sequences, compared
with reference definitions: a line replaced in a text, time stamps as numbers,
an id put together and taken apart, what a manifest must be like.  The state
of this part is one input; there is nothing to interleave.

**Annotations.**  One row through several runs: who appends a note to its
reason, who replaces it, and the reflection's second prompt with its late
answer.  The triage, the dispatcher's markFailed and the reaper add a note,
though markFailed by a read and a later write, and with the note alone when its
read fails; a skip, an escalation and the completion watcher's failure replace
what is there, whatever the row is by then.  **DispatchAgent**: servers, agents and request files.  **Scoring**:
batches, call limit, cache, and any list of judgments as the answer.

**SecretStore, Settings, SkillInstall, Journal, RotatingLog, Migration.**  Each
keeps what is on disk and what every process remembers of it.  An atomic
rename is one step, everything the code does in several calls is several, and
a process may be gone after each of them.  A line of the log is its number and
the place in its file it ends at, so that a file's length is where its last
line ends, and no length has to be summed up.

**TaskAssignment.**  Three lines of promise: a task is given to at most one
agent ever, an agent works for one task, a settled task is not given out again.
`assigned` maps to the sessions ever started for a row, `settled` to the rows
that are done or failed.

**Executor.**  The contract in the comments of `exec.Executor`, as a machine
with one action per way a call can end.  Start answers with a session that is
ready, or with one that never was and that the failed row names, or with none
and leaves none behind, unless the reply of a command line was lost.  Send
takes a ready session only; when it fails, that session was not prompted,
unless a reply was lost.  AwaitExit has a code only of a session that has said
that it is done or is over.  It says nothing of screens, pastes, names or
clean-ups, and Dispatch relies on nothing else: it writes the session into the
row before it looks at the error, so an error with a session must name one the
reaper can find, and an error without must leave nothing.

`SessionOf` maps a pane to what a caller can know of it:

| session | pane |
|---|---|
| unused, gone | was never created; is gone without an exit code |
| starting | alive, and the one Start has in hand |
| ready | alive and named by the running row, not prompted yet |
| kept | alive and named by a failed row, not prompted: the reaper's |
| working | alive, named by the row and prompted |
| ended | has written its exit code |
| orphan | alive and known to nobody: only after a lost reply |

Most command lines (looking at a screen, pasting, a retry) are steps nobody sees.
`lost` maps to `mishaps > 0`, because that is the one thing the contract has to
except: `StartLoses` is the only action that makes an orphan, and `SendFails`
leaves a session at work only if a reply was lost.  A session that
Start gives up and closes itself is one that disappears.

## 3. Runs

`Faults` names what the environment may do (`FaultKinds` in Workspaces,
`LoopFaultKinds` in LoopLock); empty sets of actors switch a component off.

| run | instance | distinct states | shows |
|---|---|---|---|
| Claims | 2 rows with one key, 2 scanners that may crash, all faults, a watcher | 572,048 | one session per row; a live session is known from its row, or its row is still claimed; a queue cannot block itself; refinement of TaskAssignment |
| Sweeps | 2 rows with one key, 1 scanner that may crash, watcher, reaper | 56,131 | rows with one key run one after the other; running rows are bound; the reaper never fails a row whose session is alive; refinement |
| OneRow | 1 row and everyone: scanner, requester, reaper, clean, operator, all commands | 3,084,954 | types and budget; a start is stamped in the row and audited; a claim has a dispatcher |
| Drain | 3 rows (one unroutable), Starts, readiness and Sends that fail, watcher, reaper, fair | 87,856 | every pending or running row gets an outcome |
| Loops | a foreground loop, 2 background loops, a controller; errors and both signals | 19,158 | full ticks exclude each other; no error path keeps the lock; stop can find and does end the daemon |
| Plans | 2 items at a source that lists everything, the second depends on the first; items come, go and are dropped; other processes dispatch at any moment of a tick; the operator promotes | 6,185,184 | no row runs before a plan saw its dependencies done, unless it was listed without a label; status and label agree between ticks |
| Replans | 2 items at one source, every fault until faults end, reopen, close and remove, fair | 312,408 | every item gets a row; a held row is planned again when its dependency is done |
| Execution | one row and 3 panes per backend, at most 2 mishaps; 2 browsers, 1 subscription each at a time, 2 events; 5 rows by rank, the first two with one key, `Parallel` = 1 | 65,509 | the backends keep the contract of exec.Executor; no second Claude for a row; what a backend answers is so; the server closes what it opened and in the right order; every call, publish, shutdown and stream ends or catches up; a stuck head does not stall the list |
| Parts | thirteen components, 2 processes each; sizes below | 785,271 | sources report everything, rewrites keep lines, calls act once, conversions are right, notes are true, everyone is judged, secrets, skills and settings are kept, restarts lose nothing |

and three runs that end in a counterexample, see section 6: TwoDispatchersShareLock,
ReopenedRowsBlock and ItemIsLost.

**Properties in parts.**  `StartIsRecorded` of OneRow is `RunningIsStamped` and
`PromptIsAudited`: before a row is running it has its start time, and before a
session has its prompt audit.log has the start.  In Execution and Parts a
property is what one component
(or the sources together, or what restarts touch) promises, a conjunction of
named parts that are defined and explained beside the code they speak of:

| property | of | parts |
|---|---|---|
| `OneClaudePerRow` | Backends | no second Claude, no orphan pane; each backend's exception is named |
| `ImplementsExecutor` | Backends | the specification Executor, under the mapping below |
| `AnswersAreTrue` | Backends | `PromptNeedsClaude`, `RunningWasPrompted`, `AwaitIsHonest`, `ListIsComplete` |
| `ServerIsOrderly` | WebServer | `NothingStaysOpen`, `ClosedAfterDraining`, `SubscriptionsAreBalanced`, `DeliveredInOrder` |
| `NobodyWaitsForEver` | Backends, WebServer | `CallsReturn`, `PublishEnds`, `ShutdownEnds`, `StreamCatchesUp` |
| `ListIsServedInOrder` | Ordering | `BatchKeepsOrder`, `HeadDoesNotStall` |
| `SourcesReportEverything` | MarkdownFile, Feeds | `IdsAreStable`, `EveryEditIsReported`, `SinceGoesQuiet`, `NothingIsMissed` |
| `LinesSurvive` | MarkdownFile | - |
| `CallsActOnce` | WriteBack | `ActsOnTheOneTask`, `NotFoundMeansGone`, `SaysItOncePerTry` |
| `ConversionsAreRight` | SourceFormats | `OtherLinesAreKept`, `StampsCompareByValue`, `IdsComeApart`, `DeclaredIsImplemented` |
| `NotesAreTrue` | Annotations | `FailedSaysWhy`, `WarnsOnce`, `ReviewIsExplained`, `NotesAreKept` |
| `EveryoneIsJudged` | Scoring | `JudgmentIsItsOwn`, `EveryoneIsPlanned` |
| `SecretsAreKept` | SecretStore | `SetsAreKept`, `ChangesAreRecorded` |
| `SkillsAreKept` | SkillInstall | `StateTellsTheTree`, `SuccessMeansValid`, `EditsSurvive` |
| `SettingsAreKept` | Settings | `CommandsAddUp`, `BackupsAreBounded`, `ReplacedIsRecoverable` |
| `RestartsLoseNothing` | Journal, RotatingLog, Migration, DispatchAgent | `NothingLeftBehind`, `NewestLinesRemain`, `FilesAreBounded`, `VersionIsTrue`, `OpenIsMigrated`, `OneAgentIsShared`, `RequestIsKept` |

Where the code does not keep a promise in some window, the part names the
window (`clashed`, `crossed`, `contended`, `doubt`, `putBack`, `overlap`,
`rushed`, `MayMiss`, ...), so that it says exactly when the promise holds.

**Components side by side.**  The components of Execution and of Parts share no
state with one another.  `part` is chosen initially and says which of them
acts, the others keep one initial state, so that the distinct states are the
sum over the components and not their product.  Nothing is lost by this: no
property of theirs speaks of two components.

**Why these bounds.**  Locks, claims and double starts are about pairs of rows,
pairs of dispatchers and pairs of sessions, and each of these runs has two of
the kind in question.  The third row of Drain is the one rejected before it is
claimed, and makes the queue longer than `MaxParallel` = 1, so that Run must
come back for the rest.  In OneRow one row suffices because its properties
speak of a single row; nothing but the lock key relates rows, and a second row
with the key only disables steps.  There are as many session ids as rows (or
one more than a correct run needs), since ids are never reused: a session that
cannot be started is the bound, and it is the only one in Marunage.  Loops is
bounded by the number of processes ever started: two background ones allow a
stop, a crash and a second start.  A dependency is about two items.  Both runs
of Pipeline are unbounded in time: items change and ticks come for ever.  Plans
has other processes act between any two statements of a tick but no faults, and
Replans has the faults but not the other processes, because the two together
are beyond TLC; that DepsBeforeRun holds with both, and with what an item may
be that neither run has (`untitled`, which needs a human, and done at its
source), is what the theorem adds.

In Drain a Start that fails leaves the row to be tried again, and its sessions
are used up by the two rows that can be routed.  In Execution three panes are one more than a retried Start needs, and two
mishaps allow a lost reply whose clean-up fails as well.  Five ranks with
`Parallel` = 1 are one more than the LIMIT of 4, so a row behind the list
exists; two browsers and a buffer of one make a slow reader next to a fast one.
In Parts: two markdown files of lines with two titles, at most 3 writes and 2
calls, so that a call of each of two processes and an edit can cross; feeds of
2 items with pages of one, so that the second page exists; 3 task lists, so
that a task can be moved ahead of and behind the search, and 3 tries; texts of
at most 5 bytes (a line, its end, and what may follow) and ids of at most 5;
2 runs of a row and 2 notes; 2 servers, 2 agents, 1 request, made twice; 2
candidates with 2 contents; 2 secrets under 2 passphrases, on a machine with a
per-item backend and the age vault; a bundled skill and one that is not; 1
kept backup and 1 tick of the clock, so that saves share a second and pruning
happens; 2 overlapping journalers over 2 seconds; log lines shorter than, at and
beyond the limit of 3 and one more rotation than backups kept; binaries of two
releases.  Bounds are constants marked as such in the modules, and stand in
the guards of the steps they bound.

**Deadlock** is checked in Claims, Sweeps, OneRow, Plans and Replans: the
processes of these runs never stop, and `start` among the faults lets a dispatcher go on after the
session ids are used up.  Drain, Loops,
Execution and Parts have it off because there everything may have come to its
end: no session ids left to start, all processes dead, all bounds used up.

**Symmetry** is used in runs without liveness properties, for sessions and
scanners, and for rows where both carry the same key and nobody names one.  In
Parts the processes of all components are one set of two model values, and so
are titles, items, agents and secrets, and phrases and candidates: permuting
them permutes every component alike, and no definition names one.

**Fairness.**  `FairSpec` of Marunage assumes that: a dispatcher that is at
work goes on, and scans again when it is done, because the loop's tickers fire
for ever; the watcher polls for ever (the goroutine in `marunage web`); every
tick ends with the reaper; a CLI invocation runs to its end; a prompted session
reports unless it disappears; and a Start that is tried for ever is ready some
day.  The last two are about Claude and the backend and not about the code, and
the weakest under which any outcome can be promised at all: a row whose Starts
all create nothing is retried by every tick and never fails.  Nothing is
assumed of the other faults, of requests, and of disappearing sessions.  `FairSpec` of
Daemon assumes only that a CLI invocation runs to its end: a loop may hang in a
tick for ever.
`FairSpec` of Pipeline assumes that full ticks come for ever and run to their
end (the loop's full ticker), that a dispatcher finishes its batch, and that
the sources and the database stop failing some day.  MCExecution assumes that
a command line that was started returns, that deadlines pass, that the hub, the
live stream and the server's main goroutine are scheduled, and for the order
of the list that the loop calls Run again and a running row ends.  Nothing is
assumed of Claude, of browsers, or of success.  Parts has no liveness.

## 4. Proofs

All theorems hold for any number of rows, sessions, keys, processes and
faults, within the assumptions named in the modules (`StoreAssumption`,
`FaultAssumption`, `TaskIdAssumption`, `DispatchAssumption`,
`TaskOpsAssumption`, `LoopAssumption`, `DaemonAssumption`,
`PipelineAssumption`, `MishapAssumption`, `WebAssumption`, `JournalAssumption`,
`RotatingLogAssumption`, `MigrationAssumption`, `AgentAssumption`,
`SecretAssumption`, `WriteBackAssumption`, `FeedAssumption`,
`MarkdownAssumption`, `AnnotationAssumption`, `ScoringAssumption`,
`SkillAssumption`, `SettingsAssumption`, `FormatAssumption`: constants are of their kind, NULL is
none of the ids, and a Plan has finitely many candidates).

| theorem | states | holds for | inductive invariant, and why it is needed |
|---|---|---|---|
| RunProofs!TypeCorrect | `TypeOK` | everything | itself: it says which steps have a current row, a session, and budget left, without which `left - 1` could leave `0..MaxParallel` |
| RunProofs!RunningIsAlwaysStamped | `RunningIsStamped`, the first part of `StartIsRecorded` | everything | `StampInv` adds that a dispatcher past `stamp` has stamped its row (or it is gone): between the two statements the row is not running yet |
| RunProofs!PromptIsAlwaysAudited | `PromptIsAudited`, the second part | everything | `AuditInv` adds that a dispatcher at `send` owns its session and has recorded it |
| RunProofs!StartIsAlwaysRecorded | `StartIsRecorded` | everything | the two before it |
| RunProofs!OneDispatcherIsSequential | `SameKeyIsSequential` | at most one dispatcher | `LockInv` adds that a running row holds its key, and that of the one dispatcher's row between lock and run |
| RunProofs!SomeRowCanAlwaysRun | `SomeRowCanRun` | no command puts a row that ended back (`NoWayBack`) | `WaitInv`: of the pending rows one at most holds a key, and a row that was never let into the queue holds none; so either the holder can run, or a running row has the key, or nobody has |
| ClaimProofs!SessionPerTaskIsUnique | `OneSessionPerTask` | nobody unbinds: no clean, promote or reopen (`NobodyUnbinds`) | `ClaimInv`: at most one dispatcher is between claim and bind of a row, and no session exists for it yet |
| ClaimProofs!RunningIsAlwaysBound | `RunningIsBound` | nobody unbinds | `BoundInv`, with ClaimInv and `OwnsSession`: a dispatcher past `bind` finds its session in the row or the row gone, and no session that has an owner can be started again |
| ClaimProofs!ClaimAlwaysHasDispatcher | `ClaimHasDispatcher` | no process dies, and a claim that should be taken back is | `HeldInv`: a row that is gone names nothing, so a dispatcher whose row was deleted leaves no claim behind |
| ClaimProofs!ReaperAlwaysSparesLive | `ReaperSparesLive` | nobody unbinds | `SnapshotHolds`: what a reaper remembers of a row is still in it, and after it has listed the sessions, what is left of its snapshot is dead and stays dead |
| ClaimProofs!SessionIsAlwaysKnown | `SessionIsKnown` | nobody unbinds | `KnownInv`, with ClaimInv, AuditInv and BoundInv: a session is created for a row that is claimed and has none, and only binding it replaces the claim |
| ClaimProofs!QueueImplementsAssignment | `ImplementsAssignment` | nobody edits: no clean, no operator command (`NobodyEdits`) | `QueueInv`: a dispatcher between claim and run has a pending row to itself, and watchers only know rows that have run; then every statement keeps, starts, runs or ends a row, and the first and third are invisible to the abstract queue |
| LoopProofs!LoopTypeCorrect | `TypeOK` of Daemon | everything | itself |
| LoopProofs!FullTicksAlwaysExclude | `FullTicksExclude` | everything | `HolderInv`: a process in a full tick is the one the row names |
| LoopProofs!LockIsOnlyInTick | `LockOnlyInTick` | kv statements do not fail | `TokenInv`: a process not yet born does not hold the lock |
| LoopProofs!DaemonIsAlwaysRecorded | `DaemonIsRecorded` | one controller at a time | `ControllerInv`: what each step of a controller knows of the pidfile |
| PipelineProofs!PipelineTypeCorrect | `TypeOK` of Pipeline | everything | itself |
| PipelineProofs!DepsAlwaysBeforeRun | `DepsBeforeRun` | everything: faults, edits, other dispatchers | `ClearedInv`: only a verdict that saw the dependencies done is ready, only such a verdict becomes the label ready, and what is listed with that label, or is claimed or runs after it, has them in `wasDone`, which only grows |
| PipelineProofs!StatusAndLabelNeverDrift | `NoDrift` | persisting is not interrupted; other dispatchers and the operator at any moment | `DriftInv`: the one row that can have drifted is the one whose label is about to be written, and what will be written goes with its status, whoever else writes the status meanwhile |
| ExecutionProofs!RowHasOneClaude | `OneClaudePerRow` | everything | `BackendInv`: which panes can be alive after how many mishaps, per backend, and that the pane in hand is the only one otherwise |
| ExecutionProofs!BackendsAnswerTruly | `AnswersAreTrue` | everything; the lists it excepts are named in the property | the same: a prompt that is on its way goes to a pane with a Claude, a wait is for the pane that was prompted |
| ExecutionProofs!BackendsImplementExecutor | `ImplementsExecutor` | everything | `ContractInv`: BackendInv, with `CallsAreInOrder`: a pane somebody knows of was created, an exit code is of a pane that was prompted and is gone, and AwaitExit is the last call. Each command line then changes what is known of one pane at most (`OneSessionChanges`), the way one action of Executor does, or of none (`NoSessionChanges`) |
| ExecutionProofs!ServerIsAlwaysOrderly | `ServerIsOrderly` | everything | `WebInv`: what is open is what the factory has come to; a subscriber has a handler that will unsubscribe it; what a client was sent and what is still to be sent to it is in an order that goes back only between calls that overlap |
| ExecutionProofs!ListStaysInOrder | `OrderingTypeOK` and `BatchKeepsOrder`, the safety of `ListIsServedInOrder` | everything | `OrderingInv`: what a Run has still to try rises, and it may dispatch one more of it. It needs `InOrderRises`, that the list of a set of rows has each once and in order, which needs a row at every place (`PlaceHasRow`) |
| PartsProofs!NothingIsLostOnRestart | `RestartsLoseNothing` | everything | four: `JournalInv` (what a tick has read covers everything between the checkpoint it read and its own clock), `LogInv` (each file continues where the older one ends, the active one ends with the last line accepted, and `size` is its length), `MigrationInv` (no opener is ahead of the version), `AgentInv` (a request that is dispatched is on disk until it is done) |
| PartsProofs!SecretsStayKept | `SecretsAreKept` | everything | `SecretInv`: as long as no two vault writers have met, who is about to save holds the vault as it is with one change, and the change in the audit log is the one the call was made for |
| PartsProofs!CallsAlwaysActOnce | `CallsActOnce` | everything | `WriteBackInv`: what the search has not found is in the lists it has still to read, and posts are at most tries |
| PartsProofs!SourcesAlwaysReportEverything | `SourcesReportEverything` | everything | two. `FeedInv`: what the cursor has passed is known or in hand, what a round began with it has read or has a reason for, and no stamp is ahead of the clock, so that a later item cannot hide behind the cursor. `MarkdownInv`: a call at a step has what that step needs, no time is ahead of the clock, an id is given once, a pair handed out is in its file or was taken out, a file not newer than its checkpoint has been told (the case between Since's two reads of the time is its own conjunct), and a Since that is alone knows every file |
| PartsProofs!LinesAlwaysSurvive | `LinesSurvive` | everything | `MarkdownInv`: what a call has read is what the file holds unless somebody wrote meanwhile, and an id names one line |
| PartsProofs!NotesStayTrue | `NotesAreTrue` | everything | `NotesInv`: who reads, asks or waits for a review has one of a run that was reviewed, and the watcher's row is of a run that was; as long as no warning was put back there is one at most, in the row and in what markFailed has read, and none in the row of a reaper that found none |
| PartsProofs!EveryoneIsAlwaysJudged | `EveryoneIsJudged` | everything | `ScoringInv`: what the cache remembers under a key is about that key, what a pass has heard of a candidate is about it as it is now, and both can be used |
| PartsProofs!SkillsStayKept | `SkillsAreKept` | everything | `SkillInv`: unless an install of it failed, died or met another, a skill's entry is its tree or the one install that swaps it is under way, and who saves the state file has the other entries as they are; a setup nobody disturbed has seen the sections it checked |
| PartsProofs!SettingsStayKept | `SettingsAreKept` | everything | `SettingsInv`: as long as no two commands have met there is one at most, it holds what the settings are and what it was asked for, and its copy is made before it renames; no copy is newer than the clock and there are at most as many as are kept |
| PartsProofs!ConversionsAreAlwaysRight | `ConversionsAreRight` | everything: files and ids up to any bounds | `FormatInputs`, which no step changes: bytes, stamps of Slack's form, texts of an id's bytes. The rest is about values, in FormatProofs (below) |
| FormatProofs!CompareIsByValue | `compareTS` against `Value` | whole parts of any length without a leading zero, fractions of at most three digits (`IsStamp`) | none: a longer whole part is greater, whole parts of one length compare digit by digit like their numbers, and so do fractions padded to one length |

The restrictions are not for convenience: without them the properties are
false, and the run TwoDispatchersShareLock and the notes in section 6 say how.
What the properties themselves except by name (`rushed`, `overlap`, `putBack`,
`mishaps`, ...) they except because the code does otherwise there.

RunProofs and ClaimProofs rest on the framing lemmas `StatementKeepsRow` and
`OthersKeepRows`, which say what a step of one actor leaves alone in every row,
and `StatementMovesOn` and `OthersMoveOn`, which say where it may take a row.

In ExecutionProofs and PartsProofs each component has its own inductive
invariant and a lemma about its own specification (`BackendSpec =>
[]OneClaudePerRow`, ...); `PartsOfTheRun` and `RunOfEachPart` say that every
behaviour of the run's specification is one of each component's, because the
components that are not chosen stutter.  The theorems follow without a case for
a component.

Where a least element is needed (the next file to visit, the item a page begins
with, the first place of a list that had no row), `LeastOfNaturals` and
`FirstRow` get it from the library's `WFMin`, which takes no operator and so can
be used where the induction theorems cannot.

FormatProofs is an induction over texts, which the library's induction theorems
cannot give here because they take the predicate as an operator.  `SetInduction`
and `AppendInduction` say the same of a set: one that holds 0 and with each
number its successor holds every natural, one that holds the empty sequence and
with each sequence all that are one element longer holds every sequence.  Both
follow from `WFMin`.  `RecursionIsDefined` and `RecursionIsUnique` then give the
recursive functions of SourceFormats (`Pieces`, `joinLines`, `Number`) their
values, and a lemma for each says what one more element does to it
(`JoinOfAppend`, `PiecesOfAppend`, `NumberOfAppend`).  On these rest:

* *files.*  `PlainIsWritten`: a plain file is its lines joined by its one line
  end, with that end once more if the file ends in one; `SplitOfJoin`:
  splitLines takes such a text apart into the same lines; `JoinReplaces`: to
  rewrite a line of one byte is to change the byte where that line begins.
  `RewritesKeepOtherLines` puts them together for marking, completing, deleting
  and appending.
* *stamps.*  `ShorterIsSmaller`, `OrderIsNumeric` and `FractionsCompare`.
* *ids.*  `LastByteIsThere` and `FirstByteIsThere`: the CHOOSEs find what they
  look for; `AroundAByte`: a text is what stands before one of its bytes, that
  byte and the rest; `NumberIsPositive`.

Only model-checked: the liveness properties (`EveryTaskSettles`,
`StopEndsTheDaemon`, `EveryItemIsRecorded`, `HeldIsReleased`,
`NobodyWaitsForEver` and the half of `ListIsServedInOrder` called
`HeadDoesNotStall`), which are out of the prover's reach, as is ENABLED.  Every
other property of the passing runs is stated by a theorem.

## 5. Abstractions

* Titles, bodies, priorities, judgment_reason and the planner's columns are
  left out of TaskStore; a row is always one the dispatcher may list.  Order
  and LIMIT are in Ordering, judgment_reason and reflection in Annotations, the
  label and Insert in Pipeline.
* Pipeline keeps neither scores nor ranks, and the scorer's defer is a free
  choice there; Scoring has the pass that makes it.  The legacy discoverAll
  path (a loop without a manage store) is left out.  A candidate's lock conflict
  only annotates the plan.
* In Dispatch candidates are taken in any order, so any order the code has is
  covered.
* A dispatcher with a cancelled context is one that dies.
* HandlePermissionRequest and ExpireWaitingHuman have no caller in production;
  they are in Annotations, because their notes meet the others', and not in
  Marunage.
* SQLite's busy timeouts are errors of a statement, which end a process like a
  crash does where the code returns them.
* Pids are not reused, and a process is what its pidfile says.
* A command line of another program (cmux, tmux, herdr, gh, an HTTP request) is
  one step that may lose its reply.  Screens are what the readiness test tells
  apart, payloads are what the cursor tells apart.
* An atomic rename (fsutil.AtomicWrite) is one step.  Decryption succeeds with
  the phrase the vault was made with and with no other.
* A migration's SQL is one step: SQLite runs it in one transaction.

## 6. Findings

Runs with a counterexample, each against a sentence of the repository (quoted
in `PROJECT.json`):

1. **TwoDispatchersShareLock.**  AcquireLock is idempotent for a row.  Two
   dispatchers take the key of the same row; the loser of the claim releases it
   and the winner runs without.  Another row with the key can start.
2. **ReopenedRowsBlock.**  A row that ended keeps its `lock_key` column.  Two
   finished rows with one key that are both reopened are pending holders of it,
   each refuses the other, and neither is ever dispatched.
3. **ItemIsLost.**  Gather stamps an incremental source's checkpoint with a
   clock read after the fetch.  An item that arrives in between is behind the
   checkpoint and in no batch: it never gets a row, and nothing has failed.

Also met while modelling, and kept out of the passing runs by their instances
or named in a property's exception.

In the queue: `clean --apply` takes the claim of a row that is just being
started for an orphan and empties it, and the row gets a second session;
`.exit_code` of an earlier run is not removed, and a reopened row is completed
by it, though `tasks.go:576` takes it for granted that the sentinel has just
appeared; a row whose dispatcher died after the claim, or could not take it
back, stays pending and is never dispatched, though the comment on the claim
says that the reaper resets it;
reopening in the web server leaves the old session in the row, which is never
dispatched again (the CLI clears it); promoting or reopening at the command
line can clear the claim of a dispatcher that was quicker; a `done` given while
the row is being started is overwritten by running; `done` and `fail` give no
lock back, but only pending and running rows count as holders; a row that is
failed and reopened under the reaper's snapshot can be failed again; after
`clean` a running row without reference is invisible to the reaper; a row
deleted in mid-dispatch ends the whole Run, though `dispatch.go:392` promises
that failures of a row are isolated; the completion watcher's failure replaces
the notes of triage and reaper, though `dispatch.go:497` counts only escalation
and a second dispatch as writers of the reason beside markFailed; a session that reports success and
closes before the watcher's next poll is failed by the reaper.

In the loop: the deferred release of the loop's lock uses the tick's own
context, so that after SIGTERM it executes nothing and no full tick of any loop
runs again; two `daemon start` at once both spawn; a row is pending and
unlabelled between Insert and SetPlan, so a dispatcher of another process, or
any after a crash there, runs a row that is to be held (without `rushed`
`DepsBeforeRun` is violated); a dispatcher that starts a row between
persistDecision's lookup and its update is overwritten, and so is an operator's
done; a held row of an incremental source is not emitted again and so never
released, though `README.md` says of hold that it "auto-promotes when it
clears"; a plan that fails after its fetches loses what an incremental source
had sent; a promoted row keeps the label drop, which the dispatcher filters
out; production passes the scorer neither a cache nor a batch size.

In the backends and the web server: one lost reply of `cmux new-workspace`
makes a second Claude for a row; a list that tmux or herdr could not give
counts as an empty one, and so does an output of any of them that is not a list,
after which the reaper fails running rows; a lost reply of the Enter that
submits the prompt fails the row of a session at work; local answers -1 and no
error for a process that was killed by a signal; the event hub's Publish sends
outside of the lock on a channel Unsubscribe may have
closed, which would end the process, but no command of this commit publishes;
`.reflection` is never removed, so a second run's reflector reads the first
run's review (not wired either); the browser source types into one shared pane
although its comment calls it safe for concurrent scrapes (not registered).

In the files: marking or deleting a markdown line drops one empty line at the
end and makes mixed line ends uniform, though `writer.go:85` says that every
other byte stays; a wrong passphrase is cached before anything was decrypted
with it; `pass` secrets of several lines come back as their first; a crash in
replaceTree leaves no tree and a state file that names the old one, though
`installer.go` calls a failed install safe to retry because nothing has changed
on disk; setting `execution.claude_command` alone lets it drift from
`permission_mode`; `config set` writes its audit line before it saves; two saves
in one second share a backup; a rolled back `config edit` discards another
command's change.

## 7. Not modelled, and plan

Not modelled: the browser source, which no command registers; the web pages and
the Next.js front end, which only read; rendering, the project board and
notifications, which format or call other programs whose result is only logged;
`doctor`, `autoreply` and `version`.  Of components that are modelled in part:
authentication and payloads of the remote sources, redaction and format of
logs, the permission matcher and the path policy as string functions (their
verdict is a free choice), the wizard's prompts, the column completed_at, which
MarkDoneWithSummary and the completion watcher's SetCompletedAt stamp and which
only the journal and read-only views look at.
All of these are sequential code over text whose difficulty is not in its
state.

Next: Dispatch over the contract Executor in the place of Workspaces, so that a
lost reply and a second dispatcher meet.
