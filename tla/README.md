# Animoria, specified

TLA+ modules kept beside the Animoria code (the Rust engine and daemon, the VS Code and
JetBrains hosts, the shared UI), the TLC runs that check them on small instances, and
theorems that hold for every instance, with proofs checked by TLAPS.

`PROJECT.json` is the machine-readable side of this file: the components and what is left
out of each, the runs, the source lines each definition stands for, one mutant per checked
property, the findings, the hazards and the theorems.

## 1. The system

Paths are relative to `src/packages/`; `core` is `animoria-core-rust/src`.

| Component | State it keeps | Operations | Talks to |
|---|---|---|---|
| Trash and restore (`core/remediation/trash.rs`, `core/daemon/cleanup.rs`, `core/cli/commands/{clean,restore}.rs`) | the workspace's files and `.animoria/trash/session_<ms>/…` | stage an asset and its sidecars, restore a session or one item | file system; run by the daemon and by the CLI, two processes without a common lock |
| Session journal (`read_sessions`, `write_sessions`, `remediation/atomic_write.rs`) | `sessions.json`, its temporary file, `sessions.json.corrupt` | read, set aside, append or remove a session, replace | the same |
| Daemon loop (`core/daemon/server.rs`) | an index per root, plans by id, dismissed paths, event sequence | one NDJSON request at a time, events around analyses | hosts, over stdin and stdout |
| Asset index (`core/indexer/index.rs`) | assets, groups, references, diagnostics, lifecycle | scan, mark stale, fail | daemon, CLI |
| Plans (`core/remediation/plan.rs`, `cleanup.rs`, `deduplication/cluster.rs`) | plans by id, ids handed out | build, apply once | daemon |
| Audit (`core/daemon/audit.rs`) | a rotating log, capped snapshots | append, snapshot | file system |
| Scanner (`core/scanner`), tracing (`core/tracing`), governance (`core/governance`) | none | functions of files and policy | index, `check` |
| Reference rewrites (`core/remediation/reference_rewrite.rs`) | none | propose, apply one line | daemon |
| CLI check (`core/cli/commands/check.rs`) | its exit code | read gates, scan, decide | index, file system |
| Parsers, thumbnails, previews | none | functions of bytes | index |
| VS Code client (`animoria-vscode/src/daemon`) | process, pending requests, timers | spawn on demand, request, time out, settle on exit | daemon |
| VS Code scan loop, watcher, host bridge | scan flags, what the panel shows, sessions | coalesced scans, apply and restore flows | client, UI |
| JetBrains process manager and bridge | process, pending requests, last event | the same | daemon, UI |
| Shared UI (`animoria-ui`) | selection, plans, applying flags | messages to and from the host | hosts |

How they interact. The panel asks its host, the host sends a request to its daemon
process, the daemon answers and, around analyses, emits numbered events; a file watcher
in the host turns file changes into `markStale` requests. Destructive work is two-phase:
a *plan* is built from the index and shown, and *applying* names it by id. Applying moves
files to the trash and appends a session to the journal; restoring follows a session and
removes it. The CLI does the same work in its own process.

What is hard about it, and what makes each part correct:

- *Trash*: one operation is many file-system steps, and a crash, a failed write, a second
  process or the user may come between two of them. Correct when no file is lost,
  doubled, overwritten or left without a session that can bring it back.
- *Journal*: read, modify, replace, with crashes and damage. Correct when no writer
  leaves it torn, none drops what another recorded, and nothing unreadable is overwritten.
- *Daemon loop*: requests queue behind long scans, the host reads when it can, the
  process may end at any moment. Correct when each request gets one answer, events keep
  their order, and an index that calls itself Ready is.
- *Plans*: kept by id across rescans, edits and other plans. Correct when what runs is
  what the panel listed, and runs once.
- *Analysis*: a chain of functions over files that change meanwhile. Correct when what is
  used is not reported unused, what is reported follows the policy the user wrote, one copy
  of every content is spared, and an analysis that calls itself Ready missed nothing.
- *Audit*: two writes per event, rotation, a killed daemon. Correct when it forgets its
  oldest events only, and its snapshots and its log tell one story.
- *Rewrites*: a line found by one scan is changed after a confirmation. Correct when it
  names the copy that is kept, and no line the user has changed since is overwritten.
- *Clients*: answers come late, after a timeout or from a process that was replaced.
  Correct when no request hangs, and no answer of a dead process is taken for a live one.
- *Bridges and UI*: the panel keeps state across analyses that renumber it. Correct when
  what it shows and offers belongs to the analysis it shows.

The hazards behind these are listed one by one, at their lines, in `PROJECT.json`.

## 2. The modules

| Module | Models | How it is used |
|---|---|---|
| `ReversibleRemoval` | the promise of cleanup, per file, with no layout | abstract specification |
| `Trash` | staging, recording, restoring, step by step | `MCTrash`; refines `ReversibleRemoval` |
| `TrashProofs`, `TrashSidecars`, `TrashRefinement` | – | theorems about `Trash`, each of the last two on `TrashProofs` |
| `JournalFile` | the journal as a file: names, inodes, contents | `MCJournalFile`; theorems in `JournalProofs` |
| `DaemonServer` | the request loop, indices, plans, one host (JetBrains) | `MCDaemonServer`; theorems in `DaemonProofs` |
| `IgnoreRules` | which files are looked at | operators; extended by `Tracing` |
| `Tracing` | where sources name an asset | operators; extended by the next two |
| `Governance` | policy, groups, rules, score, gate | operators; extended by `Analysis` |
| `ReferenceRewrite` | which lines a resolution rewrites, and how | operators; `INSTANCE` in `Analysis` |
| `Analysis` | one analysis from crawl to record, `check`, rewrites | `MCAnalysis`; theorems in `AnalysisProofs` and, on it, `AnalysisSafety` |
| `VsCodeHost` | the VS Code extension: client, scan loop, bridge, panel | `MCVsCodeHost`; theorems in `HostProofs` |

The models meet at one seam each. `Trash` treats `sessions.json` as a list that is read in one
step that never fails and replaced in another; `JournalFile` opens that step up and shows what
a writer may do to it, and what a refused read may cost. `DaemonServer` treats trashing and
restoring as one step on a set of sessions; `Trash` opens *that* up. It treats a scan as a
crawl and an end, and its result as the assets found and those that are used; `Analysis` is
what happens between, and what "used" means. `VsCodeHost` keeps of the daemon the requests that
its host makes (`Serves`), with no plan ids, as that host plans on its own side.

### Trash

`orig` and `side` are the workspace (the file, and the sidecar, at each path), `trash` and
`tside` the slots `session_<ms>/<name>` of the trash, `journal` the sessions, and `handed`
the items returned by `trash_asset`, whose caller must give them back. Each process has a
program counter. A batch is `BeginTrash`, then per entry `StageChoose` (the search for a
free name), `StageMove` (the rename) and `StageSide` (the sidecar), then `ReadJournal` and
`RecordSession`, or `HandOver` for a single `trash_asset`. `StageError` ends the batch, or
with `allowPartial` skips the entry; what had moved is recorded either way. A restore is
`BeginRestore`, then per item `RestoreSkip` (already back), or `RestoreChoose`,
`RestoreMove`, `RestoreSide`; `RestoreError` stops and keeps the session, `ForgetSession`
removes it at the end. `Fail` is a crash or a failed journal write, at any point;
`SideError` a sidecar that cannot be moved, which the code logs. `UserCreate` and
`UserDelete` are the user's.

What is assumed, and named in the module:

- `Spec` runs one operation at a time (`Quiet`): the daemon serves one request at a time,
  and one engine works in a workspace. `RacySpec` drops that.
- The user does not touch a file between the program's last look at it and its move
  (`Calm`). Any other moment is allowed.
- Operations begin at later and later milliseconds, as session directories are named
  after the clock. Two operations of one millisecond are met in `RacySpec`.
- The engine's two sidecar suffixes are one; the copy that stands in for a rename across
  file systems is not modelled; a crash ends a process, not the machine.

### JournalFile

`content` is what each inode holds (a list, nothing, text that does not parse, bytes that
are not UTF-8); `target`, `tmp` and `corrupt` are the three names. A writer that has a file
open keeps its inode, wherever that is renamed to. `Read`, `ReadUnparsable` with
`SetAside`, and `ReadUnreadable` are the outcomes of `read_sessions`; `Push` and `Pull` the
change; `Open`, `Write` and `Rename` are `write_atomic`. `Fail`, `WriteCut` and
`RenameFails` are its errors and crashes; `Damage` is anything else that spoils the file.
`read_sessions` drops two errors and goes on with an empty list: that of the read
(`ReadFails`, `cleanup.rs:430`) and that of the rename to `sessions.json.corrupt`
(`SetAsideFails`, 435). `blind` holds the writers whose own update met one of them; the
properties excuse the save of such an update (`BlindSave`), and of no later one.

### DaemonServer

`indices`, `cleanupPlans`, `resolutionPlans`, `planCounter` and `eventSequence` are the
fields of the server; `inbox` and `outbox` the pipes; `shown` the plan of each kind in the
panel; `unreported` the roots whose watcher has not fired yet. One action per request:

- `ScanStarted` emits the started event and crawls; `ScanCompleted` hashes and traces what
  is still there, installs the index, answers and emits the completed event; the user may
  edit files between the two. `ScanFailed` keeps the previous index.
- `GetAnalysis`, `MarkStale` answer and, when the root is known, emit an event.
- `BuildCleanupPlan` counts and keeps a plan; `BuildResolutionPlan` keeps it under its
  group's id. The `Apply…` actions spend the plan, then execute or refuse.
- `TrashAsset`, `RestoreAsset`, `RestoreTrashSession`, `ApplyReferenceRewrite`; `Shutdown`;
  `AnswerOther` for every request that only reads and for every request that is refused.
- `Crash` and `Start` are the process's; `Send`, `Report` and `Read` the host's; `EditFile`
  and `EditSource` the user's.
- `lastSequence` is the field of the host's `CoreProcessManager`: the highest event number it
  ever read, which neither `start()` nor `stop()` resets. `Warns` is the check it makes of an
  event with it (`recordSequence`). `lastEvent` is a history variable, the last number read
  from the process that runs.

Abstractions: an asset is a path with a fixed content; a group's number is any numbering, as it
follows a hash map's order; a hash is read with the scan's end; a panic is modelled in a scan
only; the host is one that shows one plan of each kind and does not wait for one answer before
the next request (the JetBrains bridge), and whose panel forgets its resolution plan when it
asks for another (`animoria-workspace.ts:1000-1003`) but shows whichever answer comes first; a
line that is no request, which the daemon answers under the id "unknown" (`server.rs:241`), is
not sent; that host's file listener names the project's first root (`FirstRoot`) whichever root
changed, as the code does, and `ReadyIsCurrent` is stated for that root alone; the user does
not recreate the path of a trashed file, and a restore of a whole session succeeds (`Trash` is
about the cases where neither is so).

### IgnoreRules, Tracing, Governance, ReferenceRewrite

Pure functions of the engine, as operators without `RECURSIVE`, written with the folds of
the community modules where the code loops.

- `IgnoreRules`: a path is the sequence of its folders, a rule a folder pattern with its
  negation and anchoring. `IsIgnored` takes the last rule that matches; `Rules` puts the
  defaults before the rest; `Compiles` is the pattern that is no glob and fails the scan.
- `Tracing`: a line is what the detector reads of it, the paths written on it (`Word`: lead,
  levels climbed, folders, name, quotes), the comment marks, GUIDs, API names, templates and
  concatenations. `CommentAfter` is the comment state machine, `MatchesToken` and `MatchesLine`
  decide which homonym a path means (folders are compared whole, where the code looks for
  substrings and suffixes of the path, `patterns.rs:379`, 402, 575: a path `icons/a.png` also
  means `big-icons/a.png` there, and `RelativeMeansThatFolder` does not speak of that),
  `ByFilename`, `ByStem`, `ByGuid` and `Dynamic` are the four ways to name an asset, `FileRefs`
  and `CollectionRefs` their sum.
- `Governance`: `Preset`, `Parsed` (a rule entry in any of its forms), `ApplyRules`,
  `ParseConfig` and `WithOverrides` read the configuration; `GroupsOf` and the keeper of a
  group; one operator per rule, `Diagnostics`, `HealthScore`, `Aggregate`, `ExitCode`.
- `ReferenceRewrite`: `Proposals` for the references of the copies that go, `RelativeWord`
  for the path that is written instead, `StillThere` for the comparison before the write.

### Analysis

`ws` is the workspace a behaviour starts from, `disk` its files, `config` its
`.animoriarc.json`, `scan` the analysis under way with its phase, `index` the one the daemon
keeps, `history` the audit files, `recorded` every event whose text reached the log, `plan` and
`rewrite` the proposed lines and the one between its read and its write, `exit` the code of
`check`. `unsaved` and `unlogged` are history: the analyses whose snapshot, and whose event,
could not be written whole; `faults` counts the reads and writes that failed.

- `StartScan` reads the configuration, crawls, and fails on a pattern that is no glob;
  `Ingest` takes one candidate (an asset, a file that is none, or one that has gone, which
  is counted); `HashAndGroup`, `TraceFile` per source, `Govern` follow, in that order, and
  the user may edit between any two.
- `StartCheck` reads the configuration for its gates, `RunCheck` reads it again for the
  scan, `AnswerCheck` decides the exit code.
- `RecordSnapshot`, `WriteAuditEvent` (rotation, then the text of the event) and `KeepIndex`
  (the end of its line, then the new index) are the daemon's; `Kill` may come between.
  `KeepIndex` follows the analysis directly when it has no asset or when the request switched
  the audit off (`enable_audit_log`). The handler goes on when a file fails it: with
  `SnapshotFails` a history that cannot be read is taken for an empty one and overwritten, or
  the write fails and is only logged; with `EventFails` the log is not rotated, not opened, or
  its line is cut before its end (phase `"failed"`), or the line is not ended (`EndsLine`).
- `ProposeRewrites`, `ReadForRewrite`, `WriteRewrite` are a resolution's rewrites.
- `UserEdit` deletes a file, changes a line, or breaks the configuration.

Abstractions: globs are folders; a name is a string, its letter case is not folded; a
rule's regex is the set of names it accepts; sizes are kilobytes; an SVG is safe or not; what
a parser finds out is a field of the file (`format`, `"none"` for a file that is no asset).

Assumed of the constants, and named in the module: a workspace is finite, and its files,
patterns, configuration and arguments have the types `FileType`, `PatternType`, `IsConfig`
and `ArgsType` (`WorkspacesAssumption`); its files' formats agree with their extensions as
`detect_format` has it: with a recognised extension a file is of a format, unless it is
`.json` or `.svg`, where the content is looked at, or `.apng`, which it does not know. `None`
is no number, name, gate, file or confidence (`NothingAssumption`), and the line a user writes
(`EditedLine`) names no file. A stem is the sequence of its characters, so that its parts are
as long as they are where it is cut (`StemsAssumption`): true of every string, but nothing
the provers know of strings, and TLC evaluates it on every name of the instance.

### VsCodeHost

`there` and `trash` are the disk; `process`, `scanned`, `inbox`, `outbox` the daemon; `pending`
the requests without an answer and `settled` the one whose continuation has not run;
`isScanning`, `scanPending` and `timer` the scan loop of `extension.ts`; `analysis` the last
good scan; `watching` is whether the file watcher exists yet, and `missed` (history) the files
that changed where it did not look since a scan read the disk; `Watched` are the files of an
extension it looks at; `plans`, `jobs` and `sessions` the bridge's; `panel` what the UI shows
and which of its controls are held; `lost` the files trashed for a handler that never heard of
it.

- Client: `Deliver` (an answer, dropped when it is late), `Timeout`, `ExitEvent` (rejects
  what is pending, forgets the process); `Send` spawns a process when there is none.
- Scan loop: `ScanWorkspace` takes the lock or remembers that it was asked, `TimerFires` is
  the debounced watcher, `ScanReturns` goes round once more when asked meanwhile. The watcher
  is created when the first scan has ended (`extension.ts:574-578`), also after `Reload`; a
  change sets its timer only then and only for a watched file (`Report`).
- Bridge: `Resume` runs the continuation of a settled promise, `Continue` the next file of a
  handler (`NextFile`) or its end (`RemovalEnds` records the session, `RestoreEnds` removes
  it only when all came back).
- Panel and user: `EditFiles`, `Refresh`, `DeleteAsset`, `SelectCopy`, `PreviewCleanup`,
  `Apply`, `Dismiss`, `RestoreSession`, and `Reload` of the window. `Serve` and `Kill` are the
  daemon's.

Abstractions: JavaScript runs the continuation of a settled promise before the next event
(`AtRest`), so the other actions wait for it; a request's id is who awaits its answer, as
each handler has one request out, and an abandoned one is marked late; one folder, whose
assets are byte-identical; events are left out, as no listener of the extension uses them.

## 3. The runs

| Run | Instance | Shows |
|---|---|---|
| `trash` | 2 processes, 2 paths of one file name, 3 files of which one has a sidecar, 4 operations or ticks, batches of 2, 1 fault | `Conserved`, `Recorded`, `SidecarsTravel`, `NoClobber`, `ForgottenWhenEmpty`, and that `Trash` implements `ReversibleRemoval` |
| `trash_sidecar` | the same | *violated*: `SidecarsRestored` |
| `trash_two_processes` | the same, `RacySpec`, 2 operations, no fault | *violated*: `NeverDestroyed` |
| `journal` | 2 writers, 2 sessions, 4 inodes, 5 updates, 3 faults | `NeverTorn`, `NoLostUpdate`, `UnparsableKept` |
| `journal_unreadable` | the same | *violated*: `UnreadableKept` |
| `journal_two_writers` | `RacySpec`, 2 updates, no fault | *violated*: `NeverCorrupt` |
| `daemon_loop` | 2 roots of one asset, 3 requests, pipes of 2, 1 edit, 2 starts; scans, events, single files, rewrites, shutdown | `OneAnswer`, `EventsInOrder`, `ReadyIsCurrent`, `Confined`, and under fairness `Answered` |
| `daemon_plans` | 2 roots, 2 copies in one and 1 file in the other, 4 requests, 1 edit; scans, plans and session restores | `NeverReplayed`, `CleanupAsShown`, types |
| `daemon_plan_ids` | 1 root with 2 copies, 5 requests | *violated*: `ResolutionAsShown` |
| `analysis` | eight families of small workspaces (`MCAnalysis`), each with its own number of analyses, edits, kills and failed reads and writes | of tracing: `UsedIsNotFlagged`, `GeneratedIsNotFlagged`, `RelativeMeansThatFolder`; of the scan: `IgnoreFileDecides`, `ReadyMissesNothing`; of policy: `OneCopyIsSpared`, `OverridesAreLocal`, `OffIsSilent`, `AggregateIsBetween`, `GateIsSound`; of rewrites: `RewrittenNamesKeeper`, `EditsSurvive`; of the audit: `AuditLogIsSuffix`, `AuditedHasSnapshot`; types |
| `host` | 2 copies of which one is of a watched extension, every command, 2 user acts, 1 kill or reload | `RemovalsAccounted`, `SessionsKeepTrash`, types, and under fairness `ScanCatchesUp`, `ControlsReleased` |
| `host_stale_copy` | 2 copies, resolutions only, 2 acts, no fault | *violated*: `ChosenCopyIsKept` |

Why these bounds suffice for the cases that matter. `trash`: two paths of one file name make
the search for a free name choose the second; a third file takes a path that cleanup vacated,
which is what makes a restore refuse or skip; four operations allow trash, interrupted restore,
trash again, restore again; one fault is enough to split any operation once, and the theorems
of section 5 remove all these bounds. `journal`: an inode more than the names and open files
need; five updates and three faults are damage, a set-aside that is refused, and damage again.
`daemon_loop`: three requests in a pipe of two already make one wait behind a scan and a full
stdout; two starts are a restart, after which the event numbers are below the host's.
`daemon_plans`: scan, build, and two applications, or two builds and one application, with an
edit anywhere between. `analysis`: the properties are about one or two lines, one asset and its
homonyms, one rule and one override at a time, and each family varies what its properties
depend on: every way to write a path from two folders, with every mark beside it; three lines
of comment marks in four languages; namesakes; every rule with every form of entry, presets and
overrides; patterns in the three places they can come from; rewrites with an edit or a kill;
four scans with two kills and two failed reads or writes, which rotate the log and fill the
snapshots (two snapshots stand for the 200 of the code, two events for 5 MiB of log); a check
with an edit. `host`: two acts are an apply and a restore, or two handlers at once; one fault
splits any of them; two files are the least a batch can be stopped between, and one change of
an unwatched file and one of a watched one.

Deadlock is not checked: an instance whose counters are used up stops, and so does a
daemon no one talks to.

*Fairness.* `LiveSpec` of `DaemonServer`, for `Answered`. `WF(Serve)`: the
daemon's loop (`server.rs`, `run`) does nothing but take the next line and handle it.
`WF(Read)`: the host reads stdout on a thread of its own that does nothing else. Nothing
is assumed of the user, the watcher, the sender, or of crashes and restarts.
`Spec` of `VsCodeHost`, for `ScanCatchesUp` and `ControlsReleased`: weak fairness of what
the editor's event loop runs by itself, the stdout listener (`Deliver`), the timers
(`Timeout`, set with every request, and `TimerFires`), the exit event, and continuations
(`Resume`, `Continue`). Nothing is assumed of the daemon, which may never answer, and
nothing of the user. The other specifications state none.

## 4. What the violations show

Each quotes the line it contradicts in `PROJECT.json`, `findings`.

- *A sidecar stays behind.* A restore dies between an asset and its sidecar. The retry
  finds the asset back, skips the item, and removes the session; the sidecar is left in
  the trash with nothing to name it.
- *Two processes, one slot.* The daemon and `animoria clean` trash files of one name in one
  millisecond: both find the same name free, and the second rename replaces the first file.
- *An unreadable journal is overwritten.* One whose bytes are not UTF-8 is taken for an
  empty one, not set aside like one that does not parse.
- *Two writers corrupt the journal.* They share the name of the temporary file; one empties
  the file the other has just renamed into place.
- *A resolution plan is replaced under its id.* The id is the group's, so building a second
  plan for a group replaces the first; applying the one on the screen runs the other.
- *A second resolution keeps a copy that is gone.* In VS Code, plans are built from the
  last scan. Until the next one ends, a second resolution of a group may keep the copy the
  first moved away, and moves the last one on disk to the trash.

## 5. What is proved

Every safety property that a passing run checks is a theorem too; the three liveness
properties are not. A theorem holds for every value of the constants that satisfies the
assumptions of its module: for all processes, paths, files, writers, sessions, requests,
plans, workspaces and bounds. The assumptions give the constants their types, keep the marks
for nothing (`None`, `NoFile`, `NoInode`) out of them, and say that the files of a workspace
are finitely many and their names made of characters; none limits how many.

| Theorem | Module | States |
|---|---|---|
| `TypeCorrect` | `TrashProofs` | `[]TypeOK` |
| `FilesConserved` | `TrashProofs` | `[]Conserved` |
| `TrashRecorded` | `TrashProofs` | `[]Recorded` |
| `NothingClobbered` | `TrashProofs` | `NoClobber` |
| `ForgottenEmpty` | `TrashProofs` | `ForgottenWhenEmpty` |
| `SidecarsFollow` | `TrashSidecars` | `[]SidecarsTravel` |
| `RemovalIsReversible` | `TrashRefinement` | `Reversible`: `Trash` implements `ReversibleRemoval` |
| `JournalTypeCorrect` | `JournalProofs` | `[]JournalTypeOK` |
| `JournalNeverTorn` | `JournalProofs` | `NeverTorn` |
| `JournalNoLostUpdate` | `JournalProofs` | `NoLostUpdate` |
| `JournalUnparsableKept` | `JournalProofs` | `UnparsableKept` |
| `DaemonTypeCorrect` | `DaemonProofs` | `[]DaemonTypeOK` |
| `RequestsAnsweredOnce` | `DaemonProofs` | `[]OneAnswer` |
| `EventsOrdered` | `DaemonProofs` | `[]EventsInOrder` |
| `ReadyIndexIsCurrent` | `DaemonProofs` | `[]ReadyIsCurrent` |
| `PlansRunOnce` | `DaemonProofs` | `[]NeverReplayed` |
| `FilesConfined` | `DaemonProofs` | `Confined` |
| `CleanupRunsAsShown` | `DaemonProofs` | `CleanupAsShown` |
| `HostTypeCorrect` | `HostProofs` | `[]HostTypeOK` |
| `RemovalsAreAccounted` | `HostProofs` | `[]RemovalsAccounted` |
| `SessionsKeepTheirTrash` | `HostProofs` | `SessionsKeepTrash` |
| `AnalysisTypeCorrect` | `AnalysisProofs` | `[]AnalysisTypeOK` |
| `ReadyIsComplete` | `AnalysisProofs` | `[]ReadyMissesNothing` |
| `IgnoreFileHasLastWord` | `AnalysisProofs` | `[]IgnoreFileDecides` |
| `RelativePathsAreExact` | `AnalysisProofs` | `[]RelativeMeansThatFolder` |
| `OneCopyStays` | `AnalysisProofs` | `[]OneCopyIsSpared` |
| `OverridesStayLocal` | `AnalysisProofs` | `[]OverridesAreLocal` |
| `OffSaysNothing` | `AnalysisProofs` | `[]OffIsSilent` |
| `GatesAreSound` | `AnalysisProofs` | `GateIsSound` |
| `UserEditsSurvive` | `AnalysisProofs` | `EditsSurvive` |
| `AuditedHaveSnapshots` | `AnalysisProofs` | `[]AuditedHasSnapshot` |
| `UsedIsSpared` | `AnalysisSafety` | `[]UsedIsNotFlagged` |
| `GeneratedIsSpared` | `AnalysisSafety` | `[]GeneratedIsNotFlagged` |
| `RewritesNameKeeper` | `AnalysisSafety` | `[]RewrittenNamesKeeper` |
| `SharedScoreIsBetween` | `AnalysisSafety` | `[]AggregateIsBetween` |
| `AuditLogForgetsOldest` | `AnalysisSafety` | `[]AuditLogIsSuffix` |

Each module has one inductive invariant, the conjunction of named parts, a lemma that it
holds at first, and lemmas that steps preserve it, per part and per kind of step. The
properties follow from it; none of them but the simplest is inductive.

### Trash

*Types.* `TypeInv` adds to `TypeOK` what a step relies on when it takes the head of a
sequence or the n-th session: a process that moves has an entry to move, one that restores
has an item, and the session it will remove is in its buffer.

*Safety.* `SafetyInv`, with parts there for these reasons:

- `OneRunning` and `BufferFresh`: one process works at a time, so the journal it read is
  still the journal when it writes it back, and a removal loses no other session.
- `StillFree`: the name found free is still free when the asset is renamed to it, and the
  original path still empty when an item is.
- `SlotsYounger`: the slot a batch is about to fill was made at a later millisecond than
  every slot that can be asked back, so no file takes a slot an old session still lists.
- `OneAtATime`: a single `trash_asset` moves one file, so the one item it hands over
  names all it moved.
- `BatchInTrash`: what a batch says it has moved lies in the trash until it is recorded.
- `ItemsHome`: every listed item pairs a path with a slot that holds nothing, or a file
  whose home is that path; hence what is put back is in its own place.
- `PutBackGone`: during a restore the items already passed have empty slots; hence the
  session that is forgotten has nothing left in the trash.
- `OnlyLiving`, `Conserved`, `Recorded`: the properties themselves.

The lemmas that a step preserves `SafetyInv` go by what the step touches: one that ends an
operation (`StageEndsSafe`, `RestoreEndsSafe`), begins one (`BeginSafe`), goes on without
moving a file (`StageGoesOnSafe`, `RestoreGoesOnSafe`), moves one (`StageMoveSafe`,
`RestoreMoveSafe`), fails, ticks, or is the user's; each has a step per part the action
can disturb. The two action properties follow from the invariant in the state before the
step (`WorkspaceSteps`, `JournalSteps`).

*Sidecars.* `SidecarInv` adds `SidesPlaced`, for as long as nothing has failed: a path or a
slot that no move is at has the sidecar of its file (`BesidePath`, `BesideSlot`), and between
the two renames of a move the sidecar is still behind (`StillBehind`).

*Refinement.* `RefinementInv` adds that what a batch holds is younger than all that is
listed (`BatchYounger`), so that recording it makes nothing else undoable, and that a restore
puts back what is listed (`RestoresListed`). Then each action maps to a step of
`ReversibleRemoval` or to a stutter: `StageMove` to a file being taken, `RecordSession` and
`HandOver` to a whole batch becoming undoable, `RestoreMove` to one coming back, an error or a
crash to the batch being stranded, the user's to the user's, and the rest to nothing.

### Journal

`JournalInv` is `JournalTypeOK` with `OneCycle` (one read-modify-write runs at a time),
`SeenIsCurrent` (the list a writer will install is the journal's own with one change, unless
the bytes could not be read, or this very update is `blind`) and `TmpIsOurs` (what is written,
and later renamed, is the temporary file, empty at first and whole at the end). The last is why
`rename` installs a whole list (`RenameInstalls`); that two writers do not share it is what
`journal_two_writers` shows to be necessary.

### Daemon

`DaemonInv` is `Typed` (`DaemonTypeOK` and what the pipes carry) with these parts:

- `ScanUnderWay`, `NothingKept`: a scan belongs to the first request of the inbox, and a
  process that is down has left nothing.
- `Numbered`: request numbers grow along their way, all answered ones before all unread
  ones; hence `OneAnswer`.
- `Fresh`: no two kept plans were built by one request, and none has run; every number is
  below the ones still unread; hence `NeverReplayed`, over any number of processes.
- `ScanIsCurrent`: a crawl is of the files on disk unless a report is due; with it
  `ReadyIsCurrent` is inductive, as an edit during a scan leaves a report that will mark the
  index stale behind the scan.
- `PlansHaveIndex`: the root of a kept plan has an index; hence `Confined`.
- `OneIdOnePlan`: in the first process the cleanup plans that are kept, shown or on their way
  have each an id of their own; hence `CleanupAsShown`.
- `EventsInOrder`, with what is on the pipe continuing what was read of this process. The
  host's `lastSequence` is never below that, and before the first restart it is that; so its
  check is silent until then. After it the check may warn of good events (section 7).

### VS Code host

`HostInv` is stated over what is on the queues, and its parts are:
`Orderly` (nobody awaits two answers, and two lines are never for one that waits),
`Listening` (who awaits an answer is there to hear it, and the scan lock is held exactly
while one is awaited), `IdsNameOne` (an id names one handler, one session and one plan, and a
session never has the id of a handler that may still record it), `Answering` (what is on its
way to a handler is about the file it waits for), `Fresh` (no file is trashed twice for one
handler, so an item put back stays back), `NoneMissed` (a restore that has missed nothing has
put back all but what it has to do; hence `SessionsKeepTrash`) and `Accounted` (every file of
the trash, but the lost ones, is with somebody; hence `RemovalsAccounted`). `WatcherTyped` is
beside it: what is missed are files, and while there is no watcher the first scan is under way
and no timer is set.

### Analysis

`AnalysisInv` has parts for the workspace (`Given`, `OnDisk`: a file changes in its lines
only, or goes), the scan record (`ScanTyped`), the rules (`RulesFixed`: they end with those
of `.animoriaignore`), the crawl (`FoundAll`: what was found, what it became, what is left),
its references (`SourcesAreNoAssets`), its verdict (`JudgedAsRead`: the diagnostics are those
of the policy and the groups it read), rewrites (`RewritesHeld`) and the audit (`StoryTold`:
snapshots and events are of scans in their order, and a scan about to be recorded has its
snapshot or is one that could not be saved). `RelativePathsAreExact` has one more,
`RelativeInPlace`, that a reference is by the path written on its line.

The properties of the operators are lemmas below it: the last match of a list of patterns
decides, whatever stands before it (`LastWord` against `IsIgnored`); a group keeps one of its
copies, a valid one if any is; a policy with overrides agrees with the one without outside
their folders; a relative word is a word of the language the tracer reads; the score is a
percentage. `Combined`, which goes along a list of any length, is a recursive function
on its indices; what the proofs need of it follows from a least counterexample
(`LeastNatural`), which takes the place of induction.

`AnalysisSafety` adds parts of its own, each with the property it is there for:

- *What is used is spared.* `NotRewritten`: no line is rewritten while the daemon analyses,
  nor during the first check, so without an edit the lines traced are the lines on disk.
  `EverySourceTraced`: every source that was crawled is still to be traced or its references
  are held, and once the verdict is there none is still to be traced. Then what is left is
  about one line. It is live (`CodeIsLive`): a comment that reaches it was opened above it by
  a mark that nothing closed (`CommentsAreOpened`). And on a live line the path that is
  written is found (`WrittenIsFound`), by its name, its folders and its quotes, and so is the
  name a template makes (`MadeIsFound`); what is found is a reference, by the first of the
  ways to name an asset that gives one (`FoundIsReference`), and a reference spares its asset
  from the rule (`FoundIsNotFlagged`).
- *A rewrite names the keeper.* `NamesKept`: a proposal is its line with the copy's name
  rewritten into the keeper's, in the folder of its file. `RelativeLeads`: from that folder
  the relative path leads to the keeper's, since what the two have in common is a beginning of
  both (`CommonFolders`, `CutInTwo`); so the tracer finds it there (`RewrittenNames`).
- *The log forgets its oldest.* `LogTells`: each line but those left without an end holds one
  event, all of them together are the newest of the events that reached the log, in their
  order, and every line left open is paid for by a kill or a failed write (`Cuts`, `Lost`). The
  end of a line and the next event are two steps, hence `Open`, the loss that is still to come.
  `EventAccounts` is about one event: written, cut or lost, and the log rotated or not.
- *Shares are between.* `ReportsFit`: every report is of some assets and its score a
  percentage. A mean weighted by counts lies between its terms (`MeanBetween`) as products
  keep an order (`ProductsKeepOrder`), and rounding keeps it so (`RoundedBetween`).

The comment machine, `FlattenSeq` and `Total` are recursive functions on the indices of a
sequence. Each is shown to be defined on all of them, and what it is on the longer sequence to
follow from what it is on the shorter one, by the least counterexample again
(`CommentExists`, `CommentIs`; `FlatExists`, `FlatAppend`).

### Only model-checked

- Liveness: `Answered`, `ScanCatchesUp`, `ControlsReleased`. Fairness and `ENABLED` are out
  of the prover's reach.
- That strings are made of characters, of the names that occur: the provers take a string
  for an atom, so `StemsAssumption` is stated of the constants.

## 6. Plan

1. The JetBrains bridge as a module of its own: its process manager with the start that
   races another start or a stop, the plan ids it keeps across a restart, several content
   roots of which one is reported. Its main properties are violated by the code (section 7),
   so it would be a module of findings.
2. `VsCodeHost` with two groups, so that a plan can be shown under another group after a
   renumbering, and with several folders.

## 7. What is not modelled

- Parsers, thumbnails, previews, snippets: byte-level functions with no shared state.
- CLI output, editor decorations, tree views, hovers, widgets: presentation.
- The wording of answers, and every field of an analysis that no operation reads back.
- Power loss: `write_atomic` does not sync, so what survives is the file system's affair.
- The contracts package (type declarations) and the browser sandbox (a demonstration).
- Of the VS Code extension: a binary that is missing, `restart()`, which nothing calls, the
  panel's review of reference rewrites, previews and preferences, the aggregate over folders
  (the operator `Aggregate` is in `Governance`).
- Of the JetBrains plugin: what section 6 lists.

What the properties leave out, on purpose:

- `ReadyMissesNothing` excuses two kinds of candidates: a file that is no asset, and a JSON
  file that has gone, which the code takes for one that is none. Every other file that has
  gone is counted, and keeps the analysis from calling itself Ready.
- `IgnoreFileDecides` is about the last word of `.animoriaignore` on a folder as seen from
  the workspace and from the root of the file system. Where the two differ, the exclusion wins.
- `CleanupAsShown` is about the first process. A new one numbers its cleanup plans from 1
  again, and the JetBrains bridge keeps the ids it was issued.
- `UsedIsNotFlagged` is not about a source that bears the asset's own name, in which the
  code looks for nothing.
- `RewrittenNamesKeeper` is about lines on which the copy's name is the only path, in quotes and
  under no scheme. With a second path on it the line may not be one for the keeper (below).
- `AggregateIsBetween` is about two roots; `Aggregate` adds up as many as there are.
- `EditsSurvive` is about lines written before the rewrite reads the file. The code reads,
  compares and writes without a lock, and an edit between the two is overwritten.
- `GateIsSound` is about the diagnostics of the scan `check` made. When the configuration
  breaks between its two reads, the gates come from the first and the rules are the defaults:
  the property says nothing against that.
- `Conserved` and `NoClobber` are about a user who does not put a file into the moment between
  the look at the original path and the rename to it (`trash.rs:165`, assumption `Calm`); in
  that moment the rename would replace the user's file.
- `NoLostUpdate` is about updates one after the other (`Quiet`). Of two at once the code's own
  comment says that one may be lost (`cleanup.rs:440`).
- `NoLostUpdate` and `UnparsableKept` excuse the save of an update whose own read or rename was
  refused (`BlindSave`), which the code does not notice.
- `EventsInOrder` is about the events of one process, and the host's check about the first.
- `AuditLogIsSuffix` is about the events that reached the log: an event whose file could not be
  opened is on no line, and nothing tells it is missing. `AuditedHasSnapshot` excuses, by name,
  the analyses whose snapshot or event could not be written.
- `ScanCatchesUp` is about changes the watcher can see: those behind the first scan, and those
  of extensions it does not look at, are in `missed` until a scan reads the disk again.
- `OneCopyIsSpared` states the order the code sorts by, not the one its comment gives (below).
- `RelativeMeansThatFolder` is about paths with no folder in them, and in the model folders are
  compared whole (section 2).

### Observations

Met while modelling, and without a run of their own.

*JetBrains.* The file listener names the first content root whichever root changed
(`AnimoriaVFSListener.kt:78`), although its comments say that `markStale` "must key on the
root the daemon actually indexed" (74-77) and that frozen second modules are a thing of the
past (26-28); it takes the first root unsorted, while `start()` sorts. Requests are sent
before `ready`, although comments say they wait (`CoreProcessManager.kt:73`, 507). The
requests of a dead process end by timeout only.
The host keeps the highest event number "seen this session, for ordering assertions"
(`CoreProcessManager.kt:81-82`), and neither `start()` nor `stop()` resets it, while a new daemon
numbers from 1: after a restart the check reports as "a dropped or reordered event" (421) each
good event up to the old number. `runGovernance` sends `analyze` without a
path, so the daemon scans its own directory, and with two roots indexed every request
without a path is refused (`server.rs:159-162`).

*VS Code.* A removal whose answer comes after the 30 s timeout, as behind a long scan, or
under a window reload (`lost` in `VsCodeHost`), leaves its file in the trash with no session,
and so does `animoria.deleteAsset`; `animoria-vscode/README.md:57` says that all removals
have a session. A failed request releases the controls of every handler still running, so
a plan can be applied a second time while it is executed. A session of which one item was
restored by other means can never be completed. A file that changes after the first scan has
read the disk and before it ends is reported by nobody, as the watcher is created behind
`await scanWorkspace()` (`extension.ts:575-578`); the panel is stale until something else causes
a scan. `.lottie` and `.cur`, which the scanner reads (`walker.rs:5-8`), are not among the
extensions the watcher looks at (`animoria-file-watcher.ts:3`).

*Engine.* A journal that does not parse is "first renamed to `sessions.json.corrupt` so the
next write cannot overwrite it" (guide 08, line 190, and `cleanup.rs:434`); the code drops the
rename's error (435), goes on with an empty list, and the next write does overwrite it. A read
that fails once has the same effect on a good journal (430). The comment at `cluster.rs:27` and
guide 07 (lines 61 and 73-87, with a listing of the sort) say that the copy of the shortest
relative path is the canonical one; the code sorts valid copies before damaged ones first
(`cluster.rs:34-39`), so of a damaged near copy and a valid far one it keeps the far one. The
audit log is called append-only (`audit.rs:1`), but its errors of rename, open and write are
dropped (`audit.rs:41-47`), so events go missing without a trace; a snapshot that cannot be
saved is logged only (116-118) and its event recorded all the same, and any error of reading
the snapshots is taken for an empty history (128), which the next write makes true. The rewrite
of `res://` or `https://` paths leaves the scheme before a relative path. A path rewritten to a
keeper beside its source is the bare name; if the line also quotes something with a slash, a
template or a folder, that has to match (`detector.rs:354-361`), and the next scan does not
find the keeper there. References that a dynamic collection declares yield proposals for
`.animoriarc.json` that cannot be applied. A keeper outside the group it is named for deletes
every copy (`server.rs:1345`). The index keeps the files a plan removed, so a second plan may
remove the last copy. A workspace under a folder named `build`, `docs` or `target` scans empty,
as patterns are tried on the absolute path too; for the same reason `!/docs` in
`.animoriaignore` re-includes nothing, as the default exclusion still matches the absolute
path. An empty `.svg` and every `.apng` are taken for no asset, and counted by nobody. Rule
entries in array form drop `ignore`, icons and `enabled`; a boolean or number entry resets the
severity; `governance.ci` drops the gates of a preset; `files.include` has no effect. A comment
(`detector.rs:390`) says that mentions in documentation do not mask an asset; every reference
counts (`no_unreferenced.rs:47`).
