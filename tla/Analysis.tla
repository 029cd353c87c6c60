------------------------------ MODULE Analysis ------------------------------
(***************************************************************************)
(* One workspace analysed (indexer/index.rs scan_workspace), by the        *)
(* daemon's scan handler, which records and keeps the result, or by the    *)
(* command line's check, which turns it into an exit code; and the         *)
(* rewrites of source lines a resolution plan proposes.  The user edits    *)
(* the workspace at any time; the daemon may be killed at any time.        *)
(***************************************************************************)
EXTENDS Governance

CONSTANTS
  Workspaces,    \* the workspaces a behaviour may start from; each bounds the
                 \* analyses, user edits, daemon kills and failed reads and
                 \* writes of .animoria of its behaviours
  MaxSnapshots,  \* snapshots kept
  MaxLog,        \* events after which the audit log is rotated
  EditedLine     \* a line a user may write

ASSUME BoundsAssumption ==
  MaxSnapshots \in Nat \ {0} /\ MaxLog \in Nat

(* What a workspace is made of, as far as an analysis looks at it.         *)
Maybe(S) == S \cup {None}

PatternType ==
  [negate : BOOLEAN, anchored : BOOLEAN, dirs : Seq(STRING), glob : BOOLEAN]

Leads   == {"", "./", "/", "res://", "https://", "@", "R.", "res:", "https:"}
Openers == {"", "//", "#", "--"} \cup DOMAIN BlockCloser \cup DOMAIN LuaCloser

WordType ==
  [lead : Leads, ups : Nat, dirs : Seq(STRING), stem : STRING, ext : Maybe(STRING),
   quoted : BOOLEAN]

TemplateType ==
  [marker : STRING, dirs : Seq(STRING), pre : STRING, suf : STRING, ext : STRING,
   closed : BOOLEAN]

LineType ==
  [opens : Openers, closes : SUBSET STRING, words : Seq(WordType), keys : SUBSET STRING,
   folders : Seq(Seq(STRING)), exts : Seq(STRING), templates : Seq(TemplateType),
   guids : SUBSET STRING, plus : BOOLEAN]

FileType ==
  [dir : Seq(STRING), stem : STRING, ext : STRING, rank : Nat, length : Nat,
   hidden : BOOLEAN, guid : Maybe(STRING), format : STRING, valid : BOOLEAN,
   content : STRING, kb : Nat, px : Maybe(Nat \X Nat), unsafe : BOOLEAN,
   text : BOOLEAN, lines : Seq(LineType)]

GateType == [minScore : Maybe(Nat), maxWarnings : Maybe(Nat)]

EntryType ==
  [form : STRING, word : Maybe(STRING),
   args : [enabled : Maybe(BOOLEAN), number : Nat \cup {None, Unreadable},
           w : Maybe(Nat), h : Maybe(Nat), case : Maybe(STRING),
           pattern : (SUBSET STRING) \cup {None, Unreadable}, icons : Maybe(BOOLEAN),
           ignore : Seq(PatternType), exts : SUBSET STRING, formats : SUBSET STRING]]

TracingType ==
  [ignoreSources : SUBSET STRING, includeSources : SUBSET STRING, minStem : Maybe(Nat),
   dynamic : Seq(PatternType)]

AreRules(r) == DOMAIN r \subseteq RuleIds /\ r \in [DOMAIN r -> EntryType]

ConfigFields == {"extends", "ignore", "docs", "tracing", "ci", "govCi", "enabled", "rules",
                 "govRules", "scanDocs", "overrides"}

IsConfig(c) ==
  /\ c = [field \in ConfigFields |-> c[field]]
  /\ c.extends \in Maybe(STRING) /\ c.ignore \in Seq(PatternType) /\ c.docs \in BOOLEAN
  /\ c.tracing \in TracingType /\ c.ci \in GateType /\ c.govCi \in Maybe(GateType)
  /\ c.enabled \in BOOLEAN /\ c.scanDocs \in BOOLEAN
  /\ AreRules(c.rules) /\ AreRules(c.govRules)
  /\ \A i \in DOMAIN c.overrides :
       c.overrides[i].files \in Seq(PatternType) /\ AreRules(c.overrides[i].rules)

ArgsType == [minScore : Maybe(Nat), maxWarnings : Maybe(Nat), strict : BOOLEAN]

(* A file with no format is one detect_format tells nothing of: its        *)
(* extension is another, or its content is looked at.                      *)
ASSUME WorkspacesAssumption ==
  \A w \in Workspaces :
    /\ IsFiniteSet(DOMAIN w.disk) /\ ConfigFile \notin DOMAIN w.disk
    /\ w.disk \in [DOMAIN w.disk -> FileType]
    /\ \A k \in DOMAIN w.disk :
         /\ w.disk[k].format # "none" =>
              w.disk[k].ext \in RecognizedExtensions \ {"apng"}
         /\ w.disk[k].format = "none" =>
              w.disk[k].ext \notin RecognizedExtensions \ {"json", "svg", "apng"}
    /\ w.custom \in Seq(PatternType) /\ w.animoriaignore \in Seq(PatternType)
    /\ w.config \notin {None, Broken} => IsConfig(w.config)
    /\ w.args \in ArgsType
    /\ w.bound \in [scans : Nat, edits : Nat, kills : Nat, faults : Nat]

(* A stem is the sequence of its characters: its parts are as long as they *)
(* are where it is cut.                                                    *)
Spelled(name) ==
  /\ Len(name) \in Nat /\ SubSeq(name, 1, Len(name)) = name
  /\ \A i \in 0 .. Len(name) :
       /\ Len(SubSeq(name, 1, i)) = i
       /\ Len(SubSeq(name, i + 1, Len(name))) = Len(name) - i

ASSUME StemsAssumption ==
  \A w \in Workspaces : \A k \in DOMAIN w.disk : Spelled(w.disk[k].stem)

(* Nothing is no number, name, gate, file or confidence; a line the user   *)
(* writes names no file.                                                   *)
ASSUME NothingAssumption ==
  /\ None \notin Int \cup GateType \cup FileType \cup STRING
  /\ None \notin {"low", "medium", "high"}

ASSUME EditedLineAssumption ==
  EditedLine \in LineType /\ EditedLine.words = <<>>

VARIABLES
  ws,        \* what no step changes: patterns, arguments, bounds, and the files
             \* as they were at first
  disk,      \* path -> file, or None
  config,    \* .animoriarc.json
  scan,      \* the analysis under way
  index,     \* the daemon's kept analysis, or None
  history,   \* snapshots, audit log and its rotated half
  recorded,  \* every audit event that reached the log, by scan number
  plan,      \* the rewrites of the last resolution plan
  rewrite,   \* a rewrite between its read and its write, or None
  exit,      \* check's exit code, or None
  edits, scans, kills,
  unsaved, unlogged,   \* scans whose snapshot, whose event was not written
  faults     \* reads and writes of .animoria that failed

failures == <<unsaved, unlogged, faults>>
vars == <<ws, disk, config, scan, index, history, recorded, plan, rewrite, exit,
          edits, scans, kills, failures>>

R == INSTANCE ReferenceRewrite

-----------------------------------------------------------------------------
NoScan == [phase |-> "idle", by |-> None, policy |-> DefaultPolicy, ci |-> None,
           patterns |-> <<>>, found |-> {}, todo |-> {}, sources |-> {}, assets |-> {},
           incomplete |-> 0, groups |-> {}, refs |-> {}, diags |-> {},
           report |-> NoAssets, state |-> "Initializing"]

NoPlan == [proposals |-> {}, keeper |-> None, doomed |-> {}]

Present == {k \in DOMAIN disk : disk[k] # None}

(* Custom patterns, then the configured ones that are not there yet, then  *)
(* documentation asked for.                                                *)
Combined(patterns, more) ==
  LET with[i \in 0 .. Len(more)] ==
        IF i = 0 THEN patterns
        ELSE IF more[i] \in Range(with[i - 1]) THEN with[i - 1]
        ELSE Append(with[i - 1], more[i])
  IN  with[Len(more)]

CombinedIgnores(policy) ==
  Combined(ws.custom, policy.files.ignore)
    \o IF policy.files.docs
       THEN <<Include(FALSE, <<"docs">>), Include(FALSE, <<"doc">>)>> ELSE <<>>

(* The same for the scanner and for the detector.                          *)
ScanRulesConfigLast(combined) ==   \* a bug: the configuration has the last word
  Rules(UnityGenerated(ws.unity) \o ws.animoriaignore \o combined)
ScanRules(combined) == Rules(UnityGenerated(ws.unity) \o combined \o ws.animoriaignore)

Candidates(rules) ==
  {[id |-> k, ext |-> disk[k].ext] : k \in {j \in Present : IsCandidate(rules, disk[j])}}
SourceFiles(rules, cfg) == {k \in Present : IsSourceFile(rules, cfg, disk[k])}

AssetOf(k, f) ==
  [id |-> k, dir |-> f.dir, stem |-> f.stem, ext |-> f.ext, guid |-> f.guid,
   format |-> f.format, valid |-> f.valid, kb |-> f.kb, px |-> f.px,
   rank |-> f.rank, length |-> f.length, hash |-> None]

-----------------------------------------------------------------------------
Init ==
  /\ \E w \in Workspaces :
       /\ ws = [unity |-> w.unity, custom |-> w.custom,
                animoriaignore |-> w.animoriaignore, args |-> w.args,
                bound |-> w.bound, files |-> w.disk]
       /\ disk = w.disk
       /\ config = w.config
  /\ scan = NoScan /\ index = None
  /\ history = [snaps |-> <<>>, log |-> <<>>, old |-> <<>>, torn |-> FALSE] /\ recorded = <<>>
  /\ plan = NoPlan /\ rewrite = None /\ exit = None
  /\ edits = 0 /\ scans = 0 /\ kills = 0
  /\ unsaved = {} /\ unlogged = {} /\ faults = 0

(* scan_workspace up to the crawl.  check reads the configuration first,   *)
(* on its own, and gives up when it is broken.                             *)
Start(by) ==
  LET policy   == Load(config)
      combined == CombinedIgnores(policy)
      rules    == ScanRules(combined)
  IN  /\ scan.phase = (IF by = "check" THEN "gated" ELSE "idle")
      /\ IF Compiles(UnityGenerated(ws.unity) \o combined \o ws.animoriaignore)
         THEN /\ scan' = [NoScan EXCEPT
                            !.phase = "ingest", !.by = by, !.policy = policy,
                            !.ci = scan.ci, !.patterns = rules,
                            !.found = Candidates(rules), !.todo = Candidates(rules),
                            !.state = "Analyzing"]
              /\ UNCHANGED exit
         ELSE /\ scan' = NoScan
              /\ exit' = IF by = "check" THEN 1 ELSE exit

StartScan ==
  /\ scans < ws.bound.scans /\ scans' = scans + 1
  /\ rewrite = None /\ Start("daemon")
  /\ UNCHANGED <<ws, disk, config, index, history, recorded, plan, rewrite, edits, kills,
                 failures>>

StartCheck ==
  /\ scans < ws.bound.scans /\ scan.phase = "idle"
  /\ scans' = scans + 1
  /\ IF config = Broken
     THEN exit' = 1 /\ UNCHANGED scan
     ELSE /\ scan' = [NoScan EXCEPT !.phase = "gated", !.ci = Load(config).ci]
          /\ exit' = None
  /\ UNCHANGED <<ws, disk, config, index, history, recorded, plan, rewrite, edits, kills,
                 failures>>

RunCheck ==
  /\ Start("check")
  /\ UNCHANGED <<ws, disk, config, index, history, recorded, plan, rewrite, edits,
                 scans, kills, failures>>

(* ingest_file.  A JSON file that is no animation is no asset, and one that*)
(* cannot be opened is taken for such a file, unless it goes after that.   *)
(* An empty .svg is no asset either, and .apng has no detector.            *)
Remaining(c) == [scan EXCEPT !.todo = @ \ {c}]

IngestAsset(c) ==
  LET f == disk[c.id] IN
  /\ f # None /\ f.format # "none"
  /\ scan' = [Remaining(c) EXCEPT !.assets = @ \cup {AssetOf(c.id, f)}]

SkipFile(c) ==
  /\ IF disk[c.id] = None THEN c.ext \in {"json", "apng"} ELSE disk[c.id].format = "none"
  /\ scan' = Remaining(c)

MissFileQuietly(c) ==   \* a bug: not counted
  disk[c.id] = None /\ scan' = Remaining(c)

MissFile(c) ==
  /\ disk[c.id] = None /\ c.ext # "apng"
  /\ scan' = [Remaining(c) EXCEPT !.incomplete = @ + 1]

Ingest ==
  /\ scan.phase = "ingest"
  /\ \E c \in scan.todo : IngestAsset(c) \/ SkipFile(c) \/ MissFile(c)
  /\ UNCHANGED <<ws, disk, config, index, history, recorded, plan, rewrite, exit,
                 edits, scans, kills, failures>>

(* Hashes, groups, and the source files there are: never an asset.         *)
HashAndGroup ==
  LET Hashed(a) == [a EXCEPT !.hash = IF disk[a.id] = None THEN None
                                      ELSE disk[a.id].content]
      assets    == {Hashed(a) : a \in scan.assets}
      ids       == {a.id : a \in assets}
  IN  /\ scan.phase = "ingest" /\ scan.todo = {}
      /\ scan' = [scan EXCEPT
                    !.phase = "trace", !.assets = assets, !.groups = GroupsOf(assets),
                    !.sources = IF assets = {} THEN {}
                                ELSE SourceFiles(scan.patterns, scan.policy.tracing) \ ids]
      /\ UNCHANGED <<ws, disk, config, index, history, recorded, plan, rewrite, exit,
                     edits, scans, kills, failures>>

(* A source that is gone or no text has no references, and is not counted. *)
TraceFile ==
  /\ scan.phase = "trace"
  /\ \E k \in scan.sources :
       scan' = [scan EXCEPT
                 !.sources = @ \ {k},
                 !.refs = @ \cup IF disk[k] # None /\ disk[k].text
                                 THEN FileRefs(scan.assets, scan.policy.tracing, disk[k], k)
                                 ELSE {}]
  /\ UNCHANGED <<ws, disk, config, index, history, recorded, plan, rewrite, exit,
                 edits, scans, kills, failures>>

Govern ==
  LET refs  == scan.refs \cup CollectionRefs(scan.assets, scan.policy.tracing, scan.refs)
      diags == Diagnostics(scan.policy, disk, scan.assets, scan.groups, refs)
  IN  /\ scan.phase = "trace" /\ scan.sources = {}
      /\ scan' = [scan EXCEPT
                    !.phase = "done", !.refs = refs, !.diags = diags,
                    !.report = HealthScore(scan.assets, diags),
                    !.state = IF scan.incomplete > 0 THEN "Incomplete" ELSE "Ready"]
      /\ UNCHANGED <<ws, disk, config, index, history, recorded, plan, rewrite, exit,
                     edits, scans, kills, failures>>

-----------------------------------------------------------------------------
(* check: the gates it read at first, the analysis it made since.          *)
AnswerCheck ==
  /\ scan.phase = "done" /\ scan.by = "check"
  /\ exit' = ExitCode(ws.args, scan.ci, scan.diags, scan.report.score)
  /\ scan' = NoScan
  /\ UNCHANGED <<ws, disk, config, index, history, recorded, plan, rewrite, edits,
                 scans, kills, failures>>

(* The scan handler: a snapshot and an audit event, then the index; for an *)
(* analysis with no asset, or a request that asks for no audit, the index  *)
(* alone.  The log is a sequence of lines, each the events written on it:  *)
(* the text of an event and the end of its line are two writes.  Reads and *)
(* writes of both files may fail, and the handler goes on as if they had   *)
(* not.                                                                    *)
Fails == faults < ws.bound.faults /\ faults' = faults + 1

OldestKept(snaps, n) == SubSeq(snaps, 1, Min({n, Len(snaps)}))   \* a bug: the wrong end
Newest(snaps, n) == SubSeq(snaps, Max({1, Len(snaps) - n + 1}), Len(snaps))

\* A history that cannot be read is taken for an empty one; one that cannot be
\* written stays as it is.
SnapshotFails ==
  /\ Fails /\ UNCHANGED unlogged
  /\ \/ history' = [history EXCEPT !.snaps = <<scans>>] /\ UNCHANGED unsaved
     \/ unsaved' = unsaved \cup {scans} /\ UNCHANGED history

RecordSnapshot ==
  /\ scan.phase = "done" /\ scan.by = "daemon" /\ scan.assets # {}
  /\ \/ /\ history' = [history EXCEPT !.snaps = Newest(Append(@, scans), MaxSnapshots)]
        /\ UNCHANGED failures
     \/ SnapshotFails
  /\ scan' = [scan EXCEPT !.phase = "snapshotted"]
  /\ UNCHANGED <<ws, disk, config, index, recorded, plan, rewrite, exit, edits, scans, kills>>

RotatedAway(h) ==   \* a bug: truncated where it should be renamed
  IF Len(h.log) > MaxLog THEN [h EXCEPT !.log = <<>>, !.torn = FALSE] ELSE h

Rotated(h) ==
  IF Len(h.log) > MaxLog THEN [h EXCEPT !.old = h.log, !.log = <<>>, !.torn = FALSE] ELSE h

WithText(h, e) ==
  IF h.torn THEN [h EXCEPT !.log[Len(h.log)] = Append(@, e)]
  ELSE [h EXCEPT !.log = Append(@, <<e>>), !.torn = TRUE]

EventWritten(h) ==
  /\ history' = WithText(h, scans) /\ recorded' = Append(recorded, scans)
  /\ scan' = [scan EXCEPT !.phase = "audited"]
  /\ UNCHANGED unlogged

\* The file could not be opened, or the text was cut: its line is not ended.
EventLost(h) ==
  /\ \/ history' = h /\ UNCHANGED recorded
     \/ history' = WithText(h, scans) /\ recorded' = Append(recorded, scans)
  /\ scan' = [scan EXCEPT !.phase = "failed"]
  /\ unlogged' = unlogged \cup {scans}

\* A log that could not be renamed goes on.
EventFails ==
  Fails /\ (EventWritten(history) \/ \E h \in {history, Rotated(history)} : EventLost(h))

WriteAuditEvent ==
  /\ scan.phase = "snapshotted"
  /\ \/ EventWritten(Rotated(history)) /\ UNCHANGED faults
     \/ EventFails
  /\ UNCHANGED <<ws, disk, config, index, plan, rewrite, exit, edits, scans, kills, unsaved>>

\* The line of the event is ended first, unless that fails.
EndsLine ==
  \/ history' = [history EXCEPT !.torn = FALSE] /\ UNCHANGED failures
  \/ Fails /\ UNCHANGED <<history, unsaved, unlogged>>

KeepIndex ==
  /\ \/ scan.phase = "audited" /\ EndsLine
     \/ /\ scan.phase \in {"done", "failed"} /\ scan.by = "daemon"
        /\ UNCHANGED <<history, failures>>
  /\ index' = [assets |-> scan.assets, refs |-> scan.refs, groups |-> scan.groups,
               diags |-> scan.diags, report |-> scan.report, state |-> scan.state]
  /\ scan' = NoScan
  /\ UNCHANGED <<ws, disk, config, recorded, plan, rewrite, exit, edits, scans, kills>>

-----------------------------------------------------------------------------
(* buildResolutionPlan's rewrites, for the keeper the user chose.          *)
DaemonFree == scan.phase = "idle" \/ scan.by # "daemon"

Folders == [k \in DOMAIN disk \cup {ConfigFile} |->
             IF k = ConfigFile THEN <<>> ELSE ws.files[k].dir]

ProposeRewrites ==
  /\ DaemonFree /\ rewrite = None /\ index # None
  /\ \E g \in index.groups, keeper \in index.assets :
       plan' = [keeper |-> keeper, doomed |-> g \ {keeper},
                proposals |-> R!Proposals(index.refs, Folders, g \ {keeper}, keeper)]
  /\ UNCHANGED <<ws, disk, config, scan, index, history, recorded, rewrite, exit,
                 edits, scans, kills, failures>>

(* applyReferenceRewrite: the file is read and compared, then written.     *)
ReadForRewrite ==
  /\ DaemonFree /\ rewrite = None /\ index # None
  /\ \E p \in plan.proposals :
       /\ R!Traced(index.refs, p)
       /\ p.file \in Present /\ R!StillThere(disk[p.file].lines, p)
       /\ rewrite' = [proposal |-> p, read |-> disk[p.file]]
  /\ UNCHANGED <<ws, disk, config, scan, index, history, recorded, plan, exit,
                 edits, scans, kills, failures>>

WriteRewrite ==
  LET p == rewrite.proposal IN
  /\ rewrite # None
  /\ disk' = [disk EXCEPT ![p.file] = [rewrite.read EXCEPT !.lines[p.line] = p.proposed]]
  /\ rewrite' = None
  /\ UNCHANGED <<ws, config, scan, index, history, recorded, plan, exit, edits, scans,
                 kills, failures>>

-----------------------------------------------------------------------------
(* Everyone else.                                                          *)
Kill ==
  /\ kills < ws.bound.kills /\ kills' = kills + 1
  /\ scan' = IF scan.by = "daemon" THEN NoScan ELSE scan
  /\ index' = None /\ plan' = NoPlan /\ rewrite' = None
  /\ UNCHANGED <<ws, disk, config, history, recorded, exit, edits, scans, failures>>

UserEdit ==
  /\ edits < ws.bound.edits /\ edits' = edits + 1
  /\ \/ \E k \in Present : disk' = [disk EXCEPT ![k] = None] /\ UNCHANGED config
     \/ /\ \E k \in Present : \E i \in DOMAIN disk[k].lines :
             disk' = [disk EXCEPT ![k].lines[i] = EditedLine]
        /\ UNCHANGED config
     \/ config # Broken /\ config' = Broken /\ UNCHANGED disk
  /\ UNCHANGED <<ws, scan, index, history, recorded, plan, rewrite, exit, scans, kills,
                 failures>>

Next ==
  \/ StartScan \/ StartCheck \/ RunCheck
  \/ Ingest \/ HashAndGroup \/ TraceFile \/ Govern
  \/ AnswerCheck \/ RecordSnapshot \/ WriteAuditEvent \/ KeepIndex
  \/ ProposeRewrites \/ ReadForRewrite \/ WriteRewrite
  \/ Kill \/ UserEdit

Spec == Init /\ [][Next]_vars

-----------------------------------------------------------------------------
(* The types of the parts that move.                                       *)
AnalysisTypeOK ==
  /\ scan.phase \in {"idle", "gated", "ingest", "trace", "done", "snapshotted", "audited",
                    "failed"}
  /\ scan.by \in {None, "daemon", "check"}
  /\ scan.todo \subseteq scan.found
  /\ {a.id : a \in scan.assets} \subseteq DOMAIN disk
  /\ {r.asset : r \in scan.refs} \subseteq {a.id : a \in scan.assets}
  /\ scan.report.score \in 0 .. 100
  /\ exit \in {None, 0, 1, 2}
  /\ \A n \in Range(recorded) : n \in 1 .. scans

Done      == scan.phase = "done"

(* What is on disk is what was analysed: nobody edited it, and the daemon  *)
(* rewrites no line while it scans, only while a second check runs.        *)
Untouched == Done /\ edits = 0 /\ (scan.by = "daemon" \/ scans = 1)
IsFlagged(a, rule) == \E d \in scan.diags : d.rule = rule /\ d.asset = a.id

(* A line no comment reaches: it opens none, and every comment opened above*)
(* has been closed since.                                                  *)
Ends(line, opener) ==
  \/ opener \in DOMAIN BlockCloser /\ BlockCloser[opener] \in line.closes
  \/ opener \in DOMAIN LuaCloser /\ LuaCloser[opener] \in line.closes

IsCode(lines, i) ==
  /\ lines[i].opens = ""
  /\ \A j \in 1 .. i - 1 :
       lines[j].opens \in DOMAIN BlockCloser \cup DOMAIN LuaCloser =>
         \E k \in j .. i - 1 : Ends(lines[k], lines[j].opens)

(* The code of the source files this analysis reads.                       *)
CodeLines ==
  {ki \in Present \X (1 .. 4) :
     LET f == disk[ki[1]] IN
     /\ IsSourceFile(scan.patterns, scan.policy.tracing, f) /\ f.text
     /\ ki[1] \notin {a.id : a \in scan.assets}
     /\ ki[2] \in DOMAIN f.lines /\ IsCode(f.lines, ki[2])}

(* The file a written path leads to from a folder.                         *)
LeadsTo(w, dir, a) ==
  /\ a.stem = w.stem /\ a.ext = w.ext
  /\ IF w.lead = "./" THEN RootDir \o a.dir = Resolved(w, dir) ELSE a.dir = w.dirs

(* A used asset is not reported unused: an asset whose path, with its      *)
(* extension and in quotes, is on some line of code of a source that does  *)
(* not bear its name is never flagged no-unreferenced-assets, whatever else*)
(* is on that line, above it or in the workspace (detect_references).      *)
UsedIsNotFlagged ==
  Untouched => \A a \in scan.assets, kl \in CodeLines :
    LET f == disk[kl[1]] IN
    (/\ ~IsSelf(a, f)
     /\ \E w \in Range(f.lines[kl[2]].words) :
          w.quoted /\ w.lead \in {"./", "/"} /\ LeadsTo(w, f.dir, a))
      => ~IsFlagged(a, "unref")

(* A generated name is a use: an asset a template of a line of code can    *)
(* produce (folder, prefix, suffix, extension) is not flagged either       *)
(* (extract_dynamic_patterns).                                             *)
GeneratedIsNotFlagged ==
  Untouched => \A a \in scan.assets, kl \in CodeLines :
    LET f == disk[kl[1]] IN
    (/\ ~IsSelf(a, f)
     /\ \E t \in Range(f.lines[kl[2]].templates), i, n \in 0 .. Len(a.stem) :
          /\ t.marker = "${" /\ t.closed /\ t.ext = a.ext /\ t.dirs = a.dir /\ i <= n
          /\ t.pre = SubSeq(a.stem, 1, i) /\ t.suf = SubSeq(a.stem, n + 1, Len(a.stem)))
      => ~IsFlagged(a, "unref")

(* Homonyms are kept apart: a line whose only path is "./name" or          *)
(* "../name" is a reference to no asset outside the folder it leads to     *)
(* (asset_matches_path_token).                                             *)
RelativeMeansThatFolder ==
  Done => \A r \in scan.refs, a \in scan.assets :
    (/\ r.asset = a.id /\ r.file # ConfigFile
     /\ Len(r.content.words) = 1
     /\ r.content.templates = <<>> /\ r.content.folders = <<>> /\ r.content.guids = {})
      => LET w == r.content.words[1] IN
         w.lead = "./" /\ w.dirs = <<>> => RootDir \o a.dir = Resolved(w, ws.files[r.file].dir)

(* .animoriaignore has the last word, against defaults, configuration and  *)
(* documentation settings: of its patterns that cover a file's folder, the *)
(* last excludes the file from the analysis, as an asset and as a source,  *)
(* or includes it.  A folder is looked at twice, from the root of the      *)
(* workspace and of the file system, and either look may exclude           *)
(* (IgnoreRules::is_ignored_relative).                                     *)
LastWord(path) ==
  LET hits == {i \in DOMAIN ws.animoriaignore : Covers(ws.animoriaignore[i], path)}
  IN  IF hits = {} THEN "none"
      ELSE IF ws.animoriaignore[Max(hits)].negate THEN "include" ELSE "exclude"

IgnoreFileDecides ==
  Untouched => \A k \in Present :
    LET words == {LastWord(disk[k].dir), LastWord(RootDir \o disk[k].dir)} IN
    /\ words = {"include"} =>
         disk[k].hidden \/ disk[k].format = "none" \/ k \in {a.id : a \in scan.assets}
    /\ "exclude" \in words =>
         k \notin {a.id : a \in scan.assets} /\ \A r \in scan.refs : r.file # k

(* An analysis that calls itself Ready missed nothing: every candidate of  *)
(* its crawl is an asset of it, is no asset, or is a JSON file that is gone*)
(* by now, even when files went while it ran (ingest_file's incomplete     *)
(* count) and a rewrite brought them back.                                 *)
ReadyMissesNothing ==
  Done /\ scan.state = "Ready" => \A c \in scan.found :
    \/ c.id \in {a.id : a \in scan.assets}
    \/ ws.files[c.id].format = "none"
    \/ disk[c.id] = None /\ c.ext = "json"

(* One copy stays unflagged: of the assets of one content at least one is  *)
(* spared whatever the policy of its folder, exactly one under the default *)
(* policy.  It is valid if any is, and of the copies as good as it none has*)
(* a shorter path (the order find_duplicate_groups sorts by; its comment   *)
(* names the path alone), NoDuplicateContentRule.                          *)
OneCopyIsSpared ==
  Done => \A a \in scan.assets :
    LET copies == {b \in scan.assets : b.hash = a.hash} IN
    a.hash # None =>
      \E kept \in copies :
        /\ ~IsFlagged(kept, "dup")
        /\ kept.valid \/ \A b \in copies : ~b.valid
        /\ \A b \in copies : b.valid = kept.valid => kept.length <= b.length
        /\ scan.policy = DefaultPolicy => \A b \in copies \ {kept} : IsFlagged(b, "dup")

(* An override is local: outside its folders an analysis reports what it   *)
(* would without any override (overrides clone the base policy).           *)
OverridesAreLocal ==
  Untouched /\ config \notin {None, Broken} =>
    LET alone == ParseConfig([config EXCEPT !.overrides = <<>>])
        diags == Diagnostics(alone, disk, scan.assets, scan.groups, scan.refs)
        Elsewhere(d) == \A o \in Range(config.overrides), a \in scan.assets :
                          a.id = d.asset => ~MatchesAny(a, o.files)
    IN  {d \in scan.diags : Elsewhere(d)} = {d \in diags : Elsewhere(d)}

(* Governance switched off is silent, whatever preset, rules and overrides *)
(* the configuration has beside the switch (parse_config_str).             *)
OffIsSilent ==
  Untouched /\ config \notin {None, Broken} => (~config.enabled => scan.diags = {})

(* The score two roots share lies between theirs: an earlier analysis and  *)
(* this one, as two roots (aggregate_health_scores).                       *)
AggregateIsBetween ==
  Done /\ index # None =>
    LET one    == index.report
        two    == scan.report
        shared == Aggregate(<<[report |-> one, count |-> Cardinality(index.assets)],
                              [report |-> two, count |-> Cardinality(scan.assets)]>>)
        Between(x, y, z) == Min({x, z}) <= y /\ y <= Max({x, z})
    IN  index.assets # {} /\ scan.assets # {} =>
          /\ Between(one.score, shared.score, two.score)
          /\ \A c \in 1 .. 3 :
               /\ Between(one.cats[c].score, shared.cats[c].score, two.cats[c].score)
               /\ shared.cats[c].violations = one.cats[c].violations + two.cats[c].violations

(* A check that passes has found no error and, when strict, no warning,    *)
(* with a configuration that could be read; one that fails on its warnings *)
(* alone says so (execute_check).                                          *)
GateIsSound ==
  [][LET warnings == WithSeverity(scan.diags, "warning")
         errors   == WithSeverity(scan.diags, "error")
     IN  /\ exit' = 0 => errors = {} /\ (ws.args.strict => warnings = {})
         /\ exit' = 2 => errors = {} /\ warnings # {}
         /\ exit' \in {0, 2} => scan.ci # None]_exit

(* A user's line survives: a rewrite writes back every line the user had   *)
(* written when it read the file (apply_reference_rewrite's comparison).   *)
EditsSurvive ==
  [][(rewrite # None /\ rewrite' = None /\ kills' = kills) =>
       \A i \in DOMAIN rewrite.read.lines :
         rewrite.read.lines[i] = EditedLine =>
           disk'[rewrite.proposal.file].lines[i] = EditedLine]_rewrite

(* A rewritten line names the kept copy: where the copy's name was the only*)
(* path of the line, in quotes and under no scheme, the tracer finds the   *)
(* keeper on the proposed line (compute_relative_path against              *)
(* asset_matches_path_token).                                              *)
RewrittenNamesKeeper ==
  \A p \in plan.proposals :
    (/\ p.file # ConfigFile /\ p.file \in Present /\ ~IsSelf(plan.keeper, disk[p.file])
     /\ Len(p.original.words) = 1 /\ p.original.folders = <<>>
     /\ \A t \in Range(p.original.templates) : t.dirs = <<>>
     /\ LET w == p.original.words[1] IN w.quoted /\ w.lead \in {"", "./", "/"})
      => ByFilename(plan.keeper, disk[p.file], p.proposed, 1)

(* The audit log forgets only its oldest events, of those that reached it: *)
(* they are on it in their order, with none left out between two others,   *)
(* and all but two per killed daemon or failed write on lines of their own.*)
(* The two are the one whose line was not ended and the next, and such a   *)
(* line cannot be read (append_line, read_audit_events).                   *)
LogLines == history.old \o history.log
OwnLine == {i \in DOMAIN LogLines : Len(LogLines[i]) = 1}

AuditLogIsSuffix ==
  LET written == FlattenSeq(LogLines) IN
  /\ IsSuffix(written, recorded)
  /\ Len(written) >= Min({Len(recorded), MaxLog + 1})
  /\ Len(written) - Cardinality(OwnLine) <= 2 * (kills + faults)

(* Snapshots and audit log tell one story, but for what was not written:   *)
(* an audited analysis as recent as the oldest snapshot has its own unless *)
(* that could not be saved, and a snapshot without an audit event is one   *)
(* whose event could not be written, whose daemon was killed, or that the  *)
(* next write is about (record_analysis_snapshot, record_audit_event).     *)
AuditedHasSnapshot ==
  LET kept      == Range(history.snaps)
      audited   == Range(recorded)
      unaudited == (kept \ audited) \ unlogged
  IN  /\ \A n \in audited \ unsaved : \A k \in kept : n > k => n \in kept
      /\ audited \subseteq unsaved \/ kept # {}
      /\ Cardinality(unaudited \ IF scan.phase = "snapshotted" THEN {scans} ELSE {}) <= kills
=============================================================================
